-------------------------- MODULE WriterLeaseProofs --------------------------
(***************************************************************************)
(* The writer lease, for every number of writers and machines, every skew, *)
(* every length of the delays that TimesAssumption allows, and every set   *)
(* of faults: nobody runs on without the lock for longer than a heartbeat, *)
(* a released lease stays released, and, while two requests fit into the   *)
(* settle delay and nothing pauses, two writers never work together.       *)
(***************************************************************************)
EXTENDS WriterLease, FiniteSetTheorems, TLAPS

\* What the assumptions say, in the form the steps below use.
LEMMA ConstantFacts ==
  /\ Tick \in Nat /\ 1 <= Tick /\ Period \in Nat /\ Tick <= Period
  /\ Lease \in Nat /\ 3 * Period <= Lease
  /\ Settle \in Nat /\ Poll \in Nat /\ AcquireWait \in Nat /\ JoinWait \in Nat /\ OpenTime \in Nat
  /\ 1 <= Settle /\ 1 <= JoinWait /\ Settle <= JoinWait
  /\ MaxSkew \in Nat /\ MaxAge \in Nat
BY TimesAssumption, JoinAssumption, SkewAssumption DEF MaxAge

LEMMA SettingFacts ==
  ASSUME setting \in Settings
  PROVE  /\ OpTime \in Nat /\ 1 <= OpTime
         /\ setting.paused \subseteq Writer /\ setting.faults \subseteq {"crash", "force"}
         /\ setting.failing \subseteq Writer
         /\ \A v \in Writer : setting.host[v] \in Host /\ Skew[setting.host[v]] \in 0..MaxSkew
<1>1. setting \in [faults : SUBSET {"crash", "force"}, failing : SUBSET Writer,
                   paused : SUBSET Writer, opTime : Nat \ {0}, host : [Writer -> Host]]
  BY SettingsAssumption
<1>2. OpTime \in Nat /\ 1 <= OpTime
  BY <1>1 DEF OpTime
<1> QED BY <1>1, <1>2, SkewAssumption

LEMMA BoundFacts ==
  ASSUME setting \in Settings
  PROVE  /\ MaxLost \in Nat /\ MaxSince \in Nat /\ MaxAge <= MaxSince
         /\ OpTime <= MaxSince /\ Settle <= MaxSince /\ Poll <= MaxSince /\ OpenTime <= MaxSince
         /\ JoinWait <= MaxSince
         /\ \A w \in Writer :
              /\ BeatBound(w) \in Nat /\ BeatBound(w) + 1 <= MaxLost
              /\ BeatBound(w) = Tick + 2 * OpTime + (IF Failing(w) THEN Lease ELSE Period)
BY SettingFacts, ConstantFacts DEF BeatBound, MaxLost, MaxSince

-----------------------------------------------------------------------------
(***************************************************************************)
(* Types.                                                                  *)
(***************************************************************************)
\* Where open_table, close and drop are, by what they may still do to the lock.
Outside == {"new", "look", "poll", "refused"}

Acquiring == {"claim", "settle", "readback"}

Opening == {"open", "undo", "undelete"}

Closing == {"join", "release", "delete"}

Closed == {"released", "leaked"}

Steps == Outside \cup Acquiring \cup Opening \cup Closing \cup Closed \cup
         {"run", "dropped", "fenced", "dead"}

\* The last write of a dead process.
Late == {"lateput", "latedelete"}

BeatSteps ==
  {"none", "wait", "check", "renew", "dropcheck", "dropdelete", "done"} \cup Late

Answers == {"none", "mine", "other"}

WriterRecord ==
  [step : Steps, answer : Answers, since : 0..MaxSince, waited : 0..AcquireWait, attempt : 0..3]

BeatRecord ==
  [step : BeatSteps, answer : Answers, since : 0..MaxSince, ticked : 0..Tick,
   due : 0..(Period + Tick), unverified : 0..Lease]

LockTyped == lock \in LockObject

TypeInv ==
  /\ setting \in Settings
  /\ LockTyped
  /\ seen \in [Writer -> LockObject]
  /\ writer \in [Writer -> WriterRecord]
  /\ beat \in [Writer -> BeatRecord]
  /\ lost \in [Writer -> 0..MaxLost]
  /\ forced \in BOOLEAN

LEMMA StepTypes ==
  /\ "look" \in Steps /\ "poll" \in Steps /\ "claim" \in Steps /\ "settle" \in Steps
  /\ "readback" \in Steps /\ "open" \in Steps /\ "undo" \in Steps /\ "undelete" \in Steps
  /\ "run" \in Steps /\ "join" \in Steps /\ "release" \in Steps /\ "delete" \in Steps
  /\ "new" \in Steps /\ "refused" \in Steps /\ "fenced" \in Steps /\ "dropped" \in Steps
  /\ "dead" \in Steps /\ "released" \in Steps /\ "leaked" \in Steps
BY DEF Steps, Outside, Acquiring, Opening, Closing, Closed

\* A write of the lock is a lock, however old the request.
LEMMA WrittenType ==
  ASSUME NEW w \in Writer, NEW age \in Nat
  PROVE  /\ Written(w, age) \in LockObject /\ Written(w, age) # <<>>
         /\ Written(w, age)[1].holder = w /\ Written(w, age)[1].age <= age
<1> DEFINE a == IF age < MaxAge THEN age ELSE MaxAge
           l == [holder |-> w, age |-> a]
<1>1. a \in 0..MaxAge /\ a <= age
  BY ConstantFacts
<1>2. l \in Lock /\ l.holder = w /\ l.age <= age
  BY <1>1 DEF Lock
<1>3. Written(w, age) = <<l>>
  BY DEF Written
<1> HIDE DEF l
<1> QED BY <1>2, <1>3 DEF LockObject

\* Records that differ in a few fields, one after the other.
LEMMA WriterMoves ==
  ASSUME setting \in Settings, NEW x \in WriterRecord, NEW step \in Steps
  PROVE  LET y == [x EXCEPT !.step = step, !.answer = "none", !.since = 0]
         IN  /\ y \in WriterRecord /\ y.step = step /\ y.answer = "none" /\ y.since = 0
             /\ y.attempt = x.attempt
<1> DEFINE y == [x EXCEPT !.step = step]
           z == [y EXCEPT !.answer = "none"]
           q == [z EXCEPT !.since = 0]
<1>1. MaxSince \in Nat /\ "none" \in Answers
  BY BoundFacts DEF Answers
<1>2. y \in WriterRecord /\ y.step = step /\ y.attempt = x.attempt
  BY DEF WriterRecord
<1>3. q = [x EXCEPT !.step = step, !.answer = "none", !.since = 0]
  OBVIOUS
<1> HIDE DEF y
<1>4. z \in WriterRecord /\ z.step = step /\ z.answer = "none" /\ z.attempt = x.attempt
  BY <1>1, <1>2 DEF WriterRecord
<1> HIDE DEF z
<1>5. /\ q \in WriterRecord /\ q.step = step /\ q.answer = "none" /\ q.since = 0
      /\ q.attempt = x.attempt
  BY <1>1, <1>4 DEF WriterRecord
<1> HIDE DEF q
<1> QED BY <1>3, <1>5

LEMMA BeatMoves ==
  ASSUME setting \in Settings, NEW x \in BeatRecord, NEW step \in BeatSteps
  PROVE  LET y == [x EXCEPT !.step = step, !.answer = "none", !.since = 0]
         IN  /\ y \in BeatRecord /\ y.step = step /\ y.answer = "none" /\ y.since = 0
             /\ y.due = x.due /\ y.ticked = x.ticked /\ y.unverified = x.unverified
<1> DEFINE y == [x EXCEPT !.step = step]
           z == [y EXCEPT !.answer = "none"]
           q == [z EXCEPT !.since = 0]
<1>1. MaxSince \in Nat /\ "none" \in Answers
  BY BoundFacts DEF Answers
<1>2. /\ y \in BeatRecord /\ y.step = step /\ y.due = x.due /\ y.ticked = x.ticked
      /\ y.unverified = x.unverified
  BY DEF BeatRecord
<1>3. q = [x EXCEPT !.step = step, !.answer = "none", !.since = 0]
  OBVIOUS
<1> HIDE DEF y
<1>4. /\ z \in BeatRecord /\ z.step = step /\ z.answer = "none" /\ z.due = x.due
      /\ z.ticked = x.ticked /\ z.unverified = x.unverified
  BY <1>1, <1>2 DEF BeatRecord
<1> HIDE DEF z
<1>5. /\ q \in BeatRecord /\ q.step = step /\ q.answer = "none" /\ q.since = 0 /\ q.due = x.due
      /\ q.ticked = x.ticked /\ q.unverified = x.unverified
  BY <1>1, <1>4 DEF BeatRecord
<1> HIDE DEF q
<1> QED BY <1>3, <1>5

LEMMA NewRecords ==
  ASSUME setting \in Settings
  PROVE  /\ \A step \in Steps : [NewWriter EXCEPT !.step = step] \in WriterRecord
         /\ \A step \in BeatSteps : [NoBeat EXCEPT !.step = step] \in BeatRecord
         /\ [NoBeat EXCEPT !.step = "wait", !.due = Period] \in BeatRecord
         /\ NewWriter \in WriterRecord /\ NoBeat \in BeatRecord
<1>1. MaxSince \in Nat /\ "new" \in Steps /\ "none" \in Answers
  BY BoundFacts, StepTypes DEF Answers
<1>2. NewWriter \in WriterRecord
  BY <1>1, ConstantFacts DEF NewWriter, WriterRecord
<1>3. NoBeat \in BeatRecord
  BY <1>1, ConstantFacts DEF NoBeat, BeatRecord, BeatSteps
<1>4. \A step \in Steps : [NewWriter EXCEPT !.step = step] \in WriterRecord
  BY <1>2 DEF WriterRecord
<1>5. \A step \in BeatSteps : [NoBeat EXCEPT !.step = step] \in BeatRecord
  BY <1>3 DEF BeatRecord
<1>6. [NoBeat EXCEPT !.step = "wait", !.due = Period] \in BeatRecord
  <2> DEFINE y == [NoBeat EXCEPT !.step = "wait"]
  <2>1. y \in BeatRecord
    BY <1>5 DEF BeatSteps
  <2> HIDE DEF y
  <2>2. [y EXCEPT !.due = Period] \in BeatRecord
    BY <2>1, ConstantFacts DEF BeatRecord
  <2> QED BY <2>2 DEF y
<1> QED BY <1>2, <1>3, <1>4, <1>5, <1>6

LEMMA InitTypeInv == Init => TypeInv
<1> SUFFICES ASSUME Init PROVE TypeInv
  OBVIOUS
<1>1. NewWriter \in WriterRecord /\ NoBeat \in BeatRecord /\ MaxLost \in Nat
  BY NewRecords, BoundFacts DEF Init
<1>2. 0 \in 0..MaxLost
  BY <1>1
<1>3. lost \in [Writer -> 0..MaxLost]
  BY <1>2 DEF Init
<1>4. writer \in [Writer -> WriterRecord] /\ beat \in [Writer -> BeatRecord]
  BY <1>1 DEF Init
<1>5. lock \in LockObject /\ seen \in [Writer -> LockObject]
  BY DEF Init, LockObject
<1> QED BY <1>3, <1>4, <1>5, Zenon DEF Init, TypeInv, LockTyped

-----------------------------------------------------------------------------
(***************************************************************************)
(* What the helpers of the actions do to the record they change.           *)
(***************************************************************************)
\* Nothing but writer w moves.
Frame(w) ==
  /\ \A u \in Writer \ {w} :
       /\ writer'[u] = writer[u] /\ beat'[u] = beat[u] /\ lost'[u] = lost[u]
       /\ seen'[u] = seen[u]
  /\ UNCHANGED <<setting, forced>>

LEMMA GotoFacts ==
  ASSUME TypeInv, NEW w \in Writer, NEW step \in Steps, Goto(w, step)
  PROVE  /\ writer' \in [Writer -> WriterRecord]
         /\ writer'[w].step = step /\ writer'[w].answer = "none" /\ writer'[w].since = 0
         /\ \A u \in Writer \ {w} : writer'[u] = writer[u]
<1> DEFINE r == [writer[w] EXCEPT !.step = step, !.answer = "none", !.since = 0]
<1>1. writer' = [writer EXCEPT ![w] = r]
  BY DEF Goto
<1>0. MaxSince \in Nat /\ writer[w] \in WriterRecord
  BY BoundFacts DEF TypeInv
<1>2. r \in WriterRecord /\ r.step = step /\ r.answer = "none" /\ r.since = 0
  BY <1>0, WriterMoves DEF TypeInv
<1> HIDE DEF r
<1> QED BY <1>1, <1>2 DEF TypeInv

LEMMA EndFacts ==
  ASSUME TypeInv, NEW w \in Writer, NEW step \in Steps, End(w, step)
  PROVE  /\ writer' \in [Writer -> WriterRecord]
         /\ writer'[w].step = step /\ writer'[w].answer = "none" /\ writer'[w].since = 0
         /\ \A u \in Writer \ {w} : writer'[u] = writer[u]
<1> DEFINE r == [NewWriter EXCEPT !.step = step]
<1>1. writer' = [writer EXCEPT ![w] = r]
  BY DEF End
<1>2. r \in WriterRecord /\ r.step = step /\ r.answer = "none" /\ r.since = 0
  BY NewRecords DEF TypeInv, NewWriter
<1> HIDE DEF r
<1> QED BY <1>1, <1>2 DEF TypeInv

LEMMA BeatGotoFacts ==
  ASSUME TypeInv, NEW w \in Writer, NEW step \in BeatSteps, BeatGoto(w, step)
  PROVE  /\ beat' \in [Writer -> BeatRecord]
         /\ beat'[w].step = step /\ beat'[w].answer = "none" /\ beat'[w].since = 0
         /\ beat'[w].due = beat[w].due /\ beat'[w].ticked = beat[w].ticked
         /\ beat'[w].unverified = beat[w].unverified
         /\ \A u \in Writer \ {w} : beat'[u] = beat[u]
<1> DEFINE r == [beat[w] EXCEPT !.step = step, !.answer = "none", !.since = 0]
<1>1. beat' = [beat EXCEPT ![w] = r]
  BY DEF BeatGoto
<1>0. MaxSince \in Nat /\ beat[w] \in BeatRecord
  BY BoundFacts DEF TypeInv
<1>2. /\ r \in BeatRecord /\ r.step = step /\ r.answer = "none" /\ r.since = 0
      /\ r.due = beat[w].due /\ r.ticked = beat[w].ticked /\ r.unverified = beat[w].unverified
  BY <1>0, BeatMoves DEF TypeInv
<1> HIDE DEF r
<1> QED BY <1>1, <1>2 DEF TypeInv

LEMMA BeatEndsFacts ==
  ASSUME TypeInv, NEW w \in Writer, BeatEnds(w)
  PROVE  /\ beat' \in [Writer -> BeatRecord]
         /\ beat'[w].step = "done" /\ beat'[w].answer = "none" /\ beat'[w].since = 0
         /\ \A u \in Writer \ {w} : beat'[u] = beat[u]
<1> DEFINE r == [NoBeat EXCEPT !.step = "done"]
<1>1. beat' = [beat EXCEPT ![w] = r]
  BY DEF BeatEnds
<1>2. r \in BeatRecord /\ r.step = "done" /\ r.answer = "none" /\ r.since = 0
  BY NewRecords DEF TypeInv, NoBeat, BeatSteps
<1> HIDE DEF r
<1> QED BY <1>1, <1>2 DEF TypeInv

LEMMA ReleaseFailsFacts ==
  ASSUME TypeInv, NEW w \in Writer, ReleaseFails(w)
  PROVE  /\ writer' \in [Writer -> WriterRecord]
         /\ writer'[w].step \in {"release", "leaked"} /\ writer'[w].answer = "none"
         /\ writer'[w].since = 0
         /\ \A u \in Writer \ {w} : writer'[u] = writer[u]
<1>1. CASE writer[w].attempt < 3
  <2> DEFINE q == [writer[w] EXCEPT !.step = "release", !.answer = "none", !.since = 0]
             f == [writer EXCEPT ![w].step = "release", ![w].answer = "none", ![w].since = 0]
             n == writer[w].attempt + 1
  <2>1. writer' = [f EXCEPT ![w].attempt = n]
    BY <1>1 DEF ReleaseFails
  <2>2. f = [writer EXCEPT ![w] = q]
    OBVIOUS
  <2>3. writer[w] \in WriterRecord /\ n \in 0..3
    BY <1>1 DEF TypeInv, WriterRecord
  <2>4. q \in WriterRecord /\ q.step = "release" /\ q.answer = "none" /\ q.since = 0
    <3>1. setting \in Settings /\ "release" \in Steps
      BY StepTypes DEF TypeInv
    <3> QED BY <2>3, <3>1, WriterMoves
  <2> HIDE DEF q, f, n
  <2>5. /\ [q EXCEPT !.attempt = n] \in WriterRecord
        /\ [q EXCEPT !.attempt = n].step = "release" /\ [q EXCEPT !.attempt = n].since = 0
        /\ [q EXCEPT !.attempt = n].answer = "none"
    BY <2>3, <2>4 DEF WriterRecord
  <2>6. writer' = [writer EXCEPT ![w] = [q EXCEPT !.attempt = n]]
    BY <2>1, <2>2 DEF TypeInv
  <2> QED BY <2>5, <2>6 DEF TypeInv
<1>2. CASE ~(writer[w].attempt < 3)
  BY <1>2, EndFacts, StepTypes DEF ReleaseFails
<1> QED BY <1>1, <1>2

-----------------------------------------------------------------------------
(***************************************************************************)
(* The steps of writer w's open_table, close and drop, as relations on its *)
(* fields and the lock.                                                    *)
(***************************************************************************)
\* The heartbeat and the clock of the loss are left alone.
Stays(w) == beat'[w] = beat[w] /\ lost'[w] = lost[w]

\* w goes from step a to step b, and why it may.
Way(w, a, b) ==
  \/ a \in Outside /\ b \in Outside
  \/ a = "look" /\ b = "claim" /\ Answered(w) /\ Claimable(w)
  \/ a = "claim" /\ b = "settle" /\ Answered(w)
  \/ a = "claim" /\ b = "refused" /\ Failing(w)
  \/ a = "settle" /\ b = "readback" /\ writer[w].since = Settle
  \/ a = "readback" /\ b = "open" /\ writer[w].answer = "mine"
  \/ a = "readback" /\ b = "refused" /\ (writer[w].answer = "other" \/ Failing(w))
  \/ a = "open" /\ b = "undo"
  \/ a = "undo" /\ b = "undelete" /\ writer[w].answer = "mine"
  \/ a = "undo" /\ b = "refused" /\ (writer[w].answer = "other" \/ Failing(w))
  \/ a = "undelete" /\ b = "refused" /\ (Answered(w) \/ Failing(w))
  \/ a = "run" /\ b \in {"join", "dropped"}
  \/ a = "join" /\ b = "release" /\ (Beat(w, "done") \/ writer[w].since >= JoinWait)
  \/ a = "release" /\ b = "delete" /\ writer[w].answer = "mine"
  \/ a = "release" /\ b = "released" /\ writer[w].answer = "other"
  \/ a = "delete" /\ b = "released" /\ Answered(w)
  \/ a \in {"release", "delete"} /\ b \in {"release", "leaked"} /\ Failing(w)

Walks(w) ==
  /\ Stays(w) /\ UNCHANGED lock
  /\ writer'[w].since = 0 /\ writer'[w].answer = "none"
  /\ Way(w, writer[w].step, writer'[w].step)

Opens(w) ==
  /\ UNCHANGED lock /\ lost'[w] = lost[w]
  /\ writer[w].step = "open" /\ writer'[w].step = "run"
  /\ writer'[w].since = 0 /\ writer'[w].answer = "none"
  /\ beat'[w].step = "wait" /\ beat'[w].answer = "none" /\ beat'[w].since = 0
  /\ beat'[w].ticked = 0 /\ beat'[w].due = Period /\ beat'[w].unverified = 0

\* A request of w takes effect.
Serves(w) ==
  /\ Stays(w)
  /\ writer[w].step \in Requests /\ writer[w].answer = "none"
  /\ writer'[w].step = writer[w].step /\ writer'[w].since = writer[w].since
  /\ (writer'[w].answer = "mine" /\ Owns(w)') \/ (writer'[w].answer = "other" /\ ~Owns(w)')
  /\ writer[w].step = "claim" => lock' = Written(w, writer[w].since)
  /\ writer[w].step \in {"undelete", "delete"} => lock' = <<>>
  /\ writer[w].step \notin {"claim", "undelete", "delete"} => lock' = lock
  /\ writer[w].step = "look" => seen'[w] = lock

WriterShape(w) == Frame(w) /\ (Walks(w) \/ Opens(w) \/ Serves(w))

\* The variables that a step of one writer may change have their types.
MovesTyped ==
  /\ LockTyped' /\ writer' \in [Writer -> WriterRecord] /\ beat' \in [Writer -> BeatRecord]
  /\ seen' \in [Writer -> LockObject] /\ lost' \in [Writer -> 0..MaxLost]

LEMMA MovesType ==
  ASSUME TypeInv, NEW w \in Writer, Frame(w), MovesTyped
  PROVE  TypeInv'
<1>1. setting' = setting /\ forced' = forced
  BY DEF Frame
<1>2. MaxSince' = MaxSince /\ MaxLost' = MaxLost
  BY <1>1 DEF MaxSince, OpTime, MaxLost
<1>3. WriterRecord' = WriterRecord /\ BeatRecord' = BeatRecord
  BY <1>2 DEF WriterRecord, BeatRecord
<1> QED BY <1>1, <1>2, <1>3, Zenon DEF TypeInv, MovesTyped

LEMMA SinceType ==
  ASSUME TypeInv, NEW w \in Writer
  PROVE  writer[w].since \in Nat /\ beat[w].since \in Nat
<1>1. writer[w] \in WriterRecord /\ beat[w] \in BeatRecord /\ MaxSince \in Nat
  BY BoundFacts DEF TypeInv
<1> QED BY <1>1 DEF WriterRecord, BeatRecord

LEMMA NothingSeen == <<>> \in LockObject
BY DEF LockObject

\* Serve: the answer is made with the effect.
LEMMA ServeShape ==
  ASSUME TypeInv, NEW w \in Writer, Serve(w)
  PROVE  WriterShape(w) /\ TypeInv'
<1> DEFINE v == Verdict(w)
           r == [writer[w] EXCEPT !.answer = v]
<1>1. /\ writer[w] \in WriterRecord /\ writer \in [Writer -> WriterRecord]
      /\ seen \in [Writer -> LockObject] /\ lock \in LockObject
      /\ beat \in [Writer -> BeatRecord] /\ lost \in [Writer -> 0..MaxLost]
  BY DEF TypeInv, LockTyped
<1>2. (v = "mine" /\ Owns(w)') \/ (v = "other" /\ ~Owns(w)')
  BY DEF Verdict
<1>3. writer' = [writer EXCEPT ![w] = r]
  BY <1>1 DEF Serve
<1> HIDE DEF v
<1>4. /\ r \in WriterRecord /\ r.step = writer[w].step /\ r.since = writer[w].since /\ r.answer = v
  BY <1>1, <1>2 DEF WriterRecord, Answers
<1> HIDE DEF r
<1>5. /\ writer' \in [Writer -> WriterRecord] /\ writer'[w] = r
      /\ \A u \in Writer \ {w} : writer'[u] = writer[u]
  BY <1>1, <1>3, <1>4
<1>6. /\ writer[w].step = "claim" => lock' = Written(w, writer[w].since)
      /\ writer[w].step \in {"undelete", "delete"} => lock' = <<>>
      /\ writer[w].step \notin {"claim", "undelete", "delete"} => lock' = lock
  BY DEF Serve, At
<1>7. LockTyped'
  BY <1>1, <1>6, SinceType, WrittenType, NothingSeen DEF LockTyped
<1>8. /\ seen' \in [Writer -> LockObject] /\ \A u \in Writer \ {w} : seen'[u] = seen[u]
      /\ writer[w].step = "look" => seen'[w] = lock
  BY <1>1 DEF Serve, At
<1>9. UNCHANGED <<setting, beat, lost, forced>> /\ writer[w].step \in Requests
      /\ writer[w].answer = "none"
  BY DEF Serve
<1>10. Frame(w) /\ MovesTyped
  BY <1>1, <1>5, <1>7, <1>8, <1>9 DEF Frame, MovesTyped
<1>11. Serves(w)
  BY <1>2, <1>4, <1>5, <1>6, <1>8, <1>9 DEF Serves, Stays
<1> QED BY <1>10, <1>11, MovesType DEF WriterShape

LEMMA WriterStepShape ==
  ASSUME TypeInv, NEW w \in Writer, WriterStep(w)
  PROVE  WriterShape(w) /\ TypeInv'
<1> DEFINE Goal == WriterShape(w) /\ TypeInv'
<1> SUFFICES Goal
  OBVIOUS
<1>0. /\ LockTyped /\ beat \in [Writer -> BeatRecord] /\ lost \in [Writer -> 0..MaxLost]
      /\ seen \in [Writer -> LockObject]
  BY DEF TypeInv
\* A step with the lock and the heartbeat left alone.
<1>1. ASSUME NEW b \in Steps, Goto(w, b) \/ End(w, b), Way(w, writer[w].step, b),
             seen' = seen \/ seen' = [seen EXCEPT ![w] = <<>>],
             UNCHANGED <<setting, lock, beat, lost, forced>>
      PROVE  Goal
  <2>1. /\ writer' \in [Writer -> WriterRecord] /\ writer'[w].step = b /\ writer'[w].since = 0
        /\ writer'[w].answer = "none" /\ \A u \in Writer \ {w} : writer'[u] = writer[u]
    BY <1>1, GotoFacts, EndFacts
  <2>2. seen' \in [Writer -> LockObject] /\ \A u \in Writer \ {w} : seen'[u] = seen[u]
    BY <1>0, <1>1, NothingSeen
  <2>3. Frame(w) /\ MovesTyped
    BY <1>0, <1>1, <2>1, <2>2 DEF Frame, MovesTyped, LockTyped
  <2>4. Walks(w)
    BY <1>1, <2>1 DEF Walks, Stays
  <2> QED BY <2>3, <2>4, MovesType DEF WriterShape
<1>2. ASSUME ReleaseFails(w), Failing(w), At(w, "release") \/ At(w, "delete"),
             UNCHANGED <<setting, lock, beat, seen, lost, forced>>
      PROVE  Goal
  <2>1. /\ writer' \in [Writer -> WriterRecord] /\ writer'[w].step \in {"release", "leaked"}
        /\ writer'[w].since = 0 /\ writer'[w].answer = "none"
        /\ \A u \in Writer \ {w} : writer'[u] = writer[u]
    BY <1>2, ReleaseFailsFacts
  <2>2. Frame(w) /\ MovesTyped
    BY <1>0, <1>2, <2>1 DEF Frame, MovesTyped, LockTyped
  <2>3. Walks(w)
    BY <1>2, <2>1 DEF Walks, Stays, Way, At
  <2> QED BY <2>2, <2>3, MovesType DEF WriterShape
<1> HIDE DEF Goal
<1>3. CASE Serve(w)
  BY <1>3, ServeShape DEF Goal
<1>4. CASE Open(w)
  <2>1. End(w, "look") /\ Way(w, writer[w].step, "look")
    BY <1>4 DEF Open, End, Way, At, Outside
  <2> QED BY <1>1, <1>4, <2>1, StepTypes DEF Open
<1>5. CASE Look(w)
  <2>1. /\ writer[w].step = "look" /\ seen' = [seen EXCEPT ![w] = <<>>]
        /\ UNCHANGED <<setting, lock, beat, lost, forced>>
    BY <1>5 DEF Look, At
  <2>2. Way(w, "look", "refused") /\ Way(w, "look", "poll")
    BY DEF Way, Outside
  <2>3. CASE Answered(w) /\ Claimable(w) /\ Goto(w, "claim")
    <3>1. Way(w, "look", "claim")
      BY <2>3 DEF Way
    <3> QED BY <1>1, <2>1, <2>3, <3>1, StepTypes
  <2>4. CASE End(w, "refused")
    BY <1>1, <2>1, <2>2, <2>4, StepTypes
  <2>5. CASE Goto(w, "poll")
    BY <1>1, <2>1, <2>2, <2>5, StepTypes
  <2> QED BY <1>5, <2>3, <2>4, <2>5 DEF Look
<1>6. CASE LookAgain(w) \/ Settled(w)
  BY <1>1, <1>6, StepTypes DEF LookAgain, Settled, Way, At, Outside
<1>7. CASE Claim(w)
  BY <1>1, <1>7, StepTypes DEF Claim, Way, At
<1>8. CASE ReadBack(w)
  BY <1>1, <1>8, StepTypes DEF ReadBack, Way, At
<1>9. CASE Opened(w)
  <2> DEFINE r == [NoBeat EXCEPT !.step = "wait", !.due = Period]
  <2>1. beat' = [beat EXCEPT ![w] = r] /\ r \in BeatRecord
    BY <1>9, NewRecords DEF Opened, TypeInv
  <2>2. /\ r.step = "wait" /\ r.answer = "none" /\ r.since = 0 /\ r.ticked = 0 /\ r.due = Period
        /\ r.unverified = 0
    BY DEF NoBeat
  <2> HIDE DEF r
  <2>3. /\ writer' \in [Writer -> WriterRecord] /\ writer'[w].step = "run" /\ writer'[w].since = 0
        /\ writer'[w].answer = "none" /\ \A u \in Writer \ {w} : writer'[u] = writer[u]
    BY <1>9, StepTypes, GotoFacts DEF Opened
  <2>4. Frame(w) /\ MovesTyped
    BY <1>0, <1>9, <2>1, <2>3 DEF Opened, Frame, MovesTyped, LockTyped
  <2>5. Opens(w)
    BY <1>0, <1>9, <2>1, <2>2, <2>3 DEF Opens, Opened, At
  <2> QED BY <2>4, <2>5, MovesType DEF WriterShape, Goal
<1>10. CASE OpenFails(w) \/ Close(w) \/ Drop(w)
  BY <1>1, <1>10, StepTypes DEF OpenFails, Close, Drop, Way, At
<1>11. CASE Undo(w) \/ Undelete(w)
  BY <1>1, <1>11, StepTypes DEF Undo, Undelete, Way, At
<1>13. CASE Joined(w)
  <2> DEFINE r == [NewWriter EXCEPT !.step = "release", !.attempt = 1]
  <2>1. writer' = [writer EXCEPT ![w] = r]
    BY <1>13 DEF Joined
  <2>2. r \in WriterRecord /\ r.step = "release" /\ r.answer = "none" /\ r.since = 0
    <3> DEFINE q == [NewWriter EXCEPT !.step = "release"]
    <3>1. q \in WriterRecord /\ q.step = "release" /\ q.answer = "none" /\ q.since = 0
      BY NewRecords, StepTypes DEF TypeInv, NewWriter
    <3> HIDE DEF q
    <3>2. /\ [q EXCEPT !.attempt = 1] \in WriterRecord /\ [q EXCEPT !.attempt = 1].step = "release"
          /\ [q EXCEPT !.attempt = 1].since = 0 /\ [q EXCEPT !.attempt = 1].answer = "none"
      BY <3>1 DEF WriterRecord
    <3> QED BY <3>2 DEF q
  <2> HIDE DEF r
  <2>3. /\ writer' \in [Writer -> WriterRecord] /\ writer'[w].step = "release" /\ writer'[w].since = 0
        /\ writer'[w].answer = "none" /\ \A u \in Writer \ {w} : writer'[u] = writer[u]
    BY <2>1, <2>2 DEF TypeInv
  <2>4. Frame(w) /\ MovesTyped
    BY <1>0, <1>13, <2>3 DEF Joined, Frame, MovesTyped, LockTyped
  <2>5. Walks(w)
    BY <1>13, <2>3 DEF Joined, Walks, Stays, Way, At
  <2> QED BY <2>4, <2>5, MovesType DEF WriterShape, Goal
<1>14. CASE Release(w)
  <2>1. CASE Failing(w) /\ ReleaseFails(w)
    BY <1>2, <1>14, <2>1 DEF Release
  <2>2. CASE writer[w].answer = "mine" /\ Goto(w, "delete")
    BY <1>1, <1>14, <2>2, StepTypes DEF Release, Way, At
  <2>3. CASE writer[w].answer = "other" /\ End(w, "released")
    BY <1>1, <1>14, <2>3, StepTypes DEF Release, Way, At
  <2> QED BY <1>14, <2>1, <2>2, <2>3 DEF Release
<1>15. CASE Delete(w)
  <2>1. CASE Answered(w) /\ End(w, "released")
    BY <1>1, <1>15, <2>1, StepTypes DEF Delete, Way, At
  <2>2. CASE Failing(w) /\ ReleaseFails(w)
    BY <1>2, <1>15, <2>2 DEF Delete
  <2> QED BY <1>15, <2>1, <2>2 DEF Delete
<1> QED BY <1>3, <1>4, <1>5, <1>6, <1>7, <1>8, <1>9, <1>10, <1>11, <1>13, <1>14, <1>15
        DEF WriterStep

-----------------------------------------------------------------------------
(***************************************************************************)
(* The steps of w's heartbeat task and the death of its process.           *)
(***************************************************************************)
\* The beat is at another step, since now, and the rest of its record is kept.
BeatTo(w, step) ==
  /\ beat'[w].step = step /\ beat'[w].answer = "none" /\ beat'[w].since = 0
  /\ beat'[w].ticked = beat[w].ticked /\ beat'[w].due = beat[w].due
  /\ beat'[w].unverified = beat[w].unverified

\* The lock and the clock of the loss are left alone.
Quiet(w) == UNCHANGED lock /\ lost'[w] = lost[w]

Ticks(w) ==
  /\ Quiet(w) /\ writer'[w] = writer[w]
  /\ beat[w].step = "wait" /\ writer[w].step \notin Closing \cup Closed /\ beat[w].ticked >= Tick
  /\ beat'[w].answer = beat[w].answer /\ beat'[w].since = 0 /\ beat'[w].ticked = 0
  /\ beat'[w].unverified = beat[w].unverified
  /\ \/ writer[w].step = "dropped" /\ beat'[w].step = "dropcheck"
     \/ /\ writer[w].step # "dropped" /\ beat'[w].step = "wait"
        /\ beat[w].due + Tick < Period /\ beat'[w].due = beat[w].due + Tick
     \/ /\ writer[w].step # "dropped" /\ beat'[w].step = "check"
        /\ beat[w].due + Tick >= Period /\ beat'[w].due >= Period

Proceeds(w) ==
  /\ Quiet(w) /\ writer'[w] = writer[w] /\ beat[w].answer = "mine"
  /\ \/ beat[w].step = "check" /\ BeatTo(w, "renew")
     \/ beat[w].step = "dropcheck" /\ BeatTo(w, "dropdelete")

Renews(w) ==
  /\ Quiet(w) /\ writer'[w] = writer[w]
  /\ beat[w].step = "renew" /\ beat[w].answer # "none"
  /\ beat'[w].step = "wait" /\ beat'[w].answer = "none" /\ beat'[w].since = 0
  /\ beat'[w].ticked = beat[w].ticked /\ beat'[w].due = 0 /\ beat'[w].unverified = 0

Fails(w) ==
  /\ Quiet(w) /\ writer'[w] = writer[w]
  /\ Failing(w) /\ beat[w].step \in {"check", "renew"} /\ beat[w].unverified < Lease
  /\ BeatTo(w, "wait")

Fences(w) ==
  /\ Quiet(w) /\ beat[w].step \in {"check", "renew"}
  /\ (beat[w].step = "check" /\ beat[w].answer = "other") \/ Failing(w)
  /\ beat'[w].step = "done"
  /\ \/ writer[w].step = "run" /\ writer'[w].step = "fenced"
     \/ writer[w].step # "run" /\ writer'[w] = writer[w]

Halts(w) ==
  /\ Quiet(w) /\ writer'[w] = writer[w] /\ beat'[w].step = "done"
  /\ \/ beat[w].step = "wait" /\ writer[w].step \in Closing \cup Closed
     \/ beat[w].step = "dropcheck" /\ (beat[w].answer = "other" \/ Failing(w))
     \/ beat[w].step = "dropdelete" /\ (beat[w].answer # "none" \/ Failing(w))

\* A request of the task takes effect.
BeatServes(w) ==
  /\ writer'[w] = writer[w]
  /\ beat[w].step \in BeatRequests /\ beat[w].answer = "none"
  /\ beat'[w].step = beat[w].step /\ beat'[w].since = beat[w].since
  /\ beat'[w].ticked = beat[w].ticked /\ beat'[w].due = beat[w].due
  /\ beat'[w].unverified = beat[w].unverified
  /\ \/ beat'[w].answer = "mine" /\ Owns(w)' /\ lost'[w] = 0
     \/ beat'[w].answer = "other" /\ ~Owns(w)' /\ lost'[w] = lost[w]
  /\ beat[w].step = "renew" => lock' = Written(w, beat[w].since)
  /\ beat[w].step = "dropdelete" => lock' = <<>>
  /\ beat[w].step \in {"check", "dropcheck"} => lock' = lock

\* The last write of a dead process takes effect.
Lands(w) ==
  /\ writer'[w] = writer[w] /\ lost'[w] = lost[w]
  /\ beat[w].step \in Late /\ beat'[w].step = "done"
  /\ \/ beat[w].step = "lateput" /\ lock' = Written(w, beat[w].since)
     \/ beat[w].step = "latedelete" /\ lock' = <<>>

BeatShape(w) ==
  Frame(w) /\ (\/ Ticks(w) \/ Proceeds(w) \/ Renews(w) \/ Fails(w) \/ Fences(w) \/ Halts(w)
               \/ BeatServes(w) \/ Lands(w))

CrashShape(w) ==
  /\ Frame(w) /\ Quiet(w) /\ writer'[w].step = "dead"
  /\ \/ beat'[w].step = "done"
     \/ /\ beat'[w].step \in Late /\ beat'[w].since = writer[w].since
        /\ writer[w].step \in {"claim", "undelete", "delete"} /\ writer[w].answer = "none"
     \/ /\ beat'[w].step \in Late /\ beat'[w].since = beat[w].since
        /\ beat[w].step \in {"renew", "dropdelete"} /\ beat[w].answer = "none"

\* The record HeartbeatTick leaves, field by field.
Ticked(x, due, step) == [x EXCEPT !.ticked = 0, !.since = 0, !.due = due, !.step = step]

LEMMA TickMoves ==
  ASSUME setting \in Settings, NEW x \in BeatRecord, NEW due \in 0..(Period + Tick),
         NEW step \in BeatSteps
  PROVE  LET y == Ticked(x, due, step)
         IN  /\ y \in BeatRecord /\ y.step = step /\ y.since = 0 /\ y.due = due
             /\ y.ticked = 0 /\ y.unverified = x.unverified /\ y.answer = x.answer
<1> DEFINE y == [x EXCEPT !.ticked = 0]
           z == [y EXCEPT !.since = 0]
           p == [z EXCEPT !.due = due]
           q == [p EXCEPT !.step = step]
<1>1. MaxSince \in Nat /\ Tick \in Nat
  BY BoundFacts, ConstantFacts
<1>2. q = Ticked(x, due, step)
  BY DEF Ticked
<1>3. y \in BeatRecord /\ y.ticked = 0 /\ y.unverified = x.unverified /\ y.answer = x.answer
  BY <1>1 DEF BeatRecord
<1> HIDE DEF y
<1>4. /\ z \in BeatRecord /\ z.ticked = 0 /\ z.since = 0 /\ z.unverified = x.unverified
      /\ z.answer = x.answer
  BY <1>1, <1>3 DEF BeatRecord
<1> HIDE DEF z
<1>5. /\ p \in BeatRecord /\ p.ticked = 0 /\ p.since = 0 /\ p.due = due
      /\ p.unverified = x.unverified /\ p.answer = x.answer
  BY <1>4 DEF BeatRecord
<1> HIDE DEF p
<1>6. /\ q \in BeatRecord /\ q.ticked = 0 /\ q.since = 0 /\ q.due = due /\ q.step = step
      /\ q.unverified = x.unverified /\ q.answer = x.answer
  BY <1>5 DEF BeatRecord
<1> HIDE DEF q
<1> QED BY <1>2, <1>6

LEMMA TickShape ==
  ASSUME TypeInv, NEW w \in Writer, HeartbeatTick(w)
  PROVE  BeatShape(w) /\ TypeInv'
<1> DEFINE d == IF At(w, "dropped") THEN 0
                ELSE IF beat[w].due < Period THEN beat[w].due + Tick ELSE Period
           s == IF At(w, "dropped") THEN "dropcheck"
                ELSE IF beat[w].due + Tick < Period THEN "wait" ELSE "check"
           r == Ticked(beat[w], d, s)
<1>1. /\ beat[w] \in BeatRecord /\ beat[w].due \in 0..(Period + Tick) /\ Period \in Nat
      /\ Tick \in Nat /\ beat \in [Writer -> BeatRecord]
  BY ConstantFacts DEF TypeInv, BeatRecord
<1>2. d \in 0..(Period + Tick) /\ s \in BeatSteps
  BY <1>1 DEF BeatSteps
<1>3. beat' = [beat EXCEPT ![w] = r]
  BY <1>1 DEF HeartbeatTick, Ticked
<1>4. /\ writer[w].step = "dropped" => s = "dropcheck"
      /\ writer[w].step # "dropped" /\ beat[w].due + Tick < Period =>
           s = "wait" /\ d = beat[w].due + Tick
      /\ writer[w].step # "dropped" /\ ~(beat[w].due + Tick < Period) => s = "check" /\ d >= Period
  BY <1>1 DEF At
<1> HIDE DEF d, s
<1>5. /\ r \in BeatRecord /\ r.step = s /\ r.since = 0 /\ r.due = d
      /\ r.ticked = 0 /\ r.unverified = beat[w].unverified /\ r.answer = beat[w].answer
  <2>1. setting \in Settings /\ beat[w] \in BeatRecord
    BY <1>1 DEF TypeInv
  <2> QED BY <1>2, <2>1, TickMoves
<1> HIDE DEF r
<1>6. beat' \in [Writer -> BeatRecord] /\ beat'[w] = r /\ \A u \in Writer \ {w} : beat'[u] = beat[u]
  BY <1>1, <1>3, <1>5
<1>7. Frame(w) /\ MovesTyped
  BY <1>6 DEF HeartbeatTick, Frame, MovesTyped, TypeInv, LockTyped
<1>8. writer[w].step \notin Closing \cup Closed
  BY DEF HeartbeatTick, Stopping, Closing, Closed
<1>9. Ticks(w)
  <2>1. /\ beat'[w].step = s /\ beat'[w].since = 0 /\ beat'[w].due = d /\ beat'[w].ticked = 0
        /\ beat'[w].unverified = beat[w].unverified /\ beat'[w].answer = beat[w].answer
    BY <1>5, <1>6
  <2>2. /\ beat[w].step = "wait" /\ beat[w].ticked >= Tick /\ UNCHANGED lock
        /\ writer'[w] = writer[w] /\ lost'[w] = lost[w]
    BY DEF HeartbeatTick, Beat
  <2> QED BY <1>1, <1>4, <1>8, <2>1, <2>2 DEF Ticks, Quiet
<1> QED BY <1>7, <1>9, MovesType DEF BeatShape

\* A step of the heartbeat that leaves its writer, or fences it.
LEMMA FenceFacts ==
  ASSUME TypeInv, NEW w \in Writer, Fence(w)
  PROVE  /\ beat' \in [Writer -> BeatRecord] /\ beat'[w].step = "done"
         /\ writer' \in [Writer -> WriterRecord]
         /\ \A u \in Writer \ {w} : beat'[u] = beat[u] /\ writer'[u] = writer[u]
         /\ \/ writer[w].step = "run" /\ writer'[w].step = "fenced"
            \/ writer[w].step # "run" /\ writer'[w] = writer[w]
<1>1. /\ beat' \in [Writer -> BeatRecord] /\ beat'[w].step = "done"
      /\ \A u \in Writer \ {w} : beat'[u] = beat[u]
  BY BeatEndsFacts DEF Fence
<1>2. CASE At(w, "run")
  BY <1>1, <1>2, EndFacts, StepTypes DEF Fence, At
<1>3. CASE ~At(w, "run")
  BY <1>1, <1>3 DEF Fence, At, TypeInv
<1> QED BY <1>2, <1>3

\* A check or a renewal that failed.
LEMMA BeatFailsShape ==
  ASSUME TypeInv, NEW w \in Writer, Failing(w), BeatFails(w),
         beat[w].step \in {"check", "renew"}, UNCHANGED <<setting, lock, seen, lost, forced>>
  PROVE  BeatShape(w) /\ TypeInv'
<1>1. beat[w].unverified \in Nat /\ Lease \in Nat
  BY ConstantFacts DEF TypeInv, BeatRecord
<1>2. CASE beat[w].unverified >= Lease
  <2>1. Fence(w)
    BY <1>2 DEF BeatFails
  <2>2. Frame(w) /\ MovesTyped
    BY <2>1, FenceFacts DEF Frame, MovesTyped, TypeInv, LockTyped
  <2>3. Fences(w)
    BY <2>1, FenceFacts DEF Fences, Quiet
  <2> QED BY <2>2, <2>3, MovesType DEF BeatShape
<1>3. CASE ~(beat[w].unverified >= Lease)
  <2>1. BeatGoto(w, "wait") /\ UNCHANGED writer /\ "wait" \in BeatSteps
    BY <1>3 DEF BeatFails, BeatSteps
  <2>2. /\ beat' \in [Writer -> BeatRecord] /\ \A u \in Writer \ {w} : beat'[u] = beat[u]
        /\ BeatTo(w, "wait")
    BY <2>1, BeatGotoFacts DEF BeatTo
  <2>3. Frame(w) /\ MovesTyped
    BY <2>1, <2>2 DEF Frame, MovesTyped, TypeInv, LockTyped
  <2>4. Fails(w)
    BY <1>1, <1>3, <2>1, <2>2 DEF Fails, Quiet
  <2> QED BY <2>3, <2>4, MovesType DEF BeatShape
<1> QED BY <1>2, <1>3

LEMMA BeatServeShape ==
  ASSUME TypeInv, NEW w \in Writer, BeatServe(w)
  PROVE  BeatShape(w) /\ TypeInv'
<1> DEFINE v == Verdict(w)
           r == [beat[w] EXCEPT !.answer = v]
<1>1. /\ beat[w] \in BeatRecord /\ beat \in [Writer -> BeatRecord] /\ lock \in LockObject
      /\ writer \in [Writer -> WriterRecord] /\ seen \in [Writer -> LockObject]
      /\ lost \in [Writer -> 0..MaxLost] /\ 0 \in 0..MaxLost
  BY BoundFacts DEF TypeInv, LockTyped
<1>2. (v = "mine" /\ Owns(w)') \/ (v = "other" /\ ~Owns(w)')
  BY DEF Verdict
<1>3. beat' = [beat EXCEPT ![w] = r]
  BY <1>1 DEF BeatServe
<1> HIDE DEF v, MaxLost
<1>4. /\ r \in BeatRecord /\ r.step = beat[w].step /\ r.since = beat[w].since /\ r.answer = v
      /\ r.ticked = beat[w].ticked /\ r.due = beat[w].due /\ r.unverified = beat[w].unverified
  BY <1>1, <1>2 DEF BeatRecord, Answers
<1> HIDE DEF r
<1>5. /\ beat' \in [Writer -> BeatRecord] /\ beat'[w] = r
      /\ \A u \in Writer \ {w} : beat'[u] = beat[u]
  BY <1>1, <1>3, <1>4
<1>6. /\ beat[w].step = "renew" => lock' = Written(w, beat[w].since)
      /\ beat[w].step = "dropdelete" => lock' = <<>>
      /\ beat[w].step \notin {"renew", "dropdelete"} => lock' = lock
  BY DEF BeatServe, Beat
<1>7. LockTyped'
  BY <1>1, <1>6, SinceType, WrittenType, NothingSeen DEF LockTyped
<1>8. /\ lost' \in [Writer -> 0..MaxLost] /\ \A u \in Writer \ {w} : lost'[u] = lost[u]
      /\ Owns(w)' => lost'[w] = 0
      /\ ~Owns(w)' => lost'[w] = lost[w]
  BY <1>1 DEF BeatServe
<1>9. UNCHANGED <<setting, writer, seen, forced>> /\ beat[w].step \in BeatRequests
      /\ beat[w].answer = "none"
  BY DEF BeatServe
<1>10. Frame(w) /\ MovesTyped
  BY <1>1, <1>5, <1>7, <1>8, <1>9 DEF Frame, MovesTyped
<1>11. \/ beat'[w].answer = "mine" /\ Owns(w)' /\ lost'[w] = 0
       \/ beat'[w].answer = "other" /\ ~Owns(w)' /\ lost'[w] = lost[w]
  BY <1>2, <1>4, <1>5, <1>8
<1>12. BeatServes(w)
  BY <1>4, <1>5, <1>6, <1>9, <1>11 DEF BeatServes
<1> QED BY <1>10, <1>12, MovesType DEF BeatShape

LEMMA LandShape ==
  ASSUME TypeInv, NEW w \in Writer, Land(w)
  PROVE  BeatShape(w) /\ TypeInv'
<1>1. /\ beat' \in [Writer -> BeatRecord] /\ beat'[w].step = "done"
      /\ \A u \in Writer \ {w} : beat'[u] = beat[u]
  BY BeatEndsFacts DEF Land
<1>2. /\ beat[w].step \in Late /\ UNCHANGED <<setting, writer, seen, lost, forced>>
      /\ \/ beat[w].step = "lateput" /\ lock' = Written(w, beat[w].since)
         \/ beat[w].step = "latedelete" /\ lock' = <<>>
  BY DEF Land, Late, Beat
<1>3. LockTyped'
  BY <1>2, SinceType, WrittenType, NothingSeen DEF LockTyped
<1>4. Frame(w) /\ MovesTyped
  BY <1>1, <1>2, <1>3 DEF Frame, MovesTyped, TypeInv
<1>5. Lands(w)
  BY <1>1, <1>2 DEF Lands
<1> QED BY <1>4, <1>5, MovesType DEF BeatShape

LEMMA BeatStepShape ==
  ASSUME TypeInv, NEW w \in Writer, BeatStep(w)
  PROVE  BeatShape(w) /\ TypeInv'
<1> DEFINE Goal == BeatShape(w) /\ TypeInv'
<1> SUFFICES Goal
  OBVIOUS
<1>0. /\ LockTyped /\ lost \in [Writer -> 0..MaxLost] /\ writer \in [Writer -> WriterRecord]
      /\ seen \in [Writer -> LockObject] /\ "renew" \in BeatSteps /\ "dropdelete" \in BeatSteps
  BY DEF TypeInv, BeatSteps
\* The task stops without touching its writer.
<1>1. ASSUME BeatEnds(w), UNCHANGED <<setting, lock, writer, seen, lost, forced>>,
             \/ beat[w].step = "wait" /\ writer[w].step \in Closing \cup Closed
             \/ beat[w].step = "dropcheck" /\ (beat[w].answer = "other" \/ Failing(w))
             \/ beat[w].step = "dropdelete" /\ (beat[w].answer # "none" \/ Failing(w))
      PROVE  Goal
  <2>1. /\ beat' \in [Writer -> BeatRecord] /\ beat'[w].step = "done"
        /\ \A u \in Writer \ {w} : beat'[u] = beat[u]
    BY <1>1, BeatEndsFacts
  <2>2. Frame(w) /\ MovesTyped
    BY <1>0, <1>1, <2>1 DEF Frame, MovesTyped, LockTyped
  <2>3. Halts(w)
    BY <1>1, <2>1 DEF Halts, Quiet
  <2> QED BY <2>2, <2>3, MovesType DEF BeatShape
\* It found the lock its own and goes on.
<1>2. ASSUME NEW s \in BeatSteps, BeatGoto(w, s), beat[w].answer = "mine",
             UNCHANGED <<setting, lock, writer, seen, lost, forced>>,
             \/ beat[w].step = "check" /\ s = "renew"
             \/ beat[w].step = "dropcheck" /\ s = "dropdelete"
      PROVE  Goal
  <2>1. /\ beat' \in [Writer -> BeatRecord] /\ \A u \in Writer \ {w} : beat'[u] = beat[u]
        /\ BeatTo(w, s)
    BY <1>2, BeatGotoFacts DEF BeatTo
  <2>2. Frame(w) /\ MovesTyped
    BY <1>0, <1>2, <2>1 DEF Frame, MovesTyped, LockTyped
  <2>3. Proceeds(w)
    BY <1>2, <2>1 DEF Proceeds, Quiet
  <2> QED BY <2>2, <2>3, MovesType DEF BeatShape
<1>3. CASE HeartbeatTick(w)
  BY <1>3, TickShape DEF Goal
<1>4. CASE Check(w)
  <2>0. beat[w].step = "check" /\ UNCHANGED <<setting, lock, seen, lost, forced>>
    BY <1>4 DEF Check, Beat
  <2>1. CASE beat[w].answer = "mine" /\ BeatGoto(w, "renew") /\ UNCHANGED writer
    BY <1>0, <1>2, <2>0, <2>1
  <2>2. CASE beat[w].answer = "other" /\ Fence(w)
    <3>1. Frame(w) /\ MovesTyped
      BY <1>0, <2>0, <2>2, FenceFacts DEF Frame, MovesTyped, LockTyped
    <3>2. Fences(w)
      BY <2>0, <2>2, FenceFacts DEF Fences, Quiet
    <3> QED BY <3>1, <3>2, MovesType DEF BeatShape
  <2>3. CASE Failing(w) /\ BeatFails(w)
    BY <2>0, <2>3, BeatFailsShape
  <2> QED BY <1>4, <2>1, <2>2, <2>3 DEF Check
<1>5. CASE Renew(w)
  <2>0. beat[w].step = "renew" /\ UNCHANGED <<setting, lock, seen, lost, forced>>
    BY <1>5 DEF Renew, Beat
  <2>1. ASSUME BeatAnswered(w), UNCHANGED writer,
               beat' = [beat EXCEPT ![w].step = "wait", ![w].answer = "none", ![w].since = 0,
                                    ![w].due = 0, ![w].unverified = 0]
        PROVE  Goal
    <3> DEFINE r == [beat[w] EXCEPT !.step = "wait", !.answer = "none", !.since = 0]
               p == [r EXCEPT !.due = 0]
               q == [p EXCEPT !.unverified = 0]
    <3>1. /\ beat[w] \in BeatRecord /\ beat \in [Writer -> BeatRecord] /\ "wait" \in BeatSteps
          /\ setting \in Settings
      BY DEF TypeInv, BeatSteps
    <3>2. beat' = [beat EXCEPT ![w] = q]
      BY <2>1, <3>1
    <3>3. r \in BeatRecord /\ r.step = "wait" /\ r.answer = "none" /\ r.since = 0 /\ r.ticked = beat[w].ticked
      BY <3>1, BeatMoves
    <3> HIDE DEF r
    <3>4. /\ p \in BeatRecord /\ p.step = "wait" /\ p.answer = "none" /\ p.since = 0
          /\ p.ticked = beat[w].ticked /\ p.due = 0
      BY <3>3, ConstantFacts DEF BeatRecord
    <3> HIDE DEF p
    <3>5. /\ q \in BeatRecord /\ q.step = "wait" /\ q.answer = "none" /\ q.since = 0
          /\ q.ticked = beat[w].ticked /\ q.due = 0 /\ q.unverified = 0
      BY <3>4, ConstantFacts DEF BeatRecord
    <3> HIDE DEF q
    <3>6. beat' \in [Writer -> BeatRecord] /\ beat'[w] = q /\ \A u \in Writer \ {w} : beat'[u] = beat[u]
      BY <3>1, <3>2, <3>5
    <3>7. Frame(w) /\ MovesTyped
      BY <1>0, <2>0, <2>1, <3>6 DEF Frame, MovesTyped, LockTyped
    <3>8. Renews(w)
      BY <2>0, <2>1, <3>5, <3>6 DEF Renews, Quiet, BeatAnswered
    <3> QED BY <3>7, <3>8, MovesType DEF BeatShape
  <2>2. CASE Failing(w) /\ BeatFails(w)
    BY <2>0, <2>2, BeatFailsShape
  <2> QED BY <1>5, <2>1, <2>2 DEF Renew
<1> HIDE DEF Goal
<1>6. CASE Stop(w)
  <2>1. writer[w].step \in Closing \cup Closed /\ beat[w].step = "wait"
    BY <1>6 DEF Stop, Stopping, Closing, Closed, Beat
  <2> QED BY <1>1, <1>6, <2>1 DEF Stop
<1>7. CASE DropCheck(w)
  <2>1. beat[w].step = "dropcheck" /\ UNCHANGED <<setting, lock, writer, seen, lost, forced>>
    BY <1>7 DEF DropCheck, Beat
  <2> QED BY <1>0, <1>1, <1>2, <1>7, <2>1 DEF DropCheck
<1>8. CASE DropDelete(w)
  BY <1>1, <1>8 DEF DropDelete, Beat, BeatAnswered
<1>9. CASE BeatServe(w) \/ Land(w)
  BY <1>9, BeatServeShape, LandShape DEF Goal
<1> QED BY <1>3, <1>4, <1>5, <1>6, <1>7, <1>8, <1>9 DEF BeatStep

LEMMA CrashStepShape ==
  ASSUME TypeInv, NEW w \in Writer, Crash(w)
  PROVE  CrashShape(w) /\ TypeInv'
<1>1. /\ writer' \in [Writer -> WriterRecord] /\ writer'[w].step = "dead"
      /\ \A u \in Writer \ {w} : writer'[u] = writer[u]
  BY EndFacts, StepTypes DEF Crash
<1>2. /\ seen' \in [Writer -> LockObject] /\ \A u \in Writer \ {w} : seen'[u] = seen[u]
      /\ UNCHANGED <<setting, lock, lost, forced>>
  BY NothingSeen DEF Crash, TypeInv
<1>3. ASSUME beat' \in [Writer -> BeatRecord], \A u \in Writer \ {w} : beat'[u] = beat[u],
             \/ beat'[w].step = "done"
             \/ /\ beat'[w].step \in Late /\ beat'[w].since = writer[w].since
                /\ writer[w].step \in {"claim", "undelete", "delete"} /\ writer[w].answer = "none"
             \/ /\ beat'[w].step \in Late /\ beat'[w].since = beat[w].since
                /\ beat[w].step \in {"renew", "dropdelete"} /\ beat[w].answer = "none"
      PROVE  CrashShape(w) /\ TypeInv'
  <2>1. Frame(w) /\ MovesTyped
    BY <1>1, <1>2, <1>3 DEF Frame, MovesTyped, TypeInv, LockTyped
  <2>2. CrashShape(w)
    BY <1>1, <1>2, <1>3, <2>1 DEF CrashShape, Quiet
  <2> QED BY <2>1, <2>2, MovesType
<1>4. CASE BeatEnds(w)
  BY <1>3, <1>4, BeatEndsFacts
<1>5. ASSUME NEW late \in Unserved(w),
             beat' = [beat EXCEPT ![w] = [NoBeat EXCEPT !.step = late[1], !.since = late[2]]]
      PROVE  CrashShape(w) /\ TypeInv'
  <2> DEFINE q == [NoBeat EXCEPT !.step = late[1]]
             r == [q EXCEPT !.since = late[2]]
  <2>1. /\ late[1] \in Late
        /\ \/ /\ late[2] = writer[w].since
              /\ writer[w].step \in {"claim", "undelete", "delete"} /\ writer[w].answer = "none"
           \/ /\ late[2] = beat[w].since
              /\ beat[w].step \in {"renew", "dropdelete"} /\ beat[w].answer = "none"
    BY <1>5 DEF Unserved, Late, At, Beat, Answered, BeatAnswered
  <2>2. late[1] \in BeatSteps /\ late[2] \in 0..MaxSince
    <3>1. writer[w].since \in 0..MaxSince /\ beat[w].since \in 0..MaxSince
      BY DEF TypeInv, WriterRecord, BeatRecord
    <3> QED BY <2>1, <3>1 DEF BeatSteps
  <2>3. q \in BeatRecord /\ q.step = late[1]
    BY <2>2, NewRecords DEF TypeInv, NoBeat
  <2>4. beat' = [beat EXCEPT ![w] = r]
    BY <1>5
  <2> HIDE DEF q
  <2>5. r \in BeatRecord /\ r.step = late[1] /\ r.since = late[2]
    BY <2>2, <2>3 DEF BeatRecord
  <2> HIDE DEF r
  <2>6. beat' \in [Writer -> BeatRecord] /\ beat'[w] = r /\ \A u \in Writer \ {w} : beat'[u] = beat[u]
    BY <2>4, <2>5 DEF TypeInv
  <2> QED BY <1>3, <2>1, <2>5, <2>6
<1> QED BY <1>4, <1>5 DEF Crash

-----------------------------------------------------------------------------
(***************************************************************************)
(* A unit of time.                                                         *)
(***************************************************************************)
\* For any writer.
Passes(w) ==
  /\ writer'[w].step = writer[w].step /\ beat'[w].step = beat[w].step
  /\ writer'[w].answer = writer[w].answer /\ beat'[w].answer = beat[w].answer
  /\ beat'[w].due = beat[w].due
  /\ ~At(w, "run") \/ Owns(w) => lost'[w] = 0
  /\ lost'[w] <= lost[w] + 1

\* For one whose process is not paused: nothing of it was due.
PassesInTime(w) ==
  /\ writer[w].step \in Timed => writer'[w].since = writer[w].since + 1
  /\ writer[w].step \in Requests => writer[w].since < OpTime
  /\ writer[w].step = "settle" => writer[w].since < Settle
  /\ writer[w].step = "open" => writer[w].since < OpenTime
  /\ writer[w].step = "join" => beat[w].step # "done"
  /\ beat[w].step \in BeatRequests \cup Late =>
       beat[w].since < OpTime /\ beat'[w].since = beat[w].since + 1
  /\ beat[w].step = "wait" =>
       /\ writer[w].step \notin Closing \cup Closed
       /\ beat[w].ticked < Tick /\ beat'[w].ticked = beat[w].ticked + 1
  /\ beat[w].step \notin {"none", "done"} /\ Failing(w) /\ beat'[w].unverified < Lease =>
       beat'[w].unverified = beat[w].unverified + 1

\* The lock object, or a copy of it, k grows into l.
Ages(k, l) ==
  /\ k = <<>> => l = <<>>
  /\ k # <<>> => l # <<>> /\ l[1].holder = k[1].holder /\ l[1].age <= k[1].age + 1

ElapseShape ==
  /\ Ages(lock, lock') /\ UNCHANGED <<setting, forced>>
  /\ \A w \in Writer : Ages(seen[w], seen'[w])
  /\ \A w \in Writer : Passes(w)
  /\ \A w \in Writer \ setting.paused : PassesInTime(w)

LEMMA AgingFacts ==
  ASSUME NEW k \in LockObject
  PROVE  Aging(k) \in LockObject /\ Ages(k, Aging(k))
<1>1. CASE k = <<>>
  BY <1>1 DEF Aging, Ages
<1>2. CASE k # <<>>
  <2> DEFINE l == [k[1] EXCEPT !.age = Older(k[1].age)]
  <2>1. Aging(k) = <<l>>
    BY <1>2 DEF Aging
  <2>2. k[1] \in Lock /\ k[1].age \in 0..MaxAge
    BY <1>2 DEF LockObject, Lock
  <2>3. Older(k[1].age) \in 0..MaxAge /\ Older(k[1].age) <= k[1].age + 1
    BY <2>2, ConstantFacts DEF Older
  <2>4. l \in Lock /\ l.holder = k[1].holder /\ l.age <= k[1].age + 1
    BY <2>2, <2>3 DEF Lock
  <2> HIDE DEF l
  <2> QED BY <1>2, <2>1, <2>4 DEF Ages, LockObject
<1> QED BY <1>1, <1>2

\* Records that age.
LEMMA WriterAges ==
  ASSUME NEW x \in WriterRecord, NEW since \in 0..MaxSince, NEW waited \in 0..AcquireWait
  PROVE  LET y == [x EXCEPT !.since = since, !.waited = waited]
         IN  y \in WriterRecord /\ y.step = x.step /\ y.answer = x.answer /\ y.since = since
<1> DEFINE y == [x EXCEPT !.since = since]
           z == [y EXCEPT !.waited = waited]
<1>1. y \in WriterRecord /\ y.step = x.step /\ y.answer = x.answer /\ y.since = since
  BY DEF WriterRecord
<1>2. z = [x EXCEPT !.since = since, !.waited = waited]
  OBVIOUS
<1> HIDE DEF y
<1>3. z \in WriterRecord /\ z.step = x.step /\ z.answer = x.answer /\ z.since = since
  BY <1>1 DEF WriterRecord
<1> HIDE DEF z
<1> QED BY <1>2, <1>3

Aged(x, ticked, since, unverified) ==
  [x EXCEPT !.ticked = ticked, !.since = since, !.unverified = unverified]

LEMMA BeatAges ==
  ASSUME NEW x \in BeatRecord, NEW ticked \in 0..Tick, NEW since \in 0..MaxSince,
         NEW unverified \in 0..Lease
  PROVE  LET y == Aged(x, ticked, since, unverified)
         IN  /\ y \in BeatRecord /\ y.step = x.step /\ y.answer = x.answer /\ y.due = x.due
             /\ y.ticked = ticked /\ y.since = since /\ y.unverified = unverified
<1> DEFINE y == [x EXCEPT !.ticked = ticked]
           z == [y EXCEPT !.since = since]
           q == [z EXCEPT !.unverified = unverified]
<1>1. /\ y \in BeatRecord /\ y.step = x.step /\ y.answer = x.answer /\ y.due = x.due
      /\ y.ticked = ticked
  BY DEF BeatRecord
<1>2. q = Aged(x, ticked, since, unverified)
  BY DEF Aged
<1> HIDE DEF y
<1>3. /\ z \in BeatRecord /\ z.step = x.step /\ z.answer = x.answer /\ z.due = x.due
      /\ z.ticked = ticked /\ z.since = since
  BY <1>1 DEF BeatRecord
<1> HIDE DEF z
<1>4. /\ q \in BeatRecord /\ q.step = x.step /\ q.answer = x.answer /\ q.due = x.due
      /\ q.ticked = ticked /\ q.since = since /\ q.unverified = unverified
  BY <1>3 DEF BeatRecord
<1> HIDE DEF q
<1> QED BY <1>2, <1>4

\* The new fields.
NextSince(w) ==
  IF writer[w].since < Patience(w) THEN writer[w].since + 1
  ELSE IF At(w, "claim") THEN Older(writer[w].since) ELSE writer[w].since

NextWaited(w) ==
  IF writer[w].step \in {"look", "poll"} /\ writer[w].waited < AcquireWait
    THEN writer[w].waited + 1 ELSE writer[w].waited

NextBeatSince(w) ==
  IF beat[w].step = "wait" THEN 0
  ELSE IF beat[w].since < OpTime THEN beat[w].since + 1
  ELSE IF beat[w].step \in {"renew", "lateput"} THEN Older(beat[w].since) ELSE beat[w].since

NextTicked(w) == IF beat[w].ticked < Tick THEN beat[w].ticked + 1 ELSE beat[w].ticked

NextUnverified(w) ==
  IF Failing(w) /\ beat[w].unverified < Lease THEN beat[w].unverified + 1 ELSE beat[w].unverified

\* How long a timed step lasts at most.
LEMMA PatienceFacts ==
  ASSUME TypeInv, NEW w \in Writer
  PROVE  /\ writer[w].step \in Timed => Patience(w) \in 0..MaxSince
         /\ writer[w].step \in Requests => Patience(w) = OpTime
         /\ At(w, "settle") => Patience(w) = Settle
         /\ At(w, "open") => Patience(w) = OpenTime
         /\ At(w, "join") => Patience(w) = IF Beat(w, "done") THEN 0 ELSE JoinWait
<1>1. /\ MaxSince \in Nat /\ OpTime \in 0..MaxSince /\ Settle \in 0..MaxSince /\ Poll \in 0..MaxSince
      /\ OpenTime \in 0..MaxSince /\ JoinWait \in 0..MaxSince
  BY BoundFacts, ConstantFacts, SettingFacts DEF TypeInv
<1> HIDE DEF MaxSince, OpTime
<1>2. writer[w].step \in Requests => Patience(w) = OpTime
  BY DEF Patience, Requests, At
<1>3. At(w, "settle") => Patience(w) = Settle
  BY DEF Patience, At
<1>4. At(w, "open") => Patience(w) = OpenTime
  BY DEF Patience, At
<1>5. At(w, "poll") => Patience(w) = Poll
  BY DEF Patience, At
<1>6. At(w, "join") => Patience(w) = IF Beat(w, "done") THEN 0 ELSE JoinWait
  BY DEF Patience, At
<1>7. ASSUME writer[w].step \in Timed PROVE Patience(w) \in 0..MaxSince
  <2>1. CASE writer[w].step \in Requests
    BY <1>1, <1>2, <2>1
  <2>2. CASE At(w, "settle") \/ At(w, "open") \/ At(w, "poll")
    BY <1>1, <1>3, <1>4, <1>5, <2>2
  <2>3. CASE At(w, "join")
    BY <1>1, <1>6, <2>3
  <2> QED BY <1>7, <2>1, <2>2, <2>3 DEF Timed, Requests, At
<1> QED BY <1>2, <1>3, <1>4, <1>6, <1>7

LEMMA NextFacts ==
  ASSUME TypeInv, NEW w \in Writer
  PROVE  /\ writer[w].step \in Timed => NextSince(w) \in 0..MaxSince
         /\ NextWaited(w) \in 0..AcquireWait /\ NextBeatSince(w) \in 0..MaxSince
         /\ NextTicked(w) \in 0..Tick /\ NextUnverified(w) \in 0..Lease
<1>1. /\ MaxSince \in Nat /\ OpTime \in Nat /\ OpTime <= MaxSince /\ MaxAge \in Nat
      /\ MaxAge <= MaxSince /\ Tick \in Nat /\ Lease \in Nat /\ AcquireWait \in Nat
  BY BoundFacts, ConstantFacts, SettingFacts DEF TypeInv
<1>2. /\ writer[w].since \in 0..MaxSince /\ writer[w].waited \in 0..AcquireWait
      /\ beat[w].since \in 0..MaxSince /\ beat[w].ticked \in 0..Tick /\ beat[w].unverified \in 0..Lease
  BY DEF TypeInv, WriterRecord, BeatRecord
<1> HIDE DEF MaxSince, OpTime, MaxAge
<1>3. writer[w].step \in Timed => NextSince(w) \in 0..MaxSince
  BY <1>1, <1>2, PatienceFacts DEF NextSince, Older
<1>4. NextBeatSince(w) \in 0..MaxSince
  BY <1>1, <1>2 DEF NextBeatSince, Older
<1> QED BY <1>1, <1>2, <1>3, <1>4 DEF NextWaited, NextTicked, NextUnverified

LEMMA ElapseTypes ==
  ASSUME TypeInv, Elapse
  PROVE  TypeInv' /\ ElapseShape
<1>0. /\ writer \in [Writer -> WriterRecord] /\ beat \in [Writer -> BeatRecord] /\ LockTyped
      /\ lost \in [Writer -> 0..MaxLost] /\ MaxLost \in Nat /\ MaxAge \in Nat
      /\ UNCHANGED <<setting, forced>>
  BY BoundFacts, ConstantFacts DEF TypeInv, Elapse
<1>1. /\ Ages(lock, lock') /\ LockTyped' /\ \A w \in Writer : Ages(seen[w], seen'[w])
      /\ seen' \in [Writer -> LockObject]
  BY AgingFacts DEF Elapse, TypeInv, LockTyped
<1>2. ASSUME NEW w \in Writer
      PROVE  /\ writer'[w] \in WriterRecord /\ writer'[w].step = writer[w].step
             /\ writer'[w].answer = writer[w].answer
             /\ writer[w].step \in Timed => writer'[w].since = NextSince(w)
  <2> DEFINE r == [writer[w] EXCEPT !.since = NextSince(w), !.waited = NextWaited(w)]
  <2>0. writer[w] \in WriterRecord
    BY <1>0
  <2>1. CASE writer[w].step \in Timed
    <3>1. writer'[w] = r
      BY <2>1 DEF Elapse, NextSince, NextWaited
    <3>2. NextSince(w) \in 0..MaxSince /\ NextWaited(w) \in 0..AcquireWait
      BY <2>1, NextFacts
    <3>3. /\ r \in WriterRecord /\ r.step = writer[w].step /\ r.answer = writer[w].answer
          /\ r.since = NextSince(w)
      BY <2>0, <3>2, WriterAges
    <3> HIDE DEF r
    <3> QED BY <3>1, <3>3
  <2>2. CASE writer[w].step \notin Timed
    BY <2>0, <2>2 DEF Elapse
  <2> QED BY <2>1, <2>2
<1>3. ASSUME NEW w \in Writer
      PROVE  /\ beat'[w] \in BeatRecord /\ beat'[w].step = beat[w].step
             /\ beat'[w].answer = beat[w].answer /\ beat'[w].due = beat[w].due
             /\ beat[w].step \notin {"none", "done"} =>
                  /\ beat'[w].since = NextBeatSince(w) /\ beat'[w].ticked = NextTicked(w)
                  /\ beat'[w].unverified = NextUnverified(w)
  <2> DEFINE r == Aged(beat[w], NextTicked(w), NextBeatSince(w), NextUnverified(w))
  <2>0. beat[w] \in BeatRecord
    BY <1>0
  <2>1. CASE beat[w].step \notin {"none", "done"}
    <3>1. beat'[w] = r
      BY <2>1 DEF Elapse, NextTicked, NextBeatSince, NextUnverified, Aged
    <3>2. /\ NextTicked(w) \in 0..Tick /\ NextBeatSince(w) \in 0..MaxSince
          /\ NextUnverified(w) \in 0..Lease
      BY NextFacts
    <3>3. /\ r \in BeatRecord /\ r.step = beat[w].step /\ r.answer = beat[w].answer /\ r.due = beat[w].due
          /\ r.ticked = NextTicked(w) /\ r.since = NextBeatSince(w) /\ r.unverified = NextUnverified(w)
      BY <2>0, <3>2, BeatAges
    <3> HIDE DEF r
    <3> QED BY <3>1, <3>3
  <2>2. CASE beat[w].step \in {"none", "done"}
    BY <2>0, <2>2 DEF Elapse
  <2> QED BY <2>1, <2>2
<1>4. ASSUME NEW w \in Writer
      PROVE  lost'[w] \in 0..MaxLost /\ lost'[w] <= lost[w] + 1 /\ (~At(w, "run") \/ Owns(w) => lost'[w] = 0)
  <2>1. lost'[w] = IF ~At(w, "run") \/ Owns(w) THEN 0
                   ELSE IF lost[w] <= BeatBound(w) THEN lost[w] + 1 ELSE lost[w]
    BY DEF Elapse
  <2>2. lost[w] \in 0..MaxLost
    BY <1>0
  <2>3. BeatBound(w) \in Nat /\ BeatBound(w) + 1 <= MaxLost /\ MaxLost \in Nat
    BY BoundFacts DEF TypeInv
  <2> HIDE DEF BeatBound, MaxLost
  <2> QED BY <1>0, <2>1, <2>2, <2>3
<1>5. /\ writer' \in [Writer -> WriterRecord] /\ beat' \in [Writer -> BeatRecord]
      /\ lost' \in [Writer -> 0..MaxLost]
  <2>1. \A w \in Writer : writer'[w] \in WriterRecord /\ beat'[w] \in BeatRecord
                          /\ lost'[w] \in 0..MaxLost
    BY <1>2, <1>3, <1>4
  <2>2. /\ writer' = [w \in Writer |-> writer'[w]] /\ beat' = [w \in Writer |-> beat'[w]]
        /\ lost' = [w \in Writer |-> lost'[w]]
    BY DEF Elapse
  <2> HIDE DEF WriterRecord, BeatRecord, MaxLost
  <2> QED BY <2>1, <2>2
<1>6. TypeInv'
  <2>1. MaxSince' = MaxSince /\ MaxLost' = MaxLost
    BY <1>0 DEF MaxSince, OpTime, MaxLost
  <2>2. WriterRecord' = WriterRecord /\ BeatRecord' = BeatRecord
    BY <2>1 DEF WriterRecord, BeatRecord
  <2>3. setting' \in Settings /\ forced' \in BOOLEAN
    BY <1>0 DEF TypeInv
  <2> QED BY <1>1, <1>5, <2>1, <2>2, <2>3, Zenon DEF TypeInv
<1>7. \A w \in Writer : Passes(w)
  BY <1>2, <1>3, <1>4 DEF Passes
<1>8. ASSUME NEW w \in Writer \ setting.paused
      PROVE  PassesInTime(w)
  <2>0. w \in Writer /\ ~Urgent(w)
    BY DEF Elapse
  <2>1. /\ writer[w].since \in Nat /\ beat[w].since \in Nat /\ beat[w].ticked \in Nat /\ Tick \in Nat
        /\ beat[w].unverified \in Nat /\ Lease \in Nat /\ OpTime \in Nat /\ Settle \in Nat
        /\ OpenTime \in Nat /\ JoinWait \in Nat /\ MaxSince \in Nat
    BY <1>0, SinceType, ConstantFacts, SettingFacts, BoundFacts DEF TypeInv, BeatRecord
  <2>2. ASSUME writer[w].step \in Timed
        PROVE  writer[w].since < Patience(w) /\ writer'[w].since = writer[w].since + 1
    <3>1. Patience(w) \in Nat
      BY <2>0, <2>1, <2>2, PatienceFacts
    <3>2. writer[w].since < Patience(w)
      BY <2>0, <2>1, <3>1 DEF Urgent
    <3>3. writer'[w].since = NextSince(w)
      BY <1>2, <2>0, <2>2
    <3> QED BY <3>2, <3>3 DEF NextSince
  <2>3. /\ writer[w].step \in Requests => writer[w].since < OpTime
        /\ writer[w].step = "settle" => writer[w].since < Settle
        /\ writer[w].step = "open" => writer[w].since < OpenTime
    BY <2>0, <2>2, PatienceFacts DEF Timed, Requests, At
  <2>4. writer[w].step = "join" => beat[w].step # "done"
    BY <2>0, <2>1, <2>2, PatienceFacts DEF Timed, At, Beat
  <2>5. ASSUME beat[w].step \in BeatRequests \cup Late
        PROVE  beat[w].since < OpTime /\ beat'[w].since = beat[w].since + 1
    <3>1. BeatPatience(w) = OpTime
      BY <2>5 DEF BeatPatience, Beat, BeatRequests, Late
    <3>2. beat[w].since < OpTime
      BY <2>0, <2>1, <3>1 DEF Urgent
    <3>3. beat'[w].since = NextBeatSince(w) /\ beat[w].step # "wait"
      BY <1>3, <2>0, <2>5 DEF BeatRequests, Late
    <3> QED BY <3>2, <3>3 DEF NextBeatSince
  <2>6. ASSUME beat[w].step = "wait"
        PROVE  /\ writer[w].step \notin Closing \cup Closed
               /\ beat[w].ticked < Tick /\ beat'[w].ticked = beat[w].ticked + 1
    <3>1. Stopping(w) => BeatPatience(w) = 0
      BY <2>6 DEF BeatPatience, Beat, BeatRequests
    <3>2. ~Stopping(w)
      BY <2>0, <2>1, <3>1 DEF Urgent
    <3>3. beat[w].ticked < Tick
      BY <2>0, <2>1, <2>6 DEF Urgent, Beat
    <3>4. beat'[w].ticked = NextTicked(w)
      BY <1>3, <2>0, <2>6
    <3> QED BY <3>2, <3>3, <3>4 DEF NextTicked, Stopping, Closing, Closed
  <2>7. ASSUME beat[w].step \notin {"none", "done"}, Failing(w), beat'[w].unverified < Lease
        PROVE  beat'[w].unverified = beat[w].unverified + 1
    <3>1. beat'[w].unverified = NextUnverified(w)
      BY <1>3, <2>0, <2>7
    <3> QED BY <2>1, <2>7, <3>1 DEF NextUnverified
  <2> QED BY <2>2, <2>3, <2>4, <2>5, <2>6, <2>7 DEF PassesInTime
<1> QED BY <1>0, <1>1, <1>6, <1>7, <1>8 DEF ElapseShape

\* The operator takes the lock away.
LEMMA OperatorTypes ==
  ASSUME TypeInv, OperatorDeletes
  PROVE  TypeInv' /\ lock' = <<>> /\ forced' /\ UNCHANGED <<setting, writer, beat, seen, lost>>
<1>1. UNCHANGED <<setting, writer, beat, seen, lost>> /\ lock' = <<>> /\ forced' = TRUE
  BY DEF OperatorDeletes
<1>2. MaxSince' = MaxSince /\ MaxLost' = MaxLost
  BY <1>1 DEF MaxSince, OpTime, MaxLost
<1>3. WriterRecord' = WriterRecord /\ BeatRecord' = BeatRecord
  BY <1>2 DEF WriterRecord, BeatRecord
<1>4. LockTyped' /\ forced' \in BOOLEAN
  BY <1>1, NothingSeen DEF LockTyped
<1>5. TypeInv'
  BY <1>1, <1>2, <1>3, <1>4, Zenon DEF TypeInv
<1> QED BY <1>1, <1>5

LEMMA StutterTypes ==
  ASSUME TypeInv, UNCHANGED vars
  PROVE  TypeInv'
<1>1. UNCHANGED <<setting, lock, writer, beat, seen, lost, forced>>
  BY DEF vars
<1>2. MaxSince' = MaxSince /\ MaxLost' = MaxLost
  BY <1>1 DEF MaxSince, OpTime, MaxLost
<1>3. WriterRecord' = WriterRecord /\ BeatRecord' = BeatRecord
  BY <1>2 DEF WriterRecord, BeatRecord
<1>4. LockTyped'
  BY <1>1 DEF LockTyped, TypeInv
<1> QED BY <1>1, <1>2, <1>3, <1>4, Zenon DEF TypeInv

\* What a step is.
Moves(w) == WriterShape(w) \/ BeatShape(w) \/ CrashShape(w)

NextShape ==
  \/ \E w \in Writer : Moves(w)
  \/ OperatorDeletes
  \/ ElapseShape
  \/ UNCHANGED vars

LEMMA NextTypeInv == TypeInv /\ [Next]_vars => TypeInv' /\ NextShape
<1> SUFFICES ASSUME TypeInv, [Next]_vars PROVE TypeInv' /\ NextShape
  OBVIOUS
<1>1. CASE \E w \in Writer : WriterStep(w) \/ BeatStep(w) \/ Crash(w)
  BY <1>1, WriterStepShape, BeatStepShape, CrashStepShape DEF NextShape, Moves
<1>2. CASE OperatorDeletes
  BY <1>2, OperatorTypes DEF NextShape
<1>3. CASE Elapse
  BY <1>3, ElapseTypes DEF NextShape
<1>4. CASE UNCHANGED vars
  BY <1>4, StutterTypes DEF NextShape
<1> QED BY <1>1, <1>2, <1>3, <1>4 DEF Next

LEMMA TypesHold == Spec => []TypeInv
BY InitTypeInv, NextTypeInv, PTL DEF Spec

(***************************************************************************)
(* Every variable of the lease model always holds a value of its type: no  *)
(* age, attempt or wait runs past its bound, whatever fails or pauses.     *)
(***************************************************************************)
THEOREM LeaseTypeCorrect == Spec => []LeaseTypeOK
<1>1. TypeInv => LeaseTypeOK
  BY DEF TypeInv, LeaseTypeOK, LockTyped, WriterRecord, BeatRecord
<1> QED BY <1>1, TypesHold, PTL

-----------------------------------------------------------------------------
(***************************************************************************)
(* Between a writer and its heartbeat, and the time they take.             *)
(***************************************************************************)
\* Which steps the heartbeat task can be at, by the step of its writer.
BeatFits(w) ==
  /\ writer[w].step \in Outside \cup Acquiring \cup Opening => beat[w].step = "none"
  /\ writer[w].step = "run" => beat[w].step \in {"wait", "check", "renew"}
  /\ writer[w].step \in Closing \cup Closed => beat[w].step \in {"wait", "check", "renew", "done"}
  /\ writer[w].step = "dropped" => beat[w].step \notin {"none"} \cup Late
  /\ writer[w].step = "fenced" => beat[w].step = "done"
  /\ writer[w].step = "dead" => beat[w].step \in {"done"} \cup Late
  /\ writer[w].step = "delete" => writer[w].answer # "mine"
  /\ beat[w].step = "wait" => beat[w].answer = "none"

\* Requests and timers of a process that is not paused.
OnTime(w) ==
  /\ writer[w].step \in Requests => writer[w].since <= OpTime
  /\ writer[w].step = "settle" => writer[w].since <= Settle
  /\ writer[w].step = "open" => writer[w].since <= OpenTime
  /\ beat[w].step \in BeatRequests \cup Late => beat[w].since <= OpTime

Leaving == {"release", "delete", "released", "leaked"}

\* close waits for at most a check and a renewal, and then nothing renews any more.
JoinFits(w) ==
  /\ writer[w].step = "join" /\ beat[w].step = "check" => writer[w].since <= beat[w].since
  /\ writer[w].step = "join" /\ beat[w].step = "renew" => writer[w].since <= OpTime + beat[w].since
  /\ 2 * OpTime < JoinWait /\ writer[w].step \in Leaving =>
       beat[w].step \notin {"check", "renew"}
  /\ 2 * OpTime < JoinWait /\ writer[w].step \in {"release", "delete"} /\ writer[w].answer = "other"
       => ~Owns(w)
  /\ 2 * OpTime < JoinWait /\ writer[w].step = "released" => ~Owns(w)

BeatInv == \A w \in Writer : BeatFits(w)

TimerInv == \A w \in Writer \ setting.paused : OnTime(w)

JoinInv == \A w \in Writer \ setting.paused : JoinFits(w)


\* All of it, for reading.
LEMMA FieldTypes ==
  ASSUME TypeInv, NEW w \in Writer
  PROVE  /\ writer[w].since \in Nat /\ beat[w].since \in Nat /\ beat[w].ticked \in Nat
         /\ beat[w].ticked <= Tick /\ beat[w].due \in Nat /\ beat[w].unverified \in Nat
         /\ beat[w].unverified <= Lease /\ lost[w] \in Nat
         /\ writer[w].step \in Steps /\ beat[w].step \in BeatSteps
         /\ writer[w].answer \in Answers /\ beat[w].answer \in Answers
<1>1. /\ writer[w] \in WriterRecord /\ beat[w] \in BeatRecord /\ lost[w] \in 0..MaxLost
      /\ MaxSince \in Nat /\ MaxLost \in Nat /\ Tick \in Nat /\ Period \in Nat /\ Lease \in Nat
  BY BoundFacts, ConstantFacts DEF TypeInv
<1> HIDE DEF MaxSince, MaxLost
<1> QED BY <1>1 DEF WriterRecord, BeatRecord

LEMMA SameSetting ==
  ASSUME UNCHANGED setting
  PROVE  /\ OpTime' = OpTime /\ Reliable' = Reliable /\ Timely' = Timely
         /\ LeaseDwarfsTheRest' = LeaseDwarfsTheRest
         /\ setting.paused' = setting.paused
BY DEF OpTime, Reliable, Timely, LeaseDwarfsTheRest

\* A step of one writer gives the lock to nobody else, and touches nobody else.
LEMMA MovesAlone ==
  ASSUME TypeInv, NEW w \in Writer, Moves(w)
  PROVE  /\ UNCHANGED <<setting, forced>>
         /\ lock' = lock \/ lock' = <<>> \/ lock' = Written(w, writer[w].since)
            \/ lock' = Written(w, beat[w].since)
         /\ \A u \in Writer \ {w} :
              /\ writer'[u] = writer[u] /\ beat'[u] = beat[u] /\ lost'[u] = lost[u]
              /\ seen'[u] = seen[u] /\ (Owns(u)' => Owns(u))
<1>1. Frame(w)
  BY DEF Moves, WriterShape, BeatShape, CrashShape
<1>2. lock' = lock \/ lock' = <<>> \/ lock' = Written(w, writer[w].since)
      \/ lock' = Written(w, beat[w].since)
  <2>1. CASE WriterShape(w)
    BY <2>1 DEF WriterShape, Walks, Opens, Serves
  <2>2. CASE BeatShape(w)
    BY <2>2 DEF BeatShape, Ticks, Proceeds, Renews, Fails, Fences, Halts, Quiet, BeatServes, Lands,
                BeatRequests
  <2>3. CASE CrashShape(w)
    BY <2>3 DEF CrashShape, Quiet
  <2> QED BY <2>1, <2>2, <2>3 DEF Moves
<1>3. ASSUME NEW u \in Writer \ {w}, Owns(u)' PROVE Owns(u)
  BY <1>2, <1>3, SinceType, WrittenType DEF Owns
<1> QED BY <1>1, <1>2, <1>3 DEF Frame

LEMMA BeatKept ==
  ASSUME TypeInv, BeatInv, NextShape
  PROVE  BeatInv'
<1>1. ASSUME NEW w \in Writer, Moves(w), NEW u \in Writer
      PROVE  BeatFits(u)'
  <2>0. BeatFits(u)
    BY DEF BeatInv
  <2>1. CASE u # w
    BY <1>1, <2>0, <2>1, MovesAlone DEF BeatFits
  <2>2. CASE u = w
    <3>1. CASE Walks(w)
      BY <2>0, <2>2, <3>1
         DEF Walks, Stays, Way, BeatFits, Late, Outside, Acquiring, Opening, Closing, Closed
    <3>2. CASE Opens(w)
      BY <2>2, <3>2 DEF Opens, BeatFits, Outside, Acquiring, Opening, Closing, Closed
    <3>3. CASE Serves(w)
      <4>1. writer[w].step = "delete" => writer'[w].answer # "mine"
        BY <3>3 DEF Serves, Owns
      <4> QED BY <2>0, <2>2, <3>3, <4>1 DEF Serves, Stays, BeatFits
    <3>4. CASE Ticks(w) \/ Proceeds(w) \/ Renews(w) \/ Fails(w)
      BY <2>0, <2>2, <3>4
         DEF Ticks, Proceeds, Renews, Fails, BeatTo, BeatFits, Late, Outside, Acquiring, Opening,
             Closing, Closed
    <3>6. CASE Fences(w) \/ Halts(w)
      BY <2>0, <2>2, <3>6
         DEF Fences, Halts, BeatFits, Late, Outside, Acquiring, Opening, Closing, Closed
    <3>7. CASE BeatServes(w)
      BY <2>0, <2>2, <3>7
         DEF BeatServes, BeatRequests, BeatFits, Late, Outside, Acquiring, Opening, Closing, Closed
    <3>8. CASE Lands(w)
      BY <2>0, <2>2, <3>8
         DEF Lands, BeatFits, Late, Outside, Acquiring, Opening, Closing, Closed
    <3>5. CASE CrashShape(w)
      BY <2>2, <3>5 DEF CrashShape, BeatFits, Late, Outside, Acquiring, Opening, Closing, Closed
    <3> QED BY <1>1, <3>1, <3>2, <3>3, <3>4, <3>5, <3>6, <3>7, <3>8 DEF Moves, WriterShape, BeatShape
  <2> QED BY <2>1, <2>2
<1>2. CASE ElapseShape
  BY <1>2 DEF ElapseShape, Passes, BeatInv, BeatFits
<1>3. CASE OperatorDeletes \/ UNCHANGED vars
  BY <1>3 DEF OperatorDeletes, vars, BeatInv, BeatFits
<1> QED BY <1>1, <1>2, <1>3 DEF NextShape, BeatInv

LEMMA TimerKept ==
  ASSUME TypeInv, TimerInv, NextShape
  PROVE  TimerInv'
<1>0. OpTime \in Nat /\ Settle \in Nat /\ OpenTime \in Nat
  BY ConstantFacts, SettingFacts DEF TypeInv
<1>1. ASSUME NEW w \in Writer, Moves(w), NEW u \in Writer \ setting.paused
      PROVE  OnTime(u)'
  <2>0. OnTime(u) /\ OpTime' = OpTime
    BY <1>1, MovesAlone, SameSetting DEF TimerInv
  <2>1. CASE u # w
    BY <1>1, <2>0, <2>1, MovesAlone DEF OnTime
  <2>2. CASE u = w
    <3>1. CASE Walks(w) \/ Opens(w) \/ Serves(w)
      BY <1>0, <2>0, <2>2, <3>1
         DEF Walks, Opens, Serves, Stays, OnTime, Requests, BeatRequests, Late
    <3>2. CASE Ticks(w) \/ Proceeds(w) \/ Renews(w) \/ Fails(w)
      BY <1>0, <2>0, <2>2, <3>2 DEF Ticks, Proceeds, Renews, Fails, BeatTo, OnTime
    <3>3. CASE Fences(w) \/ Halts(w) \/ BeatServes(w) \/ Lands(w)
      BY <1>0, <2>0, <2>2, <3>3
         DEF Fences, Halts, BeatServes, Lands, OnTime, Requests, BeatRequests, Late
    <3>4. CASE CrashShape(w)
      BY <1>0, <2>0, <2>2, <3>4 DEF CrashShape, OnTime, Requests, BeatRequests, Late
    <3> QED BY <1>1, <3>1, <3>2, <3>3, <3>4 DEF Moves, WriterShape, BeatShape
  <2> QED BY <2>1, <2>2
<1>2. ASSUME ElapseShape, NEW u \in Writer \ setting.paused
      PROVE  OnTime(u)'
  <2>1. OpTime' = OpTime /\ Passes(u) /\ PassesInTime(u)
    BY <1>2, SameSetting DEF ElapseShape
  <2>2. writer[u].since \in Nat /\ beat[u].since \in Nat
    BY SinceType
  <2> QED BY <1>0, <2>1, <2>2
          DEF OnTime, Passes, PassesInTime, Requests, BeatRequests, Late, Timed
<1>3. CASE OperatorDeletes \/ UNCHANGED vars
  <2>1. UNCHANGED <<setting, writer, beat>>
    BY <1>3 DEF OperatorDeletes, vars
  <2> QED BY <2>1, SameSetting DEF TimerInv, OnTime
<1>4. NextShape => OperatorDeletes \/ setting' = setting
  BY MovesAlone DEF NextShape, ElapseShape, vars
<1>5. setting' = setting
  BY <1>4 DEF OperatorDeletes
<1> QED BY <1>1, <1>2, <1>3, <1>5 DEF NextShape, TimerInv

LEMMA JoinKept ==
  ASSUME TypeInv, TypeInv', BeatInv, TimerInv, JoinInv, NextShape
  PROVE  JoinInv'
<1>0. OpTime \in Nat /\ JoinWait \in Nat
  BY ConstantFacts, SettingFacts DEF TypeInv
<1>1. ASSUME NEW w \in Writer, Moves(w), NEW u \in Writer \ setting.paused
      PROVE  JoinFits(u)'
  <2>0. JoinFits(u) /\ OnTime(u) /\ BeatFits(u) /\ OpTime' = OpTime /\ u \in Writer
    BY <1>1, MovesAlone, SameSetting DEF JoinInv, TimerInv, BeatInv
  <2>1. CASE u # w
    BY <1>1, <2>0, <2>1, MovesAlone DEF JoinFits
  <2>2. CASE u = w
    <3>0. writer[w].since \in Nat /\ beat[w].since \in Nat
      BY SinceType
    <3>1. CASE Walks(w)
      <4>1. UNCHANGED lock /\ beat'[w] = beat[w] /\ writer'[w].since = 0
            /\ Way(w, writer[w].step, writer'[w].step)
        BY <3>1 DEF Walks, Stays
      <4>2. Owns(w)' = Owns(w)
        BY <4>1 DEF Owns
      <4>3. writer[w].step = "join" /\ writer'[w].step = "release" /\ 2 * OpTime < JoinWait =>
              beat[w].step \notin {"check", "renew"}
        BY <1>0, <2>0, <2>2, <3>0, <4>1 DEF Way, Beat, JoinFits, OnTime, BeatRequests,
           Outside
      <4>4. writer'[w].step \in Leaving /\ 2 * OpTime < JoinWait =>
              beat[w].step \notin {"check", "renew"}
        BY <2>0, <2>2, <4>1, <4>3 DEF Way, JoinFits, Outside, Leaving
      <4>5. writer'[w].step = "released" /\ 2 * OpTime < JoinWait => ~Owns(w)
        <5>1. writer[w].answer \in Answers
          BY FieldTypes
        <5>2. CASE writer[w].step = "released"
          BY <4>1, <5>2 DEF Way, Outside
        <5>3. CASE writer[w].step # "released"
          BY <2>0, <2>2, <4>1, <5>1, <5>3 DEF Way, Outside, BeatFits, JoinFits, Answers, Answered
        <5> QED BY <5>2, <5>3
      <4>6. writer'[w].answer = "none"
        BY <3>1 DEF Walks
      <4> QED BY <1>0, <2>0, <2>2, <3>0, <4>1, <4>2, <4>4, <4>5, <4>6 DEF JoinFits
    <3>2. CASE Opens(w)
      BY <2>2, <3>2 DEF Opens, JoinFits, Leaving
    <3>3. CASE Serves(w)
      BY <2>0, <2>2, <3>3 DEF Serves, Stays, JoinFits, Leaving, Requests
    <3>4. CASE BeatShape(w)
      <4>1. CASE Ticks(w)
        BY <2>0, <2>2, <4>1 DEF Ticks, JoinFits, Closing, Closed, Leaving
      <4>2. CASE Proceeds(w)
        BY <1>0, <2>0, <2>2, <3>0, <4>2
           DEF Proceeds, Quiet, BeatTo, JoinFits, OnTime, BeatRequests, Leaving, BeatFits, Closing,
               Closed, Owns
      <4>3. CASE Renews(w)
        BY <2>0, <2>2, <4>3 DEF Renews, Quiet, JoinFits, Leaving, Owns
      <4>4. CASE Fails(w)
        BY <2>0, <2>2, <4>4 DEF Fails, Quiet, BeatTo, JoinFits, Leaving, Owns
      <4>5. CASE Fences(w)
        BY <2>0, <2>2, <4>5 DEF Fences, Quiet, JoinFits, Leaving, Owns
      <4>6. CASE Halts(w)
        BY <2>0, <2>2, <4>6 DEF Halts, Quiet, JoinFits, Leaving, Owns
      <4>7. CASE BeatServes(w)
        <5>1. beat[w].step # "renew" => (Owns(w)' => Owns(w))
          BY <4>7 DEF BeatServes, BeatRequests, Owns
        <5> QED BY <1>0, <2>0, <2>2, <3>0, <4>7, <5>1 DEF BeatServes, BeatRequests, JoinFits, Leaving
      <4>8. CASE Lands(w)
        BY <2>0, <2>2, <4>8 DEF Lands, Late, JoinFits, BeatFits, Leaving, Closing, Closed
      <4> QED BY <3>4, <4>1, <4>2, <4>3, <4>4, <4>5, <4>6, <4>7, <4>8 DEF BeatShape
    <3>5. CASE CrashShape(w)
      BY <2>2, <3>5 DEF CrashShape, JoinFits, Leaving
    <3> QED BY <1>1, <3>1, <3>2, <3>3, <3>4, <3>5 DEF Moves, WriterShape
  <2> QED BY <2>1, <2>2
<1>2. ASSUME ElapseShape, NEW u \in Writer \ setting.paused
      PROVE  JoinFits(u)'
  <2>1. OpTime' = OpTime /\ Passes(u) /\ PassesInTime(u) /\ JoinFits(u)
    BY <1>2, SameSetting DEF ElapseShape, JoinInv
  <2>2. writer[u].since \in Nat /\ beat[u].since \in Nat
    BY SinceType
  <2>3. Owns(u)' => Owns(u)
    BY <1>2 DEF ElapseShape, Ages, Owns
  <2> QED BY <1>0, <2>1, <2>2, <2>3
          DEF JoinFits, Passes, PassesInTime, BeatRequests, Timed
<1>3. CASE OperatorDeletes \/ UNCHANGED vars
  <2>1. UNCHANGED <<setting, writer, beat>> /\ (lock' = lock \/ lock' = <<>>)
    BY <1>3 DEF OperatorDeletes, vars
  <2> QED BY <2>1, SameSetting DEF JoinInv, JoinFits, Owns
<1>5. setting' = setting
  <2>1. NextShape => OperatorDeletes \/ setting' = setting
    BY MovesAlone DEF NextShape, ElapseShape, vars
  <2> QED BY <2>1 DEF OperatorDeletes
<1> QED BY <1>1, <1>2, <1>3, <1>5 DEF NextShape, JoinInv

\* All that follows builds on these four.
TimeInv == TypeInv /\ BeatInv /\ TimerInv /\ JoinInv

LEMMA InitTimeInv == Init => TimeInv
<1> SUFFICES ASSUME Init PROVE TimeInv
  OBVIOUS
<1>1. TypeInv
  BY InitTypeInv
<1>2. \A w \in Writer : writer[w] = NewWriter /\ beat[w] = NoBeat
  BY DEF Init
<1>3. \A w \in Writer : /\ writer[w].step = "new" /\ beat[w].step = "none"
  BY <1>2 DEF NewWriter, NoBeat
<1>4. BeatInv
  BY <1>3 DEF BeatInv, BeatFits, Late, Outside, Acquiring, Opening, Closing, Closed
<1>5. \A w \in Writer : OnTime(w) /\ JoinFits(w)
  BY <1>3 DEF OnTime, JoinFits, Requests, BeatRequests, Late, Leaving
<1>6. TimerInv /\ JoinInv
  BY <1>1, <1>5, SettingFacts DEF TimerInv, JoinInv, TypeInv
<1> QED BY <1>1, <1>4, <1>6 DEF TimeInv

LEMMA NextTimeInv == TimeInv /\ [Next]_vars => TimeInv'
BY NextTypeInv, BeatKept, TimerKept, JoinKept DEF TimeInv

LEMMA TimeHolds == Spec => []TimeInv
BY InitTimeInv, NextTimeInv, PTL DEF Spec

(***************************************************************************)
(* stop_heartbeat: when close waits longer than two requests can take, the *)
(* heartbeat has ended, or will find itself stopped, before release_lease  *)
(* looks: no renewal writes a released lease back.                         *)
(***************************************************************************)
THEOREM ReleasedIsFinal == Spec => []ReleasedStaysReleased
<1>1. TimeInv => ReleasedStaysReleased
  <2> SUFFICES ASSUME TimeInv, 2 * OpTime < JoinWait,
                      NEW w \in Writer \ setting.paused, At(w, "released")
               PROVE  ~Owns(w)
    BY DEF ReleasedStaysReleased
  <2> QED BY DEF TimeInv, JoinInv, JoinFits, At
<1> QED BY <1>1, TimeHolds, PTL

-----------------------------------------------------------------------------
(***************************************************************************)
(* How long a writer runs on without the lock: counted from the last check *)
(* that found it, or the renewal that took it back, each step of the       *)
(* heartbeat bounds what has gone by.                                      *)
(***************************************************************************)
\* For how long a beat may go unanswered.
Grace(w) == IF Failing(w) THEN Lease ELSE Period

LossFits(w) ==
  /\ writer[w].step \in Outside \cup Acquiring \cup Opening => lost[w] = 0
  /\ writer[w].step = "run" =>
       /\ Owns(w) => lost[w] = 0
       /\ beat[w].step = "wait" /\ beat[w].due < Period =>
            lost[w] <= OpTime + beat[w].due + beat[w].ticked
       /\ beat[w].step = "wait" /\ beat[w].due >= Period =>
            lost[w] <= OpTime + Grace(w) - 1 + beat[w].ticked
       /\ beat[w].step = "check" => lost[w] <= OpTime + Grace(w) - 1 + Tick + beat[w].since
       /\ beat[w].step = "check" /\ beat[w].answer = "mine" => lost[w] <= beat[w].since
       /\ beat[w].step = "renew" => lost[w] <= OpTime + beat[w].since
       /\ beat[w].step = "renew" /\ beat[w].answer # "none" => lost[w] <= beat[w].since
       /\ beat[w].step \in {"check", "renew"} => beat[w].due >= Period
       /\ Failing(w) /\ beat[w].unverified < Lease => lost[w] <= OpTime + beat[w].unverified

LossInv == \A w \in Writer \ setting.paused : LossFits(w)


LEMMA GraceFacts ==
  ASSUME TypeInv, NEW w \in Writer
  PROVE  /\ Grace(w) \in Nat /\ Period <= Grace(w) /\ 1 <= Grace(w)
         /\ BeatBound(w) = Tick + 2 * OpTime + Grace(w) /\ (Failing(w) => Grace(w) = Lease)
BY ConstantFacts DEF Grace, BeatBound

LEMMA LossKept ==
  ASSUME TimeInv, TypeInv', LossInv, NextShape
  PROVE  LossInv'
<1>0. /\ OpTime \in Nat /\ Period \in Nat /\ Tick \in Nat /\ Lease \in Nat /\ 1 <= Period
      /\ \A w \in Writer :
           /\ Grace(w) \in Nat /\ Period <= Grace(w) /\ 1 <= Grace(w)
           /\ Failing(w) => Grace(w) = Lease
  BY ConstantFacts, SettingFacts, GraceFacts DEF TimeInv, TypeInv
<1> HIDE DEF Grace
<1>1. ASSUME NEW w \in Writer, Moves(w), NEW u \in Writer \ setting.paused
      PROVE  LossFits(u)'
  <2>0. /\ LossFits(u) /\ BeatFits(u) /\ OnTime(u)
        /\ OpTime' = OpTime /\ u \in Writer
        /\ Failing(u)' = Failing(u) /\ Grace(u)' = Grace(u)
    BY <1>1, MovesAlone, SameSetting DEF LossInv, TimeInv, BeatInv, TimerInv, Grace, Failing
  <2>1. CASE u # w
    <3>1. writer'[u] = writer[u] /\ beat'[u] = beat[u] /\ lost'[u] = lost[u] /\ (Owns(u)' => Owns(u))
      BY <1>1, <2>1, MovesAlone DEF TimeInv
    <3> QED BY <2>0, <3>1 DEF LossFits
  <2>2. CASE u = w
    <3>0. /\ beat[w].since \in Nat /\ beat[w].ticked \in Nat /\ beat[w].ticked <= Tick
          /\ beat[w].due \in Nat /\ beat[w].unverified \in Nat /\ lost[w] \in Nat
      BY FieldTypes DEF TimeInv
    <3>1. CASE Walks(w)
      BY <2>0, <2>2, <3>1
         DEF Walks, Stays, Way, LossFits, Outside, Acquiring, Opening
    <3>2. CASE Opens(w)
      BY <1>0, <2>0, <2>2, <3>2 DEF Opens, LossFits, Outside, Acquiring, Opening
    <3>3. CASE Serves(w)
      BY <2>0, <2>2, <3>3 DEF Serves, Stays, LossFits, Requests
    <3>4. CASE BeatShape(w)
      <4>1. CASE Ticks(w)
        <5>1. Owns(w)' = Owns(w)
          BY <4>1 DEF Ticks, Quiet, Owns
        <5> QED BY <1>0, <2>0, <2>2, <3>0, <4>1, <5>1 DEF Ticks, Quiet, LossFits, BeatFits
      <4>2. CASE Proceeds(w) \/ Renews(w)
        <5>1. Owns(w)' = Owns(w)
          BY <4>2 DEF Proceeds, Renews, Quiet, Owns
        <5>2. beat[w].since <= OpTime
          BY <2>0, <2>2, <4>2 DEF OnTime, BeatRequests, Proceeds, Renews
        <5> QED BY <1>0, <2>0, <2>2, <3>0, <4>2, <5>1, <5>2
                DEF Proceeds, Renews, Quiet, BeatTo, LossFits, BeatFits
      <4>4. CASE Fails(w)
        <5>1. Owns(w)' = Owns(w)
          BY <4>4 DEF Fails, Quiet, Owns
        <5> QED BY <1>0, <2>0, <2>2, <3>0, <4>4, <5>1 DEF Fails, Quiet, BeatTo, LossFits
      <4>5. CASE Fences(w)
        BY <2>0, <2>2, <3>0, <4>5 DEF Fences, Quiet, LossFits, Outside, Acquiring, Opening
      <4>6. CASE Halts(w)
        BY <2>0, <2>2, <4>6 DEF Halts, Quiet, LossFits, BeatFits, Closing, Closed
      <4>7. CASE BeatServes(w)
        <5>1. CASE beat'[w].answer = "mine" /\ Owns(w)' /\ lost'[w] = 0
          <6>1. /\ writer'[w].step = writer[w].step /\ beat'[w].step = beat[w].step
                /\ beat'[w].since = beat[w].since /\ beat'[w].due = beat[w].due
                /\ beat'[w].ticked = beat[w].ticked /\ beat'[w].unverified = beat[w].unverified
            BY <4>7 DEF BeatServes
          <6> QED BY <1>0, <2>0, <2>2, <3>0, <5>1, <6>1 DEF LossFits
        <5>2. CASE beat'[w].answer = "other" /\ ~Owns(w)' /\ lost'[w] = lost[w]
          <6>1. beat[w].step # "renew"
            BY <3>0, <4>7, <5>2, WrittenType DEF BeatServes, Owns
          <6> QED BY <1>0, <2>0, <2>2, <3>0, <4>7, <5>2, <6>1 DEF BeatServes, BeatRequests, LossFits
        <5> QED BY <4>7, <5>1, <5>2 DEF BeatServes
      <4>8. CASE Lands(w)
        BY <2>0, <2>2, <4>8 DEF Lands, Late, LossFits, BeatFits
      <4> QED BY <3>4, <4>1, <4>2, <4>4, <4>5, <4>6, <4>7, <4>8 DEF BeatShape
    <3>5. CASE CrashShape(w)
      BY <2>2, <3>5 DEF CrashShape, LossFits, Outside, Acquiring, Opening
    <3> QED BY <1>1, <3>1, <3>2, <3>3, <3>4, <3>5 DEF Moves, WriterShape
  <2> QED BY <2>1, <2>2
<1>2. ASSUME ElapseShape, NEW u \in Writer \ setting.paused
      PROVE  LossFits(u)'
  <2>1. /\ OpTime' = OpTime /\ Failing(u)' = Failing(u) /\ Grace(u)' = Grace(u)
        /\ Passes(u) /\ PassesInTime(u) /\ LossFits(u)
    BY <1>2, SameSetting DEF ElapseShape, LossInv, Grace, Failing
  <2>2. /\ beat[u].since \in Nat /\ beat[u].ticked \in Nat /\ beat[u].due \in Nat
        /\ beat[u].unverified \in Nat /\ lost[u] \in Nat /\ lost'[u] \in Nat
    <3>1. MaxLost' = MaxLost /\ MaxLost \in Nat
      BY <1>2, BoundFacts DEF ElapseShape, MaxLost, OpTime, TimeInv, TypeInv
    <3>2. lost'[u] \in 0..MaxLost
      BY <3>1 DEF TypeInv
    <3> HIDE DEF MaxLost
    <3> QED BY <3>1, <3>2, FieldTypes DEF TimeInv
  <2>3. Owns(u)' => Owns(u)
    BY <1>2 DEF ElapseShape, Ages, Owns
  <2>4. writer[u].step \in Outside \cup Acquiring \cup Opening => lost'[u] = 0
    BY <2>1 DEF Passes, At, Outside, Acquiring, Opening
  <2>5. writer[u].step = "run" => beat[u].step \in {"wait", "check", "renew"}
    BY DEF TimeInv, BeatInv, BeatFits
  <2>6. CASE writer[u].step = "run" /\ Owns(u)
    <3>1. lost'[u] = 0
      BY <2>1, <2>6 DEF Passes
    <3> QED BY <1>0, <2>1, <2>2, <2>4, <2>5, <3>1
            DEF LossFits, Passes, PassesInTime, BeatRequests
  <2>7. CASE ~(writer[u].step = "run" /\ Owns(u))
    BY <1>0, <2>1, <2>2, <2>3, <2>4, <2>5, <2>7
       DEF LossFits, Passes, PassesInTime, BeatRequests
  <2> QED BY <2>6, <2>7
<1>3. CASE OperatorDeletes \/ UNCHANGED vars
  <2>1. UNCHANGED <<setting, writer, beat, lost>> /\ (lock' = lock \/ lock' = <<>>)
    BY <1>3 DEF OperatorDeletes, vars
  <2> QED BY <2>1, SameSetting DEF LossInv, LossFits, Owns, Grace, Failing
<1>5. setting' = setting
  <2>1. NextShape => OperatorDeletes \/ setting' = setting
    BY MovesAlone DEF NextShape, ElapseShape, vars, TimeInv
  <2> QED BY <2>1 DEF OperatorDeletes
<1> QED BY <1>1, <1>2, <1>3, <1>5 DEF NextShape, LossInv

LEMMA InitLossInv == Init => LossInv
<1> SUFFICES ASSUME Init PROVE LossInv
  OBVIOUS
<1>1. \A w \in Writer : writer[w] = NewWriter /\ lost[w] = 0
  BY DEF Init
<1>2. \A w \in Writer : LossFits(w)
  BY <1>1 DEF NewWriter, LossFits
<1> QED BY <1>2, InitTypeInv, SettingFacts DEF LossInv, TypeInv

(***************************************************************************)
(* A writer that lost the lock - to the operator, to a rival whose clock   *)
(* says it is dead, in an acquire race - has stopped a heartbeat later, or *)
(* a lease later where storage fails, give or take the requests in flight. *)
(***************************************************************************)
THEOREM LosersStop == Spec => []LoserStops
<1>1. TimeInv /\ LossInv => LoserStops
  <2> SUFFICES ASSUME TimeInv, LossInv, NEW w \in Writer \ setting.paused, At(w, "run")
               PROVE  lost[w] <= BeatBound(w)
    BY DEF LoserStops
  <2>1. /\ OpTime \in Nat /\ Grace(w) \in Nat /\ Period \in Nat /\ Tick \in Nat
        /\ Period <= Grace(w) /\ 1 <= Grace(w) /\ BeatBound(w) = Tick + 2 * OpTime + Grace(w)
    BY ConstantFacts, SettingFacts, GraceFacts DEF TimeInv, TypeInv
  <2>2. /\ beat[w].since \in Nat /\ beat[w].ticked \in Nat /\ beat[w].ticked <= Tick
        /\ beat[w].due \in Nat /\ lost[w] \in Nat
    BY FieldTypes DEF TimeInv
  <2>3. beat[w].step \in {"wait", "check", "renew"} /\ OnTime(w) /\ LossFits(w)
    BY DEF TimeInv, BeatInv, BeatFits, TimerInv, LossInv, At
  <2> HIDE DEF Grace, BeatBound, OpTime
  <2> QED BY <2>1, <2>2, <2>3 DEF LossFits, OnTime, BeatRequests, At
<1>2. TimeInv /\ LossInv /\ [Next]_vars => TimeInv' /\ LossInv'
  BY NextTimeInv, NextTypeInv, LossKept DEF TimeInv
<1> QED BY <1>1, <1>2, InitTimeInv, InitLossInv, PTL DEF Spec

-----------------------------------------------------------------------------
(***************************************************************************)
(* Mutual exclusion.  While two requests fit into the settle delay and     *)
(* nothing pauses, whoever read its own record back owns the lock until it *)
(* gives it back: no claim and no write of a dead process is on its way,   *)
(* whoever has looked has seen this owner's stamp, and the stamp is too    *)
(* young for any reader's clock.                                           *)
(***************************************************************************)
Calm == Timely /\ Reliable /\ 2 * OpTime < Settle /\ LeaseDwarfsTheRest /\ ~forced

\* From the read-back to the release, as storage has seen them.
Active(w) ==
  \/ writer[w].step \in {"open", "undo", "run", "join", "release"}
  \/ writer[w].step = "readback" /\ writer[w].answer = "mine"
  \/ writer[w].step \in {"undelete", "delete"} /\ writer[w].answer = "none"
  \/ /\ writer[w].step = "dropped" /\ beat[w].step # "done"
     /\ beat[w].step = "dropdelete" => beat[w].answer = "none"

\* From its write on, unless that was overwritten.
Holds(w) ==
  \/ Active(w)
  \/ writer[w].step = "claim" /\ writer[w].answer # "none" /\ Owns(w)
  \/ writer[w].step \in {"settle", "readback"} /\ Owns(w)

\* The oldest stamp at the first beat and at any later one.
FirstBeat == 2 * OpTime + Settle + OpenTime

NextBeat == OpTime + Period

Longest == IF FirstBeat < NextBeat THEN NextBeat ELSE FirstBeat

\* How old the stamp of w can be, by what has happened since it was made.
AgeFits(w, age) ==
  /\ writer[w].step = "claim" => age <= writer[w].since
  /\ writer[w].step = "settle" => age <= OpTime + writer[w].since
  /\ writer[w].step = "readback" => age <= OpTime + Settle + writer[w].since
  /\ writer[w].step = "open" => age <= 2 * OpTime + Settle + writer[w].since
  /\ writer[w].step = "undo" => age <= FirstBeat + writer[w].since
  /\ writer[w].step = "undelete" => age <= FirstBeat + OpTime + writer[w].since
  /\ writer[w].step = "release" => age <= Longest + Tick + writer[w].since
  /\ writer[w].step = "delete" => age <= Longest + Tick + OpTime + writer[w].since
  /\ writer[w].step \in {"run", "join", "dropped"} =>
       /\ beat[w].step \in {"check", "dropcheck"} => age <= Longest + Tick + beat[w].since
       /\ beat[w].step \in {"renew", "dropdelete"} => age <= Longest + Tick + OpTime + beat[w].since
       /\ beat[w].step = "renew" /\ beat[w].answer # "none" => age <= beat[w].since
       /\ beat[w].step \in {"wait", "done"} => age <= Longest + Tick
  /\ writer[w].step \in {"run", "dropped"} /\ beat[w].step = "wait" =>
       IF beat[w].due < Period THEN age <= OpTime + beat[w].due + beat[w].ticked
                               ELSE age <= Longest + beat[w].ticked

\* A claim is on its way; a look has found what it will decide on.
Claims(v) == writer[v].step = "claim" /\ writer[v].answer = "none"

Looked(v) == writer[v].step = "look" /\ writer[v].answer # "none"

\* v saw the lock in the hands of w, and recently stamped.
SafeLook(v, w) ==
  /\ seen[v] # <<>> /\ seen[v][1].holder = w
  /\ seen[v][1].age <= Longest + Tick + 2 * OpTime + writer[v].since

\* Nothing that can still reach the lock object was decided without knowing of w.
Alone(w) ==
  \A v \in Writer : ~Claims(v) /\ beat[v].step \notin Late /\ (Looked(v) => SafeLook(v, w))

\* What was, before w's claim took effect, takes effect before its read-back.
Settling(w) ==
  \A v \in Writer :
    /\ Claims(v) => writer[w].since <= OpTime + writer[v].since
    /\ beat[v].step \in Late => writer[w].since <= OpTime + beat[v].since
    /\ Looked(v) => SafeLook(v, w) \/ writer[w].since <= writer[v].since

KeepFits(w) ==
  /\ Active(w) => Owns(w)
  /\ Active(w) \/ (writer[w].step = "readback" /\ Owns(w)) => Alone(w)
  /\ writer[w].step = "settle" /\ Owns(w) => Settling(w)
  /\ Holds(w) => AgeFits(w, lock[1].age)
  /\ Active(w) /\ beat[w].step = "check" => beat[w].answer # "other"

KeepInv == Calm => \A w \in Writer : KeepFits(w)

LEMMA CalmFacts ==
  ASSUME TypeInv, Calm
  PROVE  /\ OpTime \in Nat /\ 1 <= OpTime /\ Settle \in Nat /\ OpenTime \in Nat /\ Tick \in Nat
         /\ Period \in Nat /\ JoinWait \in Nat /\ Lease \in Nat /\ 2 * OpTime < Settle
         /\ FirstBeat \in Nat /\ Longest \in Nat /\ FirstBeat <= Longest /\ OpTime + Period <= Longest
         /\ FirstBeat = 2 * OpTime + Settle + OpenTime
         /\ 2 * OpTime < JoinWait /\ (\A v \in Writer : ~Failing(v)) /\ setting.paused = {}
<1>1. /\ OpTime \in Nat /\ 1 <= OpTime /\ 2 * OpTime < Settle /\ setting.paused = {}
      /\ \A v \in Writer : ~Failing(v)
  BY SettingFacts DEF TypeInv, Calm, Timely, Reliable, Failing
<1> HIDE DEF OpTime
<1>2. 2 * OpTime < JoinWait
  BY <1>1, ConstantFacts
<1> QED BY <1>1, <1>2, ConstantFacts DEF FirstBeat, Longest, NextBeat

LEMMA ObjectFacts ==
  ASSUME NEW l \in LockObject, l # <<>>
  PROVE  l[1].age \in Nat /\ l[1].holder \in Writer
<1>1. l[1] \in Lock /\ MaxAge \in Nat
  BY ConstantFacts DEF LockObject
<1> HIDE DEF MaxAge
<1> QED BY <1>1 DEF Lock

LEMMA LockFacts ==
  ASSUME TypeInv, lock # <<>>
  PROVE  lock[1].age \in Nat /\ lock[1].holder \in Writer
BY ObjectFacts DEF TypeInv, LockTyped

\* The same, for the next state too.
LEMMA LockAge == TypeInv /\ lock # <<>> => lock[1].age \in Nat
BY LockFacts

\* The lengths of what is under way are numbers.
AgesInv ==
  \A v \in Writer :
    /\ writer[v].since \in Nat /\ beat[v].since \in Nat
    /\ seen[v] # <<>> => seen[v][1].age \in Nat

LEMMA AgesAreNumbers == TypeInv => AgesInv
BY SinceType, ObjectFacts DEF TypeInv, AgesInv

\* Its stamp outlives every step on time.
LEMMA YoungStamp ==
  ASSUME TimeInv, Calm, KeepInv, NEW w \in Writer, Holds(w)
  PROVE  Owns(w) /\ lock[1].age <= Longest + Tick + 2 * OpTime
<1>1. KeepFits(w) /\ OnTime(w) /\ BeatFits(w) /\ TypeInv
  BY CalmFacts DEF KeepInv, TimeInv, TimerInv, BeatInv
<1>2. Owns(w)
  BY <1>1 DEF KeepFits, Holds
<1>3. AgeFits(w, lock[1].age) /\ lock[1].age \in Nat
  BY <1>1, <1>2, LockFacts DEF KeepFits, Owns
<1>4. /\ writer[w].since \in Nat /\ beat[w].since \in Nat /\ beat[w].ticked \in Nat
      /\ beat[w].ticked <= Tick /\ beat[w].due \in Nat
  BY <1>1, FieldTypes
<1>5. writer[w].step \in {"claim", "settle", "readback", "open", "undo", "undelete", "release",
                           "delete", "run", "join", "dropped"}
  BY DEF Holds, Active
<1>0. /\ OpTime \in Nat /\ Settle \in Nat /\ OpenTime \in Nat /\ Tick \in Nat /\ Period \in Nat
      /\ FirstBeat \in Nat /\ Longest \in Nat /\ FirstBeat <= Longest /\ OpTime + Period <= Longest
      /\ FirstBeat = 2 * OpTime + Settle + OpenTime
  BY <1>1, CalmFacts
<1>6. CASE writer[w].step \in {"claim", "settle", "readback", "open"}
  BY <1>0, <1>1, <1>2, <1>3, <1>4, <1>6 DEF AgeFits, OnTime, Requests
<1>8. CASE writer[w].step \in {"undo", "undelete", "release", "delete"}
  BY <1>0, <1>1, <1>2, <1>3, <1>4, <1>8 DEF AgeFits, OnTime, Requests
<1>7. CASE writer[w].step \in {"run", "join", "dropped"}
  <2>1. beat[w].step \in {"wait", "done", "check", "dropcheck", "renew", "dropdelete"}
    BY <1>1, <1>7 DEF BeatFits, Closing, BeatSteps, TypeInv, BeatRecord
  <2> QED BY <1>0, <1>1, <1>2, <1>3, <1>4, <1>7, <2>1 DEF AgeFits, OnTime, BeatRequests
<1> QED BY <1>2, <1>5, <1>6, <1>7, <1>8

\* Whoever has seen the stamp of w finds it fresh for as long as the look may take.
LEMMA NotClaimable ==
  ASSUME TimeInv, Calm, KeepInv, NEW w \in Writer, Holds(w), NEW v \in Writer \ {w},
         Looked(v), SafeLook(v, w)
  PROVE  ~Claimable(v)
<1>0. writer[v].since \in Nat /\ writer[v].since <= OpTime
  BY CalmFacts, FieldTypes DEF TimeInv, TimerInv, OnTime, Looked, Requests
<1>1. /\ seen[v] # <<>> /\ seen[v][1].holder = w /\ seen[v][1].age \in Nat
      /\ seen[v][1].age <= Longest + Tick + 2 * OpTime + writer[v].since
  BY ObjectFacts DEF SafeLook, TimeInv, TypeInv
<1> DEFINE d == Skew[setting.host[v]] - Skew[setting.host[w]]
<1>2. Skew[setting.host[v]] \in Int /\ Skew[setting.host[w]] \in Int /\ d \in Int
  BY SettingFacts, ConstantFacts DEF TimeInv, TypeInv
<1>3. /\ 5 * OpTime + Settle + OpenTime + Tick + d <= Lease
      /\ 4 * OpTime + Period + Tick + d <= Lease
  <2>1. LeaseDwarfsTheRest
    BY DEF Calm
  <2>2. OpTime \in Nat /\ Settle \in Nat /\ OpenTime \in Nat /\ Tick \in Nat /\ Period \in Nat /\ Lease \in Nat
    BY CalmFacts DEF TimeInv
  <2>3. /\ 5 * OpTime + Settle + OpenTime + Tick + Skew[setting.host[v]] - Skew[setting.host[w]] <= Lease
        /\ 4 * OpTime + Period + Tick + Skew[setting.host[v]] - Skew[setting.host[w]] <= Lease
    BY <2>1 DEF LeaseDwarfsTheRest
  <2> HIDE DEF OpTime
  <2> QED BY <1>2, <2>2, <2>3
<1>4. Longest + Tick + 3 * OpTime + d <= Lease
  <2>1. OpTime \in Nat /\ Settle \in Nat /\ OpenTime \in Nat /\ Tick \in Nat /\ Period \in Nat /\ Lease \in Nat
    BY CalmFacts DEF TimeInv
  <2> HIDE DEF OpTime, d
  <2> QED BY <1>2, <1>3, <2>1 DEF Longest, FirstBeat, NextBeat
<1>5. ~IsStale(v)
  <2>1. Longest \in Nat /\ OpTime \in Nat /\ Tick \in Nat /\ Lease \in Nat
    BY CalmFacts DEF TimeInv
  <2>2. IsStale(v) <=> seen[v][1].age + Skew[setting.host[v]] - Skew[setting.host[w]] > Lease
    BY <1>1 DEF IsStale
  <2> HIDE DEF Longest, OpTime
  <2>3. writer[v].since \in Nat /\ writer[v].since <= OpTime /\ seen[v][1].age \in Nat
        /\ seen[v][1].age <= Longest + Tick + 2 * OpTime + writer[v].since
    BY <1>0, <1>1
  <2>4. seen[v][1].age <= Longest + Tick + 3 * OpTime
    BY <2>1, <2>3
  <2>5. IsStale(v) <=> seen[v][1].age + d > Lease
    <3>1. Skew[setting.host[v]] \in Int /\ Skew[setting.host[w]] \in Int
      BY <1>2
    <3> QED BY <2>2, <2>3, <3>1
  <2> HIDE DEF d
  <2> QED BY <1>2, <1>4, <2>1, <2>3, <2>4, <2>5
<1>6. ~ProvablyDead(v)
  BY <1>1 DEF ProvablyDead, At, Holds, Active
<1> QED BY <1>1, <1>5, <1>6 DEF Claimable

\* A heartbeat that works on the lock belongs to a writer that holds it.
LEMMA BeatsAreActive ==
  ASSUME TimeInv, Calm, NEW w \in Writer, beat[w].step \in BeatRequests
  PROVE  /\ beat[w].step # "dropdelete" \/ beat[w].answer = "none" => Active(w)
         /\ writer[w].step \in {"run", "join", "dropped"}
         /\ beat[w].step \in {"dropcheck", "dropdelete"} => writer[w].step = "dropped"
<1>1. BeatFits(w) /\ JoinFits(w) /\ 2 * OpTime < JoinWait /\ writer[w].step \in Steps
  BY CalmFacts, FieldTypes DEF TimeInv, BeatInv, JoinInv
<1>2. /\ writer[w].step \in {"run", "join", "dropped"}
      /\ beat[w].step \in {"dropcheck", "dropdelete"} => writer[w].step = "dropped"
  BY <1>1 DEF BeatFits, JoinFits, BeatRequests, Late, Leaving, Steps, Outside, Acquiring, Opening,
              Closing, Closed
<1> QED BY <1>2 DEF Active, BeatRequests

\* Two that hold it are one.
LEMMA OneActive ==
  ASSUME Calm, KeepInv, NEW w \in Writer, NEW u \in Writer, Active(w), Active(u)
  PROVE  u = w
BY DEF KeepInv, KeepFits, Owns

\* No step of w changes the lock under another writer that holds it.
LEMMA LockKept ==
  ASSUME TimeInv, Calm, KeepInv, NEW w \in Writer, Moves(w), NEW u \in Writer \ {w}, Active(u)
  PROVE  UNCHANGED lock
<1>1. ~Active(w) /\ ~Claims(w) /\ beat[w].step \notin Late
  BY OneActive DEF KeepInv, KeepFits, Alone
<1>2. beat[w].step \in BeatRequests => beat[w].answer # "none"
  BY <1>1, BeatsAreActive
<1>3. CASE WriterShape(w)
  BY <1>1, <1>3 DEF WriterShape, Walks, Opens, Serves, Active, Claims
<1>4. CASE BeatShape(w)
  BY <1>1, <1>2, <1>4
     DEF BeatShape, Ticks, Proceeds, Renews, Fails, Fences, Halts, Quiet, BeatServes, Lands
<1>5. CASE CrashShape(w)
  BY <1>5 DEF CrashShape, Quiet
<1> QED BY <1>3, <1>4, <1>5 DEF Moves

\* How a write on its way comes about, and what a look finds.
LEMMA Newcomers ==
  ASSUME TimeInv, Calm, NEW w \in Writer, Moves(w)
  PROVE  /\ Claims(w)' => Looked(w) /\ Claimable(w) /\ writer'[w].since = 0
         /\ beat'[w].step \in Late =>
              Active(w) \/ (Claims(w) /\ beat'[w].since = writer[w].since)
         /\ Looked(w)' => seen'[w] = lock
<1>0. BeatFits(w) /\ writer[w].step \in Steps
  BY FieldTypes DEF TimeInv, BeatInv
<1>1. CASE Walks(w)
  BY <1>0, <1>1
     DEF Walks, Stays, Way, Claims, Looked, Answered, BeatFits, Late, Outside, Acquiring, Opening,
         Closing, Closed
<1>2. CASE Opens(w)
  BY <1>2 DEF Opens, Claims, Looked, Late
<1>3. CASE Serves(w)
  BY <1>0, <1>3
     DEF Serves, Stays, Claims, Looked, BeatFits, Late, Requests, Outside, Acquiring, Opening,
         Closing, Closed
<1>4. CASE BeatShape(w)
  <2>1. beat[w].step # "none"
    BY <1>4
       DEF BeatShape, Ticks, Proceeds, Renews, Fails, Fences, Halts, BeatServes, Lands, BeatRequests,
           Late
  <2>2. writer[w].step \notin {"look", "claim"}
    BY <1>0, <2>1 DEF BeatFits, Outside, Acquiring
  <2>3. writer'[w] = writer[w] \/ writer'[w].step = "fenced"
    BY <1>4 DEF BeatShape, Ticks, Proceeds, Renews, Fails, Fences, Halts, BeatServes, Lands
  <2>4. beat'[w].step \notin Late
    BY <1>4
       DEF BeatShape, Ticks, Proceeds, Renews, Fails, Fences, Halts, BeatTo, BeatServes, Lands,
           BeatRequests, Late
  <2> QED BY <2>2, <2>3, <2>4 DEF Claims, Looked
<1>5. CASE CrashShape(w)
  <2>1. ~Claims(w)' /\ ~Looked(w)'
    BY <1>5 DEF CrashShape, Claims, Looked
  <2>2. beat'[w].step \in Late => Active(w) \/ (Claims(w) /\ beat'[w].since = writer[w].since)
    BY <1>5, BeatsAreActive DEF CrashShape, Claims, Active, Late, BeatRequests
  <2> QED BY <2>1, <2>2
<1> QED BY <1>1, <1>2, <1>3, <1>4, <1>5 DEF Moves, WriterShape

\* Others see each other move.
LEMMA SameOthers ==
  ASSUME TimeInv, NEW w \in Writer, Moves(w), NEW v \in Writer \ {w}, NEW u \in Writer
  PROVE  /\ writer'[v] = writer[v] /\ beat'[v] = beat[v] /\ Claims(v)' = Claims(v)
         /\ Looked(v)' = Looked(v) /\ SafeLook(v, u)' = SafeLook(v, u)
<1>1. /\ writer'[v] = writer[v] /\ beat'[v] = beat[v] /\ seen'[v] = seen[v] /\ OpTime' = OpTime
  BY MovesAlone, SameSetting DEF TimeInv
<1>2. Longest' = Longest
  BY <1>1 DEF Longest, NextBeat, FirstBeat
<1> QED BY <1>1, <1>2 DEF Claims, Looked, SafeLook

\* A look that takes effect now sees whoever holds the lock.
LEMMA FreshLook ==
  ASSUME TimeInv, TimeInv', Calm, KeepInv, NEW w \in Writer, Moves(w), Looked(w)',
         NEW u \in Writer, Holds(u)
  PROVE  SafeLook(w, u)'
<1>1. seen'[w] = lock /\ Owns(u) /\ lock[1].age <= Longest + Tick + 2 * OpTime
  BY Newcomers, YoungStamp
<1>2. writer'[w].since \in Nat /\ lock[1].age \in Nat /\ Longest \in Nat /\ Tick \in Nat /\ OpTime \in Nat
  <2>1. (TypeInv => AgesInv)'
    BY AgesAreNumbers, PTL
  <2> QED BY <1>1, <2>1, CalmFacts, LockFacts DEF TimeInv, AgesInv, Owns
<1>3. OpTime' = OpTime /\ Longest' = Longest
  <2>1. OpTime' = OpTime
    BY MovesAlone, SameSetting DEF TimeInv
  <2> QED BY <2>1 DEF Longest, NextBeat, FirstBeat
<1> HIDE DEF Longest, OpTime
<1> QED BY <1>1, <1>2, <1>3 DEF SafeLook, Owns

LEMMA OthersKeep ==
  ASSUME TimeInv, TimeInv', Calm, KeepInv, NEW w \in Writer, Moves(w), NEW u \in Writer \ {w}
  PROVE  KeepFits(u)'
<1>0. /\ KeepFits(u) /\ u \in Writer /\ writer'[u] = writer[u] /\ beat'[u] = beat[u]
      /\ OpTime' = OpTime
  BY MovesAlone, SameSetting DEF KeepInv, TimeInv
<1>1. Owns(u)' => Owns(u) /\ lock' = lock
  BY MovesAlone, SinceType, WrittenType DEF Owns, TimeInv
<1>2. Active(u)' = Active(u)
  BY <1>0 DEF Active
<1>3. Active(u) => Owns(u)' /\ lock' = lock
  BY <1>0, LockKept DEF KeepFits, Owns
<1>4. Holds(u)' => Holds(u) /\ lock' = lock
  BY <1>0, <1>1, <1>2, <1>3 DEF Holds
<1>5. Holds(u) => Owns(u) /\ ~Active(w)
  <2>1. KeepFits(w)
    BY DEF KeepInv
  <2> QED BY <2>1, YoungStamp DEF KeepFits, Owns
<1>6. /\ FirstBeat' = FirstBeat /\ Longest' = Longest
  BY <1>0 DEF FirstBeat, Longest, NextBeat
<1>7. ASSUME Holds(u)' PROVE AgeFits(u, lock[1].age)' 
  <2>1. AgeFits(u, lock[1].age) /\ lock' = lock
    BY <1>0, <1>4, <1>7 DEF KeepFits
  <2> QED BY <1>0, <1>6, <2>1 DEF AgeFits
<1>8. ASSUME Active(u)' \/ (writer'[u].step = "readback" /\ Owns(u)')
      PROVE  Alone(u)'
  <2>1. Holds(u)' /\ Holds(u) /\ ~Active(w)
    BY <1>4, <1>5, <1>8 DEF Holds
  <2>2. Alone(u)
    BY <1>0, <1>1, <1>2, <1>8 DEF KeepFits
  <2>3. ~Claims(w)'
    BY <2>1, <2>2, Newcomers, NotClaimable DEF Alone
  <2>4. beat'[w].step \notin Late
    BY <2>1, <2>2, Newcomers DEF Alone
  <2>5. Looked(w)' => SafeLook(w, u)'
    BY <2>1, FreshLook
  <2>6. ASSUME NEW v \in Writer
        PROVE  ~Claims(v)' /\ beat'[v].step \notin Late /\ (Looked(v)' => SafeLook(v, u)')
    <3>1. CASE v = w
      BY <2>3, <2>4, <2>5, <3>1
    <3>2. CASE v # w
      BY <2>2, <3>2, SameOthers DEF Alone
    <3> QED BY <3>1, <3>2
  <2> QED BY <2>6 DEF Alone
<1>9. ASSUME writer'[u].step = "settle", Owns(u)'
      PROVE  Settling(u)'
  <2>1. Holds(u)' /\ Holds(u) /\ ~Active(w)
    BY <1>4, <1>5, <1>9 DEF Holds
  <2>2. Settling(u) /\ writer'[u].since = writer[u].since
    BY <1>0, <1>1, <1>9 DEF KeepFits
  <2>3. Claims(w)' => writer'[u].since <= OpTime + writer'[w].since
    <3> SUFFICES ASSUME Claims(w)' PROVE writer'[u].since <= OpTime + writer'[w].since
      OBVIOUS
    <3>1. Looked(w) /\ Claimable(w) /\ writer'[w].since = 0
      BY Newcomers
    <3>2. ~SafeLook(w, u)
      BY <2>1, <3>1, NotClaimable
    <3>3. writer[u].since <= writer[w].since
      BY <2>2, <3>1, <3>2 DEF Settling
    <3>4. writer[w].since <= OpTime /\ writer[w].since \in Nat /\ writer[u].since \in Nat
      BY <3>1, CalmFacts, FieldTypes DEF TimeInv, TimerInv, OnTime, Looked, Requests
    <3>5. OpTime \in Nat
      BY CalmFacts DEF TimeInv
    <3> QED BY <2>2, <3>1, <3>3, <3>4, <3>5
  <2>4. beat'[w].step \in Late => writer'[u].since <= OpTime + beat'[w].since
    BY <2>1, <2>2, Newcomers DEF Settling
  <2>5. Looked(w)' => SafeLook(w, u)'
    BY <2>1, FreshLook
  <2>6. ASSUME NEW v \in Writer
        PROVE  /\ Claims(v)' => writer'[u].since <= OpTime' + writer'[v].since
               /\ beat'[v].step \in Late => writer'[u].since <= OpTime' + beat'[v].since
               /\ Looked(v)' => SafeLook(v, u)' \/ writer'[u].since <= writer'[v].since
    <3>1. CASE v = w
      BY <1>0, <2>3, <2>4, <2>5, <3>1
    <3>2. CASE v # w
      BY <1>0, <2>2, <3>2, SameOthers DEF Settling
    <3> QED BY <3>1, <3>2
  <2> QED BY <2>6 DEF Settling
<1>10. Active(u)' /\ beat'[u].step = "check" => beat'[u].answer # "other"
  BY <1>0, <1>2 DEF KeepFits
<1> QED BY <1>2, <1>3, <1>7, <1>8, <1>9, <1>10 DEF KeepFits

\* What the steps of w itself start from.
LEMMA OwnFacts ==
  ASSUME TimeInv, Calm, KeepInv, NEW w \in Writer, Moves(w)
  PROVE  /\ KeepFits(w) /\ OnTime(w) /\ BeatFits(w) /\ JoinFits(w)
         /\ OpTime' = OpTime /\ FirstBeat' = FirstBeat /\ Longest' = Longest
         /\ lock # <<>> => lock[1].age \in Nat
<1>1. OpTime' = OpTime
  BY MovesAlone, SameSetting DEF TimeInv
<1>2. KeepFits(w) /\ OnTime(w) /\ BeatFits(w) /\ JoinFits(w)
  BY CalmFacts DEF TimeInv, KeepInv, TimerInv, BeatInv, JoinInv
<1> QED BY <1>1, <1>2, LockFacts DEF FirstBeat, Longest, NextBeat, TimeInv

\* Nobody else comes up while w moves and is left at a step that is no claim, look or death.
LEMMA StaysAlone ==
  ASSUME TimeInv, NEW w \in Writer, Moves(w), Alone(w),
         writer'[w].step \notin {"look", "claim"}, beat'[w].step \notin Late
  PROVE  Alone(w)'
<1>1. ASSUME NEW v \in Writer
      PROVE  ~Claims(v)' /\ beat'[v].step \notin Late /\ (Looked(v)' => SafeLook(v, w)')
  <2>1. CASE v = w
    BY <2>1 DEF Claims, Looked
  <2>2. CASE v # w
    BY <2>2, SameOthers DEF Alone
  <2> QED BY <2>1, <2>2
<1> QED BY <1>1 DEF Alone

\* It is enough to look at the age, once w is known to own the lock alone.
LEMMA KeepsIf ==
  ASSUME TimeInv, TimeInv', Calm, KeepInv, NEW w \in Writer, Moves(w),
         Active(w) \/ (writer[w].step = "readback" /\ Owns(w)), Owns(w)',
         AgeFits(w, lock[1].age)', writer'[w].step \notin {"look", "claim", "settle"},
         beat'[w].step = "check" => beat'[w].answer # "other"
  PROVE  KeepFits(w)'
<1>1. Alone(w)
  BY OwnFacts DEF KeepFits
<1>2. Active(w)' => beat'[w].step \notin Late
  <2>1. BeatFits(w)'
    BY DEF TimeInv, BeatInv
  <2> QED BY <2>1 DEF BeatFits, Active, Late, Outside, Acquiring, Opening, Closing, Closed
<1>3. writer'[w].step = "readback" => beat'[w].step \notin Late
  <2>1. BeatFits(w)'
    BY DEF TimeInv, BeatInv
  <2> QED BY <2>1 DEF BeatFits, Late, Outside, Acquiring, Opening, Closing, Closed
<1>4. Active(w)' \/ (writer'[w].step = "readback" /\ Owns(w)') => Alone(w)'
  BY <1>1, <1>2, <1>3, StaysAlone
<1> QED BY <1>4 DEF KeepFits

\* Without the lock there is nothing to keep.
LEMMA KeepsNothing ==
  ASSUME NEW w \in Writer, ~Active(w)', ~Holds(w)'
  PROVE  KeepFits(w)'
BY DEF KeepFits, Holds

LEMMA OwnWalks ==
  ASSUME TimeInv, TimeInv', Calm, KeepInv, NEW w \in Writer, Moves(w), Walks(w)
  PROVE  KeepFits(w)'
<1>0. /\ OpTime \in Nat /\ Settle \in Nat /\ OpenTime \in Nat /\ Tick \in Nat /\ Period \in Nat
      /\ FirstBeat \in Nat /\ Longest \in Nat /\ FirstBeat <= Longest /\ OpTime + Period <= Longest
      /\ FirstBeat = 2 * OpTime + Settle + OpenTime /\ 2 * OpTime < Settle
      /\ 2 * OpTime < JoinWait /\ (\A v \in Writer : ~Failing(v)) /\ setting.paused = {}
  BY CalmFacts DEF TimeInv
<1>1. /\ lock' = lock /\ beat'[w] = beat[w] /\ writer'[w].since = 0 /\ writer'[w].answer = "none"
      /\ Way(w, writer[w].step, writer'[w].step) /\ (Owns(w)' <=> Owns(w))
  BY DEF Walks, Stays, Owns
<1>2. /\ KeepFits(w) /\ OnTime(w) /\ BeatFits(w) /\ JoinFits(w)
      /\ OpTime' = OpTime /\ FirstBeat' = FirstBeat /\ Longest' = Longest
  BY OwnFacts
<1>3. /\ writer[w].since \in Nat /\ beat[w].since \in Nat /\ beat[w].ticked \in Nat
      /\ beat[w].ticked <= Tick /\ beat[w].due \in Nat
  BY FieldTypes DEF TimeInv
<1>4. JoinFits(w)' /\ BeatFits(w)'
  BY <1>0, MovesAlone DEF TimeInv, JoinInv, BeatInv
<1>5. CASE writer'[w].step \in Outside \cup Closed \cup {"claim"}
  BY <1>1, <1>5, KeepsNothing DEF Active, Holds, Outside, Closed
<1>6. CASE writer[w].step = "claim" /\ writer'[w].step = "settle" /\ Answered(w)
  <2>1. ~Active(w)'
    BY <1>6 DEF Active
  <2>2. Settling(w)'
    <3>1. ASSUME NEW v \in Writer
          PROVE  writer'[v].since \in Nat /\ beat'[v].since \in Nat /\ OpTime' \in Nat
      <4>1. (TypeInv => AgesInv)'
        BY AgesAreNumbers, PTL
      <4> QED BY <1>0, <1>2, <4>1 DEF TimeInv, AgesInv
    <3> QED BY <1>1, <3>1 DEF Settling
  <2>3. ASSUME Owns(w) PROVE AgeFits(w, lock[1].age)'
    <3>1. lock[1].age <= writer[w].since /\ writer[w].since <= OpTime /\ lock[1].age \in Nat
      BY <1>2, <1>6, <2>3, OwnFacts DEF KeepFits, Holds, AgeFits, Answered, OnTime, Requests, Owns
    <3> QED BY <1>0, <1>1, <1>2, <1>3, <1>6, <3>1 DEF AgeFits
  <2> QED BY <1>1, <1>6, <2>1, <2>2, <2>3 DEF KeepFits, Holds
<1>7. CASE writer[w].step = "settle" /\ writer'[w].step = "readback" /\ writer[w].since = Settle
  <2>1. ~Active(w)'
    BY <1>1, <1>7 DEF Active
  <2>2. ASSUME Owns(w) PROVE Alone(w)' /\ AgeFits(w, lock[1].age)'
    <3>1. lock[1].age <= OpTime + Settle
      BY <1>2, <1>7, <2>2 DEF KeepFits, Holds, AgeFits
    <3>2. Settling(w)
      BY <1>2, <1>7, <2>2 DEF KeepFits
    <3>3. ASSUME NEW v \in Writer
          PROVE  ~Claims(v) /\ beat[v].step \notin Late /\ (Looked(v) => SafeLook(v, w))
      <4>1. OnTime(v) /\ writer[v].since \in Nat /\ beat[v].since \in Nat
        BY <1>0, FieldTypes DEF TimeInv, TimerInv
      <4>2. Claims(v) \/ Looked(v) => writer[v].since <= OpTime
        BY <4>1 DEF OnTime, Claims, Looked, Requests
      <4>3. beat[v].step \in Late => beat[v].since <= OpTime
        BY <4>1 DEF OnTime
      <4> QED BY <1>0, <1>7, <3>2, <4>1, <4>2, <4>3 DEF Settling
    <3>4. Alone(w)
      BY <3>3 DEF Alone
    <3>5. beat'[w].step \notin Late
      BY <1>1, <3>3
    <3>6. Alone(w)'
      BY <1>7, <3>4, <3>5, StaysAlone
    <3>7. lock[1].age \in Nat
      BY <2>2, OwnFacts DEF Owns
    <3> QED BY <1>0, <1>1, <1>2, <1>7, <3>1, <3>6, <3>7 DEF AgeFits
  <2> QED BY <1>1, <1>7, <2>1, <2>2 DEF KeepFits, Holds
<1>9. ASSUME Active(w), writer'[w].step \notin Outside \cup Acquiring \cup Closed,
             AgeFits(w, lock[1].age) /\ lock[1].age \in Nat => AgeFits(w, lock[1].age)'
      PROVE  KeepFits(w)'
  <2>1. Owns(w) /\ AgeFits(w, lock[1].age) /\ lock[1].age \in Nat
    BY <1>2, <1>9, OwnFacts DEF KeepFits, Holds, Owns
  <2>2. beat'[w].step = "check" => beat'[w].answer # "other"
    BY <1>1, <1>2, <1>9 DEF KeepFits
  <2> QED BY <1>1, <1>9, <2>1, <2>2, KeepsIf DEF Acquiring, Outside
<1>8. CASE writer[w].step = "readback" /\ writer'[w].step = "open" /\ writer[w].answer = "mine"
  BY <1>0, <1>1, <1>2, <1>3, <1>8, <1>9
     DEF AgeFits, OnTime, Requests, Active, Outside, Acquiring, Closed
<1>10. CASE writer[w].step = "open" /\ writer'[w].step = "undo"
  BY <1>0, <1>1, <1>2, <1>3, <1>9, <1>10 DEF AgeFits, OnTime, Active, Outside, Acquiring, Closed
<1>11. CASE writer[w].step = "undo" /\ writer'[w].step = "undelete"
  BY <1>0, <1>1, <1>2, <1>3, <1>9, <1>11
     DEF AgeFits, OnTime, Requests, Active, Outside, Acquiring, Closed
<1>12. CASE writer[w].step = "run" /\ writer'[w].step \in {"join", "dropped"}
  <2>1. beat[w].step \in {"wait", "check", "renew"}
    BY <1>2, <1>12 DEF BeatFits
  <2> QED BY <1>0, <1>1, <1>2, <1>3, <1>9, <1>12, <2>1
             DEF AgeFits, Active, Outside, Acquiring, Closed
<1>13. CASE writer[w].step = "join" /\ writer'[w].step = "release"
  <2>1. beat[w].step \in {"wait", "done"}
    BY <1>0, <1>1, <1>2, <1>4, <1>13 DEF BeatFits, JoinFits, Leaving, Closing
  <2> QED BY <1>0, <1>1, <1>2, <1>3, <1>9, <1>13, <2>1
             DEF AgeFits, Active, Outside, Acquiring, Closed
<1>14. CASE writer[w].step = "release" /\ writer'[w].step = "delete"
  BY <1>0, <1>1, <1>2, <1>3, <1>9, <1>14
     DEF AgeFits, OnTime, Requests, Active, Outside, Acquiring, Closed
<1> QED BY <1>0, <1>1, <1>5, <1>6, <1>7, <1>8, <1>10, <1>11, <1>12, <1>13, <1>14
        DEF Way, Outside, Closed

LEMMA OwnServes ==
  ASSUME TimeInv, TimeInv', Calm, KeepInv, NEW w \in Writer, Moves(w), Serves(w)
  PROVE  KeepFits(w)'
<1>1. /\ beat'[w] = beat[w] /\ writer'[w].step = writer[w].step
      /\ writer'[w].since = writer[w].since /\ writer[w].answer = "none"
      /\ writer[w].step \in Requests
      /\ (writer'[w].answer = "mine" /\ Owns(w)') \/ (writer'[w].answer = "other" /\ ~Owns(w)')
  BY DEF Serves, Stays
<1>2. /\ KeepFits(w) /\ OpTime' = OpTime /\ FirstBeat' = FirstBeat /\ Longest' = Longest
  BY OwnFacts
<1>3. CASE writer[w].step = "look"
  BY <1>1, <1>3, KeepsNothing DEF Active, Holds
<1>4. CASE writer[w].step \in {"undelete", "delete"}
  BY <1>1, <1>4, KeepsNothing DEF Active, Holds
<1>5. CASE writer[w].step = "claim"
  <2>1. lock' = Written(w, writer[w].since) /\ writer[w].since \in Nat
    BY <1>5, FieldTypes DEF Serves, TimeInv
  <2>2. lock'[1].age <= writer[w].since
    BY <2>1, WrittenType
  <2>3. AgeFits(w, lock[1].age)'
    BY <1>1, <1>5, <2>2 DEF AgeFits
  <2>4. ~Active(w)'
    BY <1>1, <1>5 DEF Active
  <2> QED BY <1>1, <1>5, <2>3, <2>4 DEF KeepFits
<1>6. CASE writer[w].step \in {"readback", "undo", "release"}
  <2>1. lock' = lock /\ (Owns(w)' <=> Owns(w))
    BY <1>6 DEF Serves, Owns
  <2>2. CASE Owns(w)
    <3>1. AgeFits(w, lock[1].age)
      BY <1>2, <1>6, <2>2 DEF KeepFits, Holds, Active
    <3>2. AgeFits(w, lock[1].age)'
      BY <1>1, <1>2, <1>6, <2>1, <3>1 DEF AgeFits
    <3>3. Active(w) \/ (writer[w].step = "readback" /\ Owns(w))
      BY <1>6, <2>2 DEF Active
    <3>4. beat'[w].step = "check" => beat'[w].answer # "other"
      BY <1>1, <1>2, <1>6, <3>3, OwnFacts DEF KeepFits, BeatFits, Acquiring
    <3> QED BY <1>1, <1>6, <2>1, <2>2, <3>2, <3>3, <3>4, KeepsIf
  <2>3. CASE ~Owns(w)
    <3>1. writer[w].step = "readback"
      BY <1>2, <1>6, <2>3 DEF KeepFits, Active
    <3> QED BY <1>1, <2>1, <2>3, <3>1, KeepsNothing DEF Active, Holds
  <2> QED BY <2>2, <2>3
<1> QED BY <1>1, <1>3, <1>4, <1>5, <1>6 DEF Requests

LEMMA OwnWrites ==
  ASSUME TimeInv, TimeInv', Calm, KeepInv, NEW w \in Writer, Moves(w), WriterShape(w)
  PROVE  KeepFits(w)'
<1>0. /\ OpTime \in Nat /\ Settle \in Nat /\ OpenTime \in Nat /\ Tick \in Nat /\ Period \in Nat
      /\ FirstBeat \in Nat /\ Longest \in Nat /\ FirstBeat <= Longest
      /\ FirstBeat = 2 * OpTime + Settle + OpenTime
  BY CalmFacts DEF TimeInv
<1>2. /\ KeepFits(w) /\ OnTime(w) /\ OpTime' = OpTime /\ FirstBeat' = FirstBeat
      /\ Longest' = Longest
  BY OwnFacts
<1>3. writer[w].since \in Nat
  BY FieldTypes DEF TimeInv
<1>4. CASE Opens(w)
  <2>1. Active(w) /\ lock' = lock
    BY <1>4 DEF Opens, Active
  <2>2. Owns(w) /\ AgeFits(w, lock[1].age) /\ lock[1].age \in Nat
    BY <1>2, <2>1, OwnFacts DEF KeepFits, Holds, Owns
  <2>3. lock[1].age <= FirstBeat
    BY <1>0, <1>2, <1>3, <1>4, <2>2 DEF AgeFits, Opens, OnTime
  <2>4. AgeFits(w, lock[1].age)'
    BY <1>0, <1>2, <1>4, <2>1, <2>2, <2>3 DEF AgeFits, Opens
  <2>5. /\ Owns(w)' /\ writer'[w].step \notin {"look", "claim", "settle"}
        /\ beat'[w].step # "check"
    BY <1>4, <2>1, <2>2 DEF Owns, Opens
  <2> QED BY <2>1, <2>4, <2>5, KeepsIf
<1> QED BY <1>4, OwnWalks, OwnServes DEF WriterShape

LEMMA OwnBeats ==
  ASSUME TimeInv, TimeInv', Calm, KeepInv, NEW w \in Writer, Moves(w), BeatShape(w)
  PROVE  KeepFits(w)'
<1>0. /\ OpTime \in Nat /\ Tick \in Nat /\ Period \in Nat /\ Longest \in Nat
      /\ OpTime + Period <= Longest /\ (\A v \in Writer : ~Failing(v)) /\ 1 <= Period
  BY CalmFacts, ConstantFacts DEF TimeInv
<1>2. /\ KeepFits(w) /\ OnTime(w) /\ BeatFits(w) /\ OpTime' = OpTime /\ FirstBeat' = FirstBeat
      /\ Longest' = Longest
  BY OwnFacts
<1>3. /\ beat[w].since \in Nat /\ beat[w].ticked \in Nat /\ beat[w].ticked <= Tick
      /\ beat[w].due \in Nat
  BY FieldTypes DEF TimeInv
\* Enough for a step that leaves the lock and the writer alone.
<1>4. ASSUME UNCHANGED lock, writer'[w] = writer[w], Active(w),
             beat'[w].step = "check" => beat'[w].answer # "other",
             AgeFits(w, lock[1].age) /\ lock[1].age \in Nat => AgeFits(w, lock[1].age)'
      PROVE  KeepFits(w)'
  <2>1. Owns(w) /\ AgeFits(w, lock[1].age) /\ lock[1].age \in Nat
    BY <1>2, <1>4, OwnFacts DEF KeepFits, Holds, Owns
  <2>2. Owns(w)' /\ writer'[w].step \notin {"look", "claim", "settle"}
    BY <1>4, <2>1 DEF Owns, Active
  <2> QED BY <1>4, <2>1, <2>2, KeepsIf
<1>5. CASE Ticks(w)
  <2>1. writer[w].step \in {"run", "dropped"} /\ Active(w)
    <3>1. writer[w].step \in Steps
      BY FieldTypes DEF TimeInv
    <3>2. writer[w].step \in {"run", "dropped"}
      BY <1>2, <1>5, <3>1 DEF Ticks, BeatFits, Late, Steps
    <3> QED BY <1>5, <3>2 DEF Ticks, Active
  <2>2. AgeFits(w, lock[1].age) /\ lock[1].age \in Nat => AgeFits(w, lock[1].age)'
    BY <1>0, <1>2, <1>3, <1>5, <2>1 DEF Ticks, Quiet, AgeFits
  <2>3. UNCHANGED lock /\ writer'[w] = writer[w] /\ beat'[w].answer = "none"
    BY <1>2, <1>5 DEF Ticks, Quiet, BeatFits
  <2> QED BY <1>4, <2>1, <2>2, <2>3
<1>6. CASE Proceeds(w)
  <2>1. beat[w].step \in BeatRequests /\ beat[w].step # "dropdelete"
    BY <1>6 DEF Proceeds, BeatRequests
  <2>2. Active(w) /\ writer[w].step \in {"run", "join", "dropped"}
    BY <2>1, BeatsAreActive
  <2>3. beat[w].since <= OpTime
    BY <1>2, <2>1 DEF OnTime
  <2>4. AgeFits(w, lock[1].age) /\ lock[1].age \in Nat => AgeFits(w, lock[1].age)'
    BY <1>0, <1>2, <1>3, <1>6, <2>2, <2>3 DEF Proceeds, Quiet, BeatTo, AgeFits
  <2>5. UNCHANGED lock /\ writer'[w] = writer[w] /\ beat'[w].answer = "none"
    BY <1>6 DEF Proceeds, Quiet, BeatTo
  <2> QED BY <1>4, <2>2, <2>4, <2>5
<1>7. CASE Renews(w)
  <2>1. beat[w].step \in BeatRequests /\ beat[w].step = "renew" /\ beat[w].answer # "none"
    BY <1>7 DEF Renews, BeatRequests
  <2>2. Active(w) /\ writer[w].step \in {"run", "join", "dropped"}
    BY <2>1, BeatsAreActive
  <2>3. beat[w].since <= OpTime
    BY <1>2, <2>1 DEF OnTime
  <2>4. UNCHANGED lock /\ writer'[w] = writer[w] /\ beat'[w].step = "wait" /\ beat'[w].due = 0
        /\ beat'[w].ticked = beat[w].ticked
    BY <1>7 DEF Renews, Quiet
  <2>5. AgeFits(w, lock[1].age) /\ lock[1].age \in Nat => AgeFits(w, lock[1].age)'
    <3> SUFFICES ASSUME AgeFits(w, lock[1].age), lock[1].age \in Nat
                 PROVE  AgeFits(w, lock[1].age)'
      OBVIOUS
    <3>1. lock[1].age <= OpTime
      BY <1>0, <1>3, <2>1, <2>2, <2>3 DEF AgeFits
    <3> QED BY <1>0, <1>2, <1>3, <2>2, <2>4, <3>1 DEF AgeFits
  <2> QED BY <1>4, <2>2, <2>4, <2>5
<1>8. CASE Fails(w)
  BY <1>0, <1>8 DEF Fails
<1>9. CASE Fences(w)
  <2>1. Active(w)
    BY <1>9, BeatsAreActive DEF Fences, BeatRequests
  <2> QED BY <1>0, <1>2, <1>9, <2>1 DEF Fences, KeepFits
<1>10. CASE Halts(w)
  <2>0. UNCHANGED lock /\ writer'[w] = writer[w] /\ beat'[w].step = "done"
    BY <1>10 DEF Halts, Quiet
  <2>1. CASE writer[w].step = "dropped"
    BY <2>0, <2>1, KeepsNothing DEF Active, Holds
  <2>2. CASE beat[w].step \in {"dropcheck", "dropdelete"} /\ writer[w].step # "dropped"
    BY <2>2, BeatsAreActive DEF BeatRequests
  <2>3. CASE beat[w].step = "wait" /\ writer[w].step \in Closed
    BY <2>0, <2>3, KeepsNothing DEF Active, Holds, Closed
  <2>4. CASE beat[w].step = "wait" /\ writer[w].step \in Closing
    <3>1. CASE Active(w)
      <4>1. AgeFits(w, lock[1].age) /\ lock[1].age \in Nat => AgeFits(w, lock[1].age)'
        BY <1>0, <1>2, <1>3, <2>0, <2>4 DEF AgeFits, Closing
      <4> QED BY <1>4, <2>0, <3>1, <4>1
    <3>2. CASE ~Active(w)
      BY <2>0, <2>4, <3>2, KeepsNothing DEF Active, Holds, Closing
    <3> QED BY <3>1, <3>2
  <2> QED BY <1>10, <2>1, <2>2, <2>3, <2>4 DEF Halts
<1>11. CASE BeatServes(w)
  <2>0. /\ writer'[w] = writer[w] /\ beat'[w].step = beat[w].step /\ beat'[w].since = beat[w].since
        /\ beat[w].step \in BeatRequests /\ beat[w].answer = "none"
        /\ (beat'[w].answer = "mine" /\ Owns(w)') \/ (beat'[w].answer = "other" /\ ~Owns(w)')
    BY <1>11 DEF BeatServes
  <2>1. Active(w) /\ writer[w].step \in {"run", "join", "dropped"}
        /\ (beat[w].step \in {"dropcheck", "dropdelete"} => writer[w].step = "dropped")
    BY <2>0, BeatsAreActive
  <2>2. CASE beat[w].step = "dropdelete"
    BY <2>0, <2>1, <2>2, KeepsNothing DEF Active, Holds
  <2>3. CASE beat[w].step \in {"check", "dropcheck"}
    <3>1. UNCHANGED lock /\ Owns(w)
      BY <1>2, <1>11, <2>1, <2>3 DEF BeatServes, KeepFits
    <3>2. Owns(w)'
      BY <3>1 DEF Owns
    <3>3. AgeFits(w, lock[1].age) => AgeFits(w, lock[1].age)'
      BY <1>2, <2>0, <2>1, <2>3, <3>1 DEF AgeFits
    <3> QED BY <1>4, <2>0, <2>1, <3>1, <3>2, <3>3
  <2>4. CASE beat[w].step = "renew"
    <3>1. lock' = Written(w, beat[w].since)
      BY <1>11, <2>4 DEF BeatServes
    <3>2. lock'[1].age <= beat[w].since /\ Owns(w)' /\ lock' # <<>>
      BY <1>3, <3>1, WrittenType DEF Owns
    <3>3. lock'[1].age \in Nat
      <4>1. (TypeInv /\ lock # <<>> => lock[1].age \in Nat)'
        BY LockAge, PTL
      <4> QED BY <3>2, <4>1 DEF TimeInv
    <3>4. AgeFits(w, lock[1].age)'
      BY <1>0, <1>2, <1>3, <2>0, <2>1, <2>4, <3>2, <3>3 DEF AgeFits
    <3> QED BY <2>0, <2>1, <2>4, <3>2, <3>4, KeepsIf
  <2> QED BY <2>0, <2>2, <2>3, <2>4 DEF BeatRequests
<1>12. CASE Lands(w)
  <2>1. writer[w].step = "dead"
    <3>1. writer[w].step \in Steps
      BY FieldTypes DEF TimeInv
    <3> QED BY <1>2, <1>12, <3>1
            DEF Lands, BeatFits, Late, Steps, Outside, Acquiring, Opening, Closing, Closed
  <2> QED BY <1>12, <2>1, KeepsNothing DEF Lands, Active, Holds
<1> QED BY <1>5, <1>6, <1>7, <1>8, <1>9, <1>10, <1>11, <1>12 DEF BeatShape

LEMMA OwnKeep ==
  ASSUME TimeInv, TimeInv', Calm, KeepInv, NEW w \in Writer, Moves(w)
  PROVE  KeepFits(w)'
<1>1. CASE CrashShape(w)
  BY <1>1, KeepsNothing DEF CrashShape, Active, Holds
<1> QED BY <1>1, OwnWrites, OwnBeats DEF Moves

LEMMA ElapseKeeps ==
  ASSUME TimeInv, TimeInv', Calm, KeepInv, ElapseShape, NEW w \in Writer
  PROVE  KeepFits(w)'
<1>0. /\ OpTime \in Nat /\ Settle \in Nat /\ OpenTime \in Nat /\ Tick \in Nat /\ Period \in Nat
      /\ FirstBeat \in Nat /\ Longest \in Nat /\ setting.paused = {}
  BY CalmFacts DEF TimeInv
<1>1. OpTime' = OpTime /\ FirstBeat' = FirstBeat /\ Longest' = Longest /\ Ages(lock, lock')
  BY SameSetting DEF ElapseShape, FirstBeat, Longest, NextBeat
<1>2. \A v \in Writer : Passes(v) /\ PassesInTime(v) /\ BeatFits(v)
  BY <1>0 DEF ElapseShape, TimeInv, BeatInv
<1>3. KeepFits(w)
  BY DEF KeepInv
<1>4. /\ writer[w].since \in Nat /\ beat[w].since \in Nat /\ beat[w].ticked \in Nat
      /\ beat[w].due \in Nat /\ beat[w].ticked <= Tick
  BY FieldTypes DEF TimeInv
<1>5. Owns(w)' = Owns(w)
  BY <1>1 DEF Ages, Owns
<1>6. Active(w)' = Active(w) /\ Holds(w)' = Holds(w)
  BY <1>2, <1>5 DEF Active, Holds, Passes
<1>8. ASSUME Holds(w) PROVE AgeFits(w, lock[1].age)'
  <2>1. Owns(w) /\ AgeFits(w, lock[1].age)
    BY <1>3, <1>8 DEF KeepFits, Holds
  <2>2. lock'[1].age <= lock[1].age + 1 /\ lock[1].age \in Nat
    BY <1>1, <2>1, LockFacts DEF Ages, Owns, TimeInv
  <2>3. lock'[1].age \in Nat
    <3>1. (TypeInv /\ lock # <<>> => lock[1].age \in Nat)'
      BY LockAge, PTL
    <3>2. lock' # <<>>
      BY <1>1, <2>1 DEF Ages, Owns
    <3> QED BY <3>1, <3>2 DEF TimeInv
  <2>4. Passes(w) /\ PassesInTime(w) /\ BeatFits(w)
    BY <1>2
  <2>5. CASE writer[w].step \in {"claim", "settle", "readback", "open", "undo", "undelete", "release",
                                  "delete"}
    <3>1. writer'[w].since = writer[w].since + 1
      BY <2>4, <2>5 DEF PassesInTime, Timed, Requests
    <3> QED BY <1>0, <1>1, <1>4, <2>1, <2>2, <2>3, <2>4, <2>5, <3>1 DEF AgeFits, Passes
  <2>6. CASE writer[w].step \in {"run", "join", "dropped"}
    <3>1. beat[w].step \in BeatRequests => beat'[w].since = beat[w].since + 1
      BY <2>4 DEF PassesInTime
    <3>2. /\ beat[w].step # "done" /\ writer[w].step = "join" => beat[w].step # "wait"
          /\ beat[w].step = "wait" => beat'[w].ticked = beat[w].ticked + 1 /\ beat[w].ticked < Tick
      BY <2>4, <2>6 DEF PassesInTime, Closing
    <3>3. beat[w].step # "done"
      BY <1>8, <2>4, <2>6 DEF PassesInTime, BeatFits, Holds, Active
    <3>4. beat[w].step \in BeatRequests => AgeFits(w, lock[1].age)'
      BY <1>0, <1>1, <1>4, <2>1, <2>2, <2>3, <2>4, <2>6, <3>1 DEF AgeFits, Passes, BeatRequests
    <3>5. beat[w].step = "wait" => AgeFits(w, lock[1].age)'
      <4>1. CASE beat[w].step = "wait" /\ beat[w].due < Period
        <5>1. lock[1].age <= OpTime + beat[w].due + beat[w].ticked
          BY <2>1, <2>6, <3>2, <4>1 DEF AgeFits
        <5>2. OpTime + Period <= Longest
          BY CalmFacts DEF TimeInv
        <5>3. /\ beat'[w].step = "wait" /\ writer'[w].step = writer[w].step
              /\ beat'[w].due = beat[w].due /\ beat'[w].ticked = beat[w].ticked + 1
          BY <2>4, <3>2, <4>1 DEF Passes
        <5> QED BY <1>0, <1>1, <1>4, <2>2, <2>3, <2>6, <3>2, <4>1, <5>1, <5>2, <5>3 DEF AgeFits
      <4>2. CASE beat[w].step = "wait" /\ ~(beat[w].due < Period)
        <5>1. lock[1].age <= Longest + beat[w].ticked
          BY <2>1, <2>6, <3>2, <4>2 DEF AgeFits
        <5>2. /\ beat'[w].step = "wait" /\ writer'[w].step = writer[w].step
              /\ beat'[w].due = beat[w].due /\ beat'[w].ticked = beat[w].ticked + 1
          BY <2>4, <3>2, <4>2 DEF Passes
        <5> QED BY <1>0, <1>1, <1>4, <2>2, <2>3, <2>6, <3>2, <4>2, <5>1, <5>2 DEF AgeFits
      <4> QED BY <4>1, <4>2
    <3>6. beat[w].step \in BeatRequests \cup {"wait"}
      BY <1>8, <2>4, <2>6, <3>3, FieldTypes
         DEF BeatFits, BeatRequests, BeatSteps, Late, Closing, TimeInv
    <3> QED BY <3>4, <3>5, <3>6
  <2> QED BY <1>8, <2>5, <2>6 DEF Holds, Active
\* The others grow older too.
<1>9. ASSUME NEW v \in Writer
      PROVE  /\ Claims(v)' = Claims(v) /\ Looked(v)' = Looked(v) /\ beat'[v].step = beat[v].step
             /\ writer[v].since \in Nat /\ beat[v].since \in Nat
             /\ Claims(v) \/ Looked(v) => writer'[v].since = writer[v].since + 1
             /\ beat[v].step \in Late => beat'[v].since = beat[v].since + 1
             /\ Looked(v) /\ SafeLook(v, w) => SafeLook(v, w)'
  <2>1. Passes(v) /\ PassesInTime(v) /\ Ages(seen[v], seen'[v])
    BY <1>2 DEF ElapseShape
  <2>2. writer[v].since \in Nat /\ beat[v].since \in Nat
    BY FieldTypes DEF TimeInv
  <2>3. Claims(v)' = Claims(v) /\ Looked(v)' = Looked(v) /\ beat'[v].step = beat[v].step
    BY <2>1 DEF Claims, Looked, Passes
  <2>4. /\ Claims(v) \/ Looked(v) => writer'[v].since = writer[v].since + 1
        /\ beat[v].step \in Late => beat'[v].since = beat[v].since + 1
    BY <2>1 DEF Claims, Looked, PassesInTime, Timed, Requests
  <2>5. ASSUME Looked(v), SafeLook(v, w) PROVE SafeLook(v, w)'
    <3>1. /\ seen[v] # <<>> /\ seen[v][1].holder = w /\ seen[v][1].age \in Nat
          /\ seen[v][1].age <= Longest + Tick + 2 * OpTime + writer[v].since
      BY <2>5, ObjectFacts DEF SafeLook, TimeInv, TypeInv
    <3>2. seen'[v] # <<>> /\ seen'[v][1].holder = w /\ seen'[v][1].age <= seen[v][1].age + 1
      BY <2>1, <3>1 DEF Ages
    <3>3. seen'[v][1].age \in Nat
      <4>1. (TypeInv => AgesInv)'
        BY AgesAreNumbers, PTL
      <4> QED BY <3>2, <4>1 DEF TimeInv, AgesInv
    <3> HIDE DEF Longest, OpTime
    <3> QED BY <1>0, <1>1, <2>2, <2>4, <2>5, <3>1, <3>2, <3>3 DEF SafeLook
  <2> QED BY <2>2, <2>3, <2>4, <2>5
<1>10. writer'[w].step = writer[w].step /\ beat'[w].step = beat[w].step /\ beat'[w].answer = beat[w].answer
  BY <1>2 DEF Passes
<1>11. Alone(w) => Alone(w)'
  BY <1>9 DEF Alone
<1>12. ASSUME writer[w].step = "settle", Settling(w) PROVE Settling(w)'
  <2>1. writer'[w].since = writer[w].since + 1
    BY <1>2, <1>12 DEF PassesInTime, Timed
  <2>2. ASSUME NEW v \in Writer
        PROVE  /\ Claims(v)' => writer'[w].since <= OpTime' + writer'[v].since
               /\ beat'[v].step \in Late => writer'[w].since <= OpTime' + beat'[v].since
               /\ Looked(v)' => SafeLook(v, w)' \/ writer'[w].since <= writer'[v].since
    BY <1>0, <1>1, <1>4, <1>9, <1>12, <2>1 DEF Settling
  <2> QED BY <2>2 DEF Settling
<1> QED BY <1>3, <1>5, <1>6, <1>8, <1>10, <1>11, <1>12 DEF KeepFits

LEMMA CalmBefore == NextShape /\ TypeInv /\ Calm' => Calm /\ ~OperatorDeletes
<1> SUFFICES ASSUME NextShape, TypeInv, Calm' PROVE Calm /\ ~OperatorDeletes
  OBVIOUS
<1>1. ~OperatorDeletes
  BY DEF OperatorDeletes, Calm
<1>2. UNCHANGED <<setting, forced>>
  BY <1>1, MovesAlone DEF NextShape, ElapseShape, vars
<1>3. /\ OpTime' = OpTime /\ Reliable' = Reliable /\ Timely' = Timely
      /\ LeaseDwarfsTheRest' = LeaseDwarfsTheRest
  BY <1>2, SameSetting
<1>4. Timely' /\ Reliable' /\ 2 * OpTime' < Settle /\ LeaseDwarfsTheRest' /\ ~forced'
  BY DEF Calm
<1>5. Timely /\ Reliable /\ 2 * OpTime < Settle /\ LeaseDwarfsTheRest /\ ~forced
  BY <1>2, <1>3, <1>4, Zenon
<1> QED BY <1>1, <1>5, Zenon DEF Calm

LEMMA KeepKept ==
  ASSUME TimeInv, TimeInv', KeepInv, NextShape
  PROVE  KeepInv'
<1> SUFFICES ASSUME Calm', NEW u \in Writer PROVE KeepFits(u)'
  BY DEF KeepInv
<1>1. Calm /\ ~OperatorDeletes
  BY CalmBefore DEF TimeInv
<1>2. ASSUME NEW w \in Writer, Moves(w) PROVE KeepFits(u)'
  BY <1>1, <1>2, OthersKeep, OwnKeep
<1>3. CASE ElapseShape
  BY <1>1, <1>3, ElapseKeeps
<1>4. CASE UNCHANGED vars
  <2>1. KeepFits(u) /\ UNCHANGED <<setting, lock, writer, beat, seen, lost, forced>>
    BY <1>1, <1>4 DEF KeepInv, vars
  <2>2. OpTime' = OpTime /\ FirstBeat' = FirstBeat /\ Longest' = Longest
    BY <2>1, SameSetting DEF FirstBeat, Longest, NextBeat
  <2> QED BY <2>1, <2>2 DEF KeepFits, Active, Holds, Owns, AgeFits, Alone, Settling, Claims,
          Looked, SafeLook
<1> QED BY <1>1, <1>2, <1>3, <1>4 DEF NextShape

\* The lock is deleted by force only where an operator may.
ForceInv == forced => "force" \in setting.faults

\* The inductive invariant.
LeaseInv == TimeInv /\ LossInv /\ KeepInv /\ ForceInv

LEMMA InitLeaseInv == Init => LeaseInv
<1> SUFFICES ASSUME Init PROVE LeaseInv
  OBVIOUS
<1>1. \A w \in Writer : writer[w] = NewWriter /\ lock = <<>> /\ ~forced
  BY DEF Init
<1>2. \A w \in Writer : KeepFits(w)
  BY <1>1 DEF NewWriter, KeepFits, Active, Holds, Owns
<1> QED BY <1>1, <1>2, InitTimeInv, InitLossInv DEF LeaseInv, KeepInv, ForceInv, Init

LEMMA NextLeaseInv == LeaseInv /\ [Next]_vars => LeaseInv'
<1> SUFFICES ASSUME LeaseInv, [Next]_vars PROVE LeaseInv'
  OBVIOUS
<1>1. TimeInv' /\ NextShape /\ TypeInv'
  BY NextTimeInv, NextTypeInv DEF LeaseInv, TimeInv
<1>2. LossInv' /\ KeepInv'
  BY <1>1, LossKept, KeepKept DEF LeaseInv
<1>3. ForceInv'
  <2>1. CASE OperatorDeletes
    BY <2>1 DEF OperatorDeletes, ForceInv
  <2>2. CASE ~OperatorDeletes
    <3>1. UNCHANGED <<setting, forced>>
      BY <1>1, <2>2, MovesAlone DEF NextShape, ElapseShape, vars, LeaseInv, TimeInv
    <3> QED BY <3>1 DEF LeaseInv, ForceInv
  <2> QED BY <2>1, <2>2
<1> QED BY <1>1, <1>2, <1>3 DEF LeaseInv

LEMMA LeaseHolds == Spec => []LeaseInv
BY InitLeaseInv, NextLeaseInv, PTL DEF Spec

(***************************************************************************)
(* "At most one live process per (table, writer_id)", of any number of     *)
(* writers on any machines: while no process pauses, two requests fit into *)
(* the settle delay and the lease dwarfs what happens between two stamps,  *)
(* no two writers work under the lease at once.                            *)
(***************************************************************************)
THEOREM MutualExclusion == Spec => []AtMostOneWriter
<1>1. LeaseInv => AtMostOneWriter
  <2> SUFFICES ASSUME LeaseInv, Timely, Reliable, setting.faults \subseteq {"crash"},
                      2 * OpTime < Settle, LeaseDwarfsTheRest
               PROVE  Cardinality({w \in Writer : Holding(w)}) <= 1
    BY DEF AtMostOneWriter
  <2>1. Calm /\ KeepInv
    BY DEF Calm, LeaseInv, ForceInv
  <2>2. \A u, w \in Writer : Holding(u) /\ Holding(w) => u = w
    BY <2>1, OneActive DEF Holding, Active
  <2> DEFINE S == {w \in Writer : Holding(w)}
  <2>3. CASE S = {}
    BY <2>3, FS_EmptySet
  <2>4. CASE S # {}
    <3>1. PICK w \in Writer : Holding(w)
      BY <2>4
    <3>2. S = {w}
      BY <2>2, <3>1
    <3>3. Cardinality({w}) = 1
      BY FS_Singleton
    <3> HIDE DEF S
    <3>4. Cardinality(S) <= 1
      BY <3>2, <3>3
    <3> QED BY <3>4 DEF S
  <2> QED BY <2>3, <2>4
<1> QED BY <1>1, LeaseHolds, PTL

(***************************************************************************)
(* A writer that runs loses the lock to the operator only: its renewals    *)
(* outpace every reader's clock, and no rival's claim, no predecessor's    *)
(* release and no decision taken on an older look is still on its way when *)
(* it starts.                                                              *)
(***************************************************************************)
THEOREM RunnersKeepTheLock == Spec => RunningKeepsTheLock
<1>1. ASSUME LeaseInv, [Next]_vars, NEW w \in Writer, Timely, Reliable, 2 * OpTime < Settle,
             LeaseDwarfsTheRest, At(w, "run"), Owns(w), ~Owns(w)'
      PROVE  forced'
  <2> SUFFICES ASSUME ~forced' PROVE FALSE
    OBVIOUS
  <2>1. NextShape /\ TypeInv
    BY <1>1, NextTypeInv DEF LeaseInv, TimeInv
  <2>2. ~OperatorDeletes
    BY DEF OperatorDeletes
  <2>3. forced' = forced
    BY <2>1, <2>2, MovesAlone DEF NextShape, ElapseShape, vars
  <2>4. Calm /\ Active(w) /\ writer[w].step = "run" /\ TimeInv /\ KeepInv
    BY <1>1, <2>3 DEF Calm, Active, At, LeaseInv
  <2>5. ASSUME NEW v \in Writer, Moves(v), v # w PROVE FALSE
    <3>1. lock' = lock
      BY <2>4, <2>5, LockKept
    <3> QED BY <1>1, <3>1 DEF Owns
  <2>6. ASSUME Moves(w) PROVE FALSE
    <3>0. beat[w].step \in {"wait", "check", "renew"} /\ beat[w].since \in Nat
      BY <2>4, SinceType DEF TimeInv, BeatInv, BeatFits
    <3>1. lock' = lock \/ lock' = Written(w, beat[w].since)
      <4>1. CASE WriterShape(w)
        BY <2>4, <4>1 DEF WriterShape, Walks, Opens, Serves, Requests
      <4>2. CASE BeatShape(w)
        BY <3>0, <4>2
           DEF BeatShape, Ticks, Proceeds, Renews, Fails, Fences, Halts, Quiet, BeatServes,
               BeatRequests, Lands, Late
      <4>3. CASE CrashShape(w)
        BY <4>3 DEF CrashShape, Quiet
      <4> QED BY <2>6, <4>1, <4>2, <4>3 DEF Moves
    <3> QED BY <1>1, <3>0, <3>1, WrittenType DEF Owns
  <2>7. CASE ElapseShape
    BY <1>1, <2>7 DEF ElapseShape, Ages, Owns
  <2>8. CASE UNCHANGED vars
    BY <1>1, <2>8 DEF vars, Owns
  <2> QED BY <2>1, <2>2, <2>5, <2>6, <2>7, <2>8 DEF NextShape
<1>2. LeaseInv /\ [Next]_vars =>
        [\A w \in Writer :
           /\ Timely /\ Reliable /\ 2 * OpTime < Settle /\ LeaseDwarfsTheRest
           /\ At(w, "run") /\ Owns(w) /\ ~Owns(w)'
           => forced']_vars
  BY <1>1
<1> QED BY <1>2, LeaseHolds, PTL DEF Spec, RunningKeepsTheLock
=============================================================================
