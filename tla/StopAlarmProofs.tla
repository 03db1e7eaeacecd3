-------------------------- MODULE StopAlarmProofs --------------------------
(***************************************************************************)
(* Theorems about StopAlarm, with and without a gzip stage.                *)
(*                                                                         *)
(* First, a writer pages at most once per state.  What makes it true is    *)
(* the fetch_min: the rank a task lowers alarm_raised to is below every    *)
(* rank that has a line or is about to get one, so the tasks between       *)
(* fetch_min and the line hold distinct ranks.                             *)
(***************************************************************************)
EXTENDS StopAlarm, TLAPS

PageTypeOK ==
  /\ alarm_raised \in Int
  /\ lines \in Seq(Int)
  /\ cause \in [Tasks -> Int]
  /\ DOMAIN at = Tasks

\* The ranks that have a line or are about to get one are not below alarm_raised.
NoneBelow ==
  /\ \A i \in 1..Len(lines) : alarm_raised <= lines[i]
  /\ \A t \in Tasks : at[t] = "emit" => alarm_raised <= cause[t]

\* A task about to emit is the only one with its rank.
OwnRank ==
  \A t \in Tasks : at[t] = "emit" =>
    /\ \A i \in 1..Len(lines) : lines[i] # cause[t]
    /\ \A u \in Tasks : at[u] = "emit" /\ u # t => cause[u] # cause[t]

PageInv == PageTypeOK /\ NoneBelow /\ OwnRank /\ PagesOncePerState

LEMMA RanksAreIntegers == \A state : fatal_priority(state) \in Int
  BY DEF fatal_priority

LEMMA PageInvInit == Init => PageInv
  BY DEF Init, PageInv, PageTypeOK, NoneBelow, OwnRank, PagesOncePerState, NotRaised

(***************************************************************************)
(* Most steps move a task that is not about to emit, or none, and leave    *)
(* rank and lines alone.                                                   *)
(***************************************************************************)
Elsewhere ==
  /\ UNCHANGED <<alarm_raised, lines>>
  /\ DOMAIN at' = Tasks /\ cause' \in [Tasks -> Int]
  /\ \A t \in Tasks : at'[t] = "emit" => at[t] = "emit" /\ cause'[t] = cause[t]

LEMMA ElsewhereKeepsInv == ASSUME PageInv, Elsewhere PROVE PageInv'
  BY DEF PageInv, PageTypeOK, NoneBelow, OwnRank, PagesOncePerState, Elsewhere

LEMMA FatalStateIsElsewhere ==
  ASSUME PageInv, NEW t \in Tasks, fatal_state(t) PROVE Elsewhere
  <1> USE DEF PageInv, PageTypeOK, Elsewhere, Go
  <1>1. CASE ReadFlag(t, "readOrder", order_fatal, "order", "readFenced")
    BY <1>1, RanksAreIntegers DEF ReadFlag, Found
  <1>2. CASE ReadFlag(t, "readFenced", fenced, "fenced", "readViolation")
    BY <1>2, RanksAreIntegers DEF ReadFlag, Found
  <1>3. CASE ReadFlag(t, "readViolation", violation, "violation", "readProgress")
    BY <1>3, RanksAreIntegers DEF ReadFlag, Found
  <1>4. CASE ReadProgress(t)
    BY <1>4, RanksAreIntegers DEF ReadProgress, Found
  <1> QED
    BY <1>1, <1>2, <1>3, <1>4 DEF fatal_state

\* fetch_min lowers the rank below every other.
LEMMA LowerKeepsInv == ASSUME PageInv, NEW t \in Tasks, Lower(t) PROVE PageInv'
  <1> USE DEF PageInv, PageTypeOK
  <1>1. CASE cause[t] < alarm_raised
    <2>1. alarm_raised' = cause[t] /\ at' = [at EXCEPT ![t] = "emit"] /\ UNCHANGED <<lines, cause>>
      BY <1>1 DEF Lower, Go
    <2>2. \A i \in 1..Len(lines) : lines[i] \in Int
      OBVIOUS
    <2>3. NoneBelow'
      BY <1>1, <2>1, <2>2 DEF NoneBelow
    <2>4. OwnRank'
      BY <1>1, <2>1, <2>2 DEF NoneBelow, OwnRank
    <2> QED
      BY <2>1, <2>3, <2>4 DEF PagesOncePerState
  <1>2. CASE ~(cause[t] < alarm_raised)
    <2>1. Elsewhere
      BY <1>2 DEF Lower, Return, Go, Elsewhere, NotRaised
    <2> QED
      BY <2>1, ElsewhereKeepsInv
  <1> QED
    BY <1>1, <1>2

\* The line takes over the rank of the task that emits it.
LEMMA EmitKeepsInv == ASSUME PageInv, NEW t \in Tasks, stream_stopped(t) PROVE PageInv'
  <1> USE DEF PageInv, PageTypeOK
  <1>1. /\ at[t] = "emit" /\ lines' = Append(lines, cause[t])
        /\ at' = [at EXCEPT ![t] = "ended"] /\ cause' = [cause EXCEPT ![t] = NotRaised]
        /\ alarm_raised' = alarm_raised
    BY DEF stream_stopped, Return, Go
  <1>2. /\ Len(lines') = Len(lines) + 1
        /\ \A i \in 1..Len(lines) : lines'[i] = lines[i] /\ lines[i] \in Int
        /\ lines'[Len(lines) + 1] = cause[t]
    BY <1>1
  <1>3. PageTypeOK'
    BY <1>1 DEF NotRaised
  <1>4. \A u \in Tasks : at'[u] = "emit" => u # t /\ at[u] = "emit" /\ cause'[u] = cause[u]
    BY <1>1
  <1>5. NoneBelow'
    BY <1>1, <1>2, <1>4 DEF NoneBelow
  <1>6. OwnRank'
    BY <1>1, <1>2, <1>4 DEF OwnRank
  <1>7. PagesOncePerState'
    BY <1>1, <1>2 DEF OwnRank, PagesOncePerState
  <1> QED
    BY <1>3, <1>5, <1>6, <1>7

\* The steps of the stages, the heartbeat, the callers and the notify loop.
LEMMA WorkIsElsewhere ==
  ASSUME PageInv,
         \/ \E s \in Stages : StageStep(s)
         \/ fence \/ trip_order_fatal \/ PublishTrip \/ pipeline_gone \/ ParkViolation
  PROVE  Elsewhere
  <1> USE DEF PageInv, PageTypeOK, Elsewhere, Go, Tasks
  <1>1. ASSUME NEW s \in Stages, StageStep(s) PROVE Elsewhere
    <2>1. CASE fenced_exit(s)
      BY <2>1 DEF fenced_exit
    <2>2. CASE report_failure(s)
      BY <2>2 DEF report_failure
    <2>3. CASE PublishRotation(s)
      BY <2>3 DEF PublishRotation
    <2>4. CASE clear_failure(s)
      BY <2>4 DEF clear_failure
    <2>5. CASE SendFails(s)
      BY <2>5 DEF SendFails
    <2> QED
      BY <1>1, <2>1, <2>2, <2>3, <2>4, <2>5 DEF StageStep
  <1>2. CASE fence
    BY <1>2 DEF fence
  <1>3. CASE trip_order_fatal
    BY <1>3 DEF trip_order_fatal
  <1>4. CASE PublishTrip
    BY <1>4 DEF PublishTrip
  <1>5. CASE pipeline_gone
    BY <1>5 DEF pipeline_gone
  <1>6. CASE ParkViolation
    BY <1>6 DEF ParkViolation
  <1> QED
    BY <1>1, <1>2, <1>3, <1>4, <1>5, <1>6

LEMMA TickIsElsewhere == ASSUME PageInv, Tick PROVE Elsewhere
  <1> USE DEF PageInv, PageTypeOK, Elsewhere, Go
  <1>1. CASE TickerLooks("sleep", fenced, "tickOrder")
    BY <1>1 DEF TickerLooks
  <1>2. CASE TickerLooks("tickOrder", order_fatal, "tickViolation")
    BY <1>2 DEF TickerLooks
  <1>3. CASE TickerFindsViolation
    BY <1>3 DEF TickerFindsViolation
  <1> QED
    BY <1>1, <1>2, <1>3 DEF Tick

LEMMA PageInvNext == PageInv /\ [Next]_vars => PageInv'
  <1> SUFFICES ASSUME PageInv, [Next]_vars PROVE PageInv'
    OBVIOUS
  <1>1. ASSUME NEW t \in Tasks, raise_stream_stopped(t) PROVE PageInv'
    BY <1>1, FatalStateIsElsewhere, ElsewhereKeepsInv, LowerKeepsInv, EmitKeepsInv
       DEF raise_stream_stopped
  <1>2. CASE \/ \E s \in Stages : StageStep(s)
             \/ fence \/ trip_order_fatal \/ PublishTrip \/ pipeline_gone \/ ParkViolation
    BY <1>2, WorkIsElsewhere, ElsewhereKeepsInv
  <1>3. CASE Tick
    BY <1>3, TickIsElsewhere, ElsewhereKeepsInv
  <1>4. CASE UNCHANGED vars
    BY <1>4, ElsewhereKeepsInv DEF vars, Elsewhere, PageInv, PageTypeOK
  <1> QED
    BY <1>1, <1>2, <1>3, <1>4 DEF Next

(***************************************************************************)
(* raise_stream_stopped: a state gets at most one line, whatever the tasks *)
(* find and in whatever order they run.                                    *)
(***************************************************************************)
THEOREM OneLinePerState == Spec => []PagesOncePerState
  <1>1. PageInv => PagesOncePerState
    BY DEF PageInv
  <1> QED
    BY <1>1, PageInvInit, PageInvNext, PTL DEF Spec

-----------------------------------------------------------------------------
(***************************************************************************)
(* Second, the alarm names the most urgent state, and fatal_error() agrees *)
(* with every line.                                                        *)
(***************************************************************************)
Reading == {"readOrder", "readFenced", "readViolation", "readProgress"}
Raising == Reading \cup {"lower", "emit"}

UrgentTypeOK ==
  /\ order_fatal \in BOOLEAN /\ fenced \in BOOLEAN /\ violation \in BOOLEAN
  /\ failing \in [kind : Failing \cup {"none"}, stage : Stages]
  /\ alarm_raised \in 0..4
  /\ lines \in Seq(0..4)
  /\ cause \in [Tasks -> 0..4]
  /\ DOMAIN at = Tasks
  /\ \A t \in Tasks : at[t] \in {"lower", "emit"} => cause[t] < 4

(***************************************************************************)
(* Who still owes the line of a state: the task that set it, until it has  *)
(* lowered the rank, and whoever has lowered it, until the line is out.    *)
(***************************************************************************)
LineOwed ==
  alarm_raised < 4 =>
    \/ \E i \in 1..Len(lines) : lines[i] = alarm_raised
    \/ \E t \in Tasks : at[t] = "emit" /\ cause[t] = alarm_raised

OrderOwed ==
  order_fatal =>
    \/ alarm_raised = 0
    \/ at["put"] \in {"trip", "readOrder"}
    \/ at["put"] = "lower" /\ cause["put"] = 0

FenceOwed ==
  fenced =>
    \/ alarm_raised <= 1
    \/ at["heartbeat"] \in {"readOrder", "readFenced"}
    \/ at["heartbeat"] = "lower" /\ cause["heartbeat"] <= 1

RotationOwed ==
  failing.kind = "Rotation" =>
    \/ alarm_raised < 4
    \/ \E s \in Stages : at[s] \in Reading \cup {"lower"}

Owed == LineOwed /\ OrderOwed /\ FenceOwed /\ RotationOwed

(***************************************************************************)
(* Nobody raises the alarm without a state that is there to stay: a stage  *)
(* has published a terminal one before, and so never leaves a gone         *)
(* pipeline unexplained.                                                   *)
(***************************************************************************)
Explained ==
  /\ failing.kind # "PipelineGone"
  /\ failing.kind = "Fenced" => fenced
  /\ failing.kind = "OrderViolation" => order_fatal

Founded ==
  /\ \A s \in Stages : at[s] \in Raising \cup {"ended"} => failing.kind \in Terminal
  /\ at["put"] = "trip" => order_fatal
  /\ at["heartbeat"] \in Raising \cup {"ended"} => fenced
  /\ at["ticker"] \in Raising => violation

\* What a task has found, and what has a line, is what fatal_error() reports
\* or less urgent.
Truthful ==
  /\ \A t \in Tasks : at[t] \in {"lower", "emit"} => Reported <= cause[t]
  /\ \A i \in 1..Len(lines) : Reported <= lines[i]
  /\ lines # << >> => order_fatal \/ fenced \/ violation \/ failing.kind = "Rotation"

UrgentInv == UrgentTypeOK /\ Owed /\ Explained /\ Founded /\ Truthful

LEMMA TasksAre ==
  /\ "put" \in Stages /\ "render" \in Stages /\ "put" \in Tasks
  /\ "heartbeat" \in Tasks /\ "ticker" \in Tasks /\ Stages \subseteq Tasks
  /\ "heartbeat" \notin Stages /\ "ticker" \notin Stages
  /\ \A t \in Tasks : t \in Stages \/ t = "heartbeat" \/ t = "ticker"
  BY DEF Stages, Tasks

LEMMA UrgentInvInit == Init => UrgentInv
  <1> SUFFICES ASSUME Init PROVE UrgentInv
    OBVIOUS
  <1>1. UrgentTypeOK
    <2>1. failing \in [kind : Failing \cup {"none"}, stage : Stages]
      BY TasksAre DEF Init, NotFailing
    <2>2. lines \in Seq(0..4)
      BY DEF Init
    <2>3. DOMAIN at = Tasks /\ \A t \in Tasks : at[t] \in {"works", "sleep"}
      BY DEF Init
    <2>4. cause \in [Tasks -> 0..4] /\ alarm_raised \in 0..4
      BY DEF Init, NotRaised
    <2> QED
      BY <2>1, <2>2, <2>3, <2>4 DEF Init, UrgentTypeOK
  <1>2. Owed /\ Explained
    BY DEF Init, Owed, LineOwed, OrderOwed, FenceOwed, RotationOwed, Explained, NotRaised,
           NotFailing
  <1>3. Founded
    BY TasksAre DEF Init, Founded, Raising, Reading
  <1>4. Truthful
    BY DEF Init, Truthful
  <1> QED
    BY <1>1, <1>2, <1>3, <1>4 DEF UrgentInv

(***************************************************************************)
(* A state that is set stays set, so what fatal_error() reports gets no    *)
(* less urgent once somebody raises the alarm.                             *)
(***************************************************************************)
Lasting ==
  /\ (order_fatal => order_fatal') /\ (fenced => fenced') /\ (violation => violation')
  /\ failing.kind \in Terminal => failing' = failing

Settled == order_fatal \/ fenced \/ violation \/ failing.kind = "Rotation"

LEMMA RaisingIsSettled ==
  ASSUME UrgentInv, NEW t \in Tasks, at[t] \in Raising PROVE Settled
  BY TasksAre DEF UrgentInv, UrgentTypeOK, Founded, Explained, Settled, Terminal

LEMMA ReportedLasts == ASSUME UrgentTypeOK, UrgentTypeOK', Lasting, Settled
                       PROVE  Settled' /\ Reported' <= Reported
  BY DEF UrgentTypeOK, Lasting, Settled, Reported, NotRaised, Terminal

(***************************************************************************)
(* Most steps move one task, outside the two steps in which it holds a     *)
(* rank: nothing is announced and nothing is found.                        *)
(***************************************************************************)
Quiet ==
  /\ Lasting
  /\ UNCHANGED <<alarm_raised, lines, cause>>
  /\ \A t \in Tasks : (at[t] = "emit" <=> at'[t] = "emit") /\ (at[t] = "lower" <=> at'[t] = "lower")

LEMMA QuietKeepsLines ==
  ASSUME UrgentInv, UrgentTypeOK', Quiet PROVE LineOwed' /\ Truthful'
  <1>1. LineOwed'
    BY DEF UrgentInv, Owed, LineOwed, Quiet
  <1>2. ASSUME NEW t \in Tasks, at'[t] \in {"lower", "emit"} PROVE Reported' <= cause'[t]
    <2>1. at[t] \in {"lower", "emit"} /\ cause'[t] = cause[t] /\ Reported <= cause[t]
      BY <1>2 DEF UrgentInv, Truthful, Quiet
    <2>2. Reported' <= Reported
      BY <2>1, RaisingIsSettled, ReportedLasts DEF Raising, UrgentInv, Quiet
    <2> QED
      BY <2>1, <2>2 DEF UrgentInv, UrgentTypeOK, Reported, NotRaised
  <1>3. CASE lines = << >>
    BY <1>1, <1>2, <1>3 DEF Truthful, Quiet
  <1>4. CASE lines # << >>
    <2>1. Settled
      BY <1>4 DEF UrgentInv, Truthful, Settled
    <2>2. Settled' /\ Reported' <= Reported
      BY <2>1, ReportedLasts DEF UrgentInv, Quiet
    <2>3. \A i \in 1..Len(lines') : Reported' <= lines'[i]
      BY <2>2 DEF UrgentInv, UrgentTypeOK, Truthful, Quiet, Reported, NotRaised
    <2> QED
      BY <1>1, <1>2, <2>2, <2>3 DEF Truthful, Settled
  <1> QED
    BY <1>3, <1>4

LEMMA QuietKeepsInv ==
  ASSUME UrgentInv, UrgentTypeOK', Quiet,
         OrderOwed', FenceOwed', RotationOwed', Explained', Founded'
  PROVE  UrgentInv'
  BY QuietKeepsLines DEF UrgentInv, Owed

\* The steps of a stage: each publishes, or has nothing to raise.
LEMMA StageStepKeepsInv ==
  ASSUME UrgentInv, NEW s \in Stages, StageStep(s) PROVE UrgentInv'
  <1> USE TasksAre DEF UrgentInv, UrgentTypeOK, flags, Go
  <1>1. CASE fenced_exit(s)
    <2> USE <1>1 DEF fenced_exit, publish_terminal
    <2>1. Quiet /\ UrgentTypeOK'
      BY DEF Quiet, Lasting, Terminal, Failing
    <2>2. OrderOwed' /\ FenceOwed' /\ RotationOwed'
      BY DEF Owed, OrderOwed, FenceOwed, RotationOwed, Reading
    <2>3. Explained' /\ Founded'
      BY DEF Explained, Founded, Raising, Reading, Terminal
    <2> QED
      BY <2>1, <2>2, <2>3, QuietKeepsInv
  <1>2. CASE report_failure(s)
    <2> USE <1>2 DEF report_failure
    <2>1. Quiet /\ UrgentTypeOK'
      BY DEF Quiet, Lasting, Terminal, Failing
    <2>2. OrderOwed' /\ FenceOwed' /\ RotationOwed'
      BY DEF Owed, OrderOwed, FenceOwed, RotationOwed, Reading
    <2>3. Explained' /\ Founded'
      BY DEF Explained, Founded, Raising, Reading, Terminal
    <2> QED
      BY <2>1, <2>2, <2>3, QuietKeepsInv
  <1>3. CASE PublishRotation(s)
    <2> USE <1>3 DEF PublishRotation, publish_terminal
    <2>1. Quiet /\ UrgentTypeOK'
      BY DEF Quiet, Lasting, Terminal, Failing
    <2>2. OrderOwed' /\ FenceOwed' /\ RotationOwed'
      BY DEF Owed, OrderOwed, FenceOwed, RotationOwed, Reading
    <2>3. Explained' /\ Founded'
      BY DEF Explained, Founded, Raising, Reading, Terminal
    <2> QED
      BY <2>1, <2>2, <2>3, QuietKeepsInv
  <1>4. CASE clear_failure(s)
    <2> USE <1>4 DEF clear_failure, NotFailing
    <2>1. Quiet /\ UrgentTypeOK'
      BY DEF Quiet, Lasting, Terminal, Failing
    <2>2. OrderOwed' /\ FenceOwed' /\ RotationOwed'
      BY DEF Owed, OrderOwed, FenceOwed, RotationOwed, Reading
    <2>3. Explained' /\ Founded'
      BY DEF Explained, Founded, Raising, Reading, Terminal
    <2> QED
      BY <2>1, <2>2, <2>3, QuietKeepsInv
  <1>5. CASE SendFails(s)
    <2> USE <1>5 DEF SendFails
    <2>1. Quiet /\ UrgentTypeOK'
      BY DEF Quiet, Lasting, Terminal, Failing
    <2>2. OrderOwed' /\ FenceOwed' /\ RotationOwed'
      BY DEF Owed, OrderOwed, FenceOwed, RotationOwed, Reading
    <2>3. Explained' /\ Founded'
      BY DEF Explained, Founded, Raising, Reading, Terminal
    <2> QED
      BY <2>1, <2>2, <2>3, QuietKeepsInv
  <1> QED
    BY <1>1, <1>2, <1>3, <1>4, <1>5 DEF StageStep

\* The heartbeat, the tripwire, a caller and the notify loop.
LEMMA OtherStepKeepsInv ==
  ASSUME UrgentInv, fence \/ trip_order_fatal \/ PublishTrip \/ pipeline_gone \/ ParkViolation
  PROVE  UrgentInv'
  <1> USE TasksAre DEF UrgentInv, UrgentTypeOK, flags, Go
  <1>1. CASE fence
    <2> USE <1>1 DEF fence
    <2>1. Quiet /\ UrgentTypeOK'
      BY DEF Quiet, Lasting, Terminal, Failing
    <2>2. OrderOwed' /\ FenceOwed' /\ RotationOwed'
      BY DEF Owed, OrderOwed, FenceOwed, RotationOwed, Reading
    <2>3. Explained' /\ Founded'
      BY DEF Explained, Founded, Raising, Reading, Terminal
    <2> QED
      BY <2>1, <2>2, <2>3, QuietKeepsInv
  <1>2. CASE trip_order_fatal
    <2> USE <1>2 DEF trip_order_fatal
    <2>1. Quiet /\ UrgentTypeOK'
      BY DEF Quiet, Lasting, Terminal, Failing
    <2>2. OrderOwed' /\ FenceOwed' /\ RotationOwed'
      BY DEF Owed, OrderOwed, FenceOwed, RotationOwed, Reading
    <2>3. Explained' /\ Founded'
      BY DEF Explained, Founded, Raising, Reading, Terminal
    <2> QED
      BY <2>1, <2>2, <2>3, QuietKeepsInv
  <1>3. CASE PublishTrip
    <2> USE <1>3 DEF PublishTrip, publish_terminal
    <2>1. Quiet /\ UrgentTypeOK'
      BY DEF Quiet, Lasting, Terminal, Failing
    <2>2. OrderOwed' /\ FenceOwed' /\ RotationOwed'
      BY DEF Owed, OrderOwed, FenceOwed, RotationOwed, Reading
    <2>3. Explained' /\ Founded'
      BY DEF Explained, Founded, Raising, Reading, Terminal
    <2> QED
      BY <2>1, <2>2, <2>3, QuietKeepsInv
  <1>4. CASE pipeline_gone
    <2> USE <1>4 DEF pipeline_gone, publish_terminal
    <2>1. Quiet /\ UrgentTypeOK'
      BY DEF Quiet, Lasting, Terminal, Failing
    <2>2. OrderOwed' /\ FenceOwed' /\ RotationOwed'
      BY DEF Owed, OrderOwed, FenceOwed, RotationOwed, Reading
    <2>3. Explained' /\ Founded'
      BY DEF Explained, Founded, Raising, Reading, Terminal
    <2> QED
      BY <2>1, <2>2, <2>3, QuietKeepsInv
  <1>5. CASE ParkViolation
    <2> USE <1>5 DEF ParkViolation
    <2>1. Quiet /\ UrgentTypeOK'
      BY DEF Quiet, Lasting, Terminal, Failing
    <2>2. OrderOwed' /\ FenceOwed' /\ RotationOwed'
      BY DEF Owed, OrderOwed, FenceOwed, RotationOwed, Reading
    <2>3. Explained' /\ Founded'
      BY DEF Explained, Founded, Raising, Reading, Terminal
    <2> QED
      BY <2>1, <2>2, <2>3, QuietKeepsInv
  <1> QED
    BY <1>1, <1>2, <1>3, <1>4, <1>5

\* The ticker raises the alarm for a violation only.
LEMMA TickKeepsInv ==
  ASSUME UrgentInv, Tick PROVE UrgentInv'
  <1> USE TasksAre DEF UrgentInv, UrgentTypeOK, flags, Go
  <1>1. CASE TickerLooks("sleep", fenced, "tickOrder")
    <2> USE <1>1 DEF TickerLooks
    <2>1. Quiet /\ UrgentTypeOK'
      BY DEF Quiet, Lasting, Terminal, Failing
    <2>2. OrderOwed' /\ FenceOwed' /\ RotationOwed'
      BY DEF Owed, OrderOwed, FenceOwed, RotationOwed, Reading
    <2>3. Explained' /\ Founded'
      BY DEF Explained, Founded, Raising, Reading, Terminal
    <2> QED
      BY <2>1, <2>2, <2>3, QuietKeepsInv
  <1>2. CASE TickerLooks("tickOrder", order_fatal, "tickViolation")
    <2> USE <1>2 DEF TickerLooks
    <2>1. Quiet /\ UrgentTypeOK'
      BY DEF Quiet, Lasting, Terminal, Failing
    <2>2. OrderOwed' /\ FenceOwed' /\ RotationOwed'
      BY DEF Owed, OrderOwed, FenceOwed, RotationOwed, Reading
    <2>3. Explained' /\ Founded'
      BY DEF Explained, Founded, Raising, Reading, Terminal
    <2> QED
      BY <2>1, <2>2, <2>3, QuietKeepsInv
  <1>3. CASE TickerFindsViolation
    <2> USE <1>3 DEF TickerFindsViolation
    <2>1. Quiet /\ UrgentTypeOK'
      BY DEF Quiet, Lasting, Terminal, Failing
    <2>2. OrderOwed' /\ FenceOwed' /\ RotationOwed'
      BY DEF Owed, OrderOwed, FenceOwed, RotationOwed, Reading
    <2>3. Explained' /\ Founded'
      BY DEF Explained, Founded, Raising, Reading, Terminal
    <2> QED
      BY <2>1, <2>2, <2>3, QuietKeepsInv
  <1> QED
    BY <1>1, <1>2, <1>3 DEF Tick

(***************************************************************************)
(* A task that finds a state finds one that fatal_error() reports, or a    *)
(* more urgent one has been set behind it.                                 *)
(***************************************************************************)
Finds(t, rank) ==
  /\ at[t] \in Reading
  /\ at[t] = "readOrder" => rank = 0
  /\ at[t] = "readFenced" => rank <= 1
  /\ rank \in 0..3 /\ Reported <= rank
  /\ cause' = [cause EXCEPT ![t] = rank]
  /\ at' = [at EXCEPT ![t] = "lower"]
  /\ UNCHANGED <<flags, failing, alarm_raised, lines>>

LEMMA FindsKeepsInv ==
  ASSUME UrgentInv, NEW t \in Tasks, NEW rank, Finds(t, rank) PROVE UrgentInv'
  <1> USE TasksAre DEF UrgentInv, UrgentTypeOK, flags, Finds
  <1>1. UrgentTypeOK'
    OBVIOUS
  <1>2. LineOwed'
    BY DEF Owed, LineOwed, Reading
  <1>3. OrderOwed' /\ FenceOwed'
    BY DEF Owed, OrderOwed, FenceOwed, Reading
  <1>4. RotationOwed'
    BY DEF Owed, RotationOwed
  <1>5. Explained' /\ Founded'
    BY DEF Explained, Founded, Raising, Reading
  <1>6. Truthful'
    <2>1. Reported' = Reported
      BY DEF Reported
    <2> QED
      BY <2>1 DEF Truthful
  <1> QED
    BY <1>1, <1>2, <1>3, <1>4, <1>5, <1>6 DEF Owed

LEMMA FatalStateKeepsInv == ASSUME UrgentInv, NEW t \in Tasks, fatal_state(t) PROVE UrgentInv'
  <1> USE TasksAre DEF UrgentInv, UrgentTypeOK, flags, Go
  <1>1. CASE /\ at[t] = "readOrder" /\ order_fatal
             /\ Found(t, "order") /\ UNCHANGED <<flags, failing, alarm_raised, lines>>
    <2>1. Finds(t, 0)
      BY <1>1 DEF Finds, Found, fatal_priority, Reported, Reading
    <2> QED
      BY <2>1, FindsKeepsInv
  <1>2. CASE /\ at[t] = "readFenced" /\ fenced
             /\ Found(t, "fenced") /\ UNCHANGED <<flags, failing, alarm_raised, lines>>
    <2>1. Finds(t, 1)
      BY <1>2 DEF Finds, Found, fatal_priority, Reported, Reading
    <2> QED
      BY <2>1, FindsKeepsInv
  <1>3. CASE /\ at[t] = "readViolation" /\ violation
             /\ Found(t, "violation") /\ UNCHANGED <<flags, failing, alarm_raised, lines>>
    <2>1. Finds(t, 2)
      BY <1>3 DEF Finds, Found, fatal_priority, Reported, Reading
    <2> QED
      BY <2>1, FindsKeepsInv
  <1>4. CASE /\ at[t] = "readProgress" /\ failing.kind \in {"permanent", "Rotation"}
             /\ Found(t, "failed") /\ UNCHANGED <<flags, failing, alarm_raised, lines>>
    <2>1. Finds(t, 3)
      BY <1>4 DEF Finds, Found, fatal_priority, Reported, Reading
    <2> QED
      BY <2>1, FindsKeepsInv
  <1>5. CASE /\ \/ at[t] = "readOrder" /\ ~order_fatal /\ at' = [at EXCEPT ![t] = "readFenced"]
                \/ at[t] = "readFenced" /\ ~fenced /\ at' = [at EXCEPT ![t] = "readViolation"]
                \/ at[t] = "readViolation" /\ ~violation /\ at' = [at EXCEPT ![t] = "readProgress"]
                \/ /\ at[t] = "readProgress" /\ failing.kind # "Rotation"
                   /\ at' = [at EXCEPT ![t] = "ended"]
             /\ UNCHANGED <<flags, failing, alarm_raised, lines, cause>>
    <2>1. Quiet /\ UrgentTypeOK'
      BY <1>5 DEF Quiet, Lasting
    <2>2. OrderOwed' /\ FenceOwed'
      BY <1>5 DEF Owed, OrderOwed, FenceOwed
    <2>3. RotationOwed'
      BY <1>5 DEF Owed, RotationOwed, Reading
    <2>4. Explained' /\ Founded'
      BY <1>5 DEF Explained, Founded, Raising, Reading
    <2> QED
      BY <2>1, <2>2, <2>3, <2>4, QuietKeepsInv
  <1> QED
    BY <1>1, <1>2, <1>3, <1>4, <1>5 DEF fatal_state, ReadFlag, ReadProgress

(***************************************************************************)
(* fetch_min takes over the rank, unless a more urgent one has been.       *)
(***************************************************************************)
LEMMA LowerKeepsUrgent == ASSUME UrgentInv, NEW t \in Tasks, Lower(t) PROVE UrgentInv'
  <1> USE TasksAre DEF UrgentInv, UrgentTypeOK, flags, Go, Lower
  <1>1. CASE cause[t] < alarm_raised
    <2> USE <1>1
    <2>1. UrgentTypeOK'
      OBVIOUS
    <2>2. LineOwed'
      BY DEF Owed, LineOwed
    <2>3. OrderOwed' /\ FenceOwed' /\ RotationOwed'
      BY DEF Owed, OrderOwed, FenceOwed, RotationOwed
    <2>4. Explained' /\ Founded'
      BY DEF Explained, Founded, Raising
    <2>5. Truthful'
      BY DEF Truthful, Reported
    <2> QED
      BY <2>1, <2>2, <2>3, <2>4, <2>5 DEF Owed
  <1>2. CASE ~(cause[t] < alarm_raised)
    <2> USE <1>2 DEF Return, NotRaised
    <2>1. UrgentTypeOK'
      OBVIOUS
    <2>2. LineOwed'
      BY DEF Owed, LineOwed
    <2>3. OrderOwed' /\ FenceOwed' /\ RotationOwed'
      BY DEF Owed, OrderOwed, FenceOwed, RotationOwed
    <2>4. Explained' /\ Founded'
      BY DEF Explained, Founded, Raising
    <2>5. Truthful'
      BY DEF Truthful, Reported
    <2> QED
      BY <2>1, <2>2, <2>3, <2>4, <2>5 DEF Owed
  <1> QED
    BY <1>1, <1>2

\* The line takes over the rank, which fatal_error() reports or undercuts.
LEMMA LineKeepsUrgent == ASSUME UrgentInv, NEW t \in Tasks, stream_stopped(t) PROVE UrgentInv'
  <1> USE TasksAre DEF UrgentInv, UrgentTypeOK, flags
  <1>1. /\ at[t] = "emit" /\ lines' = Append(lines, cause[t])
        /\ at' = [at EXCEPT ![t] = "ended"] /\ cause' = [cause EXCEPT ![t] = 4]
        /\ UNCHANGED <<order_fatal, fenced, violation, failing, alarm_raised>>
    BY DEF stream_stopped, Return, Go, NotRaised
  <1>2. /\ Len(lines') = Len(lines) + 1
        /\ \A i \in 1..Len(lines) : lines'[i] = lines[i]
        /\ lines'[Len(lines) + 1] = cause[t]
    BY <1>1
  <1>3. UrgentTypeOK'
    BY <1>1
  <1>4. LineOwed'
    BY <1>1, <1>2 DEF Owed, LineOwed
  <1>5. OrderOwed' /\ FenceOwed' /\ RotationOwed'
    BY <1>1 DEF Owed, OrderOwed, FenceOwed, RotationOwed, Reading
  <1>6. Explained' /\ Founded'
    BY <1>1 DEF Explained, Founded, Raising
  <1>7. Truthful'
    <2>1. Reported' = Reported /\ Reported <= cause[t]
      BY <1>1 DEF Truthful, Reported
    <2>2. Settled'
      BY <1>1, RaisingIsSettled DEF Raising, Settled
    <2>3. \A u \in Tasks : at'[u] \in {"lower", "emit"} => Reported' <= cause'[u]
      BY <1>1, <2>1 DEF Truthful
    <2>4. \A i \in 1..Len(lines') : Reported' <= lines'[i]
      BY <1>2, <2>1 DEF Truthful
    <2> QED
      BY <2>2, <2>3, <2>4 DEF Truthful, Settled
  <1> QED
    BY <1>3, <1>4, <1>5, <1>6, <1>7 DEF Owed

LEMMA UrgentInvNext == UrgentInv /\ [Next]_vars => UrgentInv'
  <1> SUFFICES ASSUME UrgentInv, [Next]_vars PROVE UrgentInv'
    OBVIOUS
  <1>1. ASSUME NEW t \in Tasks, raise_stream_stopped(t) PROVE UrgentInv'
    BY <1>1, FatalStateKeepsInv, LowerKeepsUrgent, LineKeepsUrgent DEF raise_stream_stopped
  <1>2. ASSUME NEW s \in Stages, StageStep(s) PROVE UrgentInv'
    BY <1>2, StageStepKeepsInv
  <1>3. CASE fence \/ trip_order_fatal \/ PublishTrip \/ pipeline_gone \/ ParkViolation
    BY <1>3, OtherStepKeepsInv
  <1>4. CASE Tick
    BY <1>4, TickKeepsInv
  <1>5. CASE UNCHANGED vars
    BY <1>5 DEF vars, UrgentInv, UrgentTypeOK, Owed, LineOwed, OrderOwed, FenceOwed, RotationOwed,
                Explained, Founded, Truthful, Reported
  <1> QED
    BY <1>1, <1>2, <1>3, <1>4, <1>5 DEF Next

LEMMA UrgentInvHolds == Spec => []UrgentInv
  BY UrgentInvInit, UrgentInvNext, PTL DEF Spec

(***************************************************************************)
(* raise_stream_stopped: with every task at rest nobody owes a line any    *)
(* more, so the most urgent state that is set has been announced.          *)
(***************************************************************************)
THEOREM MostUrgentAnnounced == Spec => []MostUrgentIsAnnounced
  <1>1. UrgentInv => MostUrgentIsAnnounced
    <2> SUFFICES ASSUME UrgentInv, \A t \in Tasks : Resting(t) PROVE
                   /\ order_fatal => 0 \in Announced
                   /\ fenced => \E r \in Announced : r <= 1
                   /\ failing.kind = "Rotation" => Announced # {}
      BY DEF MostUrgentIsAnnounced
    <2>1. alarm_raised < 4 => alarm_raised \in Announced
      BY DEF UrgentInv, Owed, LineOwed, Resting, Announced
    <2>2. order_fatal => alarm_raised = 0
      BY TasksAre DEF UrgentInv, Owed, OrderOwed, Resting
    <2>3. fenced => alarm_raised <= 1
      BY TasksAre DEF UrgentInv, Owed, FenceOwed, Resting
    <2>4. failing.kind = "Rotation" => alarm_raised < 4
      BY TasksAre DEF UrgentInv, Owed, RotationOwed, Resting, Reading
    <2> QED
      BY <2>1, <2>2, <2>3, <2>4 DEF UrgentInv, UrgentTypeOK
  <1> QED
    BY <1>1, UrgentInvHolds, PTL

(***************************************************************************)
(* raise_stream_stopped: the alarm and fatal_error() agree for good.       *)
(***************************************************************************)
THEOREM AnnouncedReported == Spec => []AnnouncedIsReported
  <1>1. UrgentInv => AnnouncedIsReported
    BY DEF UrgentInv, Truthful, AnnouncedIsReported, Announced
  <1> QED
    BY <1>1, UrgentInvHolds, PTL

=============================================================================
