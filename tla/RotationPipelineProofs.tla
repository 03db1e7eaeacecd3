---------------------- MODULE RotationPipelineProofs ----------------------
(***************************************************************************)
(* Theorems about RotationPipeline, for every value of its constants:      *)
(* every variable has its type, a terminal entry of the Progress channel   *)
(* stays, and the order tripwire of put_stage never fires.  Then what      *)
(* append, flush and close are promised: accepted rows are in exactly one  *)
(* place, staged_offset() is a commit gate, a flush that says Ok has       *)
(* staged what was appended before it, an append that says StagingStalled  *)
(* has kept nothing, and whoever meets a stopped pipeline is told why.     *)
(* Last, seen from the notifier it is one queue (StagingQueue): numbers    *)
(* come to it in increasing order, each of a file that is on storage.      *)
(***************************************************************************)
EXTENDS RotationPipeline, SequenceTheorems, WellFoundedInduction, FiniteSetTheorems, TLAPS

(***************************************************************************)
(* A non-empty set of offsets has a greatest element, and Max is it.       *)
(***************************************************************************)
LEMMA MaxOfOffsets ==
  ASSUME NEW S, S \subseteq Offset, S # {}
  PROVE  Max(S) \in S /\ \A x \in S : x <= Max(S)
<1> DEFINE T == {MaxOffset - x : x \in S}
<1>0. MaxOffset \in Nat /\ \A x \in S : x \in Nat /\ x <= MaxOffset
  BY OffsetAssumption DEF OffsetAssumption, Offset
<1>1. T \subseteq Nat /\ T # {}
  <2>1. PICK x \in S : TRUE
    OBVIOUS
  <2>2. MaxOffset - x \in T
    OBVIOUS
  <2>3. \A y \in S : MaxOffset - y \in Nat
    BY <1>0
  <2> QED BY <2>2, <2>3
<1> DEFINE R == OpToRel(<, Nat)
<1>2. IsWellFoundedOn(R, Nat)
  BY NatLessThanWellFounded
<1> HIDE DEF T
<1>3. PICK m \in T : \A y \in T : ~ (<<y, m>> \in R)
  <2> HIDE DEF R
  <2> QED BY <1>1, <1>2, WFMin
<1>4. \A y \in T : m <= y
  <2> SUFFICES ASSUME NEW y \in T PROVE m <= y
    OBVIOUS
  <2>1. y \in Nat /\ m \in Nat
    BY <1>1, <1>3
  <2>2. ~ (<<y, m>> \in R)
    BY <1>3
  <2>3. ~ (y < m)
    BY <2>1, <2>2 DEF OpToRel
  <2> QED BY <2>1, <2>3
<1>5. PICK g \in S : m = MaxOffset - g
  BY <1>3 DEF T
<1>6. \A x \in S : x <= g
  <2> TAKE x \in S
  <2>1. MaxOffset - x \in T
    BY DEF T
  <2> QED BY <1>0, <1>4, <1>5, <2>1
<1>7. \E g2 \in S : \A y \in S : g2 >= y
  BY <1>0, <1>6
<1>8. Max(S) \in S /\ \A y \in S : Max(S) >= y
  BY <1>7 DEF Max
<1> QED BY <1>0, <1>8

(***************************************************************************)
(* The last step of many a move: taking a file from the front of a channel *)
(* and putting it at the back of the one ahead leaves their concatenation. *)
(***************************************************************************)
LEMMA MoveKeepsConcat ==
  ASSUME NEW S, NEW s \in Seq(S), NEW t \in Seq(S), t # <<>>
  PROVE  Append(s, Head(t)) \o Tail(t) = s \o t
<1>1. Head(t) \in S /\ Tail(t) \in Seq(S) /\ Len(Tail(t)) = Len(t) - 1 /\ Len(t) \in Nat
      /\ Head(t) = t[1] /\ \A i \in 1..Len(Tail(t)) : Tail(t)[i] = t[i + 1]
  BY HeadTailProperties, LenProperties
<1>2. Append(s, Head(t)) \in Seq(S) /\ Len(Append(s, Head(t))) = Len(s) + 1 /\ Len(s) \in Nat
      /\ (\A i \in 1..Len(s) : Append(s, Head(t))[i] = s[i])
      /\ Append(s, Head(t))[Len(s) + 1] = Head(t)
  BY <1>1, AppendProperties, LenProperties
<1>3. Len(Append(s, Head(t)) \o Tail(t)) = Len(s \o t)
  BY <1>1, <1>2, ConcatProperties
<1>4. \A i \in 1..Len(s \o t) : (Append(s, Head(t)) \o Tail(t))[i] = (s \o t)[i]
  <2> TAKE i \in 1..Len(s \o t)
  <2>1. (s \o t)[i] = IF i <= Len(s) THEN s[i] ELSE t[i - Len(s)]
    BY ConcatProperties
  <2>2. (Append(s, Head(t)) \o Tail(t))[i]
          = IF i <= Len(s) + 1 THEN Append(s, Head(t))[i] ELSE Tail(t)[i - (Len(s) + 1)]
    BY <1>1, <1>2, <1>3, ConcatProperties
  <2> QED BY <1>1, <1>2, <2>1, <2>2, ConcatProperties
<1> QED BY <1>1, <1>2, <1>3, <1>4, ConcatProperties, SeqEqual

(***************************************************************************)
(* The type of what the operators on files and on the Failing slot return. *)
(***************************************************************************)
LEMMA ConstantFacts ==
  /\ MaxSeq \in Nat /\ MaxEpoch \in Nat /\ MaxOffset \in Nat
  /\ Depth \in Nat /\ Depth > 0 /\ StallAfter \in Nat /\ StallAfter > 0
  /\ \A t \in Tasks : t # "free" /\ t # "ticker"
  /\ \A b \in Batches : b.start \in Offset /\ b.end \in Offset
  /\ Recovered \in Offset \cup {NoOffset} /\ Recovered \in Int
<1>1. Recovered \in Offset \cup {NoOffset} /\ Recovered \in Int
  BY OffsetAssumption, RecoveredAssumption
     DEF OffsetAssumption, RecoveredAssumption, Offset, NoOffset
<1> QED BY <1>1, SeqAssumption, EpochAssumption, OffsetAssumption, DepthAssumption,
           StallAssumption, TasksAssumption
        DEF SeqAssumption, EpochAssumption, OffsetAssumption, DepthAssumption, StallAssumption,
            TasksAssumption, Offset

LEMMA SerialType == \A f \in File : Serial(f) \in Int
BY ConstantFacts DEF Serial, Encode, File

LEMMA FailingTypes ==
  ASSUME NEW f \in Failing, NEW file \in File, NEW n \in 0..StallAfter + 1, NEW p \in BOOLEAN
  PROVE  /\ \A kind \in TerminalKinds : publish_terminal(f, kind) \in Failing
         /\ report_failure(f, file, n, p) \in Failing
         /\ clear_failure(f, file) \in Failing
         /\ ClearedByLanding(f, file) \in Failing
BY SerialType, ConstantFacts
   DEF Failing, publish_terminal, report_failure, clear_failure, ClearedByLanding, NotFailing,
       NoOffset, is_terminal, TerminalKinds

LEMMA ErrorTypes ==
  /\ \A f : terminal_error(f) \in Results
  /\ \A f : StallError(f) \in Results
  /\ \A o, fe, se, f : fatal_state(o, fe, se, f) \in Results
BY DEF terminal_error, StallError, fatal_state, Results

LEMMA AppendErrorType == \A r \in OffsetRange, ok \in BOOLEAN : AppendError(r, ok) \in Results
<1> TAKE r \in OffsetRange, ok \in BOOLEAN
<1>1. FatalState \in Results /\ {"Config", "Schema", "none"} \subseteq Results
  BY ErrorTypes DEF FatalState, Results
<1> DEFINE wellFormed == 0 <= r.start /\ r.start <= r.end
<1>2. AppendError(r, ok) \in {FatalState, "Config", "Schema", "none"}
  <2>1. CASE FatalState # "none"
    BY <2>1 DEF AppendError
  <2>2. CASE FatalState = "none" /\ ~wellFormed
    BY <2>2 DEF AppendError
  <2>3. CASE FatalState = "none" /\ wellFormed
    BY <2>3 DEF AppendError
  <2> QED BY <2>1, <2>2, <2>3
<1> QED BY <1>1, <1>2

LEMMA RaisedType ==
  ASSUME alarm \in 0..4
  PROVE  \A o, fe, se, f : Raised(o, fe, se, f) \in 0..4
BY DEF Raised, fatal_priority

-----------------------------------------------------------------------------
(***************************************************************************)
(* TypeOK is not inductive as it stands.  What it leaves open: a stage     *)
(* that is past recv has a file; whoever holds seal_lock is the one about  *)
(* to seal, so the ticker's reserved slot is still free when it sends; a   *)
(* running append has a batch; the epoch rolls once past its last.         *)
(***************************************************************************)
HandInv ==
  \A s \in Stages :
    /\ at[s] \notin {"recv", "exited"} => hand[s] # <<>>
    /\ at[s] = "recv" => hand[s] = <<>>

LockInv ==
  /\ \A t \in Tasks : call[t].pc \in {"reserve", "waitRoom"} <=> sealLock = t
  /\ ticker = "seal" <=> sealLock = "ticker"
  /\ ticker = "seal" => Len(inbox["render"]) < Depth

CallInv == \A t \in Tasks : call[t].op = "append" => call[t].batch \in Batches

SlotInv == epoch = MaxEpoch + 1 => nextSeq = 0

TypeInv == TypeOK /\ HandInv /\ LockInv /\ CallInv /\ SlotInv

LEMMA InitTypeInv == Init => TypeInv
<1> SUFFICES ASSUME Init PROVE TypeInv
  OBVIOUS
<1>1. Idle \in Calls /\ NotFailing \in Failing
  BY ConstantFacts DEF Idle, Calls, NotFailing, Failing, NoBatch, NoOffset, Results
<1>2. WriterTypeOK
  BY ConstantFacts DEF Init, WriterTypeOK, NoOffset
<1>3. CallerTypeOK
  BY <1>1 DEF Init, CallerTypeOK, Returns, NoReturn, NoOffset, NoBatch, Results
<1>4. PipelineTypeOK
  BY ConstantFacts, EmptySeq DEF Init, PipelineTypeOK, Stages, StagePcs
<1>5. StatusTypeOK
  BY <1>1, EmptySeq DEF Init, StatusTypeOK, NoOffset
<1>6. FlagTypeOK
  BY Zenon DEF Init, FlagTypeOK
<1>7. HandInv /\ LockInv /\ CallInv /\ SlotInv
  BY ConstantFacts DEF Init, HandInv, LockInv, CallInv, SlotInv, Idle, Stages
<1> QED BY <1>2, <1>3, <1>4, <1>5, <1>6, <1>7 DEF TypeInv, TypeOK

LEMMA IdleType == Idle \in Calls /\ NoReturn \in Returns
BY DEF Idle, Calls, Returns, NoReturn, NoBatch, NoOffset, Results

LEMMA OwedType == acked \subseteq Batches => Owed \in Offset \cup {NoOffset}
<1> SUFFICES ASSUME acked \subseteq Batches, acked # {} PROVE Max({b.end : b \in acked}) \in Offset
  BY DEF Owed
<1> DEFINE S == {b.end : b \in acked}
<1>1. S \subseteq Offset
  BY ConstantFacts
<1>2. S # {}
  OBVIOUS
<1> HIDE DEF S
<1>3. Max(S) \in Offset
  BY <1>1, <1>2, MaxOfOffsets
<1> QED BY <1>3 DEF S

(***************************************************************************)
(* The file seal() cuts is a File that directly takes the next number.     *)
(***************************************************************************)
LEMMA CutFileType ==
  ASSUME WriterTypeOK, SlotInv, buffered # {}, CanEncode
  PROVE  CutFile \in File
<1> DEFINE S == {b.end : b \in buffered}
<1>1. S \subseteq Offset
  BY ConstantFacts DEF WriterTypeOK
<1>2. S # {}
  OBVIOUS
<1> HIDE DEF S
<1>3. Max(S) \in Offset
  BY <1>1, <1>2, MaxOfOffsets
<1>4. Max({b.end : b \in buffered}) \in Offset
  BY <1>3 DEF S
<1> QED BY <1>4, ConstantFacts
        DEF CutFile, File, CanEncode, Encodable, Rolled, WriterTypeOK, SlotInv

(***************************************************************************)
(* What the ways a call leaves seal_and_send, or returns, do to the types. *)
(***************************************************************************)
LEMMA ReturnType ==
  ASSUME TypeInv, NEW t \in Tasks, NEW res \in Results, Return(t, res)
  PROVE  /\ call' \in [Tasks -> Calls] /\ call' = [call EXCEPT ![t] = Idle]
         /\ handle' \in {"open", "closing", "dropped", "freed"}
         /\ returned' \in Returns
         /\ acked' \subseteq Batches
         /\ CallInv'
<1>1. call' \in [Tasks -> Calls] /\ call' = [call EXCEPT ![t] = Idle]
  BY IdleType DEF Return, TypeInv, TypeOK, CallerTypeOK
<1>2. handle' \in {"open", "closing", "dropped", "freed"}
  BY DEF Return, HandleAfter, TypeInv, TypeOK, CallerTypeOK
<1>3. returned' \in Returns
  BY DEF Return, TypeInv, TypeOK, CallerTypeOK, Calls, Returns
<1>4. acked' \subseteq Batches
  BY DEF Return, TypeInv, TypeOK, WriterTypeOK, CallInv
<1>5. CallInv'
  BY <1>1 DEF CallInv, TypeInv, TypeOK, CallerTypeOK, Idle
<1> QED BY <1>1, <1>2, <1>3, <1>4, <1>5

\* seal_and_send ended for task t, in one of its three ways.
LeavesSeal(t) ==
  \/ \E e \in Results : SealFailed(t, e)
  \/ NothingSealed(t)
  \/ \E seq \in Int : SealSent(t, seq)

LEMMA LeavesSealType ==
  ASSUME TypeInv, NEW t \in Tasks, LeavesSeal(t), UNCHANGED ticker,
         call[t].pc \in {"waitLock", "reserve", "waitRoom"}
  PROVE  /\ CallerTypeOK' /\ CallInv' /\ acked' \subseteq Batches
         /\ \A u \in Tasks : call'[u].pc \in {"reserve", "waitRoom"} <=> sealLock' = u
         /\ ticker' = "seal" <=> sealLock' = "ticker"
<1>1. sealLock' = Unlocked(t)
  BY DEF LeavesSeal, SealFailed, NothingSealed, SealSent
<1>2. /\ call' \in [Tasks -> Calls] /\ returned' \in Returns /\ CallInv'
      /\ handle' \in {"open", "closing", "dropped", "freed"} /\ acked' \subseteq Batches
      /\ call'[t].pc \in {"idle", "unbuffer", "target", "durable"}
      /\ \A u \in Tasks \ {t} : call'[u] = call[u]
  <2>1. CASE \E res \in Results : Return(t, res)
    BY <2>1, ReturnType DEF Idle, TypeInv, TypeOK, CallerTypeOK
  <2>2. CASE /\ UNCHANGED <<handle, acked>> /\ Silent
             /\ \/ \E e \in Results : call' = [call EXCEPT ![t].pc = "unbuffer", ![t].err = e]
                \/ Goto(t, "target")
                \/ \E q \in Int : call' = [call EXCEPT ![t].pc = "durable", ![t].target = q]
    <3>1. /\ call' \in [Tasks -> Calls] /\ CallInv'
          /\ call'[t].pc \in {"unbuffer", "target", "durable"}
          /\ \A u \in Tasks \ {t} : call'[u] = call[u]
      BY <2>2 DEF TypeInv, TypeOK, CallerTypeOK, Calls, CallInv, Goto
    <3> QED BY <2>2, <3>1, IdleType DEF TypeInv, TypeOK, WriterTypeOK, CallerTypeOK, Silent
  <2>3. "ok" \in Results
    BY DEF Results
  <2> QED BY <2>1, <2>2, <2>3 DEF LeavesSeal, SealFailed, NothingSealed, SealSent
<1>3. sealLock' \in Tasks \cup {"free", "ticker"}
  BY <1>1 DEF Unlocked, TypeInv, TypeOK, CallerTypeOK
<1>4. CallerTypeOK'
  BY <1>2, <1>3 DEF TypeInv, TypeOK, CallerTypeOK
<1>5. \A u \in Tasks : call'[u].pc \in {"reserve", "waitRoom"} <=> sealLock' = u
  BY <1>1, <1>2, ConstantFacts DEF Unlocked, TypeInv, LockInv
<1>6. ticker' = "seal" <=> sealLock' = "ticker"
  BY <1>1, ConstantFacts DEF Unlocked, TypeInv, LockInv
<1> QED BY <1>2, <1>4, <1>5, <1>6

(***************************************************************************)
(* What a step that leaves a group of variables alone leaves true.         *)
(***************************************************************************)
LEMMA SameWriter ==
  TypeInv /\ UNCHANGED <<buffer, offsets>> => WriterTypeOK' /\ SlotInv' /\ UNCHANGED aged
BY DEF TypeInv, TypeOK, WriterTypeOK, SlotInv, buffer, offsets

LEMMA SameCallers ==
  TypeInv /\ UNCHANGED callers /\ Silent => CallerTypeOK' /\ CallInv'
BY IdleType DEF TypeInv, TypeOK, CallerTypeOK, CallInv, callers, Silent

LEMMA SamePipeline == TypeInv /\ UNCHANGED pipeline => PipelineTypeOK' /\ HandInv' /\ UNCHANGED inbox
BY DEF TypeInv, TypeOK, PipelineTypeOK, HandInv, pipeline

LEMMA SameLock ==
  ASSUME TypeInv, UNCHANGED callers, Len(inbox'["render"]) = Len(inbox["render"]) \/ ticker # "seal"
  PROVE  LockInv'
BY DEF TypeInv, LockInv, callers

LEMMA SameStatus ==
  TypeInv /\ UNCHANGED <<progress, outside, alarm>> => StatusTypeOK'
BY DEF TypeInv, TypeOK, StatusTypeOK, progress, outside

LEMMA SameStops ==
  TypeInv /\ UNCHANGED stops => UNCHANGED <<fenced, orderFatal, serialFatal, alarm>>
BY DEF stops

LEMMA SameFlags ==
  TypeInv /\ UNCHANGED <<aged, fenced, orderFatal, serialFatal>> => FlagTypeOK'
BY DEF TypeInv, TypeOK, FlagTypeOK

(***************************************************************************)
(* The stages.                                                             *)
(***************************************************************************)
\* A stage past recv has a file to work on.
LEMMA FileInHand ==
  ASSUME TypeInv, NEW s \in Stages, at[s] \notin {"recv", "exited"}
  PROVE  InHand(s) \in File /\ hand[s] # <<>> /\ hand[s] \in Seq(File)
<1>1. hand[s] # <<>> /\ hand[s] \in Seq(File)
  BY DEF TypeInv, TypeOK, PipelineTypeOK, HandInv
<1> QED BY <1>1, HeadTailProperties DEF InHand

\* Steps that only move a stage's program counter.
LEMMA StageMoveType ==
  ASSUME TypeInv, NEW s \in Stages,
         StageTry(s) \/ StageDrained(s) \/ SendRefused(s)
  PROVE  TypeInv'
<1> USE DEF StageTry, StageDrained, SendRefused
<1>1. /\ WriterTypeOK' /\ SlotInv' /\ CallerTypeOK' /\ CallInv' /\ LockInv'
      /\ StatusTypeOK' /\ FlagTypeOK'
  BY SameWriter, SameCallers, SameLock, SameStatus, SameStops, SameFlags DEF outside
<1>2. PipelineTypeOK' /\ HandInv'
  BY DEF TypeInv, TypeOK, PipelineTypeOK, HandInv, StagePcs
<1> QED BY <1>1, <1>2 DEF TypeInv, TypeOK

LEMMA StageRecvType ==
  ASSUME TypeInv, NEW s \in Stages, StageRecv(s) PROVE TypeInv'
<1>1. /\ inbox[s] \in Seq(File) /\ inbox[s] # <<>>
      /\ inbox' = [inbox EXCEPT ![s] = Tail(inbox[s])]
      /\ hand' = [hand EXCEPT ![s] = <<Head(inbox[s])>>]
  BY DEF StageRecv, TypeInv, TypeOK, PipelineTypeOK
<1>2. /\ Head(inbox[s]) \in File /\ Tail(inbox[s]) \in Seq(File)
      /\ Len(Tail(inbox[s])) = Len(inbox[s]) - 1 /\ Len(inbox[s]) \in Nat
  BY <1>1, HeadTailProperties, LenProperties
<1>3. <<Head(inbox[s])>> \in Seq(File) /\ Len(<<Head(inbox[s])>>) = 1
  BY <1>2
<1>4. PipelineTypeOK'
  <2>1. at' \in [Stages -> StagePcs] /\ tries' \in [Stages -> 0..StallAfter] /\ prev' = prev
    BY ConstantFacts DEF StageRecv, TypeInv, TypeOK, PipelineTypeOK, StagePcs
  <2>2. hand' \in [Stages -> Seq(File)] /\ \A u \in Stages : Len(hand'[u]) <= 1
    BY <1>1, <1>3 DEF TypeInv, TypeOK, PipelineTypeOK
  <2>3. inbox' \in [Stages -> Seq(File)]
    BY <1>1, <1>2 DEF TypeInv, TypeOK, PipelineTypeOK
  <2>4. \A u \in Stages : Len(inbox'[u]) <= IF u = "render" THEN Depth ELSE 1
    BY <1>1, <1>2, ConstantFacts DEF TypeInv, TypeOK, PipelineTypeOK
  <2> QED BY <2>1, <2>2, <2>3, <2>4 DEF TypeInv, TypeOK, PipelineTypeOK
<1>5. HandInv'
  BY <1>1 DEF StageRecv, TypeInv, TypeOK, PipelineTypeOK, HandInv
<1>6. LockInv'
  <2>1. ticker = "seal" => Len(inbox'["render"]) < Depth
    BY <1>1, <1>2, ConstantFacts DEF TypeInv, TypeOK, PipelineTypeOK, LockInv, Stages
  <2> QED BY <2>1 DEF StageRecv, TypeInv, LockInv, callers
<1>7. WriterTypeOK' /\ SlotInv' /\ CallerTypeOK' /\ CallInv' /\ StatusTypeOK' /\ FlagTypeOK'
  BY SameWriter, SameCallers, SameStatus, SameStops, SameFlags DEF StageRecv
<1> QED BY <1>4, <1>5, <1>6, <1>7 DEF TypeInv, TypeOK

\* A stage that is told to stop, and a render stage that gives up.
LEMMA StageStopType ==
  ASSUME TypeInv, NEW s \in Stages, StageStop(s) \/ (s = "render" /\ RenderGivesUp)
  PROVE  TypeInv'
<1> USE DEF StageStop, RenderGivesUp
<1>1. /\ WriterTypeOK' /\ SlotInv' /\ CallerTypeOK' /\ CallInv' /\ LockInv' /\ FlagTypeOK'
  BY SameWriter, SameCallers, SameLock, SameFlags
<1>2. PipelineTypeOK' /\ HandInv'
  BY DEF TypeInv, TypeOK, PipelineTypeOK, HandInv, StagePcs
<1>3. failing \in Failing /\ alarm \in 0..4
  BY DEF TypeInv, TypeOK, StatusTypeOK
<1>4. failing' \in Failing
  <2>1. \A kind \in TerminalKinds : publish_terminal(failing, kind) \in Failing
    BY <1>3, ConstantFacts DEF Failing, publish_terminal, NoOffset, TerminalKinds
  <2> QED BY <1>3, <2>1 DEF TerminalKinds
<1>5. alarm' \in 0..4
  BY <1>3, RaisedType
<1>6. StatusTypeOK'
  BY <1>4, <1>5 DEF TypeInv, TypeOK, StatusTypeOK, outside
<1> QED BY <1>1, <1>2, <1>6 DEF TypeInv, TypeOK

LEMMA AttemptType ==
  ASSUME TypeInv, NEW s \in Stages,
         AttemptOk(s) \/ (\E landed \in BOOLEAN : AttemptFails(s, landed))
           \/ (s = "render" /\ RenderRejects)
  PROVE  TypeInv'
<1> USE DEF AttemptOk, AttemptFails, RenderRejects
<1>1. /\ WriterTypeOK' /\ SlotInv' /\ CallerTypeOK' /\ CallInv' /\ LockInv' /\ FlagTypeOK'
  BY SameWriter, SameCallers, SameLock, SameStops, SameFlags
<1>2. InHand(s) \in File
  BY FileInHand
<1>3. at' \in [Stages -> StagePcs] /\ tries' \in [Stages -> 0..StallAfter]
  <2>1. /\ at \in [Stages -> StagePcs] /\ tries \in [Stages -> 0..StallAfter]
        /\ tries[s] \in 0..StallAfter
    BY DEF TypeInv, TypeOK, PipelineTypeOK
  <2>2. at' \in [Stages -> StagePcs]
    BY <2>1 DEF StagePcs
  <2>3. 0 \in 0..StallAfter /\ (tries[s] < StallAfter => tries[s] + 1 \in 0..StallAfter)
    BY <2>1, ConstantFacts
  <2>4. \E k \in 0..StallAfter : tries' = [tries EXCEPT ![s] = k] \/ tries' = tries
    BY <2>1, <2>3
  <2> QED BY <2>1, <2>2, <2>4
<1>4. PipelineTypeOK'
  BY <1>3 DEF TypeInv, TypeOK, PipelineTypeOK
<1>5. HandInv'
  BY DEF TypeInv, TypeOK, PipelineTypeOK, HandInv
<1>6. failing' \in Failing
  <2>1. failing \in Failing /\ tries[s] + 1 \in 0..StallAfter + 1
    BY ConstantFacts DEF TypeInv, TypeOK, StatusTypeOK, PipelineTypeOK
  <2>2. tries'[s] \in 0..StallAfter + 1
    BY <1>3, ConstantFacts
  <2>3. CASE AttemptOk(s)
    <3>1. clear_failure(failing, InHand(s)) \in Failing
      BY <1>2, <2>1, FailingTypes
    <3> QED BY <2>1, <2>3, <3>1
  <2>4. CASE \E landed \in BOOLEAN : AttemptFails(s, landed)
    <3>1. report_failure(failing, InHand(s), tries'[s], FALSE) \in Failing
      BY <1>2, <2>1, <2>2, FailingTypes
    <3> QED BY <2>4, <3>1
  <2>5. CASE s = "render" /\ RenderRejects
    <3>1. report_failure(failing, InHand(s), tries[s] + 1, TRUE) \in Failing
      BY <1>2, <2>1, FailingTypes
    <3> QED BY <2>5, <3>1
  <2> QED BY <2>3, <2>4, <2>5
<1>7. stored' \subseteq File
  BY <1>2 DEF TypeInv, TypeOK, StatusTypeOK, outside
<1>8. StatusTypeOK'
  BY <1>6, <1>7 DEF TypeInv, TypeOK, StatusTypeOK, outside, stops
<1> QED BY <1>1, <1>4, <1>5, <1>8 DEF TypeInv, TypeOK

LEMMA StageSendType ==
  ASSUME TypeInv, NEW s \in Stages, StageSend(s) PROVE TypeInv'
<1> DEFINE n == NextStage[s]
<1>1. n \in Stages /\ n # "render" /\ n # s /\ at[s] = "send" /\ inbox[n] = <<>>
  BY DEF StageSend, NextStage, Stages
<1>2. InHand(s) \in File
  BY <1>1, FileInHand
<1>3. inbox' = [inbox EXCEPT ![n] = <<InHand(s)>>]
  BY <1>1, <1>2 DEF StageSend, TypeInv, TypeOK, PipelineTypeOK
<1>4. <<InHand(s)>> \in Seq(File) /\ Len(<<InHand(s)>>) = 1 /\ <<>> \in Seq(File) /\ Len(<<>>) = 0
  BY <1>2
<1> HIDE DEF n
<1>5. inbox' \in [Stages -> Seq(File)]
  BY <1>1, <1>3, <1>4 DEF TypeInv, TypeOK, PipelineTypeOK
<1>6. \A u \in Stages : Len(inbox'[u]) <= IF u = "render" THEN Depth ELSE 1
  BY <1>1, <1>3, <1>4 DEF TypeInv, TypeOK, PipelineTypeOK
<1>7. /\ hand' = [hand EXCEPT ![s] = <<>>] /\ at' = [at EXCEPT ![s] = "recv"]
      /\ UNCHANGED <<tries, prev, callers>>
  BY DEF StageSend
<1>8. PipelineTypeOK'
  BY <1>4, <1>5, <1>6, <1>7 DEF TypeInv, TypeOK, PipelineTypeOK, StagePcs
<1>9. HandInv'
  BY <1>7 DEF TypeInv, TypeOK, PipelineTypeOK, HandInv
<1>10. LockInv'
  BY <1>1, <1>3, <1>7 DEF TypeInv, TypeOK, PipelineTypeOK, LockInv, callers, Stages
<1>11. WriterTypeOK' /\ SlotInv' /\ CallerTypeOK' /\ CallInv' /\ StatusTypeOK' /\ FlagTypeOK'
  BY SameWriter, SameCallers, SameStatus, SameStops, SameFlags DEF StageSend
<1> QED BY <1>8, <1>9, <1>10, <1>11 DEF TypeInv, TypeOK

LEMMA PutCheckType == ASSUME TypeInv, PutCheck PROVE TypeInv'
<1> USE DEF PutCheck
<1>1. WriterTypeOK' /\ SlotInv' /\ CallerTypeOK' /\ CallInv' /\ LockInv'
  BY SameWriter, SameCallers, SameLock
<1>2. PipelineTypeOK' /\ HandInv'
  BY DEF TypeInv, TypeOK, PipelineTypeOK, HandInv, StagePcs
<1>3. FlagTypeOK'
  <2>1. aged' = aged /\ fenced' = fenced /\ serialFatal' = serialFatal
    BY DEF buffer
  <2>2. orderFatal' \in BOOLEAN
    BY Zenon
  <2> QED BY <2>1, <2>2, Zenon DEF TypeInv, TypeOK, FlagTypeOK
<1>4. failing \in Failing /\ alarm \in 0..4
  BY DEF TypeInv, TypeOK, StatusTypeOK
<1>5. failing' \in Failing
  <2>1. \A kind \in TerminalKinds : publish_terminal(failing, kind) \in Failing
    BY <1>4, ConstantFacts DEF Failing, publish_terminal, NoOffset, TerminalKinds
  <2> QED BY <1>4, <2>1 DEF TerminalKinds
<1>6. alarm' \in 0..4
  BY <1>4, RaisedType
<1>7. StatusTypeOK'
  BY <1>5, <1>6 DEF TypeInv, TypeOK, StatusTypeOK, outside
<1> QED BY <1>1, <1>2, <1>3, <1>7 DEF TypeInv, TypeOK

LEMMA RecordDurableType == ASSUME TypeInv, record_durable PROVE TypeInv'
<1> USE DEF record_durable
<1>1. CallerTypeOK' /\ CallInv' /\ LockInv' /\ FlagTypeOK'
  BY SameCallers, SameLock, SameStops, SameFlags DEF buffer
<1>2. PipelineTypeOK' /\ HandInv'
  BY DEF TypeInv, TypeOK, PipelineTypeOK, HandInv, StagePcs
<1>3. InHand("put") \in File /\ InHand("put").end \in Offset
  <2>1. InHand("put") \in File
    BY FileInHand DEF Stages
  <2> QED BY <2>1 DEF File
<1>4. stagedOffset' \in Offset \cup {NoOffset}
  <2>1. Max({stagedOffset, InHand("put").end}) \in {stagedOffset, InHand("put").end}
    <3> DEFINE S == {stagedOffset, InHand("put").end}
    <3>1. stagedOffset \in Int /\ InHand("put").end \in Int
      BY <1>3, ConstantFacts DEF TypeInv, TypeOK, WriterTypeOK, Offset, NoOffset
    <3>2. \E x \in S : \A y \in S : x >= y
      BY <3>1
    <3> QED BY <3>2 DEF Max
  <2> QED BY <1>3, <2>1 DEF TypeInv, TypeOK, WriterTypeOK
<1>5. WriterTypeOK' /\ SlotInv'
  BY <1>4 DEF TypeInv, TypeOK, WriterTypeOK, SlotInv, buffer
<1>6. StatusTypeOK'
  <2>1. announced' \in Seq(Int)
    BY <1>3, SerialType, AppendProperties DEF TypeInv, TypeOK, StatusTypeOK
  <2> QED BY <2>1 DEF TypeInv, TypeOK, StatusTypeOK, stops, progress
<1> QED BY <1>1, <1>2, <1>5, <1>6 DEF TypeInv, TypeOK

LEMMA LandType == ASSUME TypeInv, land PROVE TypeInv'
<1> USE DEF land
<1>1. /\ WriterTypeOK' /\ SlotInv' /\ CallerTypeOK' /\ CallInv' /\ LockInv' /\ FlagTypeOK'
  BY SameWriter, SameCallers, SameLock, SameStops, SameFlags
<1>2. InHand("put") \in File /\ "put" \in Stages
  BY FileInHand DEF Stages
<1>3. prev' \in {<<>>} \cup ((0..MaxEpoch) \X (0..MaxSeq))
  BY <1>2 DEF File
<1>4. hand' \in [Stages -> Seq(File)] /\ \A u \in Stages : Len(hand'[u]) <= 1
  <2>1. <<>> \in Seq(File) /\ Len(<<>>) = 0
    OBVIOUS
  <2> QED BY <1>2, <2>1 DEF TypeInv, TypeOK, PipelineTypeOK
<1>5. PipelineTypeOK'
  BY <1>3, <1>4 DEF TypeInv, TypeOK, PipelineTypeOK, StagePcs
<1>6. HandInv'
  BY DEF TypeInv, TypeOK, PipelineTypeOK, HandInv
<1>7. failing' \in Failing
  BY <1>2, ConstantFacts DEF TypeInv, TypeOK, StatusTypeOK, ClearedByLanding, NotFailing, Failing,
                             NoOffset
<1>8. StatusTypeOK'
  BY <1>2, <1>7, SerialType DEF TypeInv, TypeOK, StatusTypeOK, stops, outside
<1> QED BY <1>1, <1>5, <1>6, <1>8 DEF TypeInv, TypeOK

(***************************************************************************)
(* The ticker and the rest of the process.                                 *)
(***************************************************************************)
\* What seal(), successful or not, does to the buffer and the seal channel.
LEMMA SealType ==
  ASSUME TypeInv, buffered # {}, Room \/ ticker = "seal",
         UNCHANGED <<maxEnd, stagedOffset>>, acked' \subseteq Batches,
         (CanEncode /\ Seal) \/ (~CanEncode /\ SealRefused)
  PROVE  /\ WriterTypeOK' /\ SlotInv' /\ aged' \in BOOLEAN
         /\ inbox' \in [Stages -> Seq(File)]
         /\ \A u \in Stages : Len(inbox'[u]) <= IF u = "render" THEN Depth ELSE 1
<1>1. Len(inbox["render"]) < Depth /\ "render" \in Stages
  BY DEF Room, TypeInv, LockInv, Stages
<1>2. CASE CanEncode /\ Seal
  <2>1. CutFile \in File
    BY <1>2, CutFileType DEF TypeInv, TypeOK
  <2>2. /\ CutFile.epoch \in 0..MaxEpoch /\ CutFile.seq \in 0..MaxSeq /\ Serial(CutFile) \in Int
    BY <2>1, SerialType DEF File
  <2>3. WriterTypeOK' /\ SlotInv'
    BY <1>2, <2>2, ConstantFacts DEF Seal, TypeInv, TypeOK, WriterTypeOK, SlotInv
  <2>4. /\ Append(inbox["render"], CutFile) \in Seq(File)
        /\ Len(Append(inbox["render"], CutFile)) = Len(inbox["render"]) + 1
        /\ Len(inbox["render"]) \in Nat
    BY <1>1, <2>1, AppendProperties, LenProperties DEF TypeInv, TypeOK, PipelineTypeOK
  <2>5. inbox' = [inbox EXCEPT !["render"] = Append(inbox["render"], CutFile)]
    BY <1>2 DEF Seal
  <2>6. inbox' \in [Stages -> Seq(File)]
    BY <1>1, <2>4, <2>5 DEF TypeInv, TypeOK, PipelineTypeOK
  <2>7. \A u \in Stages : Len(inbox'[u]) <= IF u = "render" THEN Depth ELSE 1
    BY <1>1, <2>4, <2>5, ConstantFacts DEF TypeInv, TypeOK, PipelineTypeOK
  <2>8. aged' \in BOOLEAN
    BY <1>2 DEF Seal
  <2> QED BY <2>3, <2>6, <2>7, <2>8
<1>3. CASE ~CanEncode /\ SealRefused
  <2>1. WriterTypeOK' /\ SlotInv'
    BY <1>3, ConstantFacts
       DEF SealRefused, CanEncode, Encodable, Rolled, TypeInv, TypeOK, WriterTypeOK, SlotInv
  <2>2. aged' \in BOOLEAN
    BY <1>3, Zenon DEF SealRefused, TypeInv, TypeOK, FlagTypeOK
  <2>3. inbox' = inbox
    BY <1>3 DEF SealRefused
  <2> QED BY <2>1, <2>2, <2>3 DEF TypeInv, TypeOK, PipelineTypeOK
<1> QED BY <1>2, <1>3

LEMMA TickerSealType == ASSUME TypeInv, TickerSeal PROVE TypeInv'
<1>1. /\ WriterTypeOK' /\ SlotInv' /\ aged' \in BOOLEAN
      /\ inbox' \in [Stages -> Seq(File)]
      /\ \A u \in Stages : Len(inbox'[u]) <= IF u = "render" THEN Depth ELSE 1
  <2>1. CASE buffered # {} /\ aged
    BY <2>1, SealType DEF TickerSeal, offsets, TypeInv, TypeOK, WriterTypeOK
  <2>2. CASE ~(buffered # {} /\ aged)
    <3>1. UNCHANGED <<buffer, inbox, offsets>>
      BY <2>2 DEF TickerSeal
    <3>2. aged' = aged
      BY <3>1 DEF buffer
    <3>3. aged' \in BOOLEAN
      BY <3>2, Zenon DEF TypeInv, TypeOK, FlagTypeOK
    <3> QED BY <3>1, <3>3, SameWriter DEF TypeInv, TypeOK, PipelineTypeOK
  <2> QED BY <2>1, <2>2
<1>2. PipelineTypeOK' /\ HandInv'
  BY <1>1 DEF TickerSeal, TypeInv, TypeOK, PipelineTypeOK, HandInv
<1>3. CallerTypeOK' /\ CallInv'
  BY IdleType DEF TickerSeal, TypeInv, TypeOK, CallerTypeOK, CallInv, Silent
<1>4. LockInv'
  BY ConstantFacts DEF TickerSeal, TypeInv, LockInv
<1>5. StatusTypeOK'
  BY SameStatus, SameStops DEF TickerSeal
<1>6. FlagTypeOK'
  <2>1. fenced' = fenced /\ orderFatal' = orderFatal /\ serialFatal' = serialFatal
    BY DEF TickerSeal, stops
  <2> QED BY <1>1, <2>1, Zenon DEF TypeInv, TypeOK, FlagTypeOK
<1> QED BY <1>1, <1>2, <1>3, <1>4, <1>5, <1>6 DEF TypeInv, TypeOK

LEMMA TickerLockType == ASSUME TypeInv, TickerLock PROVE TypeInv'
<1> USE DEF TickerLock
<1>1. WriterTypeOK' /\ SlotInv' /\ PipelineTypeOK' /\ HandInv' /\ StatusTypeOK' /\ FlagTypeOK'
  BY SameWriter, SamePipeline, SameStatus, SameStops, SameFlags
<1>2. CallerTypeOK' /\ CallInv'
  BY IdleType DEF TypeInv, TypeOK, CallerTypeOK, CallInv, Silent
<1>3. LockInv'
  BY ConstantFacts DEF TypeInv, LockInv, TryLock, Room, pipeline
<1> QED BY <1>1, <1>2, <1>3 DEF TypeInv, TypeOK

LEMMA TickerStopType == ASSUME TypeInv, TickerStop PROVE TypeInv'
<1> USE DEF TickerStop
<1>1. WriterTypeOK' /\ SlotInv' /\ PipelineTypeOK' /\ HandInv' /\ FlagTypeOK'
  BY SameWriter, SamePipeline, SameFlags
<1>2. CallerTypeOK' /\ CallInv'
  BY IdleType DEF TypeInv, TypeOK, CallerTypeOK, CallInv, Silent
<1>3. LockInv'
  BY ConstantFacts DEF TypeInv, LockInv
<1>4. alarm' \in 0..4
  BY RaisedType DEF TypeInv, TypeOK, StatusTypeOK
<1>5. StatusTypeOK'
  BY <1>4 DEF TypeInv, TypeOK, StatusTypeOK, progress, outside
<1> QED BY <1>1, <1>2, <1>3, <1>5 DEF TypeInv, TypeOK

LEMMA EnvironmentType == ASSUME TypeInv, Environment \/ Terminated PROVE TypeInv'
<1>1. CASE Age
  <2>1. WriterTypeOK' /\ SlotInv'
    BY <1>1 DEF Age, TypeInv, TypeOK, WriterTypeOK, SlotInv, offsets
  <2>2. CallerTypeOK' /\ CallInv' /\ LockInv' /\ PipelineTypeOK' /\ HandInv' /\ StatusTypeOK'
    BY <1>1, SameCallers, SamePipeline, SameLock, SameStatus, SameStops DEF Age
  <2>3. fenced' = fenced /\ orderFatal' = orderFatal /\ serialFatal' = serialFatal /\ aged' = TRUE
    BY <1>1 DEF Age, stops
  <2>4. FlagTypeOK'
    BY <2>3, Zenon DEF TypeInv, TypeOK, FlagTypeOK
  <2> QED BY <2>1, <2>2, <2>4 DEF TypeInv, TypeOK
<1>2. CASE fence \/ SerialFatal
  <2> USE <1>2 DEF fence, SerialFatal
  <2>1. /\ WriterTypeOK' /\ SlotInv' /\ CallerTypeOK' /\ CallInv' /\ LockInv' /\ PipelineTypeOK'
        /\ HandInv'
    BY SameWriter, SameCallers, SamePipeline, SameLock
  <2>2. alarm' \in 0..4
    BY RaisedType DEF TypeInv, TypeOK, StatusTypeOK
  <2>3. StatusTypeOK'
    BY <2>2 DEF TypeInv, TypeOK, StatusTypeOK, progress, outside
  <2>4. aged' = aged
    BY DEF buffer
  <2>5. FlagTypeOK'
    BY <2>4, Zenon DEF TypeInv, TypeOK, FlagTypeOK
  <2> QED BY <2>1, <2>3, <2>5 DEF TypeInv, TypeOK
<1>3. CASE Drop \/ Free
  <2> USE <1>3 DEF Drop, Free
  <2>1. WriterTypeOK' /\ SlotInv' /\ PipelineTypeOK' /\ HandInv' /\ StatusTypeOK' /\ FlagTypeOK'
    BY SameWriter, SamePipeline, SameStatus, SameStops, SameFlags
  <2>2. CallerTypeOK' /\ CallInv'
    BY IdleType DEF TypeInv, TypeOK, CallerTypeOK, CallInv, Silent
  <2>3. LockInv'
    BY DEF TypeInv, LockInv, pipeline
  <2> QED BY <2>1, <2>2, <2>3 DEF TypeInv, TypeOK
<1>4. CASE Terminated
  <2>1. UNCHANGED <<buffer, callers, pipeline, offsets, stops, progress, outside, returned>>
    BY <1>4 DEF Terminated, vars
  <2>2. WriterTypeOK' /\ SlotInv' /\ PipelineTypeOK' /\ HandInv' /\ StatusTypeOK' /\ FlagTypeOK'
        /\ LockInv'
    BY <2>1, SameWriter, SamePipeline, SameStatus, SameStops, SameFlags, SameLock
  <2>3. CallerTypeOK' /\ CallInv'
    BY <2>1 DEF TypeInv, TypeOK, CallerTypeOK, CallInv, callers
  <2> QED BY <2>2, <2>3 DEF TypeInv, TypeOK
<1> QED BY <1>1, <1>2, <1>3, <1>4 DEF Environment

(***************************************************************************)
(* The callers.                                                            *)
(***************************************************************************)
LEMMA StartCallType == ASSUME TypeInv, NEW t \in Tasks, StartCall(t) PROVE TypeInv'
<1>1. call[t].pc = "idle" /\ call \in [Tasks -> Calls] /\ FatalState \in Results
  BY ErrorTypes
     DEF StartCall, AppendRefused, AppendBatch, Flush, CanCall, TypeInv, TypeOK, CallerTypeOK,
         FatalState
<1>2. CASE \E r \in OffsetRange, schemaOk \in BOOLEAN : AppendRefused(t, r, schemaOk)
  <2> USE <1>2 DEF AppendRefused
  <2>1. /\ WriterTypeOK' /\ SlotInv' /\ PipelineTypeOK' /\ HandInv' /\ StatusTypeOK' /\ FlagTypeOK'
        /\ LockInv'
    BY SameWriter, SamePipeline, SameStatus, SameStops, SameFlags, SameLock
  <2>2. returned' \in Returns
    BY AppendErrorType, IdleType DEF Returns, NoReturn
  <2>3. CallerTypeOK' /\ CallInv'
    BY <2>2 DEF TypeInv, TypeOK, CallerTypeOK, CallInv, callers
  <2> QED BY <2>1, <2>3 DEF TypeInv, TypeOK
<1>3. CASE \E b \in Batches, rotate \in BOOLEAN : AppendBatch(t, b, rotate)
  <2>1. PICK b \in Batches, rotate \in BOOLEAN : AppendBatch(t, b, rotate)
    BY <1>3
  <2> USE <2>1 DEF AppendBatch
  <2>2. PipelineTypeOK' /\ HandInv' /\ StatusTypeOK' /\ FlagTypeOK'
    BY SamePipeline, SameStatus, SameStops, SameFlags
  <2>3. WriterTypeOK' /\ SlotInv'
    BY ConstantFacts DEF TypeInv, TypeOK, WriterTypeOK, SlotInv, pipeline
  <2>4. \/ /\ returned' \in Returns /\ call' = call
        \/ /\ returned' = NoReturn
           /\ \E c \in Calls : /\ call' = [call EXCEPT ![t] = c]
                               /\ c.pc = "lock" /\ c.batch \in Batches
    <3>1. CASE rotate
      <4> DEFINE c == [Idle EXCEPT !.pc = "lock", !.op = "append", !.batch = b, !.before = maxEnd]
      <4>1. c \in Calls /\ c.pc = "lock" /\ c.batch \in Batches
        BY IdleType DEF Idle, Calls, TypeInv, TypeOK, WriterTypeOK
      <4>2. call' = [call EXCEPT ![t] = c] /\ returned' = NoReturn
        BY <3>1 DEF Silent
      <4> QED BY <4>1, <4>2
    <3>2. CASE ~rotate
      BY <3>2, IdleType DEF Returns, NoReturn, Results
    <3> QED BY <3>1, <3>2
  <2>5. CallerTypeOK' /\ CallInv'
    BY <2>4, IdleType DEF TypeInv, TypeOK, CallerTypeOK, CallInv
  <2>6. LockInv'
    BY <1>1, <2>4 DEF TypeInv, LockInv, pipeline
  <2> QED BY <2>2, <2>3, <2>5, <2>6 DEF TypeInv, TypeOK
<1>4. CASE \E op \in {"flush", "close"} : Flush(t, op)
  <2>1. PICK op \in {"flush", "close"} : Flush(t, op)
    BY <1>4
  <2> USE <2>1 DEF Flush
  <2>2. WriterTypeOK' /\ SlotInv' /\ PipelineTypeOK' /\ HandInv' /\ StatusTypeOK' /\ FlagTypeOK'
    BY SameWriter, SamePipeline, SameStatus, SameStops, SameFlags
  <2>3. \/ /\ returned' \in Returns /\ call' = call
        \/ /\ returned' = NoReturn
           /\ \E c \in Calls : /\ call' = [call EXCEPT ![t] = c]
                               /\ c.pc = "lock" /\ c.op # "append"
    <3>1. CASE FatalState = "none"
      <4> DEFINE c == [Idle EXCEPT !.pc = "lock", !.op = op, !.owed = Owed]
      <4>1. Owed \in Offset \cup {NoOffset}
        BY OwedType DEF TypeInv, TypeOK, WriterTypeOK
      <4>2. c \in Calls /\ c.pc = "lock" /\ c.op # "append"
        BY <4>1, IdleType DEF Idle, Calls
      <4>3. call' = [call EXCEPT ![t] = c] /\ returned' = NoReturn
        BY <3>1 DEF Silent
      <4> QED BY <4>2, <4>3
    <3>2. CASE FatalState # "none"
      BY <1>1, <3>2, IdleType DEF Returns, NoReturn
    <3> QED BY <3>1, <3>2
  <2>4. handle' \in {"open", "closing", "dropped", "freed"}
    BY DEF TypeInv, TypeOK, CallerTypeOK
  <2>5. CallerTypeOK' /\ CallInv'
    BY <2>3, <2>4, IdleType DEF TypeInv, TypeOK, CallerTypeOK, CallInv
  <2>6. LockInv'
    BY <1>1, <2>3 DEF TypeInv, LockInv, pipeline
  <2> QED BY <2>2, <2>5, <2>6 DEF TypeInv, TypeOK
<1> QED BY <1>2, <1>3, <1>4 DEF StartCall

\* The steps on the way to the lock and to queue room.
LEMMA LockStepType ==
  ASSUME TypeInv, NEW t \in Tasks, TakeLock(t) \/ GetLock(t) \/ QueueFull(t) PROVE TypeInv'
<1> USE DEF TakeLock, GetLock, QueueFull
<1>1. WriterTypeOK' /\ SlotInv' /\ PipelineTypeOK' /\ HandInv' /\ StatusTypeOK' /\ FlagTypeOK'
  BY SameWriter, SamePipeline, SameStatus, SameStops, SameFlags
<1>2. call' \in [Tasks -> Calls] /\ CallInv'
  BY DEF Goto, TypeInv, TypeOK, CallerTypeOK, CallInv, Calls
<1>3. CallerTypeOK'
  BY <1>2, IdleType DEF TypeInv, TypeOK, CallerTypeOK, Silent
<1>4. LockInv'
  <2>1. /\ ticker' = ticker /\ inbox' = inbox
        /\ \A u \in Tasks \ {t} : call'[u] = call[u]
    BY DEF Goto, pipeline, TypeInv, TypeOK, CallerTypeOK
  <2>2. \/ sealLock = "free" /\ sealLock' = t /\ call'[t].pc = "reserve"
        \/ sealLock' = sealLock /\ call[t].pc = "lock" /\ call'[t].pc = "waitLock"
        \/ sealLock' = sealLock /\ call[t].pc = "reserve" /\ call'[t].pc = "waitRoom"
    BY DEF TryLock, Goto, TypeInv, TypeOK, CallerTypeOK, Calls
  <2> HIDE DEF TakeLock, GetLock, QueueFull
  <2>3. \A u \in Tasks : call'[u].pc \in {"reserve", "waitRoom"} <=> sealLock' = u
    BY <2>1, <2>2, ConstantFacts DEF TypeInv, LockInv
  <2>4. ticker' = "seal" <=> sealLock' = "ticker"
    BY <2>1, <2>2, ConstantFacts DEF TypeInv, LockInv
  <2> QED BY <2>1, <2>3, <2>4 DEF TypeInv, LockInv
<1> QED BY <1>1, <1>2, <1>3, <1>4 DEF TypeInv, TypeOK

\* The steps that end a call outside seal_and_send, and a flush reading its target.
LEMMA ReturnStepType ==
  ASSUME TypeInv, NEW t \in Tasks,
         Unbuffer(t) \/ ReadTarget(t) \/ AwaitDurable(t) \/ Cancel(t)
  PROVE  TypeInv'
<1> USE DEF Unbuffer, ReadTarget, AwaitDurable, Cancel
<1>1. PipelineTypeOK' /\ HandInv' /\ StatusTypeOK'
  BY SamePipeline, SameStatus, SameStops
<1>2. call[t] \in Calls /\ call[t].err \in Results /\ call[t].before \in Offset \cup {NoOffset}
  BY DEF TypeInv, TypeOK, CallerTypeOK, Calls
<1>3. \/ \E res \in Results : Return(t, res)
      \/ /\ UNCHANGED <<handle, acked>> /\ Silent /\ call[t].pc = "target"
         /\ call' = [call EXCEPT ![t].pc = "durable", ![t].target = lastSealed]
  BY <1>2, ErrorTypes DEF StallErrorAt, Results
<1>4. /\ call' \in [Tasks -> Calls] /\ CallInv'
      /\ handle' \in {"open", "closing", "dropped", "freed"}
      /\ returned' \in Returns /\ acked' \subseteq Batches
      /\ call'[t].pc \in {"idle", "durable"} /\ \A u \in Tasks \ {t} : call'[u] = call[u]
  <2>1. CASE \E res \in Results : Return(t, res)
    BY <2>1, ReturnType DEF Idle, TypeInv, TypeOK, CallerTypeOK
  <2>2. CASE /\ UNCHANGED <<handle, acked>> /\ Silent
             /\ call' = [call EXCEPT ![t].pc = "durable", ![t].target = lastSealed]
    <3> HIDE DEF Unbuffer, ReadTarget, AwaitDurable, Cancel
    <3> DEFINE c == [call[t] EXCEPT !.pc = "durable", !.target = lastSealed]
    <3>1. call' = [call EXCEPT ![t] = c] /\ call \in [Tasks -> Calls]
      BY <2>2 DEF TypeInv, TypeOK, CallerTypeOK
    <3>2. c \in Calls /\ c.pc = "durable" /\ c.op = call[t].op /\ c.batch = call[t].batch
      BY <1>2 DEF Calls, TypeInv, TypeOK, WriterTypeOK
    <3> HIDE DEF c
    <3>3. /\ call' \in [Tasks -> Calls] /\ CallInv'
          /\ call'[t].pc = "durable" /\ \A u \in Tasks \ {t} : call'[u] = call[u]
      BY <3>1, <3>2 DEF TypeInv, CallInv
    <3> QED BY <2>2, <3>3, IdleType DEF TypeInv, TypeOK, WriterTypeOK, CallerTypeOK, Silent
  <2> QED BY <1>3, <2>1, <2>2
<1>5. ticker' = ticker /\ inbox' = inbox /\ (sealLock' = sealLock \/ sealLock' = Unlocked(t))
  BY DEF pipeline
<1>6. sealLock' = Unlocked(t)
  BY <1>5 DEF Unlocked, TypeInv, LockInv
<1>7. CallerTypeOK'
  BY <1>4, <1>5, <1>6 DEF Unlocked, TypeInv, TypeOK, CallerTypeOK
<1>8. LockInv'
  BY <1>4, <1>5, <1>6, ConstantFacts DEF Unlocked, TypeInv, LockInv
<1>9. WriterTypeOK' /\ SlotInv'
  BY <1>2, <1>4 DEF TypeInv, TypeOK, WriterTypeOK, SlotInv, buffer
<1>10. FlagTypeOK'
  <2>1. fenced' = fenced /\ orderFatal' = orderFatal /\ serialFatal' = serialFatal
    BY DEF stops
  <2>2. aged' \in BOOLEAN
    BY DEF TypeInv, TypeOK, FlagTypeOK, buffer
  <2> QED BY <2>1, <2>2, Zenon DEF TypeInv, TypeOK, FlagTypeOK
<1> QED BY <1>1, <1>4, <1>7, <1>8, <1>9, <1>10 DEF TypeInv, TypeOK

\* The steps that end seal_and_send without a file.
LEMMA SealEndType ==
  ASSUME TypeInv, NEW t \in Tasks, GiveUp(t) \/ NothingToSeal(t) \/ PipelineClosed(t)
  PROVE  TypeInv'
<1> USE DEF GiveUp, NothingToSeal, PipelineClosed
<1>1. LeavesSeal(t) /\ call[t].pc \in {"waitLock", "reserve", "waitRoom"}
  BY ErrorTypes DEF LeavesSeal, FatalState
<1>2. /\ CallerTypeOK' /\ CallInv' /\ acked' \subseteq Batches
      /\ \A u \in Tasks : call'[u].pc \in {"reserve", "waitRoom"} <=> sealLock' = u
      /\ ticker' = "seal" <=> sealLock' = "ticker"
  BY <1>1, LeavesSealType
<1>3. PipelineTypeOK' /\ HandInv'
  BY SamePipeline
<1>4. WriterTypeOK' /\ SlotInv'
  BY <1>2 DEF TypeInv, TypeOK, WriterTypeOK, SlotInv, buffer
<1>5. LockInv'
  BY <1>2 DEF TypeInv, LockInv, pipeline
<1>6. FlagTypeOK'
  BY SameStops, SameFlags DEF buffer
<1>7. failing' \in Failing
  <2>1. failing \in Failing /\ \A kind \in TerminalKinds : publish_terminal(failing, kind) \in Failing
    BY ConstantFacts
       DEF TypeInv, TypeOK, StatusTypeOK, Failing, publish_terminal, NoOffset, TerminalKinds
  <2> QED BY <2>1 DEF TerminalKinds, progress
<1>8. StatusTypeOK'
  BY <1>7 DEF TypeInv, TypeOK, StatusTypeOK, stops, progress, outside
<1> QED BY <1>2, <1>3, <1>4, <1>5, <1>6, <1>8 DEF TypeInv, TypeOK

LEMMA SealAndSendType == ASSUME TypeInv, NEW t \in Tasks, SealAndSend(t) PROVE TypeInv'
<1>1. /\ FatalState # "none" \/ buffered = {} => UNCHANGED <<buffer, inbox>>
      /\ FatalState = "none" /\ buffered # {} =>
           (CanEncode /\ Seal) \/ (~CanEncode /\ SealRefused)
  BY DEF SealAndSend
<1>2. LeavesSeal(t) /\ call[t].pc \in {"waitLock", "reserve", "waitRoom"} /\ Room /\ ticker' = ticker
  <2>1. FatalState \in Results /\ "Naming" \in Results
    BY ErrorTypes DEF FatalState, Results
  <2>2. buffered # {} /\ CanEncode => Serial(CutFile) \in Int
    BY CutFileType, SerialType DEF TypeInv, TypeOK
  <2> QED BY <2>1, <2>2 DEF SealAndSend, LeavesSeal
<1>3. /\ CallerTypeOK' /\ CallInv' /\ acked' \subseteq Batches
      /\ \A u \in Tasks : call'[u].pc \in {"reserve", "waitRoom"} <=> sealLock' = u
      /\ ticker' = "seal" <=> sealLock' = "ticker"
  BY <1>2, LeavesSealType
<1>4. UNCHANGED <<maxEnd, stagedOffset, at, hand, tries, prev, stops, progress, outside>>
  BY DEF SealAndSend
<1>5. /\ WriterTypeOK' /\ SlotInv' /\ aged' \in BOOLEAN
      /\ inbox' \in [Stages -> Seq(File)]
      /\ \A u \in Stages : Len(inbox'[u]) <= IF u = "render" THEN Depth ELSE 1
  <2>1. CASE FatalState # "none" \/ buffered = {}
    <3>1. UNCHANGED <<buffer, inbox>>
      BY <1>1, <2>1
    <3>2. aged' \in BOOLEAN
      BY <3>1 DEF buffer, TypeInv, TypeOK, FlagTypeOK
    <3> QED BY <1>3, <1>4, <3>1, <3>2
            DEF TypeInv, TypeOK, WriterTypeOK, SlotInv, PipelineTypeOK, buffer
  <2>2. CASE FatalState = "none" /\ buffered # {}
    BY <1>1, <1>2, <1>3, <1>4, <2>2, SealType
  <2> QED BY <2>1, <2>2
<1>6. PipelineTypeOK' /\ HandInv'
  BY <1>4, <1>5 DEF TypeInv, TypeOK, PipelineTypeOK, HandInv
<1>7. LockInv'
  <2>1. ticker # "seal"
    BY <1>2, ConstantFacts DEF SealAndSend, TypeInv, LockInv
  <2> QED BY <1>2, <1>3, <2>1 DEF LockInv
<1>8. StatusTypeOK'
  BY <1>4, SameStatus, SameStops
<1>9. FlagTypeOK'
  <2>1. fenced' = fenced /\ orderFatal' = orderFatal /\ serialFatal' = serialFatal
    BY <1>4 DEF stops
  <2> QED BY <1>5, <2>1, Zenon DEF TypeInv, TypeOK, FlagTypeOK
<1> QED BY <1>3, <1>5, <1>6, <1>7, <1>8, <1>9 DEF TypeInv, TypeOK

LEMMA NextTypeInv == TypeInv /\ [Next]_vars => TypeInv'
<1> SUFFICES ASSUME TypeInv, [Next]_vars PROVE TypeInv'
  OBVIOUS
<1>1. ASSUME NEW t \in Tasks, CallerStep(t) \/ StartCall(t) \/ Cancel(t) PROVE TypeInv'
  BY <1>1, StartCallType, LockStepType, ReturnStepType, SealEndType, SealAndSendType
     DEF CallerStep
<1>2. ASSUME NEW s \in Stages, StageStep(s) PROVE TypeInv'
  BY <1>2, StageMoveType, StageRecvType, StageStopType, AttemptType, StageSendType DEF StageStep
<1>3. CASE RenderStep \/ GzipStep \/ PutStep
  BY <1>2, <1>3, StageStopType, AttemptType, PutCheckType, RecordDurableType, LandType
     DEF RenderStep, GzipStep, PutStep, Stages
<1>4. CASE TickerStep
  BY <1>4, TickerStopType, TickerLockType, TickerSealType DEF TickerStep
<1>5. CASE Environment \/ Terminated
  BY <1>5, EnvironmentType
<1>6. CASE UNCHANGED vars
  <2>1. UNCHANGED <<buffer, callers, pipeline, offsets, stops, progress, outside, returned>>
    BY <1>6 DEF vars
  <2>2. WriterTypeOK' /\ SlotInv' /\ PipelineTypeOK' /\ HandInv' /\ StatusTypeOK' /\ FlagTypeOK'
        /\ LockInv'
    BY <2>1, SameWriter, SamePipeline, SameStatus, SameStops, SameFlags, SameLock
  <2>3. CallerTypeOK' /\ CallInv'
    BY <2>1 DEF TypeInv, TypeOK, CallerTypeOK, CallInv, callers
  <2> QED BY <2>2, <2>3 DEF TypeInv, TypeOK
<1> QED BY <1>1, <1>3, <1>4, <1>5, <1>6 DEF Next

(***************************************************************************)
(* In every reachable state of a TableWriter, for every channel depth,     *)
(* epoch width, set of callers and retry limit, every variable has its     *)
(* type: no channel of spawn_pipeline is over its capacity, although the   *)
(* ticker reserves its slot one step before it sends.                      *)
(***************************************************************************)
THEOREM TypeCorrect == Spec => []TypeOK
<1>1. Spec => []TypeInv
  BY InitTypeInv, NextTypeInv, PTL DEF Spec
<1>2. TypeInv => TypeOK
  BY DEF TypeInv
<1> QED BY <1>1, <1>2, PTL

-----------------------------------------------------------------------------
(***************************************************************************)
(* The Progress channel's one Failing slot: a terminal entry, once there,  *)
(* is the answer every waiter gets.                                        *)
(***************************************************************************)

(***************************************************************************)
(* A terminal entry carries a number below every file's, so that no file   *)
(* can pass for the one it is about.                                       *)
(***************************************************************************)
TerminalIsBelow == is_terminal(failing) => failing.seq = NoOffset

StickyInv == TypeInv /\ TerminalIsBelow

LEMMA SerialIsNat == \A f \in File : Serial(f) \in Nat
BY ConstantFacts DEF Serial, Encode, File

(***************************************************************************)
(* What the five operations on the slot do to a terminal entry.            *)
(***************************************************************************)
LEMMA KeepsTerminal ==
  ASSUME NEW f \in Failing, NEW file \in File, NEW n, NEW p, NEW kind \in TerminalKinds,
         is_terminal(f) => f.seq = NoOffset
  PROVE  /\ is_terminal(f) => /\ publish_terminal(f, kind) = f
                              /\ report_failure(f, file, n, p) = f
                              /\ clear_failure(f, file) = f
                              /\ ClearedByLanding(f, file) = f
         /\ \A g \in {publish_terminal(f, kind), report_failure(f, file, n, p),
                      clear_failure(f, file), ClearedByLanding(f, file)} :
              is_terminal(g) => g.seq = NoOffset
<1>1. Serial(file) # NoOffset
  BY SerialIsNat DEF NoOffset
<1>2. f.kind = "Stage" => ~is_terminal(f)
  BY DEF is_terminal, TerminalKinds
<1>3. is_terminal(f) => /\ publish_terminal(f, kind) = f
                        /\ report_failure(f, file, n, p) = f
                        /\ clear_failure(f, file) = f
                        /\ ClearedByLanding(f, file) = f
  BY <1>1, <1>2 DEF publish_terminal, report_failure, clear_failure, ClearedByLanding
<1>4. ~is_terminal(NotFailing)
  BY DEF is_terminal, NotFailing, TerminalKinds
<1>5. \A g \in {publish_terminal(f, kind), report_failure(f, file, n, p),
                clear_failure(f, file), ClearedByLanding(f, file)} :
        is_terminal(g) => g.seq = NoOffset
  BY <1>4 DEF publish_terminal, report_failure, clear_failure, ClearedByLanding, is_terminal,
              TerminalKinds
<1> QED BY <1>3, <1>5

\* publish_terminal needs no file.
LEMMA PublishKeepsTerminal ==
  ASSUME NEW f, NEW kind, is_terminal(f) => f.seq = NoOffset
  PROVE  /\ is_terminal(f) => publish_terminal(f, kind) = f
         /\ publish_terminal(f, kind).seq = NoOffset
BY DEF publish_terminal

-----------------------------------------------------------------------------
LEMMA StickyStep ==
  StickyInv /\ [Next]_vars =>
    /\ is_terminal(failing) => failing' = failing
    /\ TerminalIsBelow'
<1> DEFINE Goal == (is_terminal(failing) => failing' = failing) /\ TerminalIsBelow'
<1> SUFFICES ASSUME StickyInv, [Next]_vars PROVE Goal
  OBVIOUS
<1>1. failing \in Failing /\ (is_terminal(failing) => failing.seq = NoOffset)
  BY DEF StickyInv, TerminalIsBelow, TypeInv, TypeOK, StatusTypeOK
<1>2. ASSUME failing' = failing PROVE Goal
  BY <1>1, <1>2 DEF TerminalIsBelow
<1>3. ASSUME NEW kind, failing' = publish_terminal(failing, kind) PROVE Goal
  BY <1>1, <1>3, PublishKeepsTerminal DEF TerminalIsBelow
<1>4. ASSUME NEW file \in File, NEW n, NEW p,
             \/ failing' = report_failure(failing, file, n, p)
             \/ failing' = clear_failure(failing, file)
             \/ failing' = ClearedByLanding(failing, file)
      PROVE  Goal
  <2>1. "Fenced" \in TerminalKinds
    BY DEF TerminalKinds
  <2> QED BY <1>1, <1>4, <2>1, KeepsTerminal DEF TerminalIsBelow
<1> HIDE DEF Goal
<1>5. ASSUME NEW t \in Tasks, CallerStep(t) \/ StartCall(t) \/ Cancel(t) PROVE Goal
  <2>1. CASE PipelineClosed(t)
    <3>1. failing' = failing \/ failing' = publish_terminal(failing, "PipelineGone")
      BY <2>1 DEF PipelineClosed
    <3> QED BY <1>2, <1>3, <3>1
  <2>2. CASE \/ Unbuffer(t) \/ TakeLock(t) \/ GetLock(t) \/ GiveUp(t) \/ NothingToSeal(t)
             \/ QueueFull(t) \/ SealAndSend(t) \/ ReadTarget(t) \/ AwaitDurable(t) \/ Cancel(t)
    <3>1. failing' = failing
      BY <2>2
         DEF Unbuffer, TakeLock, GetLock, GiveUp, NothingToSeal, QueueFull, SealAndSend,
             ReadTarget, AwaitDurable, Cancel, progress
    <3> QED BY <1>2, <3>1
  <2>3. CASE StartCall(t)
    <3>1. failing' = failing
      BY <2>3 DEF StartCall, AppendRefused, AppendBatch, Flush, progress
    <3> QED BY <1>2, <3>1
  <2> QED BY <1>5, <2>1, <2>2, <2>3 DEF CallerStep
<1>6. ASSUME NEW s \in Stages, StageStep(s) PROVE Goal
  <2>1. CASE AttemptOk(s) \/ \E landed \in BOOLEAN : AttemptFails(s, landed)
    <3>1. InHand(s) \in File
      BY <2>1, FileInHand DEF AttemptOk, AttemptFails, StickyInv
    <3>2. \/ failing' = failing
          \/ failing' = clear_failure(failing, InHand(s))
          \/ failing' = report_failure(failing, InHand(s), tries'[s], FALSE)
      BY <2>1 DEF AttemptOk, AttemptFails
    <3> QED BY <1>2, <1>4, <3>1, <3>2
  <2>2. CASE StageStop(s)
    <3>1. failing' = failing \/ failing' = publish_terminal(failing, "Fenced")
      BY <2>2 DEF StageStop
    <3> QED BY <1>2, <1>3, <3>1
  <2>3. CASE StageRecv(s) \/ StageDrained(s) \/ StageTry(s) \/ StageSend(s) \/ SendRefused(s)
    <3>1. failing' = failing
      BY <2>3 DEF StageRecv, StageDrained, StageTry, StageSend, SendRefused, progress
    <3> QED BY <1>2, <3>1
  <2> QED BY <1>6, <2>1, <2>2, <2>3 DEF StageStep
<1>7. CASE RenderRejects
  <2>1. InHand("render") \in File
    BY <1>7, FileInHand DEF RenderRejects, StickyInv, Stages
  <2>2. failing' = report_failure(failing, InHand("render"), tries["render"] + 1, TRUE)
    BY <1>7 DEF RenderRejects
  <2> QED BY <1>4, <2>1, <2>2
<1>8. CASE RenderGivesUp \/ PutCheck
  <2>1. \/ failing' = failing
        \/ failing' = publish_terminal(failing, "Rotation")
        \/ failing' = publish_terminal(failing, "OrderViolation")
    BY <1>8 DEF RenderGivesUp, PutCheck
  <2> QED BY <1>2, <1>3, <2>1
<1>9. CASE land
  <2>1. InHand("put") \in File
    BY <1>9, FileInHand DEF land, StickyInv, Stages
  <2>2. failing' = ClearedByLanding(failing, InHand("put"))
    BY <1>9 DEF land
  <2> QED BY <1>4, <2>1, <2>2
<1>10. CASE record_durable \/ TickerStep \/ Environment \/ Terminated \/ UNCHANGED vars
  <2>1. failing' = failing
    BY <1>10
       DEF record_durable, TickerStep, TickerStop, TickerLock, TickerSeal, Environment, Age, fence,
           SerialFatal, Drop, Free, Terminated, vars, progress
  <2> QED BY <1>2, <2>1
<1>11. CASE RenderStep \/ GzipStep \/ PutStep
  BY <1>6, <1>7, <1>8, <1>9, <1>10, <1>11 DEF RenderStep, GzipStep, PutStep, Stages
<1> QED BY <1>5, <1>10, <1>11 DEF Next

(***************************************************************************)
(* publish_terminal, report_failure, clear_failure and land between them   *)
(* never overwrite and never clear a terminal entry, whichever stages and  *)
(* callers run them and in whatever order.                                 *)
(***************************************************************************)
THEOREM TerminalStays == Spec => TerminalIsSticky
<1>1. Init => StickyInv
  BY InitTypeInv DEF StickyInv, TerminalIsBelow, Init, NotFailing, is_terminal, TerminalKinds
<1>2. StickyInv /\ [Next]_vars => StickyInv'
  BY NextTypeInv, StickyStep DEF StickyInv
<1>3. StickyInv /\ [Next]_vars => [is_terminal(failing) => failing' = failing]_failing
  BY StickyStep
<1> QED BY <1>1, <1>2, <1>3, PTL DEF Spec, TerminalIsSticky

-----------------------------------------------------------------------------
(***************************************************************************)
(* The order tripwire: nothing reaches the put stage out of sequence.      *)
(***************************************************************************)
OrderInv == TypeInv /\ PipelineInOrder /\ TripwireSilent

-----------------------------------------------------------------------------
(***************************************************************************)
(* Flight, and what each kind of step does to it.                          *)
(***************************************************************************)
LEMMA ChannelTypes ==
  ASSUME TypeInv
  PROVE  \A s \in Stages : hand[s] \in Seq(File) /\ inbox[s] \in Seq(File)
BY DEF TypeInv, TypeOK, PipelineTypeOK

\* Associativity as a predicate, so that a step names the instance it needs.
Groups(x, y, z) == (x \o y) \o z = x \o (y \o z)

LEMMA ConcatType == \A S : \A x, y \in Seq(S) : x \o y \in Seq(S)
BY ConcatProperties

LEMMA ConcatGroups == \A S : \A x, y, z \in Seq(S) : Groups(x, y, z)
BY ConcatAssociative DEF Groups

\* The six parts of Flight, read from the put stage back to the buffer.
Parts(S, a, b, c, d, e, f) ==
  /\ a \o b \in Seq(S)
  /\ a \o b \o c \in Seq(S)
  /\ a \o b \o c \o d \in Seq(S)
  /\ a \o b \o c \o d \o e \in Seq(S)
  /\ a \o b \o c \o d \o e \o f \in Seq(S)
  /\ a \o b \o c \o d \o e \o f = a \o (<<>> \o b \o c \o d \o e \o f)

LEMMA FlightParts ==
  ASSUME NEW S, NEW a \in Seq(S), NEW b \in Seq(S), NEW c \in Seq(S), NEW d \in Seq(S),
         NEW e \in Seq(S), NEW f \in Seq(S)
  PROVE  Parts(S, a, b, c, d, e, f)
<1>1. a \o b \in Seq(S) /\ b \o c \in Seq(S)
  BY ConcatType
<1>2. a \o b \o c \in Seq(S) /\ b \o c \o d \in Seq(S)
  BY ConcatType, <1>1, Zenon
<1>3. a \o b \o c \o d \in Seq(S) /\ b \o c \o d \o e \in Seq(S)
  BY ConcatType, <1>2, Zenon
<1>4. a \o b \o c \o d \o e \in Seq(S)
  BY ConcatType, <1>3, Zenon
<1>5. a \o b \o c \o d \o e \o f \in Seq(S)
  BY ConcatType, <1>4, Zenon
<1>6. <<>> \o b = b
  BY ConcatEmptySeq
<1>7. Groups(a, b, c) /\ Groups(a, b \o c, d) /\ Groups(a, b \o c \o d, e)
      /\ Groups(a, b \o c \o d \o e, f)
  BY ConcatGroups, <1>1, <1>2, <1>3, Zenon
<1>8. a \o b \o c \o d \o e \o f = a \o (b \o c \o d \o e \o f)
  BY <1>7, Zenon DEF Groups
<1> QED BY <1>1, <1>2, <1>3, <1>4, <1>5, <1>6, <1>8, Zenon DEF Parts

\* With these parts, and with the put stage's hand empty.
LEMMA FlightTypes ==
  ASSUME TypeInv
  PROVE  /\ Parts(File, hand["put"], inbox["put"], hand["gzip"], inbox["gzip"], hand["render"],
                  inbox["render"])
         /\ Parts(File, <<>>, inbox["put"], hand["gzip"], inbox["gzip"], hand["render"],
                  inbox["render"])
         /\ Flight \in Seq(File)
<1>1. <<>> \in Seq(File)
  BY EmptySeq
<1>2. Parts(File, hand["put"], inbox["put"], hand["gzip"], inbox["gzip"], hand["render"],
            inbox["render"])
  BY ChannelTypes, FlightParts, Zenon DEF Stages
<1>3. Parts(File, <<>>, inbox["put"], hand["gzip"], inbox["gzip"], hand["render"],
            inbox["render"])
  BY <1>1, ChannelTypes, FlightParts, Zenon DEF Stages
<1>4. Flight \in Seq(File)
  BY <1>2, Zenon DEF Parts, Flight
<1> QED BY <1>2, <1>3, <1>4

\* The front of a non-empty run.
LEMMA FrontProperties ==
  ASSUME NEW S, NEW e \in S, NEW y \in Seq(S)
  PROVE  /\ <<e>> \o y # <<>> /\ Len(y) \in Nat /\ Len(<<e>> \o y) = Len(y) + 1
         /\ (<<e>> \o y)[1] = e /\ \A i \in 1..Len(y) : (<<e>> \o y)[i + 1] = y[i]
<1>1. <<e>> \in Seq(S) /\ Len(<<e>>) = 1
  OBVIOUS
<1>2. /\ Len(<<e>> \o y) = Len(y) + 1
      /\ \A i \in 1..Len(y) + 1 : (<<e>> \o y)[i] = IF i <= 1 THEN <<e>>[1] ELSE y[i - 1]
  BY <1>1, ConcatProperties
<1>3. \A i \in 1..Len(y) : (<<e>> \o y)[i + 1] = y[i]
  BY <1>2
<1> QED BY <1>2, <1>3

\* A receiver moves the head of its channel into its hand.
LEMMA TakeKeepsConcat ==
  ASSUME NEW S, NEW x \in Seq(S), NEW i \in Seq(S), i # <<>>
  PROVE  (x \o <<Head(i)>>) \o Tail(i) = (x \o <<>>) \o i
<1>1. Head(i) \in S
  BY HeadTailProperties
<1>2. x \o <<Head(i)>> = Append(x, Head(i))
  BY <1>1, AppendIsConcat
<1>3. x \o <<>> = x
  BY ConcatEmptySeq
<1> QED BY <1>2, <1>3, MoveKeepsConcat

\* A sender puts the file in its hand on the empty channel ahead.
LEMMA PassKeepsConcat ==
  ASSUME NEW S, NEW x \in Seq(S), NEW e \in S
  PROVE  (x \o <<e>>) \o <<>> = (x \o <<>>) \o <<e>>
<1>1. x \o <<>> = x
  BY ConcatEmptySeq
<1>2. <<e>> \in Seq(S)
  OBVIOUS
<1>3. x \o <<e>> \in Seq(S)
  BY <1>2, ConcatProperties
<1> QED BY <1>1, <1>3, ConcatEmptySeq

LEMMA RecvKeepsFlight ==
  ASSUME TypeInv, NEW s \in Stages, StageRecv(s) PROVE Flight' = Flight
<1>1. /\ hand[s] = <<>> /\ inbox[s] \in Seq(File) /\ inbox[s] # <<>>
      /\ hand'[s] = <<Head(inbox[s])>> /\ inbox'[s] = Tail(inbox[s])
      /\ \A u \in Stages \ {s} : hand'[u] = hand[u] /\ inbox'[u] = inbox[u]
  BY DEF StageRecv, TypeInv, TypeOK, PipelineTypeOK, HandInv
<1>2. \A u \in Stages : hand[u] \in Seq(File) /\ inbox[u] \in Seq(File)
  BY ChannelTypes
<1>3. \A x \in Seq(File) : (x \o hand'[s]) \o inbox'[s] = (x \o hand[s]) \o inbox[s]
  BY <1>1, TakeKeepsConcat
<1>4. CASE s = "put"
  <2>1. <<>> \in Seq(File)
    OBVIOUS
  <2>2. (<<>> \o hand'["put"]) \o inbox'["put"] = (<<>> \o hand["put"]) \o inbox["put"]
    BY <1>3, <1>4, <2>1
  <2>3. hand'["put"] \in Seq(File)
    <3>1. Head(inbox[s]) \in File
      BY <1>1, HeadTailProperties
    <3>2. <<Head(inbox[s])>> \in Seq(File)
      BY <3>1
    <3> QED BY <1>1, <1>4, <3>2
  <2>4. <<>> \o hand'["put"] = hand'["put"] /\ <<>> \o hand["put"] = hand["put"]
    BY <1>2, <1>4, <2>3, ConcatEmptySeq DEF Stages
  <2> QED BY <1>1, <1>4, <2>2, <2>4 DEF Flight, Stages
<1>5. CASE s = "gzip"
  <2>1. hand["put"] \o inbox["put"] \in Seq(File)
    BY FlightTypes, Zenon DEF Parts
  <2> QED BY <1>1, <1>3, <1>5, <2>1 DEF Flight, Stages
<1>6. CASE s = "render"
  <2> DEFINE x == hand["put"] \o inbox["put"] \o hand["gzip"] \o inbox["gzip"]
  <2>1. x \in Seq(File)
    BY FlightTypes, Zenon DEF Parts
  <2>2. Flight = (x \o hand["render"]) \o inbox["render"]
    BY DEF Flight
  <2>3. Flight' = (x \o hand'["render"]) \o inbox'["render"]
    BY <1>1, <1>6 DEF Flight, Stages
  <2> HIDE DEF x
  <2> QED BY <1>3, <1>6, <2>1, <2>2, <2>3
<1> QED BY <1>4, <1>5, <1>6 DEF Stages

LEMMA SendKeepsFlight ==
  ASSUME TypeInv, NEW s \in Stages, StageSend(s) PROVE Flight' = Flight
<1> DEFINE n == NextStage[s]
<1>1. s \in {"render", "gzip"} /\ n \in Stages /\ n # s /\ at[s] = "send" /\ inbox[n] = <<>>
  BY DEF StageSend, NextStage, Stages
<1>2. hand[s] = <<InHand(s)>> /\ InHand(s) \in File
  <2>1. InHand(s) \in File /\ hand[s] # <<>> /\ hand[s] \in Seq(File) /\ Len(hand[s]) <= 1
    BY <1>1, FileInHand DEF TypeInv, TypeOK, PipelineTypeOK
  <2> QED BY <2>1 DEF InHand
<1>3. /\ inbox'[n] = <<InHand(s)>> /\ hand'[s] = <<>>
      /\ \A u \in Stages \ {n} : inbox'[u] = inbox[u]
      /\ \A u \in Stages \ {s} : hand'[u] = hand[u]
  BY <1>1, <1>2 DEF StageSend, TypeInv, TypeOK, PipelineTypeOK
<1>4. \A x \in Seq(File) : (x \o inbox'[n]) \o hand'[s] = (x \o inbox[n]) \o hand[s]
  BY <1>1, <1>2, <1>3, PassKeepsConcat
<1>5. \A u \in Stages : hand[u] \in Seq(File) /\ inbox[u] \in Seq(File)
  BY ChannelTypes
<1>6. CASE s = "gzip"
  <2>1. n = "put"
    BY <1>6 DEF NextStage
  <2> QED BY <1>1, <1>3, <1>4, <1>5, <1>6, <2>1 DEF Flight, Stages
<1>7. CASE s = "render"
  <2>1. n = "gzip"
    BY <1>7 DEF NextStage
  <2>2. hand["put"] \o inbox["put"] \o hand["gzip"] \in Seq(File)
    BY FlightTypes, Zenon DEF Parts
  <2> QED BY <1>1, <1>3, <1>4, <1>7, <2>1, <2>2 DEF Flight, Stages
<1> QED BY <1>1, <1>6, <1>7

\* seal() puts its file at the very back.
LEMMA SealExtendsFlight ==
  ASSUME TypeInv, CutFile \in File, Seal, UNCHANGED hand
  PROVE  Flight' = Append(Flight, CutFile)
<1> DEFINE x == hand["put"] \o inbox["put"] \o hand["gzip"] \o inbox["gzip"] \o hand["render"]
<1>1. /\ inbox'["render"] = Append(inbox["render"], CutFile)
      /\ inbox'["put"] = inbox["put"] /\ inbox'["gzip"] = inbox["gzip"]
      /\ inbox["render"] \in Seq(File)
  BY DEF Seal, TypeInv, TypeOK, PipelineTypeOK, Stages
<1>2. x \in Seq(File) /\ x \o inbox["render"] \in Seq(File)
  BY FlightTypes, Zenon DEF Parts
<1>3. Flight = x \o inbox["render"] /\ Flight' = x \o inbox'["render"]
  BY <1>1 DEF Flight
<1> HIDE DEF x
<1>4. inbox'["render"] = inbox["render"] \o <<CutFile>>
  BY <1>1, AppendIsConcat
<1>5. <<CutFile>> \in Seq(File)
  OBVIOUS
<1>6. Groups(x, inbox["render"], <<CutFile>>)
  BY <1>1, <1>2, <1>5, ConcatGroups, Zenon
<1>7. Flight' = Flight \o <<CutFile>>
  BY <1>3, <1>4, <1>6, Zenon DEF Groups
<1> QED BY <1>2, <1>3, <1>7, AppendIsConcat

\* The put stage's file is the front one, and land takes it off.
LEMMA PutHoldsFront ==
  ASSUME TypeInv, at["put"] \notin {"recv", "exited"}
  PROVE  /\ InHand("put") \in File /\ hand["put"] = <<InHand("put")>>
         /\ Flight # <<>> /\ Flight[1] = InHand("put")
<1> DEFINE y == <<>> \o inbox["put"] \o hand["gzip"] \o inbox["gzip"] \o hand["render"]
                  \o inbox["render"]
<1>1. "put" \in Stages
  BY DEF Stages
<1>2. hand["put"] = <<InHand("put")>> /\ InHand("put") \in File
  <2>1. /\ InHand("put") \in File /\ hand["put"] # <<>> /\ hand["put"] \in Seq(File)
        /\ Len(hand["put"]) <= 1
    BY <1>1, FileInHand DEF TypeInv, TypeOK, PipelineTypeOK
  <2> QED BY <2>1 DEF InHand
<1>3. y \in Seq(File) /\ Flight = hand["put"] \o y
  BY FlightTypes, Zenon DEF Flight, Parts
<1> HIDE DEF y
<1>4. Flight = <<InHand("put")>> \o y
  BY <1>2, <1>3
<1> QED BY <1>2, <1>3, <1>4, FrontProperties

LEMMA LandDropsFront ==
  ASSUME TypeInv, land
  PROVE  /\ Flight = <<InHand("put")>> \o Flight' /\ Flight' \in Seq(File)
         /\ InHand("put") \in File
<1>1. at["put"] = "land" /\ hand'["put"] = <<>> /\ inbox' = inbox
      /\ hand'["gzip"] = hand["gzip"] /\ hand'["render"] = hand["render"]
  BY DEF land, TypeInv, TypeOK, PipelineTypeOK, Stages
<1>2. hand["put"] = <<InHand("put")>> /\ InHand("put") \in File
  BY <1>1, PutHoldsFront
<1>3. Flight' = <<>> \o inbox["put"] \o hand["gzip"] \o inbox["gzip"] \o hand["render"]
                  \o inbox["render"]
  BY <1>1 DEF Flight
<1>4. Flight' \in Seq(File) /\ Flight = hand["put"] \o Flight'
  BY <1>3, FlightTypes, Zenon DEF Flight, Parts
<1> QED BY <1>2, <1>4

-----------------------------------------------------------------------------
(***************************************************************************)
(* The order of the run.                                                   *)
(***************************************************************************)
LEMMA InitOrder == Init => PipelineInOrder /\ TripwireSilent
<1> SUFFICES ASSUME Init PROVE PipelineInOrder /\ TripwireSilent
  OBVIOUS
<1>1. Flight = <<>> /\ prev = <<>> /\ ~orderFatal
  BY DEF Init, Flight, Stages
<1> QED BY <1>1, EmptySeq DEF PipelineInOrder, TripwireSilent

LEMMA SameRun ==
  ASSUME OrderInv, Flight' = Flight, UNCHANGED <<prev, epoch, nextSeq>>
  PROVE  PipelineInOrder'
BY DEF OrderInv, PipelineInOrder, SpentUpTo

LEMMA SameFlight == UNCHANGED <<hand, inbox>> => Flight' = Flight
BY DEF Flight

\* The number seal() hands out follows the last one it spent.
LEMMA CutFollows ==
  ASSUME TypeInv, NEW e \in Nat, NEW q \in Nat, SpentUpTo(<<e, q>>)
  PROVE  check_order(<<e, q>>, CutFile)
<1>1. \/ epoch = e /\ nextSeq = q + 1
      \/ epoch = e + 1 /\ nextSeq = 0
  BY DEF SpentUpTo
<1>2. /\ CutFile.epoch = Rolled(epoch, nextSeq)[1] /\ CutFile.seq = Rolled(epoch, nextSeq)[2]
  BY DEF CutFile
<1>3. CASE nextSeq > MaxSeq
  <2>1. CutFile.epoch = epoch + 1 /\ CutFile.seq = 0
    BY <1>2, <1>3 DEF Rolled
  <2> QED BY <1>1, <1>3, <2>1, ConstantFacts DEF check_order
<1>4. CASE ~(nextSeq > MaxSeq)
  <2>1. CutFile.epoch = epoch /\ CutFile.seq = nextSeq
    BY <1>2, <1>4 DEF Rolled
  <2> QED BY <1>1, <2>1 DEF check_order
<1> QED BY <1>3, <1>4

LEMMA SlotType == \A f \in File : f.epoch \in Nat /\ f.seq \in Nat
BY ConstantFacts DEF File

LEMMA PrevType == TypeInv => prev = <<>> \/ \E e, q \in Nat : prev = <<e, q>>
BY ConstantFacts DEF TypeInv, TypeOK, PipelineTypeOK

LEMMA SealOrder ==
  ASSUME OrderInv, CutFile \in File, Seal, UNCHANGED <<hand, prev>>
  PROVE  PipelineInOrder'
<1> DEFINE F == Flight
           n == Len(Flight)
           G == Flight'
<1>1. /\ Flight \in Seq(File) /\ n \in Nat /\ Flight' = Append(Flight, CutFile)
      /\ \A i \in 1..n : Flight[i] \in File
  BY FlightTypes, SealExtendsFlight, ElementOfSeq, LenProperties DEF OrderInv
<1>2. /\ Len(Flight') = n + 1 /\ Flight' # <<>> /\ Flight'[n + 1] = CutFile
      /\ \A i \in 1..n : Flight'[i] = Flight[i]
  BY <1>1, AppendProperties
<1>3. /\ epoch' = CutFile.epoch /\ nextSeq' = CutFile.seq + 1
  BY DEF Seal
<1>4. n > 0 => check_order(Slot(Flight[n]), CutFile)
  <2> SUFFICES ASSUME n > 0 PROVE check_order(Slot(Flight[n]), CutFile)
    OBVIOUS
  <2>1. Flight # <<>> /\ Flight[n] \in File
    BY <1>1
  <2>2. SpentUpTo(Slot(Flight[n]))
    BY <2>1 DEF OrderInv, PipelineInOrder
  <2> QED BY <2>1, <2>2, SlotType, CutFollows DEF Slot, OrderInv
<1>5. n = 0 => check_order(prev, CutFile)
  <2> SUFFICES ASSUME n = 0 PROVE check_order(prev, CutFile)
    OBVIOUS
  <2>1. Flight = <<>>
    BY <1>1
  <2>2. prev = <<>> \/ SpentUpTo(prev)
    BY <2>1 DEF OrderInv, PipelineInOrder
  <2>3. CASE prev = <<>>
    BY <2>3 DEF check_order
  <2>4. CASE prev # <<>>
    <3>1. PICK e \in Nat, q \in Nat : prev = <<e, q>>
      BY <2>4, PrevType DEF OrderInv
    <3>2. SpentUpTo(<<e, q>>)
      BY <2>2, <2>4, <3>1
    <3> QED BY <3>1, <3>2, CutFollows DEF OrderInv
  <2> QED BY <2>3, <2>4
<1>6. \A i \in 1..n : check_order(Slot(Flight'[i]), Flight'[i + 1])
  <2> TAKE i \in 1..n
  <2>1. CASE i = n
    BY <1>2, <1>4, <2>1
  <2>2. CASE i < n
    <3>1. i \in 1..n - 1 /\ i + 1 \in 1..n
      BY <1>1, <2>2
    <3>2. check_order(Slot(Flight[i]), Flight[i + 1])
      BY <3>1 DEF OrderInv, PipelineInOrder
    <3> QED BY <1>2, <3>1, <3>2
  <2> QED BY <1>1, <2>1, <2>2
<1>7. check_order(prev', Flight'[1])
  <2>1. CASE n = 0
    BY <1>2, <1>5, <2>1
  <2>2. CASE n # 0
    <3>1. Flight # <<>> /\ Flight'[1] = Flight[1]
      BY <1>1, <1>2, <2>2
    <3> QED BY <3>1 DEF OrderInv, PipelineInOrder
  <2> QED BY <2>1, <2>2
<1>8. <<epoch', nextSeq'>> = <<Flight'[n + 1].epoch, Flight'[n + 1].seq + 1>>
  BY <1>2, <1>3
<1>9. Len(Flight') - 1 = n /\ Len(Flight') = n + 1
  BY <1>1, <1>2
<1>10. \A i \in 1..Len(Flight') - 1 : check_order(Slot(Flight'[i]), Flight'[i + 1])
  BY <1>6, <1>9
<1>11. SpentUpTo(Slot(Flight[Len(Flight)]))'
  BY <1>8, <1>9 DEF SpentUpTo, Slot
<1> HIDE DEF F, n, G
<1> QED BY <1>2, <1>7, <1>10, <1>11 DEF PipelineInOrder, check_order, Slot

\* seal() failed to encode the number: the roll alone.
LEMMA RollOrder ==
  ASSUME OrderInv, SealRefused, UNCHANGED <<hand, prev>>
  PROVE  PipelineInOrder'
<1>1. Flight' = Flight
  BY SameFlight DEF SealRefused
<1>2. ASSUME NEW e \in Nat, NEW q \in Nat, SpentUpTo(<<e, q>>) PROVE SpentUpTo(<<e, q>>)'
  <2>1. \/ epoch = e /\ nextSeq = q + 1
        \/ epoch = e + 1 /\ nextSeq = 0
    BY <1>2 DEF SpentUpTo
  <2>2. CASE nextSeq > MaxSeq
    <3>1. epoch' = epoch + 1 /\ nextSeq' = 0
      BY <2>2 DEF SealRefused, Rolled
    <3> QED BY <2>1, <2>2, <3>1, ConstantFacts DEF SpentUpTo
  <2>3. CASE ~(nextSeq > MaxSeq)
    <3>1. epoch' = epoch /\ nextSeq' = nextSeq
      BY <2>3 DEF SealRefused, Rolled
    <3> QED BY <2>1, <3>1 DEF SpentUpTo
  <2> QED BY <2>2, <2>3
<1>3. Flight # <<>> => SpentUpTo(Slot(Flight[Len(Flight)]))'
  <2> SUFFICES ASSUME Flight # <<>> PROVE SpentUpTo(Slot(Flight[Len(Flight)]))'
    OBVIOUS
  <2>1. Flight[Len(Flight)] \in File
    BY FlightTypes, ElementOfSeq, EmptySeq DEF OrderInv
  <2>2. SpentUpTo(Slot(Flight[Len(Flight)]))
    BY DEF OrderInv, PipelineInOrder
  <2> DEFINE e == Flight[Len(Flight)].epoch
             q == Flight[Len(Flight)].seq
  <2>3. e \in Nat /\ q \in Nat /\ Slot(Flight[Len(Flight)]) = <<e, q>>
    BY <2>1, SlotType DEF Slot
  <2>4. SpentUpTo(<<e, q>>)
    BY <2>2, <2>3
  <2>5. <<epoch', nextSeq'>> \in {<<e, q + 1>>, <<e + 1, 0>>}
    <3> HIDE DEF e, q
    <3> QED BY <1>2, <2>3, <2>4 DEF SpentUpTo
  <2> QED BY <1>1, <2>5 DEF SpentUpTo, Slot
<1>4. prev = <<>> \/ SpentUpTo(prev) => prev' = <<>> \/ SpentUpTo(prev)'
  BY <1>2, PrevType DEF OrderInv, SpentUpTo
<1> QED BY <1>1, <1>3, <1>4 DEF OrderInv, PipelineInOrder

LEMMA LandOrder == ASSUME OrderInv, land PROVE PipelineInOrder'
<1> DEFINE h == InHand("put")
           n == Len(Flight')
<1>1. Flight = <<h>> \o Flight' /\ Flight' \in Seq(File) /\ h \in File
  BY LandDropsFront DEF OrderInv
<1>2. /\ Flight # <<>> /\ n \in Nat /\ Len(Flight) = n + 1 /\ Flight[1] = h
      /\ \A i \in 1..n : Flight[i + 1] = Flight'[i]
  BY <1>1, FrontProperties
<1>3. prev' = Slot(h) /\ epoch' = epoch /\ nextSeq' = nextSeq
  BY DEF land, Slot, buffer
<1> HIDE DEF h
<1>4. \A i \in 1..n : check_order(Slot(Flight[i]), Flight[i + 1])
  BY <1>2 DEF OrderInv, PipelineInOrder
<1>5. \A i \in 1..n - 1 : check_order(Slot(Flight'[i]), Flight'[i + 1])
  <2> TAKE i \in 1..n - 1
  <2>1. i + 1 \in 1..n /\ i \in 1..n
    BY <1>2
  <2>2. check_order(Slot(Flight[i + 1]), Flight[i + 1 + 1])
    BY <1>4, <2>1
  <2> QED BY <1>2, <2>1, <2>2
<1>6. SpentUpTo(Slot(Flight[n + 1]))
  BY <1>2 DEF OrderInv, PipelineInOrder
<1>7. CASE n = 0
  <2>1. Flight' = <<>> /\ SpentUpTo(Slot(h))
    BY <1>1, <1>2, <1>6, <1>7
  <2>2. SpentUpTo(prev)'
    BY <1>3, <2>1 DEF SpentUpTo
  <2> QED BY <1>5, <2>1, <2>2 DEF PipelineInOrder
<1>8. CASE n > 0
  <2>1. Flight' # <<>> /\ 1 \in 1..n /\ n \in 1..n
    BY <1>1, <1>2, <1>8
  <2>2. check_order(prev', Flight'[1])
    BY <1>2, <1>3, <1>4, <2>1
  <2>3. <<epoch', nextSeq'>>
          \in {<<Flight'[n].epoch, Flight'[n].seq + 1>>, <<Flight'[n].epoch + 1, 0>>}
    BY <1>2, <1>3, <1>6, <2>1 DEF SpentUpTo, Slot
  <2> QED BY <1>5, <2>1, <2>2, <2>3 DEF PipelineInOrder, SpentUpTo, Slot
<1> QED BY <1>2, <1>7, <1>8

\* The put stage finds the file it works on in order.
LEMMA CheckPasses == ASSUME OrderInv, PutCheck PROVE TripwireSilent'
<1>1. Flight # <<>> /\ Flight[1] = InHand("put")
  BY PutHoldsFront DEF PutCheck, OrderInv
<1>2. check_order(prev, InHand("put"))
  BY <1>1 DEF OrderInv, PipelineInOrder
<1> QED BY <1>2 DEF PutCheck, OrderInv, TripwireSilent

(***************************************************************************)
(* Every step keeps the run in order: a file is appended at the seal end,  *)
(* moved without overtaking, or taken off the put end.                     *)
(***************************************************************************)
LEMMA NextOrder == OrderInv /\ [Next]_vars => OrderInv'
<1> SUFFICES ASSUME OrderInv, [Next]_vars PROVE OrderInv'
  OBVIOUS
<1>1. TypeInv'
  BY NextTypeInv DEF OrderInv
<1> SUFFICES PipelineInOrder' /\ TripwireSilent'
  BY <1>1 DEF OrderInv
<1>2. ASSUME UNCHANGED <<hand, inbox, prev, epoch, nextSeq>>, orderFatal' = orderFatal
      PROVE  PipelineInOrder' /\ TripwireSilent'
  BY <1>2, SameFlight, SameRun DEF OrderInv, TripwireSilent
<1>3. ASSUME buffered # {}, UNCHANGED <<hand, prev>>, orderFatal' = orderFatal,
             (CanEncode /\ Seal) \/ (~CanEncode /\ SealRefused)
      PROVE  PipelineInOrder' /\ TripwireSilent'
  <2>1. CanEncode => CutFile \in File
    BY <1>3, CutFileType DEF OrderInv, TypeInv, TypeOK
  <2> QED BY <1>3, <2>1, SealOrder, RollOrder DEF OrderInv, TripwireSilent
<1>4. ASSUME NEW t \in Tasks, CallerStep(t) \/ StartCall(t) \/ Cancel(t)
      PROVE  PipelineInOrder' /\ TripwireSilent'
  <2>1. CASE SealAndSend(t)
    <3>1. UNCHANGED <<hand, prev>> /\ orderFatal' = orderFatal
      BY <2>1 DEF SealAndSend, stops
    <3>2. CASE FatalState # "none" \/ buffered = {}
      <4>1. UNCHANGED <<hand, inbox, prev, epoch, nextSeq>>
        BY <2>1, <3>1, <3>2 DEF SealAndSend, buffer
      <4> QED BY <1>2, <3>1, <4>1
    <3>3. CASE FatalState = "none" /\ buffered # {}
      <4>1. (CanEncode /\ Seal) \/ (~CanEncode /\ SealRefused)
        BY <2>1, <3>3 DEF SealAndSend
      <4> QED BY <1>3, <3>1, <3>3, <4>1
    <3> QED BY <3>2, <3>3
  <2>2. CASE \/ Unbuffer(t) \/ TakeLock(t) \/ GetLock(t) \/ GiveUp(t) \/ NothingToSeal(t)
             \/ QueueFull(t) \/ PipelineClosed(t) \/ ReadTarget(t) \/ AwaitDurable(t) \/ Cancel(t)
    <3>1. UNCHANGED <<hand, inbox, prev, epoch, nextSeq>> /\ orderFatal' = orderFatal
      BY <2>2
         DEF Unbuffer, TakeLock, GetLock, GiveUp, NothingToSeal, QueueFull, PipelineClosed,
             ReadTarget, AwaitDurable, Cancel, buffer, pipeline, stops
    <3> QED BY <1>2, <3>1
  <2>3. CASE StartCall(t)
    <3>1. UNCHANGED <<hand, inbox, prev, epoch, nextSeq>> /\ orderFatal' = orderFatal
      BY <2>3 DEF StartCall, AppendRefused, AppendBatch, Flush, buffer, pipeline, stops
    <3> QED BY <1>2, <3>1
  <2> QED BY <1>4, <2>1, <2>2, <2>3 DEF CallerStep
<1>5. ASSUME NEW s \in Stages, StageStep(s) PROVE PipelineInOrder' /\ TripwireSilent'
  <2>1. CASE StageRecv(s) \/ StageSend(s)
    <3>1. Flight' = Flight
      BY <2>1, RecvKeepsFlight, SendKeepsFlight DEF OrderInv
    <3>2. UNCHANGED <<prev, epoch, nextSeq>> /\ orderFatal' = orderFatal
      BY <2>1 DEF StageRecv, StageSend, buffer, stops
    <3> QED BY <3>1, <3>2, SameRun DEF OrderInv, TripwireSilent
  <2>2. CASE \/ StageDrained(s) \/ StageStop(s) \/ StageTry(s) \/ AttemptOk(s) \/ SendRefused(s)
             \/ \E landed \in BOOLEAN : AttemptFails(s, landed)
    <3>1. UNCHANGED <<hand, inbox, prev, epoch, nextSeq>> /\ orderFatal' = orderFatal
      BY <2>2
         DEF StageDrained, StageStop, StageTry, AttemptOk, SendRefused, AttemptFails, buffer, stops
    <3> QED BY <1>2, <3>1
  <2> QED BY <1>5, <2>1, <2>2 DEF StageStep
<1>6. CASE RenderRejects \/ RenderGivesUp \/ record_durable
  <2>1. UNCHANGED <<hand, inbox, prev, epoch, nextSeq>> /\ orderFatal' = orderFatal
    BY <1>6 DEF RenderRejects, RenderGivesUp, record_durable, buffer, stops
  <2> QED BY <1>2, <2>1
<1>7. CASE PutCheck
  <2>1. PipelineInOrder'
    BY <1>7, SameFlight, SameRun DEF PutCheck, buffer
  <2> QED BY <1>7, <2>1, CheckPasses
<1>8. CASE land
  <2>1. orderFatal' = orderFatal
    BY <1>8 DEF land, stops
  <2> QED BY <1>8, <2>1, LandOrder DEF OrderInv, TripwireSilent
<1>9. CASE RenderStep \/ GzipStep \/ PutStep
  BY <1>5, <1>6, <1>7, <1>8, <1>9 DEF RenderStep, GzipStep, PutStep, Stages
<1>10. CASE TickerStep
  <2>1. CASE TickerSeal
    <3>1. UNCHANGED <<hand, prev>> /\ orderFatal' = orderFatal
      BY <2>1 DEF TickerSeal, stops
    <3>2. CASE buffered # {} /\ aged
      BY <1>3, <2>1, <3>1, <3>2 DEF TickerSeal
    <3>3. CASE ~(buffered # {} /\ aged)
      <4>1. UNCHANGED <<hand, inbox, prev, epoch, nextSeq>>
        BY <2>1, <3>1, <3>3 DEF TickerSeal, buffer
      <4> QED BY <1>2, <3>1, <4>1
    <3> QED BY <3>2, <3>3
  <2>2. CASE TickerStop \/ TickerLock
    <3>1. UNCHANGED <<hand, inbox, prev, epoch, nextSeq>> /\ orderFatal' = orderFatal
      BY <2>2 DEF TickerStop, TickerLock, buffer, pipeline, stops
    <3> QED BY <1>2, <3>1
  <2> QED BY <1>10, <2>1, <2>2 DEF TickerStep
<1>11. CASE Environment \/ Terminated \/ UNCHANGED vars
  <2>1. UNCHANGED <<hand, inbox, prev, epoch, nextSeq>> /\ orderFatal' = orderFatal
    BY <1>11
       DEF Environment, Age, fence, SerialFatal, Drop, Free, Terminated, vars, buffer, pipeline, stops
  <2> QED BY <1>2, <2>1
<1> QED BY <1>4, <1>9, <1>10, <1>11 DEF Next

(***************************************************************************)
(* The files between seal and land are one dense run of (epoch, seq), for  *)
(* any queue depth, any number of epochs and any interleaving of callers,  *)
(* ticker, stages, fence and cancellation.                                 *)
(***************************************************************************)
THEOREM RunStaysInOrder == Spec => []PipelineInOrder
<1>1. Init => OrderInv
  BY InitTypeInv, InitOrder DEF OrderInv
<1>2. Spec => []OrderInv
  BY <1>1, NextOrder, PTL DEF Spec
<1>3. OrderInv => PipelineInOrder
  BY DEF OrderInv
<1> QED BY <1>2, <1>3, PTL

(***************************************************************************)
(* "Correctly built, this never fires": check_order never trips, so        *)
(* StagingOrderViolation is unreachable.                                   *)
(***************************************************************************)
THEOREM TripwireNeverFires == Spec => []TripwireSilent
<1>1. Init => OrderInv
  BY InitTypeInv, InitOrder DEF OrderInv
<1>2. Spec => []OrderInv
  BY <1>1, NextOrder, PTL DEF Spec
<1>3. OrderInv => TripwireSilent
  BY DEF OrderInv
<1> QED BY <1>2, <1>3, PTL

-----------------------------------------------------------------------------
\* The places a batch that append has accepted can be in.
Held(b) == b \in buffered \/ \E f \in Files : b \in f.rows

\* Nothing that is on its way, or staged since the writer was made, ends above n.
Bounded(n) ==
  /\ stagedOffset = Recovered \/ stagedOffset <= n
  /\ \A i \in 1..Len(Flight) : Flight[i].end <= n
  /\ \A f \in Files : \A b \in f.rows : b.end <= n

\* No row is in two files, or in a file and the buffer.
Apart ==
  /\ \A f, g \in Files : f # g => f.rows \cap g.rows = {}
  /\ \A f \in Files : f.rows \cap buffered = {}

(***************************************************************************)
(* Offsets ascend from the staged ones through the pipeline to the buffer, *)
(* once staged_offset has left the value the recovery found: until then it *)
(* may lie above replayed rows.  The one file that it may cover afterwards *)
(* is the one record_durable has run for and land has not.                 *)
(***************************************************************************)
AscendInv ==
  /\ Bounded(maxEnd)
  /\ \A b \in buffered : b.end <= maxEnd /\ (stagedOffset = Recovered \/ stagedOffset < b.end)
  /\ \A b \in buffered : \A i \in 1..Len(Flight) : Flight[i].end < b.end
  /\ \A i \in 1..Len(Flight) : \A b \in Flight[i].rows :
        /\ b.end <= Flight[i].end
        /\ stagedOffset = Recovered \/ stagedOffset < b.end \/ (i = 1 /\ at["put"] = "land")
  /\ \A i, j \in 1..Len(Flight) : i < j => \A b \in Flight[j].rows : Flight[i].end < b.end
  /\ Apart

\* Past its put, the put stage's file is on storage.
LandedInv == at["put"] \in {"landed", "land"} => InHand("put") \in stored

(***************************************************************************)
(* What append has accepted is held, and below the high-water mark.  The   *)
(* batch of an append under way is the highest of all, so taking it back   *)
(* and restoring the mark uncovers nothing.                                *)
(***************************************************************************)
AccountInv ==
  /\ \A b \in acked : Held(b) /\ b.end <= maxEnd
  /\ \A t \in Tasks : call[t].pc = "unbuffer" => call[t].op = "append"
  /\ \A t \in Tasks : call[t].op = "append" =>
       /\ t = Appender /\ call[t].pc # "idle" /\ call[t].err # "ok"
       /\ maxEnd = call[t].batch.end
       /\ Held(call[t].batch) /\ call[t].batch \notin acked
       /\ \A b \in acked : b.end <= call[t].before
       /\ call[t].batch \in buffered =>
            /\ Bounded(call[t].before)
            /\ \A b \in buffered : b # call[t].batch => b.end <= call[t].before

GateInv == AscendInv /\ LandedInv /\ AccountInv

-----------------------------------------------------------------------------
LEMMA GateIsCommit == TypeInv /\ GateInv => StagedOffsetIsDurable
<1> SUFFICES ASSUME TypeInv, GateInv, stagedOffset > Recovered,
                    NEW b \in acked, b.end <= stagedOffset
             PROVE  \E f \in stored : b \in f.rows
  BY DEF StagedOffsetIsDurable
<1>1. Held(b) /\ b.end \in Int /\ stagedOffset \in Int /\ stagedOffset # Recovered
  BY ConstantFacts DEF GateInv, AccountInv, TypeInv, TypeOK, WriterTypeOK, Offset, NoOffset
<1>2. b \notin buffered
  BY <1>1 DEF GateInv, AscendInv
<1>3. ASSUME NEW i \in 1..Len(Flight), b \in Flight[i].rows
      PROVE  \E f \in stored : b \in f.rows
  <2>1. i = 1 /\ at["put"] = "land"
    BY <1>1, <1>3 DEF GateInv, AscendInv
  <2>2. Flight[1] \in stored
    BY <2>1, PutHoldsFront DEF GateInv, LandedInv
  <2> QED BY <1>3, <2>1, <2>2
<1> QED BY <1>1, <1>2, <1>3 DEF Held, Files

LEMMA FlightFiles ==
  ASSUME TypeInv
  PROVE  \A i \in 1..Len(Flight) : Flight[i].end \in Offset /\ Flight[i].rows \subseteq Batches
<1>1. \A i \in 1..Len(Flight) : Flight[i] \in File
  BY FlightTypes, ElementOfSeq, LenProperties
<1> QED BY <1>1 DEF File

LEMMA InitGate == Init => GateInv
<1> SUFFICES ASSUME Init PROVE GateInv
  OBVIOUS
<1>1. Flight = <<>> /\ Len(Flight) = 0
  BY EmptySeq DEF Init, Flight, Stages
<1>2. AscendInv
  BY <1>1 DEF Init, AscendInv, Bounded, Apart, Files, NoOffset
<1>3. LandedInv
  BY DEF Init, LandedInv, Stages
<1>4. AccountInv
  BY DEF Init, AccountInv, Idle
<1> QED BY <1>2, <1>3, <1>4 DEF GateInv

(***************************************************************************)
(* Files only changes when a buffer is cut: a put adds what is on its way, *)
(* and what lands is there already.                                        *)
(***************************************************************************)
LEMMA PutFiles ==
  ASSUME TypeInv, at["put"] = "work", Flight' = Flight,
         stored' \in {stored, stored \cup {InHand("put")}}
  PROVE  Files' = Files
<1>1. Flight \in Seq(File) /\ Flight # <<>> /\ Flight[1] = InHand("put")
  BY PutHoldsFront, FlightTypes
<1>2. 1 \in 1..Len(Flight)
  BY <1>1, EmptySeq, LenProperties
<1> QED BY <1>1, <1>2 DEF Files

LEMMA SameFiles == Flight' = Flight /\ stored' = stored => Files' = Files
BY DEF Files

(***************************************************************************)
(* What AccountInv asks of a step that leaves append alone: no batch gets  *)
(* lost, and while rows are buffered nothing outgrows a bound.             *)
(***************************************************************************)
Carries ==
  /\ maxEnd' = maxEnd /\ buffered' \subseteq buffered
  /\ \A b \in Batches : Held(b) => Held(b)'
  /\ buffered' # {} => \A n : Bounded(n) => Bounded(n)'

\* Task t's call goes on, or returns and has its batch accepted or not.
Replies(t) ==
  \E c :
    /\ call' = [call EXCEPT ![t] = c]
    /\ c.pc = "unbuffer" => c.op = "append"
    /\ \/ /\ c.op = call[t].op /\ c.batch = call[t].batch /\ c.before = call[t].before
          /\ c.pc # "idle" /\ (c.op = "append" => c.err # "ok") /\ acked' = acked
       \/ /\ c.op # "append"
          /\ \/ acked' = acked
             \/ call[t].op = "append" /\ acked' = acked \cup {call[t].batch}

LEMMA CarriesAccount ==
  ASSUME TypeInv, GateInv, Carries,
         UNCHANGED <<call, acked>> \/ \E t \in Tasks : Replies(t)
  PROVE  AccountInv'
<1>1. /\ DOMAIN call = Tasks /\ acked \subseteq Batches
      /\ \A t \in Tasks : call[t].op = "append" => call[t].batch \in Batches
  BY DEF TypeInv, TypeOK, WriterTypeOK, CallerTypeOK, CallInv
<1>2. \A b \in Batches : b.end \in Int
  BY ConstantFacts DEF Offset
<1>3. CASE UNCHANGED <<call, acked>>
  BY <1>1, <1>3 DEF GateInv, AccountInv, Carries
<1>4. ASSUME NEW t \in Tasks, Replies(t) PROVE AccountInv'
  <2>1. PICK c :
          /\ call' = [call EXCEPT ![t] = c]
          /\ c.pc = "unbuffer" => c.op = "append"
          /\ \/ /\ c.op = call[t].op /\ c.batch = call[t].batch /\ c.before = call[t].before
                /\ c.pc # "idle" /\ (c.op = "append" => c.err # "ok") /\ acked' = acked
             \/ /\ c.op # "append"
                /\ \/ acked' = acked
                   \/ call[t].op = "append" /\ acked' = acked \cup {call[t].batch}
    BY <1>4 DEF Replies
  <2>2. call'[t] = c /\ \A u \in Tasks \ {t} : call'[u] = call[u]
    BY <1>1, <2>1
  <2>3. \A b \in acked' : Held(b)' /\ b.end <= maxEnd'
    BY <1>1, <1>2, <2>1 DEF GateInv, AccountInv, Carries
  <2>4. \A u \in Tasks : call'[u].pc = "unbuffer" => call'[u].op = "append"
    BY <2>1, <2>2 DEF GateInv, AccountInv
  <2>5. ASSUME NEW u \in Tasks, call'[u].op = "append"
        PROVE  /\ call[u].op = "append" /\ call'[u].batch = call[u].batch
               /\ call'[u].before = call[u].before /\ call'[u].pc # "idle"
               /\ call'[u].err # "ok"
               /\ acked' = acked
    <3>1. CASE u = t
      BY <2>1, <2>2, <2>5, <3>1
    <3>2. CASE u # t
      BY <2>1, <2>2, <2>5, <3>2 DEF GateInv, AccountInv
    <3> QED BY <3>1, <3>2
  <2> QED BY <1>1, <2>3, <2>4, <2>5 DEF GateInv, AccountInv, Carries
<1> QED BY <1>3, <1>4

\* The steps that move neither rows nor offsets.
Still ==
  /\ Flight' = Flight /\ Files' = Files /\ UNCHANGED <<buffered, maxEnd, stagedOffset>>
  /\ at["put"] = "land" => at'["put"] = "land"

LEMMA StillKeeps == ASSUME GateInv, Still PROVE AscendInv' /\ Carries
<1>1. AscendInv'
  BY DEF GateInv, AscendInv, Bounded, Apart, Still
<1>2. Carries
  BY DEF Carries, Held, Bounded, Still
<1> QED BY <1>1, <1>2

-----------------------------------------------------------------------------
(***************************************************************************)
(* The steps that move rows or offsets.                                    *)
(***************************************************************************)
\* The file takes the whole buffer, so it ends above every earlier one.
LEMMA CutFileRows ==
  ASSUME TypeInv, buffered # {}
  PROVE  /\ CutFile.rows = buffered
         /\ \A b \in buffered : b.end <= CutFile.end
         /\ \E b \in buffered : CutFile.end = b.end
<1>1. {b.end : b \in buffered} \subseteq Offset /\ {b.end : b \in buffered} # {}
  BY ConstantFacts DEF TypeInv, TypeOK, WriterTypeOK
<1> QED BY <1>1, MaxOfOffsets DEF CutFile

\* Cutting the buffer adds its file at the back.
LEMMA CutShape ==
  ASSUME TypeInv, CutFile \in File, Seal, UNCHANGED <<hand, stored>>
  PROVE  /\ Len(Flight) \in Nat /\ Len(Flight') = Len(Flight) + 1
         /\ Flight'[Len(Flight) + 1] = CutFile
         /\ \A i \in 1..Len(Flight) : Flight'[i] = Flight[i] /\ Flight[i] \in File
         /\ Files' = Files \cup {CutFile}
<1> DEFINE n == Len(Flight)
<1>1. /\ Flight \in Seq(File) /\ n \in Nat /\ Flight' = Append(Flight, CutFile)
      /\ \A i \in 1..n : Flight[i] \in File
  BY FlightTypes, SealExtendsFlight, ElementOfSeq, LenProperties
<1>2. /\ Len(Flight') = n + 1 /\ Flight'[n + 1] = CutFile
      /\ \A i \in 1..n : Flight'[i] = Flight[i]
  BY <1>1, AppendProperties
<1>3. \A i \in 1..n + 1 : i \in 1..n \/ i = n + 1
  BY <1>1
<1>4. n + 1 \in 1..n + 1 /\ 1..n \subseteq 1..n + 1
  BY <1>1
<1>5. \A f : f \in Files' <=> f \in Files \/ f = CutFile
  BY <1>2, <1>3, <1>4 DEF Files
<1> QED BY <1>1, <1>2, <1>5

\* Landing takes the front file off, which is on storage.
LEMMA LandShape ==
  ASSUME TypeInv, LandedInv, land
  PROVE  /\ Len(Flight') \in Nat /\ Len(Flight) = Len(Flight') + 1 /\ Flight[1] = InHand("put")
         /\ \A i \in 1..Len(Flight') : /\ Flight[i + 1] = Flight'[i]
                                      /\ i + 1 \in 1..Len(Flight) /\ i + 1 # 1
         /\ Files' = Files
<1> DEFINE n == Len(Flight')
<1>1. /\ InHand("put") \in File /\ Flight' \in Seq(File) /\ Flight = <<InHand("put")>> \o Flight'
      /\ InHand("put") \in stored /\ stored' = stored
  BY LandDropsFront DEF land, outside, LandedInv
<1>2. /\ n \in Nat /\ Len(Flight) = n + 1 /\ Flight[1] = InHand("put")
      /\ \A i \in 1..n : Flight[i + 1] = Flight'[i]
  BY <1>1, FrontProperties
<1>3. \A i \in 1..n : i + 1 \in 1..Len(Flight) /\ i + 1 # 1
  BY <1>2
<1>4. \A i \in 1..Len(Flight) : Flight[i] \in stored \/ \E k \in 1..n : Flight[i] = Flight'[k]
  <2> TAKE i \in 1..Len(Flight)
  <2>1. CASE i = 1
    BY <1>1, <1>2, <2>1
  <2>2. CASE i # 1
    <3>1. i - 1 \in 1..n /\ (i - 1) + 1 = i
      BY <1>2, <2>2
    <3> QED BY <1>2, <3>1
  <2> QED BY <2>1, <2>2
<1>5. \A k \in 1..n : \E i \in 1..Len(Flight) : Flight'[k] = Flight[i]
  BY <1>2, <1>3
<1>6. \A f : f \in Files' <=> f \in Files
  BY <1>1, <1>4, <1>5 DEF Files
<1> QED BY <1>2, <1>3, <1>6

LEMMA SealKeeps ==
  ASSUME TypeInv, GateInv, buffered # {}, CutFile \in File, Seal,
         UNCHANGED <<hand, maxEnd, stagedOffset, stored>>, at' = at
  PROVE  AscendInv' /\ Carries
<1> DEFINE n == Len(Flight)
<1>1. n \in Nat
  BY CutShape
<1>2. /\ Len(Flight') = n + 1 /\ Flight'[n + 1] = CutFile
      /\ \A i \in 1..n : Flight'[i] = Flight[i]
  BY CutShape
<1>3. buffered' = {}
  BY DEF Seal
<1>4. /\ \A b \in buffered : b.end \in Int /\ b.end <= maxEnd
      /\ stagedOffset \in Int /\ maxEnd \in Int /\ CutFile.end \in Int
  BY ConstantFacts DEF GateInv, AscendInv, TypeInv, TypeOK, WriterTypeOK, Offset, NoOffset, File
<1>f. Files' = Files \cup {CutFile}
  BY CutShape
<1>5. Bounded(maxEnd)'
  <2>1. \A f \in Files' : \A b \in f.rows : b.end <= maxEnd
    BY <1>f, CutFileRows DEF GateInv, AscendInv, Bounded
  <2> QED BY <1>1, <1>2, <1>4, <2>1, CutFileRows DEF GateInv, AscendInv, Bounded
<1>a. Apart'
  BY <1>f, <1>3, CutFileRows DEF GateInv, AscendInv, Apart
<1>6. \A i \in 1..n + 1 : \A b \in Flight'[i].rows :
        /\ b.end <= Flight'[i].end
        /\ stagedOffset = Recovered \/ stagedOffset < b.end \/ (i = 1 /\ at["put"] = "land")
  <2> TAKE i \in 1..n + 1
  <2>1. CASE i = n + 1
    BY <1>2, <2>1, CutFileRows DEF GateInv, AscendInv
  <2>2. CASE i # n + 1
    <3>1. i \in 1..n
      BY <1>1, <2>2
    <3> QED BY <1>2, <3>1 DEF GateInv, AscendInv
  <2> QED BY <2>1, <2>2
<1>7. \A i, j \in 1..n + 1 : i < j => \A b \in Flight'[j].rows : Flight'[i].end < b.end
  <2> SUFFICES ASSUME NEW i \in 1..n + 1, NEW j \in 1..n + 1, i < j, NEW b \in Flight'[j].rows
               PROVE  Flight'[i].end < b.end
    OBVIOUS
  <2>1. i \in 1..n /\ Flight'[i] = Flight[i]
    BY <1>1, <1>2
  <2>2. CASE j = n + 1
    BY <1>2, <2>1, <2>2, CutFileRows DEF GateInv, AscendInv
  <2>3. CASE j # n + 1
    <3>1. j \in 1..n
      BY <1>1, <2>3
    <3> QED BY <1>2, <2>1, <3>1 DEF GateInv, AscendInv
  <2> QED BY <2>2, <2>3
<1>8. AscendInv'
  BY <1>2, <1>3, <1>5, <1>6, <1>7, <1>a DEF AscendInv
<1>9. \A b \in Batches : Held(b) => Held(b)'
  BY <1>f, CutFileRows DEF Held
<1> QED BY <1>3, <1>8, <1>9 DEF Carries

\* staged_offset moves up to the front file, below every other row.
LEMMA RecordKeeps ==
  ASSUME TypeInv, GateInv, record_durable PROVE AscendInv' /\ Carries
<1> DEFINE h == InHand("put")
<1>1. /\ h \in File /\ Flight # <<>> /\ Flight[1] = h /\ Flight \in Seq(File)
      /\ at["put"] = "landed" /\ at'["put"] = "land"
      /\ Flight' = Flight /\ Files' = Files /\ UNCHANGED <<buffered, maxEnd, stored>>
  BY PutHoldsFront, FlightTypes, SameFlight, SameFiles
     DEF record_durable, TypeInv, TypeOK, PipelineTypeOK, Stages, buffer
<1>2. /\ Len(Flight) \in Nat /\ 1 \in 1..Len(Flight)
  BY <1>1, EmptySeq, LenProperties
<1>3. /\ \A i \in 1..Len(Flight) : \A b \in Flight[i].rows : b.end \in Int
      /\ \A b \in buffered : b.end \in Int
  <2>1. \A i \in 1..Len(Flight) : Flight[i].rows \subseteq Batches
    BY FlightFiles
  <2>2. buffered \subseteq Batches
    BY DEF TypeInv, TypeOK, WriterTypeOK
  <2> QED BY <2>1, <2>2, ConstantFacts DEF Offset
<1>4. stagedOffset \in Int /\ h.end \in Int
  BY <1>1, ConstantFacts DEF File, Offset, NoOffset, TypeInv, TypeOK, WriterTypeOK
<1>5. stagedOffset' \in {stagedOffset, h.end}
  <2>1. stagedOffset' = Max({stagedOffset, h.end})
    BY DEF record_durable
  <2>2. \E x \in {stagedOffset, h.end} : \A y \in {stagedOffset, h.end} : x >= y
    BY <1>4
  <2> QED BY <2>1, <2>2 DEF Max
<1> HIDE DEF h
<1>6. \A n : Bounded(n) => Bounded(n)'
  BY <1>1, <1>2, <1>5 DEF Bounded
<1>7. AscendInv'
  <2>1. \A b \in buffered : stagedOffset' = Recovered \/ stagedOffset' < b.end
    BY <1>1, <1>2, <1>3, <1>5 DEF GateInv, AscendInv
  <2>2. \A i \in 1..Len(Flight) : \A b \in Flight[i].rows :
          /\ b.end <= Flight[i].end
          /\ stagedOffset' = Recovered \/ stagedOffset' < b.end \/ i = 1
    BY <1>1, <1>2, <1>3, <1>4, <1>5 DEF GateInv, AscendInv
  <2> QED BY <1>1, <1>6, <2>1, <2>2 DEF GateInv, AscendInv, Apart
<1> QED BY <1>1, <1>6, <1>7 DEF Carries, Held

\* The front file leaves, its rows are on storage.
LEMMA LandKeeps == ASSUME TypeInv, GateInv, land PROVE AscendInv' /\ Carries
<1> DEFINE n == Len(Flight')
<1>1. /\ at["put"] = "land" /\ InHand("put") \in stored
      /\ UNCHANGED <<buffered, maxEnd, stagedOffset, stored>>
  BY DEF land, buffer, offsets, outside, GateInv, LandedInv
<1>2. /\ n \in Nat /\ Len(Flight) = n + 1 /\ Flight[1] = InHand("put")
      /\ \A i \in 1..n : Flight[i + 1] = Flight'[i]
  BY LandShape DEF GateInv
<1>3. \A i \in 1..n : i + 1 \in 1..Len(Flight) /\ i + 1 # 1
  BY LandShape DEF GateInv
<1>f. Files' = Files
  BY LandShape DEF GateInv
<1>4. \A m : Bounded(m) => Bounded(m)'
  BY <1>1, <1>2, <1>3, <1>f DEF Bounded
<1>5. AscendInv'
  <2>1. \A i \in 1..n : \A b \in Flight'[i].rows :
          b.end <= Flight'[i].end /\ (stagedOffset = Recovered \/ stagedOffset < b.end)
    BY <1>2, <1>3 DEF GateInv, AscendInv
  <2>2. ASSUME NEW i \in 1..n, NEW j \in 1..n, i < j, NEW b \in Flight'[j].rows
        PROVE  Flight'[i].end < b.end
    <3>1. i + 1 < j + 1
      BY <2>2
    <3> QED BY <1>2, <1>3, <2>2, <3>1 DEF GateInv, AscendInv
  <2>3. \A b \in buffered : \A i \in 1..n : Flight'[i].end < b.end
    BY <1>2, <1>3 DEF GateInv, AscendInv
  <2> QED BY <1>1, <1>4, <1>f, <2>1, <2>2, <2>3 DEF GateInv, AscendInv, Apart
<1> QED BY <1>1, <1>4, <1>5, <1>f DEF Carries, Held

-----------------------------------------------------------------------------
(***************************************************************************)
(* append takes a batch in, and takes it back.                             *)
(***************************************************************************)
LEMMA AppendKeeps ==
  ASSUME TypeInv, GateInv, NEW t \in Tasks, NEW b \in Batches, NEW rotate \in BOOLEAN,
         AppendBatch(t, b, rotate)
  PROVE  GateInv'
<1>1. /\ t = Appender /\ call[t].pc = "idle" /\ DOMAIN call = Tasks
      /\ buffered' = buffered \cup {b} /\ maxEnd' = b.end /\ Flight' = Flight /\ Files' = Files
      /\ UNCHANGED <<stagedOffset, stored, at, hand>>
  BY SameFlight, SameFiles
     DEF AppendBatch, CanCall, TypeInv, TypeOK, CallerTypeOK, pipeline, outside
<1>2. maxEnd < b.end
  <2>1. maxEnd < b.start
    <3>1. maxEnd \in Int /\ b.start \in Int
      BY ConstantFacts DEF TypeInv, TypeOK, WriterTypeOK, Offset, NoOffset
    <3>2. ~(b.start <= maxEnd)
      BY DEF AppendBatch, AppendError
    <3> QED BY <3>1, <3>2
  <2>2. b.start <= b.end
    BY OffsetAssumption DEF OffsetAssumption
  <2>3. maxEnd \in Int /\ b.start \in Int /\ b.end \in Int
    BY ConstantFacts DEF TypeInv, TypeOK, WriterTypeOK, Offset, NoOffset
  <2> QED BY <2>1, <2>2, <2>3
<1>3. /\ \A x \in Batches : x.end \in Int
      /\ buffered \subseteq Batches /\ acked \subseteq Batches
      /\ maxEnd \in Int /\ stagedOffset \in Int
      /\ \A i \in 1..Len(Flight) : Flight[i].end \in Int
  <2>1. \A i \in 1..Len(Flight) : Flight[i].end \in Offset
    BY FlightFiles
  <2> QED BY <2>1, ConstantFacts DEF TypeInv, TypeOK, WriterTypeOK, Offset, NoOffset
<1>4. AscendInv'
  <2>1. \A f \in Files : f.rows \subseteq Batches
    <3>1. stored \subseteq File
      BY DEF TypeInv, TypeOK, StatusTypeOK
    <3> QED BY <3>1, FlightFiles DEF Files, File
  <2>2. \A f \in Files : b \notin f.rows /\ \A x \in f.rows : x.end <= b.end
    BY <1>2, <1>3, <2>1 DEF GateInv, AscendInv, Bounded
  <2>3. Apart'
    BY <1>1, <2>2 DEF GateInv, AscendInv, Apart
  <2>4. Bounded(maxEnd)'
    BY <1>1, <1>2, <1>3, <2>2 DEF GateInv, AscendInv, Bounded
  <2>5. \A x \in buffered' :
          /\ x.end <= maxEnd' /\ (stagedOffset = Recovered \/ stagedOffset < x.end)
          /\ \A i \in 1..Len(Flight) : Flight[i].end < x.end
    <3>1. /\ b.end <= maxEnd' /\ (stagedOffset = Recovered \/ stagedOffset < b.end)
          /\ \A i \in 1..Len(Flight) : Flight[i].end < b.end
      BY <1>1, <1>2, <1>3 DEF GateInv, AscendInv, Bounded
    <3>2. \A x \in buffered : x.end <= maxEnd'
      BY <1>1, <1>2, <1>3 DEF GateInv, AscendInv
    <3> QED BY <1>1, <3>1, <3>2 DEF GateInv, AscendInv
  <2> QED BY <1>1, <2>3, <2>4, <2>5 DEF GateInv, AscendInv
<1>5. LandedInv'
  BY <1>1 DEF GateInv, LandedInv, InHand
<1>6. /\ \A u \in Tasks : call[u].op # "append"
      /\ \A x \in acked : Held(x)' /\ x.end <= maxEnd /\ x.end <= maxEnd'
      /\ Held(b)' /\ b \notin acked
  BY <1>1, <1>2, <1>3 DEF GateInv, AccountInv, Held
<1>7. CASE rotate
  <2>1. /\ acked' = acked
        /\ call' = [call EXCEPT ![t] = [Idle EXCEPT !.pc = "lock", !.op = "append",
                                                    !.batch = b, !.before = maxEnd]]
    BY <1>7 DEF AppendBatch
  <2>2. /\ call'[t].pc = "lock" /\ call'[t].op = "append" /\ call'[t].batch = b
        /\ call'[t].before = maxEnd /\ call'[t].err = "none"
        /\ \A u \in Tasks \ {t} : call'[u] = call[u]
    BY <1>1, <2>1 DEF Idle
  <2>3. PICK m : m = maxEnd
    OBVIOUS
  <2>4. Bounded(m)' /\ \A x \in buffered' : x # b => x.end <= m
    BY <1>1, <2>3 DEF GateInv, AscendInv, Bounded
  <2>5. AccountInv'
    BY <1>1, <1>6, <2>1, <2>2, <2>3, <2>4 DEF GateInv, AccountInv
  <2> QED BY <1>4, <1>5, <2>5 DEF GateInv
<1>8. CASE ~rotate
  <2>1. call' = call /\ acked' = acked \cup {b}
    BY <1>8 DEF AppendBatch
  <2>2. AccountInv'
    BY <1>1, <1>3, <1>6, <2>1 DEF GateInv, AccountInv
  <2> QED BY <1>4, <1>5, <2>2 DEF GateInv
<1> QED BY <1>7, <1>8

LEMMA ReturnReplies ==
  ASSUME NEW t \in Tasks, NEW res, Return(t, res) PROVE Replies(t)
<1>1. Idle.pc = "idle" /\ Idle.op = "none"
  BY DEF Idle
<1> QED BY <1>1 DEF Return, Replies

LEMMA UnbufferKeeps ==
  ASSUME TypeInv, GateInv, NEW t \in Tasks, Unbuffer(t) PROVE GateInv'
<1> DEFINE b == call[t].batch
<1>1. /\ call[t].op = "append" /\ DOMAIN call = Tasks /\ b \in Batches
      /\ buffered' = buffered \ {b} /\ Flight' = Flight /\ Files' = Files
      /\ UNCHANGED <<stagedOffset, stored, at, hand>>
  BY SameFlight, SameFiles
     DEF Unbuffer, GateInv, AccountInv, TypeInv, TypeOK, CallerTypeOK, CallInv, pipeline, outside
<1>2. LandedInv'
  BY <1>1 DEF GateInv, LandedInv, InHand
<1>3. CASE b \in buffered
  <2>1. /\ maxEnd' = call[t].before /\ acked' = acked /\ call' = [call EXCEPT ![t] = Idle]
    BY <1>1, <1>3 DEF Unbuffer, Return, GateInv, AccountInv
  <2>2. AscendInv'
    BY <1>1, <1>3, <2>1 DEF GateInv, AscendInv, AccountInv, Bounded, Apart
  <2>3. /\ call'[t].op = "none" /\ call'[t].pc = "idle"
        /\ \A u \in Tasks : call'[u].op # "append"
    BY <1>1, <2>1 DEF GateInv, AccountInv, Idle
  <2>4. \A x \in acked : Held(x)' /\ x.end <= maxEnd'
    BY <1>1, <1>3, <2>1 DEF GateInv, AccountInv, Held
  <2>5. \A u \in Tasks : call'[u].pc # "unbuffer"
    BY <1>1, <2>1 DEF GateInv, AccountInv, Idle
  <2> QED BY <1>2, <2>1, <2>2, <2>3, <2>4, <2>5 DEF GateInv, AccountInv
<1>4. CASE b \notin buffered
  <2>1. buffered' = buffered /\ maxEnd' = maxEnd
    BY <1>1, <1>4 DEF Unbuffer
  <2>2. Replies(t)
    BY ReturnReplies DEF Unbuffer
  <2>3. AscendInv' /\ Carries
    BY <1>1, <2>1, StillKeeps DEF Still
  <2> QED BY <1>2, <2>2, <2>3, CarriesAccount DEF GateInv
<1> QED BY <1>3, <1>4

-----------------------------------------------------------------------------
(***************************************************************************)
(* Every step.                                                             *)
(***************************************************************************)
LEMMA LandedKeeps ==
  ASSUME GateInv, hand'["put"] = hand["put"], stored \subseteq stored',
         at'["put"] \in {"landed", "land"} => at["put"] \in {"landed", "land"}
  PROVE  LandedInv'
BY DEF GateInv, LandedInv, InHand

\* The other steps of a call.
LEMMA CallReplies ==
  ASSUME TypeInv, GateInv, NEW t \in Tasks,
         \/ TakeLock(t) \/ GetLock(t) \/ GiveUp(t) \/ NothingToSeal(t) \/ QueueFull(t)
         \/ PipelineClosed(t) \/ SealAndSend(t) \/ ReadTarget(t) \/ AwaitDurable(t) \/ Cancel(t)
  PROVE  Replies(t)
<1>1. DOMAIN call = Tasks /\ (call[t].op = "append" => call[t].err # "ok")
  BY DEF TypeInv, TypeOK, CallerTypeOK, GateInv, AccountInv
<1>2. ASSUME NEW c, call' = [call EXCEPT ![t] = c], acked' = acked,
             c.op = call[t].op, c.batch = call[t].batch, c.before = call[t].before,
             c.pc \notin {"idle", "unbuffer"}, c.err = call[t].err
      PROVE  Replies(t)
  BY <1>1, <1>2 DEF Replies
<1>3. call \in [Tasks -> Calls]
  BY DEF TypeInv, TypeOK, CallerTypeOK
<1>4. ASSUME NEW pc \in {"lock", "waitLock", "reserve", "waitRoom", "target", "durable"},
             Goto(t, pc), acked' = acked
      PROVE  Replies(t)
  <2> DEFINE c == [call[t] EXCEPT !.pc = pc]
  <2>1. call' = [call EXCEPT ![t] = c]
    BY <1>4 DEF Goto
  <2>2. /\ c.op = call[t].op /\ c.batch = call[t].batch /\ c.before = call[t].before
        /\ c.pc = pc /\ c.err = call[t].err
    BY <1>3 DEF Calls
  <2> HIDE DEF c
  <2> QED BY <1>2, <1>4, <2>1, <2>2
<1>5. ASSUME NEW n, call' = [call EXCEPT ![t].pc = "durable", ![t].target = n], acked' = acked
      PROVE  Replies(t)
  <2> DEFINE c == [call[t] EXCEPT !.pc = "durable", !.target = n]
  <2>1. call' = [call EXCEPT ![t] = c]
    BY <1>5
  <2>2. /\ c.op = call[t].op /\ c.batch = call[t].batch /\ c.before = call[t].before
        /\ c.pc = "durable" /\ c.err = call[t].err
    BY <1>3 DEF Calls
  <2> HIDE DEF c
  <2> QED BY <1>2, <1>5, <2>1, <2>2
<1>6. ASSUME NEW e, SealFailed(t, e), e # "ok" PROVE Replies(t)
  <2>1. CASE call[t].op = "append"
    <3> DEFINE c == [call[t] EXCEPT !.pc = "unbuffer", !.err = e]
    <3>1. call' = [call EXCEPT ![t] = c] /\ acked' = acked
      BY <1>6, <2>1 DEF SealFailed
    <3>2. /\ c.op = "append" /\ c.batch = call[t].batch /\ c.before = call[t].before
          /\ c.pc = "unbuffer" /\ c.err = e
      BY <1>3, <2>1 DEF Calls
    <3> HIDE DEF c
    <3> QED BY <1>6, <2>1, <3>1, <3>2 DEF Replies
  <2>2. CASE call[t].op # "append"
    BY <1>6, <2>2, ReturnReplies DEF SealFailed
  <2> QED BY <2>1, <2>2
<1>7. ASSUME NothingSealed(t) PROVE Replies(t)
  BY <1>4, <1>7, ReturnReplies DEF NothingSealed
<1>8. ASSUME NEW n, SealSent(t, n) PROVE Replies(t)
  BY <1>5, <1>8, ReturnReplies DEF SealSent
<1>9. FatalState # "ok" /\ \A f : terminal_error(f) # "ok"
  BY DEF FatalState, fatal_state, StallError, terminal_error
<1>10. CASE TakeLock(t) \/ GetLock(t) \/ QueueFull(t)
  BY <1>4, <1>10 DEF TakeLock, GetLock, QueueFull, offsets
<1>11. CASE GiveUp(t)
  BY <1>6, <1>9, <1>11 DEF GiveUp
<1>12. CASE NothingToSeal(t)
  BY <1>7, <1>12 DEF NothingToSeal
<1>13. CASE PipelineClosed(t)
  BY <1>6, <1>9, <1>13 DEF PipelineClosed
<1>14. CASE SealAndSend(t)
  BY <1>6, <1>7, <1>8, <1>9, <1>14 DEF SealAndSend
<1>15. CASE ReadTarget(t)
  BY <1>5, <1>15, ReturnReplies DEF ReadTarget
<1>16. CASE AwaitDurable(t) \/ Cancel(t)
  BY <1>16, ReturnReplies DEF AwaitDurable, Cancel
<1> QED BY <1>10, <1>11, <1>12, <1>13, <1>14, <1>15, <1>16

LEMMA FlushReplies ==
  ASSUME NEW t \in Tasks, NEW op \in {"flush", "close"}, Flush(t, op)
  PROVE  UNCHANGED <<call, acked>> \/ Replies(t)
<1>1. acked' = acked
  BY DEF Flush, offsets
<1>2. CASE FatalState # "none"
  BY <1>1, <1>2 DEF Flush
<1>3. CASE FatalState = "none"
  <2> DEFINE c == [Idle EXCEPT !.pc = "lock", !.op = op, !.owed = Owed]
  <2>1. call' = [call EXCEPT ![t] = c]
    BY <1>3 DEF Flush
  <2>2. c.pc = "lock" /\ c.op = op
    BY DEF Idle
  <2> HIDE DEF c
  <2> QED BY <1>1, <2>1, <2>2 DEF Replies
<1> QED BY <1>2, <1>3

LEMMA NextGate == OrderInv /\ GateInv /\ [Next]_vars => GateInv'
<1> SUFFICES ASSUME OrderInv, GateInv, [Next]_vars PROVE GateInv'
  OBVIOUS
<1>0. TypeInv /\ "put" \in Stages /\ DOMAIN at = Stages
  BY DEF OrderInv, TypeInv, TypeOK, PipelineTypeOK, Stages
<1>1. ASSUME Still, LandedInv', UNCHANGED <<call, acked>> \/ \E t \in Tasks : Replies(t)
      PROVE  GateInv'
  BY <1>0, <1>1, StillKeeps, CarriesAccount DEF GateInv
<1>2. ASSUME UNCHANGED <<hand, inbox, at, stored, buffered, maxEnd, stagedOffset>>,
             UNCHANGED <<call, acked>> \/ \E t \in Tasks : Replies(t)
      PROVE  GateInv'
  <2>1. Still
    BY <1>2, SameFlight, SameFiles DEF Still
  <2> QED BY <1>1, <1>2, <2>1, LandedKeeps
<1>3. ASSUME buffered # {}, UNCHANGED <<hand, maxEnd, stagedOffset, stored>>, at' = at,
             (CanEncode /\ Seal) \/ (~CanEncode /\ SealRefused),
             UNCHANGED <<call, acked>> \/ \E t \in Tasks : Replies(t)
      PROVE  GateInv'
  <2>1. CASE CanEncode /\ Seal
    <3>1. CutFile \in File
      BY <1>0, <1>3, <2>1, CutFileType DEF TypeInv, TypeOK
    <3>2. AscendInv' /\ Carries
      BY <1>0, <1>3, <2>1, <3>1, SealKeeps
    <3> QED BY <1>0, <1>3, <3>2, LandedKeeps, CarriesAccount DEF GateInv
  <2>2. CASE SealRefused
    BY <1>2, <1>3, <2>2 DEF SealRefused
  <2> QED BY <1>3, <2>1, <2>2
<1>4. ASSUME NEW t \in Tasks, CallerStep(t) \/ StartCall(t) \/ Cancel(t) PROVE GateInv'
  <2>1. CASE Unbuffer(t)
    BY <1>0, <2>1, UnbufferKeeps
  <2>2. CASE SealAndSend(t)
    <3>1. Replies(t) /\ UNCHANGED <<hand, maxEnd, stagedOffset, stored, at>>
      BY <1>0, <2>2, CallReplies DEF SealAndSend, outside
    <3>2. CASE FatalState # "none" \/ buffered = {}
      <4>1. UNCHANGED <<inbox, buffered>>
        BY <2>2, <3>2 DEF SealAndSend, buffer
      <4> QED BY <1>2, <3>1, <4>1
    <3>3. CASE FatalState = "none" /\ buffered # {}
      <4>1. (CanEncode /\ Seal) \/ (~CanEncode /\ SealRefused)
        BY <2>2, <3>3 DEF SealAndSend
      <4> QED BY <1>3, <3>1, <3>3, <4>1
    <3> QED BY <3>2, <3>3
  <2>3. CASE \/ TakeLock(t) \/ GetLock(t) \/ GiveUp(t) \/ NothingToSeal(t) \/ QueueFull(t)
             \/ PipelineClosed(t) \/ ReadTarget(t) \/ AwaitDurable(t) \/ Cancel(t)
    <3>1. UNCHANGED <<hand, inbox, at, stored, buffered, maxEnd, stagedOffset>>
      BY <2>3
         DEF TakeLock, GetLock, GiveUp, NothingToSeal, QueueFull, PipelineClosed, ReadTarget,
             AwaitDurable, Cancel, buffer, pipeline, offsets, outside
    <3>2. Replies(t)
      BY <1>0, <2>3, CallReplies
    <3> QED BY <1>2, <3>1, <3>2
  <2>4. CASE \E r \in OffsetRange, schemaOk \in BOOLEAN : AppendRefused(t, r, schemaOk)
    <3>1. UNCHANGED <<hand, inbox, at, stored, buffered, maxEnd, stagedOffset, call, acked>>
      BY <2>4 DEF AppendRefused, buffer, callers, pipeline, offsets, outside
    <3> QED BY <1>2, <3>1
  <2>5. CASE \E b \in Batches, rotate \in BOOLEAN : AppendBatch(t, b, rotate)
    BY <1>0, <2>5, AppendKeeps
  <2>6. CASE \E op \in {"flush", "close"} : Flush(t, op)
    <3>1. UNCHANGED <<hand, inbox, at, stored, buffered, maxEnd, stagedOffset>>
      BY <2>6 DEF Flush, buffer, pipeline, offsets, outside
    <3> QED BY <1>2, <2>6, <3>1, FlushReplies
  <2> QED BY <1>4, <2>1, <2>2, <2>3, <2>4, <2>5, <2>6 DEF CallerStep, StartCall
<1>5. ASSUME NEW s \in Stages, StageStep(s) PROVE GateInv'
  <2>1. CASE StageRecv(s) \/ StageSend(s)
    <3>1. Flight' = Flight
      BY <1>0, <2>1, RecvKeepsFlight, SendKeepsFlight
    <3>2. UNCHANGED <<buffered, maxEnd, stagedOffset, stored, call, acked>>
      BY <2>1 DEF StageRecv, StageSend, buffer, callers, offsets, outside
    <3>3. at["put"] = "land" => at'["put"] = "land"
      BY <1>0, <2>1 DEF StageRecv, StageSend, NextStage
    <3>4. at'["put"] \in {"landed", "land"} =>
            at["put"] \in {"landed", "land"} /\ hand'["put"] = hand["put"]
      BY <1>0, <2>1 DEF StageRecv, StageSend, NextStage, TypeInv, TypeOK, PipelineTypeOK
    <3>5. LandedInv'
      BY <3>2, <3>4 DEF GateInv, LandedInv, InHand
    <3> QED BY <1>1, <3>1, <3>2, <3>3, <3>5, SameFiles DEF Still
  <2>2. CASE \/ StageDrained(s) \/ StageStop(s) \/ StageTry(s) \/ SendRefused(s)
             \/ \E landed \in BOOLEAN : AttemptFails(s, landed)
    <3>1. /\ UNCHANGED <<hand, inbox, buffered, maxEnd, stagedOffset, call, acked>>
          /\ stored \subseteq stored'
      BY <2>2
         DEF StageDrained, StageStop, StageTry, SendRefused, AttemptFails, buffer, callers, offsets,
             outside
    <3>2. /\ at["put"] = "land" => at'["put"] = "land"
          /\ at'["put"] \in {"landed", "land"} => at["put"] \in {"landed", "land"}
      BY <1>0, <2>2
         DEF StageDrained, StageStop, StageTry, SendRefused, AttemptFails, NextStage
    <3>3. Files' = Files
      <4>1. stored' = stored \/ (at["put"] = "work" /\ stored' = stored \cup {InHand("put")})
        BY <2>2
           DEF StageDrained, StageStop, StageTry, SendRefused, AttemptFails, outside
      <4> QED BY <1>0, <3>1, <4>1, SameFlight, SameFiles, PutFiles
    <3>4. Still
      BY <3>1, <3>2, <3>3, SameFlight DEF Still
    <3> QED BY <1>1, <3>1, <3>2, <3>4, LandedKeeps
  <2>3. CASE AttemptOk(s)
    <3>1. /\ UNCHANGED <<hand, inbox, buffered, maxEnd, stagedOffset, call, acked>>
          /\ stored \subseteq stored'
      BY <2>3 DEF AttemptOk, buffer, callers, offsets
    <3>2. at["put"] = "land" => at'["put"] = "land"
      BY <1>0, <2>3 DEF AttemptOk
    <3>0. Files' = Files
      <4>1. stored' = stored \/ (at["put"] = "work" /\ stored' = stored \cup {InHand("put")})
        BY <2>3 DEF AttemptOk
      <4> QED BY <1>0, <3>1, <4>1, SameFlight, SameFiles, PutFiles
    <3>3. CASE s = "put"
      <4>1. InHand("put") \in stored' /\ hand' = hand
        BY <2>3, <3>3 DEF AttemptOk
      <4>2. LandedInv'
        BY <4>1 DEF LandedInv, InHand
      <4> QED BY <1>1, <3>0, <3>1, <3>2, <4>2, SameFlight DEF Still
    <3>4. CASE s # "put"
      <4>1. at'["put"] = at["put"]
        BY <1>0, <2>3, <3>4 DEF AttemptOk
      <4>2. LandedInv'
        BY <3>1, <4>1, LandedKeeps
      <4> QED BY <1>1, <3>0, <3>1, <3>2, <4>2, SameFlight DEF Still
    <3> QED BY <3>3, <3>4
  <2> QED BY <1>5, <2>1, <2>2, <2>3 DEF StageStep
<1>6. CASE RenderRejects \/ RenderGivesUp \/ PutCheck
  <2>1. UNCHANGED <<hand, inbox, buffered, maxEnd, stagedOffset, call, acked, stored>>
    BY <1>6 DEF RenderRejects, RenderGivesUp, PutCheck, buffer, callers, offsets, outside
  <2>2. /\ at["put"] = "land" => at'["put"] = "land"
        /\ at'["put"] \in {"landed", "land"} => at["put"] \in {"landed", "land"}
    BY <1>0, <1>6 DEF RenderRejects, RenderGivesUp, PutCheck
  <2>3. Still
    BY <2>1, <2>2, SameFlight, SameFiles DEF Still
  <2> QED BY <1>1, <2>1, <2>2, <2>3, LandedKeeps
<1>7. CASE record_durable
  <2>1. AscendInv' /\ Carries
    BY <1>0, <1>7, RecordKeeps
  <2>2. /\ hand'["put"] = hand["put"] /\ at["put"] = "landed"
        /\ UNCHANGED <<stored, call, acked>>
    BY <1>7 DEF record_durable, callers
  <2> QED BY <1>0, <2>1, <2>2, LandedKeeps, CarriesAccount DEF GateInv
<1>8. CASE land
  <2>1. AscendInv' /\ Carries
    BY <1>0, <1>8, LandKeeps
  <2>2. at'["put"] = "recv" /\ UNCHANGED <<call, acked>>
    BY <1>0, <1>8 DEF land, callers, offsets
  <2>3. LandedInv'
    BY <2>2 DEF LandedInv
  <2> QED BY <1>0, <2>1, <2>2, <2>3, CarriesAccount DEF GateInv
<1>9. CASE RenderStep \/ GzipStep \/ PutStep
  BY <1>5, <1>6, <1>7, <1>8, <1>9 DEF RenderStep, GzipStep, PutStep, Stages
<1>10. CASE TickerStep
  <2>1. CASE TickerSeal
    <3>1. UNCHANGED <<hand, maxEnd, stagedOffset, stored, at, call, acked>>
      BY <2>1 DEF TickerSeal, offsets, outside
    <3>2. CASE buffered # {} /\ aged
      BY <1>3, <2>1, <3>1, <3>2 DEF TickerSeal
    <3>3. CASE ~(buffered # {} /\ aged)
      <4>1. UNCHANGED <<inbox, buffered>>
        BY <2>1, <3>3 DEF TickerSeal, buffer
      <4> QED BY <1>2, <3>1, <4>1
    <3> QED BY <3>2, <3>3
  <2>2. CASE TickerStop \/ TickerLock
    <3>1. UNCHANGED <<hand, inbox, at, stored, buffered, maxEnd, stagedOffset, call, acked>>
      BY <2>2 DEF TickerStop, TickerLock, buffer, pipeline, offsets, outside
    <3> QED BY <1>2, <3>1
  <2> QED BY <1>10, <2>1, <2>2 DEF TickerStep
<1>11. CASE Environment \/ Terminated \/ UNCHANGED vars
  <2>1. UNCHANGED <<hand, inbox, at, stored, buffered, maxEnd, stagedOffset, call, acked>>
    BY <1>11
       DEF Environment, Age, fence, SerialFatal, Drop, Free, Terminated, vars, buffer, callers,
           pipeline, offsets, outside
  <2> QED BY <1>2, <2>1
<1> QED BY <1>4, <1>9, <1>10, <1>11 DEF Next

LEMMA GateInvHolds == Spec => [](TypeInv /\ GateInv)
<1>1. Init => OrderInv /\ GateInv
  BY InitTypeInv, InitOrder, InitGate DEF OrderInv
<1>2. OrderInv /\ GateInv /\ [Next]_vars => (OrderInv /\ GateInv)'
  BY NextOrder, NextGate
<1>3. OrderInv => TypeInv
  BY DEF OrderInv
<1> QED BY <1>1, <1>2, <1>3, PTL DEF Spec

(***************************************************************************)
(* staged_offset() is a commit gate from its first move on: whatever       *)
(* callers, ticker, stages, fence and cancellation do, whichever batches   *)
(* were taken back, and wherever the recovery let it start, an accepted    *)
(* batch that ends at or below it is in a file on storage.  A replay of    *)
(* offsets the recovery already found staged is included.                  *)
(***************************************************************************)
THEOREM CommitGate == Spec => []StagedOffsetIsDurable
BY GateInvHolds, GateIsCommit, PTL

(***************************************************************************)
(* Rows are neither lost nor staged twice: a batch is in one place at      *)
(* most, and one that append has accepted is in one.                       *)
(***************************************************************************)
THEOREM RowsHeldOnce == Spec => []HeldOnce
<1>1. TypeInv /\ GateInv => HeldOnce
  <2> SUFFICES ASSUME TypeInv, GateInv, NEW b \in Batches
               PROVE  LET holders == Cardinality({f \in Files : b \in f.rows})
                                       + (IF b \in buffered THEN 1 ELSE 0)
                      IN  holders <= 1 /\ (b \in acked => holders = 1)
    BY DEF HeldOnce
  <2> DEFINE H == {f \in Files : b \in f.rows}
  <2>1. b \in acked => b \in buffered \/ H # {}
    BY DEF GateInv, AccountInv, Held
  <2>2. b \in buffered => H = {}
    BY DEF GateInv, AscendInv, Apart
  <2>3. CASE H = {}
    <3>1. Cardinality(H) = 0
      BY <2>3, FS_EmptySet
    <3> QED BY <2>1, <2>3, <3>1
  <2>4. CASE H # {}
    <3>1. PICK f \in H : TRUE
      BY <2>4
    <3>2. \A g \in H : g = f
      BY <3>1 DEF GateInv, AscendInv, Apart
    <3>3. H = {f}
      BY <3>1, <3>2
    <3>4. Cardinality(H) = 1
      BY <3>3, FS_Singleton
    <3> QED BY <2>2, <2>4, <3>4
  <2> QED BY <2>3, <2>4
<1> QED BY <1>1, GateInvHolds, PTL

-----------------------------------------------------------------------------
(***************************************************************************)
(* What flush's Ok rests on.  Numbers ascend with the files: durable is    *)
(* below everything in flight, the last sealed number below none, and the  *)
(* next one above them all.                                                *)
(***************************************************************************)
NumberInv ==
  /\ \A f \in Files : Serial(f) <= lastSealed
  /\ durable <= lastSealed /\ lastSealed < Encode(epoch, nextSeq)
  /\ \A i \in 1..Len(Flight) : durable < Serial(Flight[i])
  /\ \A i, j \in 1..Len(Flight) : i < j => Serial(Flight[i]) < Serial(Flight[j])

\* A file on storage that has left the pipeline is covered by staged_offset.
CoverInv ==
  /\ \A f \in Files : \A b \in f.rows : b.end <= f.end
  /\ \A f \in stored : f.end <= stagedOffset \/ \E i \in 1..Len(Flight) : f = Flight[i]
  /\ at["put"] = "land" => InHand("put").end <= stagedOffset

(***************************************************************************)
(* What a flush or close owes was accepted when it began.  Once its own    *)
(* seal is over, all of it is cut into files, and the number it waits for  *)
(* is not below any of them that is still in flight.                       *)
(***************************************************************************)
Owes(c) ==
  /\ c.owed # NoOffset => \E b \in acked : b.end = c.owed
  /\ c.pc \in {"target", "durable"} => \A b \in buffered : c.owed < b.end
  /\ c.pc = "durable" =>
       \A i \in 1..Len(Flight) :
         (\E b \in Flight[i].rows : b.end <= c.owed) => Serial(Flight[i]) <= c.target

OwedInv == \A t \in Tasks : Owes(call[t])

FlushInv == NumberInv /\ CoverInv /\ OwedInv

(***************************************************************************)
(* What append's Err rests on: the mark it restores is below its range,    *)
(* and only flush and close wait for a file.                               *)
(***************************************************************************)
RetryInv ==
  \A t \in Tasks : call[t].op = "append" =>
    /\ call[t].before < call[t].batch.start
    /\ call[t].pc \notin {"target", "durable"}

AnswerInv == FlushInv /\ RetryInv

-----------------------------------------------------------------------------
(***************************************************************************)
(* What the steps of a call do to it: it goes on, or it returns.           *)
(***************************************************************************)
Proceeds(t) ==
  \E c :
    /\ call' = [call EXCEPT ![t] = c]
    /\ c.op = call[t].op /\ c.batch = call[t].batch /\ c.before = call[t].before
    /\ c.owed = call[t].owed /\ c.pc # "idle"
    /\ c.pc \in {"target", "durable"} => c.op # "append"
    /\ c.pc = "target" => buffered' = {}
    /\ c.pc = "durable" =>
         /\ c.target = lastSealed'
         /\ buffered' = {} \/ (call[t].pc = "target" /\ buffered' = buffered)
    /\ UNCHANGED <<handle, acked>> /\ Silent

\* Ok means that the file waited for is durable, or that there never was one.
Answers(t, res) ==
  /\ Return(t, res)
  /\ call[t].op = "append" => res # "StagingStalled"
  /\ call[t].op # "append" /\ res = "ok" =>
       \/ call[t].pc = "target" /\ lastSealed = NoOffset
       \/ call[t].pc = "durable" /\ durable >= call[t].target

Resolves(t) == Proceeds(t) \/ \E res : Answers(t, res)

LEMMA CallSteps ==
  ASSUME TypeInv, RetryInv, NEW t \in Tasks,
         \/ TakeLock(t) \/ GetLock(t) \/ GiveUp(t) \/ NothingToSeal(t) \/ QueueFull(t)
         \/ PipelineClosed(t) \/ SealAndSend(t) \/ ReadTarget(t) \/ AwaitDurable(t) \/ Cancel(t)
  PROVE  Resolves(t)
<1>1. call \in [Tasks -> Calls]
  BY DEF TypeInv, TypeOK, CallerTypeOK
<1>2. ASSUME NEW pc \in {"waitLock", "reserve", "waitRoom", "target"}, Goto(t, pc),
             pc = "target" => buffered' = {} /\ call[t].op # "append",
             UNCHANGED <<handle, acked>>, Silent
      PROVE  Resolves(t)
  <2> DEFINE c == [call[t] EXCEPT !.pc = pc]
  <2>1. call' = [call EXCEPT ![t] = c]
    BY <1>2 DEF Goto
  <2>2. /\ c.op = call[t].op /\ c.batch = call[t].batch /\ c.before = call[t].before
        /\ c.owed = call[t].owed /\ c.pc = pc
    BY <1>1 DEF Calls
  <2> HIDE DEF c
  <2> QED BY <1>2, <2>1, <2>2 DEF Resolves, Proceeds
<1>3. ASSUME NEW n, call' = [call EXCEPT ![t].pc = "durable", ![t].target = n],
             n = lastSealed', call[t].op # "append",
             buffered' = {} \/ (call[t].pc = "target" /\ buffered' = buffered),
             UNCHANGED <<handle, acked>>, Silent
      PROVE  Resolves(t)
  <2> DEFINE c == [call[t] EXCEPT !.pc = "durable", !.target = n]
  <2>1. call' = [call EXCEPT ![t] = c]
    BY <1>3
  <2>2. /\ c.op = call[t].op /\ c.batch = call[t].batch /\ c.before = call[t].before
        /\ c.owed = call[t].owed /\ c.pc = "durable" /\ c.target = n
    BY <1>1 DEF Calls
  <2> HIDE DEF c
  <2> QED BY <1>3, <2>1, <2>2 DEF Resolves, Proceeds
<1>4. ASSUME NEW e, SealFailed(t, e), e # "ok" PROVE Resolves(t)
  <2>1. CASE call[t].op = "append"
    <3> DEFINE c == [call[t] EXCEPT !.pc = "unbuffer", !.err = e]
    <3>1. call' = [call EXCEPT ![t] = c] /\ UNCHANGED <<handle, acked>> /\ Silent
      BY <1>4, <2>1 DEF SealFailed
    <3>2. /\ c.op = call[t].op /\ c.batch = call[t].batch /\ c.before = call[t].before
          /\ c.owed = call[t].owed /\ c.pc = "unbuffer"
      BY <1>1, <2>1 DEF Calls
    <3> HIDE DEF c
    <3> QED BY <3>1, <3>2 DEF Resolves, Proceeds
  <2>2. CASE call[t].op # "append"
    BY <1>4, <2>2 DEF SealFailed, Resolves, Answers
  <2> QED BY <2>1, <2>2
<1>5. ASSUME NothingSealed(t), buffered' = {} PROVE Resolves(t)
  <2>1. CASE call[t].op = "append"
    BY <1>5, <2>1 DEF NothingSealed, Resolves, Answers
  <2>2. CASE call[t].op # "append"
    BY <1>2, <1>5, <2>2 DEF NothingSealed
  <2> QED BY <2>1, <2>2
<1>6. ASSUME SealSent(t, Serial(CutFile)), Seal PROVE Resolves(t)
  <2>1. CASE call[t].op = "append"
    BY <1>6, <2>1 DEF SealSent, Resolves, Answers
  <2>2. CASE call[t].op # "append"
    <3>1. buffered' = {} /\ lastSealed' = Serial(CutFile)
      BY <1>6 DEF Seal
    <3>2. /\ call' = [call EXCEPT ![t].pc = "durable", ![t].target = Serial(CutFile)]
          /\ UNCHANGED <<handle, acked>> /\ Silent
      BY <1>6, <2>2 DEF SealSent
    <3> HIDE DEF Silent
    <3> QED BY <1>3, <2>2, <3>1, <3>2
  <2> QED BY <2>1, <2>2
<1>7. FatalState # "ok" /\ \A f : terminal_error(f) # "ok"
  BY DEF FatalState, fatal_state, StallError, terminal_error
<1>8. CASE TakeLock(t) \/ GetLock(t) \/ QueueFull(t)
  BY <1>2, <1>8 DEF TakeLock, GetLock, QueueFull, offsets
<1>9. CASE GiveUp(t) \/ PipelineClosed(t)
  BY <1>4, <1>7, <1>9 DEF GiveUp, PipelineClosed
<1>10. CASE NothingToSeal(t)
  BY <1>5, <1>10 DEF NothingToSeal, buffer
<1>11. CASE SealAndSend(t)
  BY <1>4, <1>5, <1>6, <1>7, <1>11 DEF SealAndSend, buffer
<1>12. CASE ReadTarget(t)
  <2>0. call[t].op # "append"
    BY <1>12 DEF ReadTarget, RetryInv
  <2>1. CASE lastSealed = NoOffset
    BY <1>12, <2>0, <2>1 DEF ReadTarget, Resolves, Answers
  <2>2. CASE lastSealed # NoOffset
    BY <1>3, <1>12, <2>0, <2>2 DEF ReadTarget, buffer
  <2> QED BY <2>1, <2>2
<1>13. CASE AwaitDurable(t)
  <2>0. call[t].op # "append"
    BY <1>13 DEF AwaitDurable, RetryInv
  <2>1. StallErrorAt(failing, call[t].target) # "ok"
    BY DEF StallErrorAt, StallError, terminal_error
  <2> QED BY <1>13, <2>0, <2>1 DEF AwaitDurable, Resolves, Answers
<1>14. CASE Cancel(t)
  BY <1>14 DEF Cancel, Resolves, Answers
<1> QED BY <1>8, <1>9, <1>10, <1>11, <1>12, <1>13, <1>14

(***************************************************************************)
(* Every step, as the calls see it.                                        *)
(***************************************************************************)
CallShape ==
  \/ UNCHANGED <<call, handle, acked>> /\ Silent
  \/ \E t \in Tasks : Resolves(t) \/ Unbuffer(t) \/ StartCall(t)
  \/ Drop \/ Free

LEMMA CallShapes == ASSUME TypeInv, RetryInv, Next PROVE CallShape \/ UNCHANGED vars
<1>1. ASSUME NEW t \in Tasks, CallerStep(t) \/ StartCall(t) \/ Cancel(t) PROVE CallShape
  BY <1>1, CallSteps DEF CallerStep, CallShape
<1>2. ASSUME NEW s \in Stages, StageStep(s) PROVE CallShape
  BY <1>2
     DEF StageStep, StageRecv, StageDrained, StageStop, StageTry, AttemptOk, AttemptFails,
         StageSend, SendRefused, callers, offsets, CallShape
<1>3. CASE RenderRejects \/ RenderGivesUp \/ PutCheck \/ record_durable \/ land
  BY <1>3
     DEF RenderRejects, RenderGivesUp, PutCheck, record_durable, land, callers, offsets, CallShape
<1>4. CASE RenderStep \/ GzipStep \/ PutStep
  BY <1>2, <1>3, <1>4 DEF RenderStep, GzipStep, PutStep, Stages
<1>5. CASE TickerStep
  BY <1>5 DEF TickerStep, TickerStop, TickerLock, TickerSeal, offsets, CallShape
<1>6. CASE Environment
  BY <1>6 DEF Environment, Age, fence, SerialFatal, callers, offsets, CallShape
<1> QED BY <1>1, <1>4, <1>5, <1>6 DEF Next, Terminated

(***************************************************************************)
(* Every step, as the files see it: none moves out of line, the buffer is  *)
(* cut, the epoch rolls, or the put stage records or lands its file.       *)
(***************************************************************************)
Passes ==
  /\ Flight' = Flight /\ Files' = Files
  /\ UNCHANGED <<epoch, nextSeq, lastSealed, durable, stagedOffset>>
  /\ stored' \subseteq stored \cup {Flight[i] : i \in 1..Len(Flight)}
  /\ at'["put"] = "land" => at["put"] = "land" /\ hand'["put"] = hand["put"]

Cuts ==
  /\ buffered # {} /\ CanEncode /\ Seal
  /\ UNCHANGED <<hand, at, durable, stagedOffset, stored>>

Rolls ==
  /\ SealRefused
  /\ UNCHANGED <<hand, at, durable, stagedOffset, stored>>

FileShape == Passes \/ Cuts \/ Rolls \/ record_durable \/ land

LEMMA PassShape ==
  ASSUME TypeInv, UNCHANGED <<hand, inbox, epoch, nextSeq, lastSealed, durable, stagedOffset>>,
         stored' = stored \/ (at["put"] = "work" /\ stored' = stored \cup {InHand("put")}),
         at'["put"] = "land" => at["put"] = "land"
  PROVE  FileShape
<1>1. Flight' = Flight
  BY SameFlight
<1>2. CASE stored' = stored
  BY <1>1, <1>2, SameFiles DEF FileShape, Passes
<1>3. CASE at["put"] = "work" /\ stored' = stored \cup {InHand("put")}
  <2>1. /\ Flight \in Seq(File) /\ Flight # <<>> /\ Flight[1] = InHand("put")
    BY <1>3, PutHoldsFront, FlightTypes
  <2>2. 1 \in 1..Len(Flight)
    BY <2>1, EmptySeq, LenProperties
  <2>3. Files' = Files
    BY <1>1, <1>3, PutFiles
  <2> QED BY <1>1, <1>3, <2>1, <2>2, <2>3 DEF FileShape, Passes
<1> QED BY <1>2, <1>3

LEMMA FileShapes == ASSUME TypeInv, [Next]_vars PROVE FileShape
<1>0. DOMAIN at = Stages /\ "put" \in Stages
  BY DEF TypeInv, TypeOK, PipelineTypeOK, Stages
<1>1. ASSUME UNCHANGED <<hand, inbox, at, epoch, nextSeq, lastSealed, durable, stagedOffset, stored>>
      PROVE  FileShape
  BY <1>1, PassShape
<1>2. ASSUME NEW t \in Tasks, CallerStep(t) \/ StartCall(t) \/ Cancel(t) PROVE FileShape
  <2>1. CASE SealAndSend(t)
    <3>1. UNCHANGED <<hand, at, durable, stagedOffset, stored>>
      BY <2>1 DEF SealAndSend, progress, outside
    <3>2. CASE FatalState # "none" \/ buffered = {}
      <4>1. UNCHANGED <<buffer, inbox>>
        BY <2>1, <3>2 DEF SealAndSend
      <4> QED BY <1>1, <3>1, <4>1 DEF buffer
    <3>3. CASE FatalState = "none" /\ buffered # {}
      <4>1. (CanEncode /\ Seal) \/ SealRefused
        BY <2>1, <3>3 DEF SealAndSend
      <4> QED BY <3>1, <3>3, <4>1 DEF FileShape, Cuts, Rolls
    <3> QED BY <3>2, <3>3
  <2>2. CASE ~SealAndSend(t)
    <3>1. UNCHANGED <<hand, inbox, at, epoch, nextSeq, lastSealed, durable, stagedOffset, stored>>
      BY <1>2, <2>2
         DEF CallerStep, StartCall, Unbuffer, TakeLock, GetLock, GiveUp, NothingToSeal, QueueFull,
             PipelineClosed, ReadTarget, AwaitDurable, Cancel, AppendRefused, AppendBatch, Flush,
             buffer, pipeline, offsets, progress, outside
    <3> QED BY <1>1, <3>1
  <2> QED BY <2>1, <2>2
<1>3. ASSUME NEW s \in Stages, StageStep(s) PROVE FileShape
  <2>1. CASE StageRecv(s) \/ StageSend(s)
    <3>1. Flight' = Flight
      BY <1>0, <2>1, RecvKeepsFlight, SendKeepsFlight
    <3>2. UNCHANGED <<epoch, nextSeq, lastSealed, durable, stagedOffset, stored>>
      BY <2>1 DEF StageRecv, StageSend, buffer, offsets, progress, outside
    <3>3. at'["put"] = "land" => at["put"] = "land" /\ hand'["put"] = hand["put"]
      BY <1>0, <2>1 DEF StageRecv, StageSend, NextStage, TypeInv, TypeOK, PipelineTypeOK
    <3> QED BY <3>1, <3>2, <3>3, SameFiles DEF FileShape, Passes
  <2>2. CASE \/ StageDrained(s) \/ StageStop(s) \/ StageTry(s) \/ SendRefused(s)
             \/ AttemptOk(s) \/ \E landed \in BOOLEAN : AttemptFails(s, landed)
    <3>1. UNCHANGED <<hand, inbox, epoch, nextSeq, lastSealed, durable, stagedOffset>>
      BY <2>2
         DEF StageDrained, StageStop, StageTry, SendRefused, AttemptOk, AttemptFails, buffer,
             offsets, progress
    <3>2. at'["put"] = "land" => at["put"] = "land"
      BY <1>0, <2>2
         DEF StageDrained, StageStop, StageTry, SendRefused, AttemptOk, AttemptFails, NextStage
    <3>3. stored' = stored \/ (at["put"] = "work" /\ stored' = stored \cup {InHand("put")})
      BY <2>2
         DEF StageDrained, StageStop, StageTry, SendRefused, AttemptOk, AttemptFails, outside
    <3> QED BY <3>1, <3>2, <3>3, PassShape
  <2> QED BY <1>3, <2>1, <2>2 DEF StageStep
<1>4. CASE RenderRejects \/ RenderGivesUp \/ PutCheck
  <2>1. UNCHANGED <<hand, inbox, epoch, nextSeq, lastSealed, durable, stagedOffset, stored>>
    BY <1>4 DEF RenderRejects, RenderGivesUp, PutCheck, buffer, offsets, outside
  <2>2. at'["put"] = "land" => at["put"] = "land"
    BY <1>0, <1>4 DEF RenderRejects, RenderGivesUp, PutCheck
  <2> QED BY <2>1, <2>2, PassShape
<1>5. CASE RenderStep \/ GzipStep \/ PutStep
  BY <1>3, <1>4, <1>5 DEF RenderStep, GzipStep, PutStep, Stages, FileShape
<1>6. CASE TickerStep
  <2>1. CASE TickerSeal
    <3>1. UNCHANGED <<hand, at, durable, stagedOffset, stored>>
      BY <2>1 DEF TickerSeal, offsets, progress, outside
    <3>2. (buffered # {} /\ CanEncode /\ Seal) \/ SealRefused \/ UNCHANGED <<buffer, inbox>>
      BY <2>1 DEF TickerSeal
    <3> QED BY <1>1, <3>1, <3>2 DEF FileShape, Cuts, Rolls, buffer
  <2>2. CASE TickerStop \/ TickerLock
    BY <1>1, <2>2 DEF TickerStop, TickerLock, buffer, pipeline, offsets, progress, outside
  <2> QED BY <1>6, <2>1, <2>2 DEF TickerStep
<1>7. CASE Environment \/ Terminated \/ UNCHANGED vars
  <2>1. UNCHANGED <<hand, inbox, at, epoch, nextSeq, lastSealed, durable, stagedOffset, stored>>
    BY <1>7
       DEF Environment, Age, fence, SerialFatal, Drop, Free, Terminated, vars, buffer, pipeline,
           offsets, progress, outside
  <2> QED BY <1>1, <2>1
<1> QED BY <1>2, <1>5, <1>6, <1>7 DEF Next

-----------------------------------------------------------------------------
(***************************************************************************)
(* The numbers.  The next file's number is the one the writer stands at,   *)
(* rolled or not: the epoch roll skips none.                               *)
(***************************************************************************)
LEMMA CutNumber ==
  ASSUME TypeInv
  PROVE  /\ Encode(epoch, nextSeq) \in Int
         /\ Serial(CutFile) = Encode(epoch, nextSeq)
         /\ Encode(CutFile.epoch, CutFile.seq + 1) = Serial(CutFile) + 1
         /\ Encode(Rolled(epoch, nextSeq)[1], Rolled(epoch, nextSeq)[2]) = Encode(epoch, nextSeq)
<1> DEFINE w == MaxSeq + 1
<1>1. epoch \in Nat /\ nextSeq \in Nat /\ w \in Nat /\ nextSeq <= w /\ MaxSeq \in Nat
  BY ConstantFacts DEF TypeInv, TypeOK, WriterTypeOK
<1>2. CutFile.epoch = Rolled(epoch, nextSeq)[1] /\ CutFile.seq = Rolled(epoch, nextSeq)[2]
  BY DEF CutFile
<1>3. CASE nextSeq > MaxSeq
  <2>1. nextSeq = w /\ Rolled(epoch, nextSeq) = <<epoch + 1, 0>>
    BY <1>1, <1>3 DEF Rolled
  <2>2. (epoch + 1) * w + 0 = epoch * w + w /\ epoch * w \in Int
    BY <1>1
  <2>3. Encode(epoch + 1, 0) = Encode(epoch, nextSeq) /\ Encode(epoch, nextSeq) \in Int
    BY <2>1, <2>2 DEF Encode
  <2>4. Encode(epoch + 1, 0 + 1) = Encode(epoch + 1, 0) + 1
    BY <1>1 DEF Encode
  <2> QED BY <1>2, <2>1, <2>3, <2>4 DEF Serial
<1>4. CASE ~(nextSeq > MaxSeq)
  <2>1. Rolled(epoch, nextSeq) = <<epoch, nextSeq>>
    BY <1>4 DEF Rolled
  <2>2. epoch * w \in Int /\ epoch * w + nextSeq \in Int
    BY <1>1
  <2>3. Encode(epoch, nextSeq) \in Int /\ Encode(epoch, nextSeq + 1) = Encode(epoch, nextSeq) + 1
    BY <1>1, <2>2 DEF Encode
  <2> QED BY <1>2, <2>1, <2>3 DEF Serial
<1> QED BY <1>3, <1>4

LEMMA FlightSerials ==
  ASSUME TypeInv
  PROVE  /\ \A i \in 1..Len(Flight) : Flight[i] \in Files /\ Serial(Flight[i]) \in Int
         /\ \A f \in Files : f \in File /\ Serial(f) \in Int /\ f.end \in Int /\ f.rows \subseteq Batches
         /\ lastSealed \in Int /\ durable \in Int /\ stagedOffset \in Int
<1>1. \A i \in 1..Len(Flight) : Flight[i] \in File
  BY FlightTypes, ElementOfSeq, LenProperties
<1>2. \A f \in Files : f \in File
  BY <1>1 DEF Files, TypeInv, TypeOK, StatusTypeOK
<1>3. \A f \in File : f.end \in Int /\ f.rows \subseteq Batches
  BY ConstantFacts DEF File, Offset
<1> QED BY <1>1, <1>2, <1>3, SerialType, ConstantFacts
       DEF Files, TypeInv, TypeOK, WriterTypeOK, StatusTypeOK, Offset, NoOffset

LEMMA CutsKeepNumbers ==
  ASSUME TypeInv, TypeInv', NumberInv, CoverInv, Cuts PROVE NumberInv' /\ CoverInv'
<1> DEFINE n == Len(Flight)
           x == Encode(epoch, nextSeq)
<1>0. CutFile \in File
  BY CutFileType DEF Cuts, TypeInv, TypeOK
<1>1. /\ n \in Nat /\ Len(Flight') = n + 1 /\ Flight'[n + 1] = CutFile
      /\ \A i \in 1..n : Flight'[i] = Flight[i] /\ Flight[i] \in File
      /\ Files' = Files \cup {CutFile}
  BY <1>0, CutShape DEF Cuts
<1>2. x \in Int /\ Serial(CutFile) = x /\ Encode(CutFile.epoch, CutFile.seq + 1) = x + 1
  BY CutNumber
<1>3. lastSealed' = x /\ Encode(epoch', nextSeq') = x + 1 /\ UNCHANGED <<durable, stagedOffset, stored, at, hand>>
  BY <1>2 DEF Cuts, Seal
<1> HIDE DEF x
<1>4. lastSealed < x /\ durable <= lastSealed /\ lastSealed \in Int /\ durable \in Int
  BY FlightSerials DEF NumberInv, x
<1>5. \A f \in Files : Serial(f) \in Int /\ Serial(f) <= lastSealed
  BY FlightSerials DEF NumberInv
<1>6. \A i \in 1..n : Flight[i] \in Files
  BY FlightSerials
<1>7. \A i \in 1..n + 1 : i \in 1..n \/ i = n + 1
  BY <1>1
<1>8. NumberInv'
  <2>1. \A f \in Files' : Serial(f) <= lastSealed'
    BY <1>1, <1>2, <1>3, <1>4, <1>5
  <2>2. \A i \in 1..Len(Flight') : durable < Serial(Flight'[i])
    BY <1>1, <1>2, <1>4, <1>7 DEF NumberInv
  <2>3. ASSUME NEW i \in 1..n + 1, NEW j \in 1..n + 1, i < j
        PROVE  Serial(Flight'[i]) < Serial(Flight'[j])
    <3>1. i \in 1..n
      BY <1>1, <2>3
    <3>2. CASE j \in 1..n
      BY <1>1, <2>3, <3>1, <3>2 DEF NumberInv
    <3>3. CASE j = n + 1
      BY <1>1, <1>2, <1>4, <1>5, <1>6, <3>1, <3>3
    <3> QED BY <1>7, <3>2, <3>3
  <2> QED BY <1>1, <1>2, <1>3, <1>4, <2>1, <2>2, <2>3 DEF NumberInv
<1>9. CoverInv'
  <2>1. \A b \in CutFile.rows : b.end <= CutFile.end
    BY CutFileRows DEF Cuts
  <2>2. \A i \in 1..n : i \in 1..Len(Flight') /\ Flight'[i] = Flight[i]
    BY <1>1
  <2> QED BY <1>1, <1>3, <2>1, <2>2 DEF CoverInv, InHand
<1> QED BY <1>8, <1>9

LEMMA LandKeepsNumbers ==
  ASSUME TypeInv, TypeInv', LandedInv, NumberInv, CoverInv, land PROVE NumberInv' /\ CoverInv'
<1> DEFINE n == Len(Flight')
<1>1. /\ n \in Nat /\ Len(Flight) = n + 1 /\ Flight[1] = InHand("put")
      /\ \A i \in 1..n : Flight[i + 1] = Flight'[i] /\ i + 1 \in 1..Len(Flight) /\ i + 1 # 1
      /\ Files' = Files
  BY LandShape
<1>2. /\ durable' = Serial(InHand("put")) /\ at["put"] = "land" /\ at'["put"] = "recv"
      /\ UNCHANGED <<epoch, nextSeq, lastSealed, stagedOffset, stored>>
  BY DEF land, buffer, offsets, outside, TypeInv, TypeOK, PipelineTypeOK, Stages
<1>3. 1 \in 1..Len(Flight) /\ Flight[1] \in Files
  BY <1>1, FlightSerials
<1>4. NumberInv'
  <2>1. durable' <= lastSealed'
    BY <1>1, <1>2, <1>3 DEF NumberInv
  <2>2. ASSUME NEW i \in 1..n PROVE durable' < Serial(Flight'[i])
    <3>1. i + 1 \in 1..Len(Flight) /\ 1 < i + 1 /\ Flight[i + 1] = Flight'[i]
      BY <1>1
    <3> QED BY <1>1, <1>2, <1>3, <3>1 DEF NumberInv
  <2>3. ASSUME NEW i \in 1..n, NEW j \in 1..n, i < j
        PROVE  Serial(Flight'[i]) < Serial(Flight'[j])
    <3>1. i + 1 \in 1..Len(Flight) /\ j + 1 \in 1..Len(Flight) /\ i + 1 < j + 1
      BY <1>1, <2>3
    <3>2. Flight[i + 1] = Flight'[i] /\ Flight[j + 1] = Flight'[j]
      BY <1>1
    <3> QED BY <3>1, <3>2 DEF NumberInv
  <2> QED BY <1>1, <1>2, <2>1, <2>2, <2>3 DEF NumberInv
<1>5. CoverInv'
  <2>1. ASSUME NEW f \in stored
        PROVE  f.end <= stagedOffset \/ \E i \in 1..n : f = Flight'[i]
    <3>1. CASE \E i \in 1..Len(Flight) : f = Flight[i]
      <4>1. PICK i \in 1..Len(Flight) : f = Flight[i]
        BY <3>1
      <4>2. CASE i = 1
        BY <1>1, <1>2, <4>1, <4>2 DEF CoverInv
      <4>3. CASE i # 1
        <5>1. i - 1 \in 1..n /\ (i - 1) + 1 = i
          BY <1>1, <4>3
        <5> QED BY <1>1, <4>1, <5>1
      <4> QED BY <4>2, <4>3
    <3> QED BY <3>1 DEF CoverInv
  <2> QED BY <1>1, <1>2, <2>1 DEF CoverInv
<1> QED BY <1>4, <1>5

LEMMA RecordKeepsNumbers ==
  ASSUME TypeInv, TypeInv', NumberInv, CoverInv, record_durable PROVE NumberInv' /\ CoverInv'
<1>1. /\ InHand("put") \in File /\ hand' = hand /\ inbox' = inbox
      /\ UNCHANGED <<epoch, nextSeq, lastSealed, durable, stored>>
      /\ stagedOffset' = Max({stagedOffset, InHand("put").end})
  BY PutHoldsFront DEF record_durable, buffer, progress
<1>2. Flight' = Flight /\ Files' = Files /\ InHand("put")' = InHand("put")
  BY <1>1, SameFlight, SameFiles DEF InHand
<1>3. stagedOffset <= stagedOffset' /\ InHand("put").end <= stagedOffset'
  <2>1. InHand("put").end \in Int /\ stagedOffset \in Int
    BY <1>1, FlightSerials, ConstantFacts DEF File, Offset
  <2>2. \E m \in {stagedOffset, InHand("put").end} :
          \A y \in {stagedOffset, InHand("put").end} : m >= y
    BY <2>1
  <2> QED BY <1>1, <2>2 DEF Max
<1>4. \A f \in stored : f \in Files
  BY DEF Files
<1>5. \A f \in stored : f.end <= stagedOffset => f.end <= stagedOffset'
  <2>1. stagedOffset' \in Int
    BY ConstantFacts DEF TypeInv, TypeOK, WriterTypeOK, Offset, NoOffset
  <2>2. \A f \in stored : f.end \in Int /\ stagedOffset \in Int
    BY <1>4, FlightSerials
  <2> QED BY <1>3, <2>1, <2>2
<1>6. NumberInv'
  BY <1>1, <1>2 DEF NumberInv
<1> QED BY <1>1, <1>2, <1>3, <1>5, <1>6 DEF CoverInv

LEMMA NumbersStep ==
  ASSUME TypeInv, TypeInv', LandedInv, NumberInv, CoverInv, [Next]_vars
  PROVE  NumberInv' /\ CoverInv'
<1>1. CASE Passes
  <2>1. NumberInv'
    BY <1>1 DEF Passes, NumberInv
  <2>2. CoverInv'
    BY <1>1 DEF Passes, CoverInv, InHand
  <2> QED BY <2>1, <2>2
<1>2. CASE Rolls
  <2>1. /\ Flight' = Flight /\ Files' = Files
        /\ UNCHANGED <<lastSealed, durable, stagedOffset, stored, at, hand>>
    BY <1>2, SameFlight, SameFiles DEF Rolls, SealRefused
  <2>2. Encode(epoch', nextSeq') = Encode(epoch, nextSeq)
    BY <1>2, CutNumber DEF Rolls, SealRefused
  <2> QED BY <2>1, <2>2 DEF NumberInv, CoverInv, InHand
<1> QED BY <1>1, <1>2, FileShapes, CutsKeepNumbers, LandKeepsNumbers, RecordKeepsNumbers DEF FileShape

-----------------------------------------------------------------------------
(***************************************************************************)
(* What a flush owes stays accounted for, whatever the others do.          *)
(***************************************************************************)
Forward ==
  /\ acked \subseteq acked' /\ stagedOffset <= stagedOffset'
  /\ \A b \in buffered' : b \in buffered \/ maxEnd < b.end
  /\ \A i \in 1..Len(Flight') :
       (\E k \in 1..Len(Flight) : Flight'[i] = Flight[k]) \/ Flight'[i].rows \subseteq buffered

\* A batch that append takes in is above the high-water mark.
LEMMA AppendAscends ==
  ASSUME TypeInv, NEW t, NEW b \in Batches, NEW rotate, AppendBatch(t, b, rotate)
  PROVE  maxEnd < b.start /\ maxEnd < b.end /\ buffered' = buffered \cup {b}
<1>1. maxEnd \in Int /\ b.start \in Int /\ b.end \in Int
  BY ConstantFacts DEF TypeInv, TypeOK, WriterTypeOK, Offset, NoOffset
<1>2. ~(b.start <= maxEnd)
  BY DEF AppendBatch, AppendError
<1>3. b.start <= b.end
  BY OffsetAssumption DEF OffsetAssumption
<1> QED BY <1>1, <1>2, <1>3 DEF AppendBatch

LEMMA BufferShape ==
  ASSUME TypeInv, [Next]_vars
  PROVE  \A b \in buffered' : b \in buffered \/ maxEnd < b.end
<1> DEFINE Goal == \A b \in buffered' : b \in buffered \/ maxEnd < b.end
<1>1. ASSUME buffered' \subseteq buffered PROVE Goal
  BY <1>1
<1>2. ASSUME NEW t \in Tasks, CallerStep(t) \/ StartCall(t) \/ Cancel(t) PROVE Goal
  <2>1. CASE \E b \in Batches, rotate \in BOOLEAN : AppendBatch(t, b, rotate)
    BY <2>1, AppendAscends
  <2>2. CASE ~(\E b \in Batches, rotate \in BOOLEAN : AppendBatch(t, b, rotate))
    <3>1. buffered' \subseteq buffered
      BY <1>2, <2>2
         DEF CallerStep, StartCall, Unbuffer, TakeLock, GetLock, GiveUp, NothingToSeal, QueueFull,
             PipelineClosed, SealAndSend, Seal, SealRefused, ReadTarget, AwaitDurable, Cancel,
             AppendRefused, Flush, buffer
    <3> QED BY <1>1, <3>1
  <2> QED BY <2>1, <2>2
<1>3. ASSUME NEW s \in Stages, StageStep(s) PROVE Goal
  <2>1. buffered' = buffered
    BY <1>3
       DEF StageStep, StageRecv, StageDrained, StageStop, StageTry, AttemptOk, AttemptFails,
           StageSend, SendRefused, buffer
  <2> QED BY <1>1, <2>1
<1>4. CASE RenderRejects \/ RenderGivesUp \/ PutCheck \/ record_durable \/ land
  <2>1. buffered' = buffered
    BY <1>4 DEF RenderRejects, RenderGivesUp, PutCheck, record_durable, land, buffer
  <2> QED BY <1>1, <2>1
<1>5. CASE TickerStep \/ Environment \/ Terminated \/ UNCHANGED vars
  <2>1. buffered' \subseteq buffered
    BY <1>5
       DEF TickerStep, TickerStop, TickerLock, TickerSeal, Seal, SealRefused, Environment, Age,
           fence, SerialFatal, Drop, Free, Terminated, vars, buffer
  <2> QED BY <1>1, <2>1
<1> QED BY <1>2, <1>3, <1>4, <1>5 DEF Next, RenderStep, GzipStep, PutStep, Stages

LEMMA ForwardStep == ASSUME TypeInv, GateInv, RetryInv, [Next]_vars PROVE Forward
<1>1. acked \subseteq acked'
  <2>1. CASE UNCHANGED vars
    BY <2>1 DEF vars, offsets
  <2>2. ASSUME NEW t \in Tasks, Resolves(t) \/ Unbuffer(t) \/ StartCall(t) PROVE acked \subseteq acked'
    <3>1. CASE StartCall(t)
      BY <3>1 DEF StartCall, AppendRefused, AppendBatch, Flush, offsets
    <3>2. CASE Resolves(t) \/ Unbuffer(t)
      BY <3>2 DEF Resolves, Proceeds, Answers, Unbuffer, Return
    <3> QED BY <2>2, <3>1, <3>2
  <2>3. CASE Drop \/ Free
    BY <2>3 DEF Drop, Free, offsets
  <2> QED BY <2>1, <2>2, <2>3, CallShapes DEF CallShape
<1>2. stagedOffset <= stagedOffset'
  <2>0. stagedOffset \in Int
    BY FlightSerials
  <2>1. CASE stagedOffset' = stagedOffset
    BY <2>0, <2>1
  <2>2. CASE record_durable
    <3>1. InHand("put").end \in Int /\ stagedOffset' = Max({stagedOffset, InHand("put").end})
      BY <2>2, PutHoldsFront, ConstantFacts DEF record_durable, File, Offset
    <3>2. \E m \in {stagedOffset, InHand("put").end} :
            \A y \in {stagedOffset, InHand("put").end} : m >= y
      BY <2>0, <3>1
    <3> QED BY <2>0, <3>1, <3>2 DEF Max
  <2> QED BY <2>1, <2>2, FileShapes DEF FileShape, Passes, Cuts, Rolls, land, offsets
<1>3. ASSUME NEW i \in 1..Len(Flight')
      PROVE  (\E k \in 1..Len(Flight) : Flight'[i] = Flight[k]) \/ Flight'[i].rows \subseteq buffered
  <2>1. CASE Flight' = Flight
    BY <1>3, <2>1
  <2>2. CASE Cuts
    <3>1. CutFile \in File
      BY <2>2, CutFileType DEF Cuts, TypeInv, TypeOK
    <3>2. /\ Len(Flight) \in Nat /\ Len(Flight') = Len(Flight) + 1
          /\ Flight'[Len(Flight) + 1] = CutFile
          /\ \A k \in 1..Len(Flight) : Flight'[k] = Flight[k]
      BY <2>2, <3>1, CutShape DEF Cuts
    <3>3. CutFile.rows = buffered
      BY DEF CutFile
    <3>4. i \in 1..Len(Flight) \/ i = Len(Flight) + 1
      BY <1>3, <3>2
    <3> QED BY <3>2, <3>3, <3>4
  <2>3. CASE land
    BY <1>3, <2>3, LandShape DEF GateInv
  <2>4. CASE Rolls \/ record_durable
    BY <2>1, <2>4, SameFlight DEF Rolls, SealRefused, record_durable
  <2> QED BY <2>1, <2>2, <2>3, <2>4, FileShapes DEF FileShape, Passes
<1> QED BY <1>1, <1>2, <1>3, BufferShape DEF Forward

LEMMA OwesStays ==
  ASSUME TypeInv, TypeInv', GateInv, Forward, NEW c \in Calls, Owes(c) PROVE Owes(c)'
<1>1. c.owed \in Int /\ maxEnd \in Int /\ NoOffset <= maxEnd
  BY ConstantFacts DEF Calls, Offset, NoOffset, TypeInv, TypeOK, WriterTypeOK
<1>2. \A b \in Batches : b.end \in Int
  BY ConstantFacts DEF Offset
<1>3. c.owed <= maxEnd
  <2>1. c.owed # NoOffset => \E b \in acked : b.end = c.owed /\ b.end <= maxEnd
    BY DEF Owes, GateInv, AccountInv
  <2> QED BY <1>1, <2>1
<1>4. ASSUME c.pc \in {"target", "durable"} PROVE \A b \in buffered' : c.owed < b.end
  <2> TAKE b \in buffered'
  <2>1. CASE b \in buffered
    BY <1>4, <2>1 DEF Owes
  <2>2. CASE b \notin buffered
    <3>1. maxEnd < b.end /\ b.end \in Int
      BY <1>2, <1>4, <2>2 DEF Forward, TypeInv, TypeOK, WriterTypeOK
    <3> QED BY <1>1, <1>3, <3>1
  <2> QED BY <2>1, <2>2
<1>5. ASSUME c.pc = "durable", NEW i \in 1..Len(Flight'), \E b \in Flight'[i].rows : b.end <= c.owed
      PROVE  Serial(Flight'[i]) <= c.target
  <2>0. PICK b \in Flight'[i].rows : b.end <= c.owed
    BY <1>5
  <2>1. CASE \E k \in 1..Len(Flight) : Flight'[i] = Flight[k]
    BY <1>5, <2>1 DEF Owes
  <2>2. CASE Flight'[i].rows \subseteq buffered
    <3>1. b \in buffered /\ c.owed < b.end /\ b.end \in Int
      BY <1>2, <1>5, <2>0, <2>2 DEF Owes, TypeInv, TypeOK, WriterTypeOK
    <3> QED BY <1>1, <2>0, <3>1
  <2> QED BY <1>5, <2>1, <2>2 DEF Forward
<1>6. c.owed # NoOffset => \E b \in acked' : b.end = c.owed
  BY DEF Owes, Forward
<1> QED BY <1>4, <1>5, <1>6 DEF Owes

(***************************************************************************)
(* The calls.  A step leaves the other calls alone; its own call goes on,  *)
(* returns, or has just begun.                                             *)
(***************************************************************************)
LEMMA OwedMax ==
  ASSUME TypeInv PROVE Owed # NoOffset => \E b \in acked : b.end = Owed
<1>1. CASE acked = {}
  BY <1>1 DEF Owed
<1>2. CASE acked # {}
  <2> DEFINE S == {b.end : b \in acked}
  <2>1. S \subseteq Offset /\ S # {}
    BY <1>2, ConstantFacts DEF TypeInv, TypeOK, WriterTypeOK
  <2>2. Max(S) \in S
    <3> HIDE DEF S
    <3> QED BY <2>1, MaxOfOffsets
  <2> QED BY <1>2, <2>2 DEF Owed
<1> QED BY <1>1, <1>2

LEMMA OwedStep ==
  ASSUME TypeInv, TypeInv', GateInv, Forward, OwedInv, NumberInv', CallShape
  PROVE  OwedInv'
<1>1. call \in [Tasks -> Calls] /\ DOMAIN call = Tasks
  BY DEF TypeInv, TypeOK, CallerTypeOK
<1>2. ASSUME NEW u \in Tasks, call'[u] = call[u] PROVE Owes(call[u])'
  <2>1. PICK c \in Calls : c = call[u]
    BY <1>1
  <2>2. Owes(c)
    BY <2>1 DEF OwedInv
  <2>3. Owes(c)'
    BY <2>2, OwesStays
  <2> QED BY <1>2, <2>1, <2>3 DEF Owes
<1>3. ASSUME NEW u \in Tasks, call'[u].pc \in {"idle", "lock"},
             call'[u].owed # NoOffset => \E b \in acked' : b.end = call'[u].owed
      PROVE  Owes(call[u])'
  BY <1>3 DEF Owes
<1>4. Idle.pc = "idle" /\ Idle.owed = NoOffset
  BY DEF Idle
<1>5. ASSUME NEW t \in Tasks, NEW u \in Tasks, Resolves(t) \/ Unbuffer(t) \/ StartCall(t)
      PROVE  Owes(call[u])'
  <2>1. CASE call' = call
    BY <1>2, <2>1
  <2>2. ASSUME NEW c, call' = [call EXCEPT ![t] = c], u = t => Owes(call[t])'
        PROVE  Owes(call[u])'
    <3>1. u # t => call'[u] = call[u]
      BY <1>1, <2>2
    <3> QED BY <1>2, <2>2, <3>1
  <2>3. ASSUME NEW res, Return(t, res) PROVE Owes(call[u])'
    <3>1. call' = [call EXCEPT ![t] = Idle]
      BY <2>3 DEF Return
    <3>2. call'[t] = Idle
      BY <1>1, <3>1
    <3>3. Owes(call[t])'
      BY <1>3, <1>4, <3>2
    <3> QED BY <2>2, <3>1, <3>3
  <2>4. CASE Proceeds(t)
    <3>1. PICK c :
            /\ call' = [call EXCEPT ![t] = c]
            /\ c.owed = call[t].owed
            /\ c.pc = "target" => buffered' = {}
            /\ c.pc = "durable" =>
                 /\ c.target = lastSealed'
                 /\ buffered' = {} \/ (call[t].pc = "target" /\ buffered' = buffered)
      BY <2>4 DEF Proceeds
    <3>2. call'[t] = c
      BY <1>1, <3>1
    <3>3. c.owed # NoOffset => \E b \in acked' : b.end = c.owed
      BY <3>1 DEF OwedInv, Owes, Forward
    <3>4. c.pc \in {"target", "durable"} => \A b \in buffered' : c.owed < b.end
      BY <3>1 DEF OwedInv, Owes
    <3>5. c.pc = "durable" => \A i \in 1..Len(Flight') : Serial(Flight'[i]) <= c.target
      BY <3>1 DEF NumberInv, Files
    <3>6. Owes(call[t])'
      BY <3>2, <3>3, <3>4, <3>5 DEF Owes
    <3> QED BY <2>2, <3>1, <3>6
  <2>5. CASE StartCall(t)
    <3>1. CASE \E b \in Batches, rotate \in BOOLEAN : AppendBatch(t, b, rotate)
      <4>1. PICK b \in Batches, rotate \in BOOLEAN : AppendBatch(t, b, rotate)
        BY <3>1
      <4>2. CASE ~rotate
        BY <2>1, <4>1, <4>2 DEF AppendBatch
      <4>3. CASE rotate
        <5> DEFINE c == [Idle EXCEPT !.pc = "lock", !.op = "append", !.batch = b, !.before = maxEnd]
        <5>1. call' = [call EXCEPT ![t] = c]
          BY <4>1, <4>3 DEF AppendBatch
        <5>2. c.pc = "lock" /\ c.owed = NoOffset
          BY DEF Idle
        <5> HIDE DEF c
        <5>3. Owes(call[t])'
          BY <1>1, <1>3, <5>1, <5>2
        <5> QED BY <2>2, <5>1, <5>3
      <4> QED BY <4>2, <4>3
    <3>2. ASSUME NEW op \in {"flush", "close"}, Flush(t, op) PROVE Owes(call[u])'
      <4>1. CASE FatalState # "none"
        BY <2>1, <3>2, <4>1 DEF Flush
      <4>2. CASE FatalState = "none"
        <5> DEFINE c == [Idle EXCEPT !.pc = "lock", !.op = op, !.owed = Owed]
        <5>1. call' = [call EXCEPT ![t] = c] /\ acked' = acked
          BY <3>2, <4>2 DEF Flush, offsets
        <5>2. c.pc = "lock" /\ c.owed = Owed
          BY DEF Idle
        <5> HIDE DEF c
        <5>3. Owes(call[t])'
          BY <1>1, <1>3, <5>1, <5>2, OwedMax
        <5> QED BY <2>2, <5>1, <5>3
      <4> QED BY <4>1, <4>2
    <3>3. CASE \E r \in OffsetRange, schemaOk \in BOOLEAN : AppendRefused(t, r, schemaOk)
      BY <2>1, <3>3 DEF AppendRefused, callers
    <3> QED BY <2>5, <3>1, <3>2, <3>3 DEF StartCall
  <2> QED BY <1>5, <2>3, <2>4, <2>5 DEF Resolves, Answers, Unbuffer
<1>6. ASSUME NEW u \in Tasks, call' = call PROVE Owes(call[u])'
  BY <1>2, <1>6
<1> QED BY <1>5, <1>6 DEF CallShape, Drop, Free, OwedInv

LEMMA RetryStep ==
  ASSUME TypeInv, RetryInv, CallShape
  PROVE  RetryInv'
<1>1. DOMAIN call = Tasks
  BY DEF TypeInv, TypeOK, CallerTypeOK
<1>2. CASE call' = call
  BY <1>2 DEF RetryInv
<1>3. ASSUME NEW t \in Tasks, NEW c, call' = [call EXCEPT ![t] = c],
             c.op = "append" => /\ c.before < c.batch.start
                                /\ c.pc \notin {"target", "durable"}
      PROVE  RetryInv'
  <2>1. call'[t] = c /\ \A u \in Tasks \ {t} : call'[u] = call[u]
    BY <1>1, <1>3
  <2> QED BY <1>3, <2>1 DEF RetryInv
<1>4. Idle.op = "none"
  BY DEF Idle
<1>5. ASSUME NEW t \in Tasks, Resolves(t) \/ Unbuffer(t) PROVE RetryInv'
  <2>1. CASE Proceeds(t)
    BY <1>3, <2>1 DEF Proceeds, RetryInv
  <2>2. CASE Unbuffer(t) \/ \E res : Answers(t, res)
    BY <1>3, <1>4, <2>2 DEF Unbuffer, Answers, Return
  <2> QED BY <1>5, <2>1, <2>2 DEF Resolves
<1>6. ASSUME NEW t \in Tasks, StartCall(t) PROVE RetryInv'
  <2>1. ASSUME NEW b \in Batches, NEW rotate \in BOOLEAN, AppendBatch(t, b, rotate) PROVE RetryInv'
    <3>1. CASE ~rotate
      BY <1>2, <2>1, <3>1 DEF AppendBatch
    <3>2. CASE rotate
      <4> DEFINE c == [Idle EXCEPT !.pc = "lock", !.op = "append", !.batch = b, !.before = maxEnd]
      <4>1. call' = [call EXCEPT ![t] = c]
        BY <2>1, <3>2 DEF AppendBatch
      <4>2. c.pc = "lock" /\ c.batch = b /\ c.before = maxEnd
        BY DEF Idle
      <4>3. maxEnd < b.start
        BY <2>1, AppendAscends
      <4> HIDE DEF c
      <4> QED BY <1>3, <4>1, <4>2, <4>3
    <3> QED BY <3>1, <3>2
  <2>2. ASSUME NEW op \in {"flush", "close"}, Flush(t, op) PROVE RetryInv'
    <3>1. CASE FatalState # "none"
      BY <1>2, <2>2, <3>1 DEF Flush
    <3>2. CASE FatalState = "none"
      <4> DEFINE c == [Idle EXCEPT !.pc = "lock", !.op = op, !.owed = Owed]
      <4>1. call' = [call EXCEPT ![t] = c]
        BY <2>2, <3>2 DEF Flush
      <4>2. c.op = op
        BY DEF Idle
      <4> HIDE DEF c
      <4> QED BY <1>3, <4>1, <4>2
    <3> QED BY <3>1, <3>2
  <2>3. CASE \E r \in OffsetRange, schemaOk \in BOOLEAN : AppendRefused(t, r, schemaOk)
    BY <1>2, <2>3 DEF AppendRefused, callers
  <2> QED BY <1>6, <2>1, <2>2, <2>3 DEF StartCall
<1> QED BY <1>2, <1>5, <1>6 DEF CallShape, Drop, Free

-----------------------------------------------------------------------------
LEMMA InitAnswer == Init => AnswerInv
<1> SUFFICES ASSUME Init PROVE AnswerInv
  OBVIOUS
<1>1. Flight = <<>> /\ Len(Flight) = 0
  BY EmptySeq DEF Init, Flight, Stages
<1>2. Files = {}
  BY <1>1 DEF Files, Init
<1>3. NumberInv
  <2>1. Encode(0, 0) = 0
    BY ConstantFacts DEF Encode
  <2> QED BY <1>1, <1>2, <2>1 DEF Init, NumberInv, NoOffset
<1>4. CoverInv
  BY <1>1, <1>2 DEF Init, CoverInv, Stages
<1>5. OwedInv /\ RetryInv
  BY DEF Init, OwedInv, Owes, RetryInv, Idle
<1> QED BY <1>3, <1>4, <1>5 DEF AnswerInv, FlushInv

LEMMA NextAnswer ==
  OrderInv /\ GateInv /\ AnswerInv /\ [Next]_vars => AnswerInv'
<1> SUFFICES ASSUME OrderInv, GateInv, AnswerInv, [Next]_vars PROVE AnswerInv'
  OBVIOUS
<1>1. TypeInv /\ TypeInv'
  BY NextTypeInv DEF OrderInv
<1>2. NumberInv' /\ CoverInv'
  BY <1>1, NumbersStep DEF AnswerInv, FlushInv, GateInv
<1>3. Forward
  BY <1>1, ForwardStep DEF AnswerInv
<1>4. CASE CallShape
  BY <1>1, <1>2, <1>3, <1>4, OwedStep, RetryStep DEF AnswerInv, FlushInv
<1>5. CASE UNCHANGED vars
  <2>1. CASE UNCHANGED call
    <3>1. \A u \in Tasks : Owes(call[u])'
      <4> TAKE u \in Tasks
      <4>1. PICK c \in Calls : c = call[u]
        BY <1>1 DEF TypeInv, TypeOK, CallerTypeOK
      <4>2. Owes(c)'
        BY <1>1, <1>3, <4>1, OwesStays DEF AnswerInv, FlushInv, OwedInv
      <4> QED BY <2>1, <4>1, <4>2 DEF Owes
    <3> QED BY <1>2, <2>1, <3>1 DEF AnswerInv, FlushInv, OwedInv, RetryInv
  <2> QED BY <1>5, <2>1 DEF vars, callers
<1> QED BY <1>1, <1>4, <1>5, CallShapes DEF AnswerInv

\* Storage keeps what a put has left there.
LEMMA StoredStays == ASSUME TypeInv, [Next]_vars PROVE stored \subseteq stored'
<1>1. ASSUME NEW t \in Tasks, CallerStep(t) \/ StartCall(t) \/ Cancel(t) PROVE stored' = stored
  BY <1>1
     DEF CallerStep, StartCall, Unbuffer, TakeLock, GetLock, GiveUp, NothingToSeal, QueueFull,
         PipelineClosed, SealAndSend, ReadTarget, AwaitDurable, Cancel, AppendRefused,
         AppendBatch, Flush, outside
<1>2. ASSUME NEW s \in Stages, StageStep(s) PROVE stored \subseteq stored'
  BY <1>2
     DEF StageStep, StageRecv, StageDrained, StageStop, StageTry, SendRefused, StageSend,
         AttemptOk, AttemptFails, outside
<1>3. CASE RenderStep \/ GzipStep \/ PutStep
  BY <1>2, <1>3
     DEF RenderStep, GzipStep, PutStep, Stages, RenderRejects, RenderGivesUp, PutCheck,
         record_durable, land, outside
<1>4. CASE TickerStep \/ Environment \/ Terminated \/ UNCHANGED vars
  BY <1>4
     DEF TickerStep, TickerStop, TickerLock, TickerSeal, Environment, Age, fence, SerialFatal,
         Drop, Free, Terminated, vars, outside
<1> QED BY <1>1, <1>3, <1>4 DEF Next

\* What an Ok rests on when it is given: all that is owed is on storage and recorded.
LEMMA OkCovers ==
  ASSUME TypeInv, GateInv, AnswerInv, NEW t \in Tasks,
         \/ call[t].pc = "target" /\ lastSealed = NoOffset
         \/ call[t].pc = "durable" /\ durable >= call[t].target
  PROVE  /\ call[t].owed <= stagedOffset
         /\ \A b \in acked : b.end <= call[t].owed => \E f \in stored : b \in f.rows
<1>1. call[t] \in Calls /\ Owes(call[t]) /\ stagedOffset \in Int /\ NoOffset <= stagedOffset
  BY ConstantFacts
     DEF TypeInv, TypeOK, CallerTypeOK, WriterTypeOK, AnswerInv, FlushInv, OwedInv, Offset, NoOffset
<1>2. call[t].owed \in Int
  BY <1>1, ConstantFacts DEF Calls, Offset, NoOffset
<1>3. ASSUME NEW b \in acked, b.end <= call[t].owed
      PROVE  b.end <= stagedOffset /\ \E f \in stored : b \in f.rows
  <2>1. b \in Batches /\ b.end \in Int
    BY ConstantFacts DEF TypeInv, TypeOK, WriterTypeOK, Offset
  <2>2. b \notin buffered
    BY <1>1, <1>2, <1>3, <2>1 DEF Owes
  <2>3. PICK f \in Files : b \in f.rows
    BY <2>2 DEF GateInv, AccountInv, Held
  <2>4. Serial(f) \in Nat /\ Serial(f) <= lastSealed /\ f.end \in Int
    BY FlightSerials, SerialIsNat DEF AnswerInv, FlushInv, NumberInv
  <2>5. call[t].pc = "durable" /\ durable >= call[t].target
    BY <2>4, FlightSerials DEF NoOffset
  <2>6. ASSUME NEW i \in 1..Len(Flight), f = Flight[i] PROVE FALSE
    <3>1. Serial(f) <= call[t].target
      BY <1>1, <1>3, <2>3, <2>5, <2>6 DEF Owes
    <3>2. durable < Serial(f)
      BY <2>6 DEF AnswerInv, FlushInv, NumberInv
    <3>3. durable \in Int /\ call[t].target \in Int
      BY <1>1, FlightSerials DEF Calls
    <3> QED BY <2>4, <2>5, <3>1, <3>2, <3>3
  <2>7. f \in stored /\ f.end <= stagedOffset
    BY <2>3, <2>6 DEF Files, AnswerInv, FlushInv, CoverInv
  <2>8. b.end <= f.end
    BY <2>3 DEF AnswerInv, FlushInv, CoverInv
  <2> QED BY <1>1, <2>1, <2>3, <2>4, <2>7, <2>8
<1>4. call[t].owed <= stagedOffset
  <2>1. CASE call[t].owed = NoOffset
    BY <1>1, <2>1
  <2>2. CASE call[t].owed # NoOffset
    <3>1. PICK b \in acked : b.end = call[t].owed
      BY <1>1, <2>2 DEF Owes
    <3>2. b.end <= call[t].owed
      BY <1>2, <3>1
    <3> QED BY <1>3, <3>1, <3>2
  <2> QED BY <2>1, <2>2
<1> QED BY <1>3, <1>4

LEMMA OkStep ==
  ASSUME OrderInv, GateInv, AnswerInv, FlushOkIsDurable, [Next]_vars
  PROVE  FlushOkIsDurable'
<1>0. TypeInv /\ TypeInv' /\ Forward /\ stored \subseteq stored'
  BY NextTypeInv, ForwardStep, StoredStays DEF OrderInv, AnswerInv
<1>1. CASE Silent
  BY <1>1 DEF Silent, NoReturn, FlushOkIsDurable
<1>2. ASSUME NEW t \in Tasks, NEW res, Answers(t, res) PROVE FlushOkIsDurable'
  <2>1. /\ returned'.op = call[t].op /\ returned'.result = res /\ returned'.owed = call[t].owed
    BY <1>2 DEF Answers, Return
  <2>2. call[t].owed \in Int /\ stagedOffset \in Int /\ stagedOffset' \in Int
    BY <1>0, ConstantFacts
       DEF TypeInv, TypeOK, CallerTypeOK, WriterTypeOK, Calls, Offset, NoOffset
  <2>3. ASSUME call[t].op # "append", res = "ok"
        PROVE  /\ call[t].owed <= stagedOffset'
               /\ \A b \in acked' : b.end <= call[t].owed => \E f \in stored' : b \in f.rows
    <3>1. \/ call[t].pc = "target" /\ lastSealed = NoOffset
          \/ call[t].pc = "durable" /\ durable >= call[t].target
      BY <1>2, <2>3 DEF Answers
    <3>2. /\ call[t].owed <= stagedOffset
          /\ \A b \in acked : b.end <= call[t].owed => \E f \in stored : b \in f.rows
      BY <1>0, <3>1, OkCovers
    <3>3. acked' = acked
      BY <1>2, <2>3 DEF Answers, Return
    <3>4. stagedOffset <= stagedOffset'
      BY <1>0 DEF Forward
    <3>5. call[t].owed <= stagedOffset'
      BY <2>2, <3>2, <3>4
    <3> QED BY <1>0, <3>2, <3>3, <3>5
  <2>4. returned'.op \in {"flush", "close"} => call[t].op # "append"
    BY <2>1
  <2>5. stagedOffset' >= call[t].owed <=> call[t].owed <= stagedOffset'
    BY <2>2
  <2> QED BY <2>1, <2>3, <2>4, <2>5 DEF FlushOkIsDurable
<1>3. ASSUME NEW t \in Tasks, Unbuffer(t) PROVE FlushOkIsDurable'
  <2>1. returned'.op = "append"
    BY <1>3 DEF Unbuffer, Return, GateInv, AccountInv
  <2> QED BY <2>1 DEF FlushOkIsDurable
<1>4. ASSUME NEW t \in Tasks, StartCall(t) PROVE FlushOkIsDurable'
  <2>1. FatalState # "ok"
    BY DEF FatalState, fatal_state, StallError, terminal_error
  <2>2. Silent \/ returned'.op = "append" \/ returned'.result = FatalState
    BY <1>4 DEF StartCall, AppendRefused, AppendBatch, Flush, NoReturn
  <2> QED BY <1>1, <2>1, <2>2 DEF FlushOkIsDurable
<1>5. CASE Drop \/ Free
  BY <1>1, <1>5 DEF Drop, Free
<1>6. CASE UNCHANGED vars
  BY <1>6 DEF vars, offsets, outside, FlushOkIsDurable
<1>7. ASSUME NEW t \in Tasks, Proceeds(t) PROVE FlushOkIsDurable'
  BY <1>1, <1>7 DEF Proceeds
<1>8. CallShape \/ UNCHANGED vars
  BY <1>0, <1>6, CallShapes DEF AnswerInv
<1> QED BY <1>1, <1>2, <1>3, <1>4, <1>5, <1>6, <1>7, <1>8 DEF CallShape, Resolves

\* The batch was in the buffer, so in no file, and the mark goes back below it.
LEMMA TakenBack ==
  ASSUME TypeInv, GateInv, RetryInv, NEW t \in Tasks, Unbuffer(t)
  PROVE  StalledAppendCanBeRetried'
<1> DEFINE b == call[t].batch
<1>1. /\ call[t].op = "append" /\ buffered' = buffered \ {b} /\ Files' = Files
      /\ returned'.batch = b /\ maxEnd = b.end
  BY SameFlight, SameFiles
     DEF Unbuffer, Return, GateInv, AccountInv, pipeline, outside
<1>2. CASE b \in buffered
  <2>1. maxEnd' = call[t].before
    BY <1>1, <1>2 DEF Unbuffer
  <2>2. call[t].before < b.start
    BY <1>1 DEF RetryInv
  <2>3. \A f \in Files : b \notin f.rows
    BY <1>2 DEF GateInv, AscendInv, Apart
  <2> QED BY <1>1, <2>1, <2>2, <2>3 DEF StalledAppendCanBeRetried
<1>3. CASE b \notin buffered
  <2>1. returned'.result # "StagingStalled"
    BY <1>3 DEF Unbuffer, Return
  <2> QED BY <2>1 DEF StalledAppendCanBeRetried
<1> QED BY <1>2, <1>3

LEMMA StalledStep ==
  ASSUME OrderInv, GateInv, AnswerInv, StalledAppendCanBeRetried, [Next]_vars
  PROVE  StalledAppendCanBeRetried'
<1>0. TypeInv /\ RetryInv
  BY DEF OrderInv, AnswerInv
<1>1. ASSUME ~(returned'.op = "append" /\ returned'.result = "StagingStalled")
      PROVE  StalledAppendCanBeRetried'
  BY <1>1 DEF StalledAppendCanBeRetried
<1>2. CASE Silent
  BY <1>1, <1>2 DEF Silent, NoReturn
<1>3. ASSUME NEW t \in Tasks, Resolves(t) PROVE StalledAppendCanBeRetried'
  <2>1. ASSUME NEW res, Answers(t, res) PROVE StalledAppendCanBeRetried'
    BY <1>1, <2>1 DEF Answers, Return
  <2> QED BY <1>2, <1>3, <2>1 DEF Resolves, Proceeds
<1>4. ASSUME NEW t \in Tasks, StartCall(t) PROVE StalledAppendCanBeRetried'
  <2>1. FatalState # "StagingStalled"
    BY DEF FatalState, fatal_state, StallError, terminal_error
  <2>2. \A r, ok : AppendError(r, ok) # "StagingStalled"
    BY <2>1 DEF AppendError
  <2>3. ASSUME NEW r, NEW ok, AppendRefused(t, r, ok) PROVE returned'.result # "StagingStalled"
    <3>1. returned'.result = AppendError(r, ok)
      BY <2>3 DEF AppendRefused, NoReturn
    <3> QED BY <2>2, <3>1
  <2>4. ASSUME NEW b, NEW rotate, AppendBatch(t, b, rotate)
        PROVE  Silent \/ returned'.result # "StagingStalled"
    BY <2>4 DEF AppendBatch, NoReturn
  <2>5. ASSUME NEW op, Flush(t, op) PROVE Silent \/ returned'.result # "StagingStalled"
    BY <2>1, <2>5 DEF Flush, NoReturn
  <2> QED BY <1>1, <1>2, <1>4, <2>3, <2>4, <2>5 DEF StartCall
<1>5. CASE Drop \/ Free
  BY <1>2, <1>5 DEF Drop, Free
<1>6. CASE UNCHANGED vars
  <2>1. Files' = Files
    BY <1>6, SameFlight, SameFiles DEF vars, pipeline, outside
  <2> QED BY <1>6, <2>1 DEF vars, offsets, buffer, StalledAppendCanBeRetried
<1>7. CallShape \/ UNCHANGED vars
  BY <1>0, CallShapes
<1> QED BY <1>0, <1>2, <1>3, <1>4, <1>5, <1>6, <1>7, TakenBack DEF CallShape

LEMMA AnswersHold == Spec => [](FlushOkIsDurable /\ StalledAppendCanBeRetried)
<1> DEFINE Inv == OrderInv /\ GateInv /\ AnswerInv /\ FlushOkIsDurable /\ StalledAppendCanBeRetried
<1>1. Init => Inv
  <2>1. Init => FlushOkIsDurable /\ StalledAppendCanBeRetried
    BY DEF Init, NoReturn, FlushOkIsDurable, StalledAppendCanBeRetried
  <2> QED BY <2>1, InitTypeInv, InitOrder, InitGate, InitAnswer DEF OrderInv
<1>2. Inv /\ [Next]_vars => Inv'
  BY NextOrder, NextGate, NextAnswer, OkStep, StalledStep
<1> QED BY <1>1, <1>2, PTL DEF Spec

(***************************************************************************)
(* "A flush that returns Ok already guarantees it for everything appended  *)
(* before the call": flush_pipeline waits for a number at least that of    *)
(* the last file with such rows, whoever cut that file, and for nothing    *)
(* only if there never was one.                                            *)
(***************************************************************************)
THEOREM FlushMeansDurable == Spec => []FlushOkIsDurable
BY AnswersHold, PTL

(***************************************************************************)
(* "An Err from append means not accepted, retry later": unbuffer reports  *)
(* the stall only for a batch it has taken out of the buffer, and restores *)
(* a high-water mark below that batch, so the same range is let in again.  *)
(***************************************************************************)
THEOREM StalledMeansRetry == Spec => []StalledAppendCanBeRetried
BY AnswersHold, PTL

-----------------------------------------------------------------------------
(***************************************************************************)
(* close has the writer to itself, so what is dropped stays dropped.       *)
(***************************************************************************)
CloseInv ==
  \A t \in Tasks : call[t].op = "close" =>
    handle = "closing" /\ call[t].pc # "idle" /\ \A u \in Tasks : call[u].op = "close" => u = t

(***************************************************************************)
(* While the process lives, a stage that has ended has left a terminal     *)
(* entry, and the flag or the permanence that makes fatal_error name it.   *)
(* No call has had to put one there in its place.                          *)
(***************************************************************************)
Causes == {"Fenced", "OrderViolation", "Rotation"}

EndedInv ==
  /\ Alive /\ (\E s \in Stages : at[s] = "exited") => failing.kind \in Causes
  /\ Alive => failing.kind # "PipelineGone"
  /\ failing.kind = "Fenced" => fenced
  /\ failing.kind = "OrderViolation" => orderFatal
  /\ failing.kind = "Rotation" => failing.permanent

ReportInv == StickyInv /\ RetryInv /\ CloseInv /\ EndedInv

\* The entry of a cause the stages publish, once the flag it comes with is up.
Publishes(s) ==
  \E kind \in Causes :
    /\ failing' = publish_terminal(failing, kind)
    /\ kind = "Fenced" => fenced'
    /\ kind = "OrderViolation" => orderFatal'
    /\ at' = [at EXCEPT ![s] = "exited"]

\* The slot stays, or holds a failure that can pass, or a call finds the pipeline gone.
StageGoesOn == \A s \in Stages : at'[s] = "exited" => \E u \in Stages : at[u] = "exited"

Quiet ==
  /\ Alive => StageGoesOn
  /\ \/ failing' = failing
     \/ failing'.kind \in {"none", "Stage"}
     \/ Closed /\ failing' = publish_terminal(failing, "PipelineGone")

FailShape == Quiet \/ \E s \in Stages : Publishes(s)

LEMMA FailShapes == ASSUME TypeInv, Next PROVE FailShape \/ UNCHANGED vars
<1>0. at \in [Stages -> StagePcs]
  BY DEF TypeInv, TypeOK, PipelineTypeOK
<1>1. ASSUME UNCHANGED at,
             \/ failing' = failing
             \/ failing'.kind \in {"none", "Stage"}
             \/ Closed /\ failing' = publish_terminal(failing, "PipelineGone")
      PROVE  FailShape
  BY <1>1 DEF FailShape, Quiet, StageGoesOn
<1>2. ASSUME NEW s \in Stages, NEW pc, at' = [at EXCEPT ![s] = pc],
             failing' = failing \/ failing'.kind \in {"none", "Stage"},
             Alive /\ pc = "exited" => \E u \in Stages : at[u] = "exited"
      PROVE  FailShape
  <2>1. Alive => StageGoesOn
    BY <1>0, <1>2 DEF StageGoesOn
  <2> QED BY <1>2, <2>1 DEF FailShape, Quiet
<1>3. ASSUME NEW t \in Tasks, CallerStep(t) \/ StartCall(t) \/ Cancel(t) PROVE FailShape
  <2>1. UNCHANGED at
    BY <1>3
       DEF CallerStep, StartCall, Cancel, AppendRefused, AppendBatch, Flush, Unbuffer, TakeLock,
           GetLock, GiveUp, NothingToSeal, QueueFull, PipelineClosed, SealAndSend, ReadTarget,
           AwaitDurable, pipeline
  <2>2. \/ failing' = failing
        \/ Closed /\ failing' = publish_terminal(failing, "PipelineGone")
    BY <1>3
       DEF CallerStep, StartCall, Cancel, AppendRefused, AppendBatch, Flush, Unbuffer, TakeLock,
           GetLock, GiveUp, NothingToSeal, QueueFull, PipelineClosed, SealAndSend, ReadTarget,
           AwaitDurable, progress
  <2> QED BY <1>1, <2>1, <2>2
<1>4. ASSUME NEW s \in Stages, StageStep(s) PROVE FailShape
  <2>1. CASE StageRecv(s)
    <3> DEFINE pc == CASE s = "put" -> "check" [] s = "gzip" /\ ~Gzip -> "send" [] OTHER -> "try"
    <3>1. at' = [at EXCEPT ![s] = pc] /\ pc # "exited" /\ failing' = failing
      BY <2>1 DEF StageRecv, progress
    <3> HIDE DEF pc
    <3> QED BY <1>2, <3>1
  <2>2. CASE StageDrained(s)
    <3>1. Alive => \E u \in Stages : at[u] = "exited"
      BY <2>2 DEF StageDrained, SenderGone, Stages
    <3> QED BY <1>2, <2>2, <3>1 DEF StageDrained, progress
  <2>3. CASE StageStop(s)
    <3>1. CASE Alive
      <4>1. /\ failing' = publish_terminal(failing, "Fenced") /\ fenced'
            /\ at' = [at EXCEPT ![s] = "exited"]
        BY <2>3, <3>1 DEF StageStop
      <4> QED BY <4>1 DEF FailShape, Publishes, Causes
    <3>2. CASE ~Alive
      BY <1>2, <2>3, <3>2 DEF StageStop
    <3> QED BY <3>1, <3>2
  <2>4. CASE StageTry(s)
    BY <1>2, <2>4 DEF StageTry, progress
  <2>5. CASE AttemptOk(s)
    <3>1. failing' = failing \/ failing'.kind \in {"none", "Stage"}
      BY <2>5 DEF AttemptOk, clear_failure, NotFailing
    <3> QED BY <1>2, <2>5, <3>1 DEF AttemptOk
  <2>6. ASSUME NEW landed \in BOOLEAN, AttemptFails(s, landed) PROVE FailShape
    <3>1. failing' = failing \/ failing'.kind \in {"none", "Stage"}
      BY <2>6 DEF AttemptFails, report_failure
    <3> QED BY <1>2, <2>6, <3>1 DEF AttemptFails
  <2>7. CASE StageSend(s)
    BY <1>2, <2>7 DEF StageSend, progress
  <2>8. CASE SendRefused(s)
    <3>1. NextStage[s] \in Stages /\ at[NextStage[s]] = "exited"
      BY <2>8 DEF SendRefused, NextStage, Stages
    <3> QED BY <1>2, <2>8, <3>1 DEF SendRefused, progress
  <2> QED BY <1>4, <2>1, <2>2, <2>3, <2>4, <2>5, <2>6, <2>7, <2>8 DEF StageStep
<1>5. "render" \in Stages /\ "gzip" \in Stages /\ "put" \in Stages
  BY DEF Stages
<1>6. CASE RenderRejects
  <2>1. failing' = failing \/ failing'.kind \in {"none", "Stage"}
    BY <1>6 DEF RenderRejects, report_failure
  <2> QED BY <1>2, <1>5, <1>6, <2>1 DEF RenderRejects
<1>7. CASE RenderGivesUp
  BY <1>5, <1>7 DEF RenderGivesUp, FailShape, Publishes, Causes
<1>8. CASE PutCheck
  <2> DEFINE ok == check_order(prev, InHand("put"))
  <2>1. CASE ok
    BY <1>2, <1>5, <1>8, <2>1 DEF PutCheck
  <2>2. CASE ~ok
    <3>1. /\ failing' = publish_terminal(failing, "OrderViolation") /\ orderFatal'
          /\ at' = [at EXCEPT !["put"] = "exited"]
      BY <1>8, <2>2 DEF PutCheck
    <3> QED BY <1>5, <3>1 DEF FailShape, Publishes, Causes
  <2> QED BY <2>1, <2>2
<1>9. CASE record_durable
  BY <1>2, <1>5, <1>9 DEF record_durable, progress
<1>10. CASE land
  <2>1. failing' = failing \/ failing'.kind \in {"none", "Stage"}
    BY <1>10 DEF land, ClearedByLanding, NotFailing
  <2> QED BY <1>2, <1>5, <1>10, <2>1 DEF land
<1>11. CASE RenderStep \/ GzipStep \/ PutStep
  BY <1>4, <1>5, <1>6, <1>7, <1>8, <1>9, <1>10, <1>11 DEF RenderStep, GzipStep, PutStep
<1>12. CASE TickerStep
  BY <1>1, <1>12 DEF TickerStep, TickerStop, TickerLock, TickerSeal, pipeline, progress
<1>13. CASE Environment
  BY <1>1, <1>13 DEF Environment, Age, fence, SerialFatal, Drop, Free, pipeline, progress
<1> QED BY <1>3, <1>11, <1>12, <1>13 DEF Next, Terminated

LEMMA FlagsStay == [Next]_vars => (fenced => fenced') /\ (orderFatal => orderFatal')
<1> SUFFICES ASSUME [Next]_vars PROVE (fenced => fenced') /\ (orderFatal => orderFatal')
  OBVIOUS
<1>1. ASSUME NEW t \in Tasks, CallerStep(t) \/ StartCall(t) \/ Cancel(t)
      PROVE  UNCHANGED <<fenced, orderFatal>>
  BY <1>1
     DEF CallerStep, StartCall, Cancel, AppendRefused, AppendBatch, Flush, Unbuffer, TakeLock,
         GetLock, GiveUp, NothingToSeal, QueueFull, PipelineClosed, SealAndSend, ReadTarget,
         AwaitDurable, stops
<1>2. ASSUME NEW s \in Stages, StageStep(s) PROVE UNCHANGED <<fenced, orderFatal>>
  BY <1>2
     DEF StageStep, StageRecv, StageDrained, StageStop, StageTry, AttemptOk, AttemptFails,
         StageSend, SendRefused, stops
<1>3. ASSUME RenderRejects \/ RenderGivesUp \/ record_durable \/ land
      PROVE  UNCHANGED <<fenced, orderFatal>>
  BY <1>3 DEF RenderRejects, RenderGivesUp, record_durable, land, stops
<1>4. CASE PutCheck
  BY <1>4, Zenon DEF PutCheck
<1>5. CASE RenderStep \/ GzipStep \/ PutStep
  BY <1>2, <1>3, <1>4, <1>5 DEF RenderStep, GzipStep, PutStep, Stages
<1>6. CASE TickerStep
  BY <1>6 DEF TickerStep, TickerStop, TickerLock, TickerSeal, stops
<1>7. CASE fence
  BY <1>7, Zenon DEF fence
<1>8. CASE Environment
  BY <1>7, <1>8 DEF Environment, Age, SerialFatal, Drop, Free, stops
<1>9. CASE UNCHANGED vars
  BY <1>9 DEF vars, stops
<1> QED BY <1>1, <1>5, <1>6, <1>8, <1>9 DEF Next, Terminated

LEMMA CloseStep ==
  ASSUME TypeInv, RetryInv, CloseInv, [Next]_vars
  PROVE  CloseInv' /\ (Alive' => Alive)
<1>0. call \in [Tasks -> Calls]
  BY DEF TypeInv, TypeOK, CallerTypeOK
<1>1. CASE UNCHANGED <<call, handle>>
  BY <1>1 DEF CloseInv, Alive
<1>2. ASSUME NEW t \in Tasks, NEW c, call' = [call EXCEPT ![t] = c], c.op = call[t].op,
             c.pc # "idle", UNCHANGED handle
      PROVE  CloseInv' /\ (Alive' => Alive)
  <2>1. \A u \in Tasks : call'[u].op = call[u].op /\ (call'[u].pc = call[u].pc \/ call'[u].pc # "idle")
    BY <1>0, <1>2
  <2> QED BY <1>2, <2>1 DEF CloseInv, Alive
<1>3. ASSUME NEW t \in Tasks, NEW res, Return(t, res) PROVE CloseInv' /\ (Alive' => Alive)
  <2>1. \A u \in Tasks : call'[u] = IF u = t THEN Idle ELSE call[u]
    BY <1>0, <1>3 DEF Return
  <2>2. \A u \in Tasks : call'[u].op = "close" => u # t /\ call'[u] = call[u]
    BY <2>1 DEF Idle
  <2>3. call[t].op = "close" => handle = "closing"
    BY DEF CloseInv
  <2>4. handle' = IF call[t].op = "close" THEN "dropped" ELSE handle
    BY <1>3 DEF Return, HandleAfter
  <2> QED BY <2>2, <2>3, <2>4 DEF CloseInv, Alive
<1>4. ASSUME NEW t \in Tasks, Resolves(t) PROVE CloseInv' /\ (Alive' => Alive)
  <2>1. CASE Proceeds(t)
    BY <1>2, <2>1 DEF Proceeds
  <2>2. ASSUME NEW res, Answers(t, res) PROVE CloseInv' /\ (Alive' => Alive)
    BY <1>3, <2>2 DEF Answers
  <2> QED BY <1>4, <2>1, <2>2 DEF Resolves
<1>5. ASSUME NEW t \in Tasks, Unbuffer(t) PROVE CloseInv' /\ (Alive' => Alive)
  <2>1. \E res : Return(t, res)
    BY <1>5 DEF Unbuffer
  <2> QED BY <1>3, <2>1
<1>6. ASSUME NEW t \in Tasks, StartCall(t) PROVE CloseInv' /\ (Alive' => Alive)
  <2>1. ASSUME NEW r, NEW ok, AppendRefused(t, r, ok) PROVE UNCHANGED <<call, handle>>
    BY <2>1 DEF AppendRefused, callers
  <2>2. ASSUME NEW b, NEW rotate, AppendBatch(t, b, rotate) PROVE CloseInv' /\ (Alive' => Alive)
    <3> DEFINE c == [Idle EXCEPT !.pc = "lock", !.op = "append", !.batch = b, !.before = maxEnd]
    <3>1. handle = "open" /\ handle' = handle
      BY <2>2 DEF AppendBatch, CanCall
    <3>2. \A u \in Tasks : call[u].op # "close"
      BY <3>1 DEF CloseInv
    <3>3. UNCHANGED call \/ call' = [call EXCEPT ![t] = c]
      BY <2>2 DEF AppendBatch
    <3>4. c.op = "append"
      BY DEF Idle
    <3> HIDE DEF c
    <3>5. \A u \in Tasks : call'[u].op # "close"
      BY <1>0, <3>2, <3>3, <3>4
    <3> QED BY <3>1, <3>5 DEF CloseInv, Alive
  <2>3. ASSUME NEW op \in {"flush", "close"}, Flush(t, op) PROVE CloseInv' /\ (Alive' => Alive)
    <3> DEFINE c == [Idle EXCEPT !.pc = "lock", !.op = op, !.owed = Owed]
    <3>1. Alive
      BY <2>3 DEF Flush, CanCall, Alive
    <3>2. \A u \in Tasks : call[u].op # "close"
      BY <2>3 DEF Flush, CanCall, CloseInv
    <3>3. CASE UNCHANGED call
      BY <3>1, <3>2, <3>3 DEF CloseInv
    <3>4. CASE /\ call' = [call EXCEPT ![t] = c]
               /\ handle' = IF op = "close" THEN "closing" ELSE handle
      <4>1. c.op = op /\ c.pc = "lock"
        BY DEF Idle
      <4> HIDE DEF c
      <4>2. \A u \in Tasks : call'[u] = IF u = t THEN c ELSE call[u]
        BY <1>0, <3>4
      <4> QED BY <3>1, <3>2, <3>4, <4>1, <4>2 DEF CloseInv
    <3> QED BY <2>3, <3>3, <3>4 DEF Flush
  <2> QED BY <1>1, <1>6, <2>1, <2>2, <2>3 DEF StartCall
<1>7. CASE Drop \/ Free
  <2>1. UNCHANGED call /\ (\A u \in Tasks : call[u].op # "close") /\ Alive
    BY <1>7 DEF Drop, Free, CloseInv, Alive
  <2> QED BY <2>1 DEF CloseInv
<1>8. CASE UNCHANGED vars
  BY <1>1, <1>8 DEF vars, callers
<1>9. CallShape \/ UNCHANGED vars
  BY <1>8, CallShapes
<1> QED BY <1>1, <1>4, <1>5, <1>6, <1>7, <1>8, <1>9 DEF CallShape

LEMMA EndedStep ==
  ASSUME StickyInv, RetryInv, CloseInv, EndedInv, [Next]_vars
  PROVE  EndedInv'
<1>0. TypeInv
  BY DEF StickyInv
<1>1. (Alive' => Alive) /\ (fenced => fenced') /\ (orderFatal => orderFatal')
  BY <1>0, CloseStep, FlagsStay
<1>2. is_terminal(failing) => failing' = failing
  BY StickyStep
<1>3. is_terminal(failing) <=> failing.kind \in Causes \cup {"PipelineGone"}
  BY DEF is_terminal, TerminalKinds, Causes
<1>4. \A s \in Stages : Alive /\ at[s] = "exited" => is_terminal(failing)
  BY <1>3 DEF EndedInv
<1>5. CASE Quiet
  <2>1. Alive' /\ (\E s \in Stages : at'[s] = "exited") => is_terminal(failing)
    BY <1>1, <1>4, <1>5 DEF Quiet, StageGoesOn
  <2>2. CASE failing' = failing
    <3>1. Alive' /\ (\E s \in Stages : at'[s] = "exited") => failing.kind \in Causes
      BY <1>1, <1>3, <2>1 DEF EndedInv
    <3> QED BY <1>1, <2>2, <3>1 DEF EndedInv
  <2>3. CASE failing'.kind \in {"none", "Stage"} /\ failing' # failing
    BY <1>2, <2>1, <2>3 DEF EndedInv
  <2>4. CASE Closed /\ failing' = publish_terminal(failing, "PipelineGone") /\ failing' # failing
    <3>1. ~Alive /\ ~is_terminal(failing)
      BY <1>2, <1>4, <2>4 DEF Closed, Stages
    <3>2. failing'.kind = "PipelineGone"
      BY <2>4, <3>1 DEF publish_terminal
    <3> QED BY <1>1, <3>1, <3>2 DEF EndedInv
  <2> QED BY <1>5, <2>2, <2>3, <2>4 DEF Quiet
<1>6. ASSUME NEW s \in Stages, Publishes(s) PROVE EndedInv'
  <2>1. PICK kind \in Causes :
          /\ failing' = publish_terminal(failing, kind)
          /\ kind = "Fenced" => fenced'
          /\ kind = "OrderViolation" => orderFatal'
    BY <1>6 DEF Publishes
  <2>2. CASE is_terminal(failing)
    <3>1. failing' = failing /\ (Alive' => failing.kind \in Causes)
      BY <1>1, <1>2, <1>3, <2>2 DEF EndedInv
    <3> QED BY <1>1, <3>1 DEF EndedInv, Causes
  <2>3. CASE ~is_terminal(failing)
    <3>1. failing'.kind = kind /\ failing'.permanent
      BY <2>1, <2>3 DEF publish_terminal
    <3> QED BY <2>1, <3>1 DEF EndedInv, Causes
  <2> QED BY <2>2, <2>3
<1>7. CASE UNCHANGED vars
  BY <1>7 DEF vars, pipeline, progress, stops, callers, EndedInv, Alive
<1> QED BY <1>0, <1>5, <1>6, <1>7, FailShapes DEF FailShape

\* The entry that is there, or the flag that came with it, is what append and flush answer.
LEMMA EndedIsReported == TypeInv /\ EndedInv => StoppedStageIsReported
<1> SUFFICES ASSUME TypeInv, EndedInv, handle \in {"open", "closing"},
                    NEW s \in Stages, at[s] = "exited"
             PROVE  /\ is_terminal(failing) /\ failing.kind # "PipelineGone"
                    /\ FatalState # "none"
  BY DEF StoppedStageIsReported
<1>1. failing.kind \in Causes
  BY DEF EndedInv, Alive
<1>2. is_terminal(failing) /\ failing.kind # "PipelineGone"
  BY <1>1 DEF Causes, is_terminal, TerminalKinds
<1>0. orderFatal \in BOOLEAN /\ fenced \in BOOLEAN /\ serialFatal \in BOOLEAN
  BY DEF TypeInv, TypeOK, FlagTypeOK
<1>3. ASSUME orderFatal \/ fenced PROVE FatalState # "none"
  BY <1>0, <1>3 DEF FatalState, fatal_state
<1>4. ASSUME ~orderFatal, ~fenced PROVE FatalState # "none"
  <2>1. failing.kind = "Rotation" /\ failing.permanent
    BY <1>1, <1>4 DEF EndedInv, Causes
  <2>2. StallError(failing) = "RotationFailed"
    BY <2>1 DEF StallError, Stalled, terminal_error
  <2> QED BY <1>0, <1>4, <2>2 DEF FatalState, fatal_state
<1> QED BY <1>2, <1>3, <1>4

(***************************************************************************)
(* A stage that ends while the writer is in use leaves the cause where     *)
(* append, flush and close read it, so pipeline_gone() never has to make   *)
(* one up: whichever of a fence, the tripwire and a rejected row comes     *)
(* first, and whoever is waiting.                                          *)
(***************************************************************************)
THEOREM StoppedIsReported == Spec => []StoppedStageIsReported
<1> DEFINE Inv == OrderInv /\ GateInv /\ AnswerInv /\ ReportInv
<1>1. Init => Inv
  <2>1. Init => CloseInv /\ EndedInv /\ TerminalIsBelow
    BY DEF Init, CloseInv, Idle, EndedInv, Causes, NotFailing, TerminalIsBelow, is_terminal,
           TerminalKinds, Alive
  <2>2. Init => AnswerInv
    BY InitAnswer
  <2> QED BY <2>1, <2>2, InitTypeInv, InitOrder, InitGate
      DEF OrderInv, ReportInv, StickyInv, AnswerInv
<1>2. Inv /\ [Next]_vars => Inv'
  <2> SUFFICES ASSUME Inv, [Next]_vars PROVE Inv'
    OBVIOUS
  <2>1. OrderInv' /\ GateInv' /\ AnswerInv'
    BY NextOrder, NextGate, NextAnswer
  <2>2. StickyInv'
    BY <2>1, StickyStep DEF OrderInv, ReportInv, StickyInv
  <2>3. CloseInv' /\ EndedInv'
    BY CloseStep, EndedStep DEF ReportInv, StickyInv
  <2> QED BY <2>1, <2>2, <2>3 DEF ReportInv, AnswerInv
<1>3. Inv => StoppedStageIsReported
  BY EndedIsReported DEF ReportInv, StickyInv
<1> QED BY <1>1, <1>2, <1>3, PTL DEF Spec

-----------------------------------------------------------------------------
(***************************************************************************)
(* The rotation implements StagingQueue.  What the mapping reads: the      *)
(* files of Flight, and whether the front one is recorded already.         *)
(***************************************************************************)
\* Only record_durable tells the notifier, and only land takes its file off.
LEMMA AnnounceShape ==
  ASSUME TypeInv, [Next]_vars
  PROVE  \/ record_durable \/ land
         \/ announced' = announced /\ (at'["put"] = "land" <=> at["put"] = "land")
<1>0. DOMAIN at = Stages /\ "put" \in Stages
  BY DEF TypeInv, TypeOK, PipelineTypeOK, Stages
<1>1. ASSUME NEW t \in Tasks, CallerStep(t) \/ StartCall(t) \/ Cancel(t)
      PROVE  UNCHANGED <<announced, at>>
  BY <1>1
     DEF CallerStep, StartCall, Unbuffer, TakeLock, GetLock, GiveUp, NothingToSeal, QueueFull,
         PipelineClosed, SealAndSend, ReadTarget, AwaitDurable, Cancel, AppendRefused,
         AppendBatch, Flush, pipeline, outside
<1>2. ASSUME NEW s \in Stages, StageStep(s)
      PROVE  announced' = announced /\ (at'["put"] = "land" <=> at["put"] = "land")
  <2>1. announced' = announced
    BY <1>2
       DEF StageStep, StageRecv, StageDrained, StageStop, StageTry, SendRefused, StageSend,
           AttemptOk, AttemptFails, outside
  <2>2. CASE s = "put"
    <3>1. s \notin DOMAIN NextStage
      BY <2>2 DEF NextStage
    <3>2. /\ at["put"] \in {"recv", "try", "check", "landed", "work"}
          /\ at'["put"] \in {"check", "exited", "work", "landed", "try"}
      BY <1>0, <1>2, <2>2, <3>1
         DEF StageStep, StageRecv, StageDrained, StageStop, StageTry, SendRefused, StageSend,
             AttemptOk, AttemptFails
    <3> QED BY <2>1, <3>2
  <2>3. CASE s # "put"
    <3>1. at'["put"] = at["put"]
      BY <1>0, <1>2, <2>3
         DEF StageStep, StageRecv, StageDrained, StageStop, StageTry, SendRefused, StageSend,
             AttemptOk, AttemptFails
    <3> QED BY <2>1, <3>1
  <2> QED BY <2>1, <2>2, <2>3
<1>3. CASE RenderRejects \/ RenderGivesUp \/ PutCheck
  BY <1>0, <1>3 DEF RenderRejects, RenderGivesUp, PutCheck, outside
<1>4. CASE RenderStep \/ GzipStep \/ PutStep
  BY <1>2, <1>3, <1>4 DEF RenderStep, GzipStep, PutStep, Stages
<1>5. CASE TickerStep
  BY <1>5 DEF TickerStep, TickerStop, TickerLock, TickerSeal, pipeline, outside
<1>6. CASE Environment \/ Terminated \/ UNCHANGED vars
  BY <1>6 DEF Environment, Age, fence, SerialFatal, Drop, Free, Terminated, vars, pipeline, outside
<1> QED BY <1>1, <1>4, <1>5, <1>6 DEF Next

-----------------------------------------------------------------------------
(***************************************************************************)
(* The mapping, file by file: what leaves or joins the run leaves or joins *)
(* the queue.                                                              *)
(***************************************************************************)
Labels(fs) == [i \in 1..Len(fs) |-> Label(fs[i])]

Entry == [serial : Nat, end : 0..MaxOffset]

LEMMA LabelType == \A f \in File : Label(f) \in Entry /\ f.end \in 0..MaxOffset
BY SerialIsNat DEF Label, Entry, File, Offset

LEMMA LabelsType ==
  ASSUME NEW fs \in Seq(File)
  PROVE  Labels(fs) \in Seq(Entry) /\ Len(Labels(fs)) = Len(fs) /\ Len(fs) \in Nat
         /\ \A i \in 1..Len(fs) : Labels(fs)[i] = Label(fs[i]) /\ fs[i] \in File
<1>1. Len(fs) \in Nat /\ \A i \in 1..Len(fs) : fs[i] \in File
  BY ElementOfSeq, LenProperties
<1>2. Labels(fs) \in [1..Len(fs) -> Entry]
  BY <1>1, LabelType DEF Labels
<1>3. Labels(fs) \in Seq(Entry)
  BY <1>1, <1>2, SeqDef
<1>4. Len(Labels(fs)) = Len(fs)
  <2>1. DOMAIN Labels(fs) = 1..Len(fs) /\ DOMAIN Labels(fs) = 1..Len(Labels(fs))
    BY <1>2, <1>3, LenProperties
  <2>2. Len(Labels(fs)) \in Nat
    BY <1>3, LenProperties
  <2> QED BY <1>1, <2>1, <2>2
<1> QED BY <1>1, <1>3, <1>4 DEF Labels

LEMMA LabelsAppend ==
  ASSUME NEW fs \in Seq(File), NEW f \in File
  PROVE  Labels(Append(fs, f)) = Append(Labels(fs), Label(f))
<1> DEFINE n == Len(fs)
           s == Labels(Append(fs, f))
           t == Append(Labels(fs), Label(f))
<1>1. /\ Append(fs, f) \in Seq(File) /\ Len(Append(fs, f)) = n + 1
      /\ \A i \in 1..n : Append(fs, f)[i] = fs[i]
      /\ Append(fs, f)[n + 1] = f /\ n \in Nat
  BY AppendProperties, LenProperties
<1>2. /\ s \in Seq(Entry) /\ Len(s) = n + 1
      /\ \A i \in 1..n + 1 : s[i] = Label(Append(fs, f)[i])
  BY <1>1, LabelsType
<1>3. /\ Labels(fs) \in Seq(Entry) /\ Len(Labels(fs)) = n
      /\ \A i \in 1..n : Labels(fs)[i] = Label(fs[i])
      /\ Label(f) \in Entry
  BY LabelsType, LabelType
<1>4. /\ t \in Seq(Entry) /\ Len(t) = n + 1
      /\ \A i \in 1..n : t[i] = Labels(fs)[i]
      /\ t[n + 1] = Label(f)
  BY <1>3, AppendProperties
<1>5. \A i \in 1..n + 1 : s[i] = t[i]
  <2> TAKE i \in 1..n + 1
  <2>1. CASE i = n + 1
    BY <1>1, <1>2, <1>4, <2>1
  <2>2. CASE i # n + 1
    <3>1. i \in 1..n
      BY <1>1, <2>2
    <3> QED BY <1>1, <1>2, <1>3, <1>4, <3>1
  <2> QED BY <2>1, <2>2
<1> HIDE DEF s, t, n
<1>6. s = t
  BY <1>2, <1>4, <1>5, SeqEqual
<1> QED BY <1>6 DEF s, t

LEMMA LabelsFront ==
  ASSUME NEW fs \in Seq(File), fs # <<>>
  PROVE  /\ Labels(fs) # <<>> /\ Head(Labels(fs)) = Label(fs[1])
         /\ Tail(Labels(fs)) = Labels(Tail(fs))
<1> DEFINE n == Len(fs)
           s == Tail(Labels(fs))
           t == Labels(Tail(fs))
<1>1. /\ n \in Nat \ {0} /\ Tail(fs) \in Seq(File) /\ Len(Tail(fs)) = n - 1
      /\ \A i \in 1..n - 1 : Tail(fs)[i] = fs[i + 1]
  BY EmptySeq, HeadTailProperties
<1>2. /\ Labels(fs) \in Seq(Entry) /\ Len(Labels(fs)) = n
      /\ \A i \in 1..n : Labels(fs)[i] = Label(fs[i])
  BY LabelsType
<1>3. Labels(fs) # <<>>
  BY <1>1, <1>2, EmptySeq
<1>4. Head(Labels(fs)) = Labels(fs)[1]
  BY <1>2
<1>5. /\ s \in Seq(Entry) /\ Len(s) = n - 1 /\ \A i \in 1..n - 1 : s[i] = Labels(fs)[i + 1]
  BY <1>2, <1>3, HeadTailProperties
<1>6. /\ t \in Seq(Entry) /\ Len(t) = n - 1 /\ \A i \in 1..n - 1 : t[i] = Label(Tail(fs)[i])
  BY <1>1, LabelsType
<1>7. \A i \in 1..n - 1 : s[i] = t[i]
  <2> TAKE i \in 1..n - 1
  <2>1. i + 1 \in 1..n
    BY <1>1
  <2> QED BY <1>1, <1>2, <1>5, <1>6, <2>1
<1> HIDE DEF s, t
<1>8. s = t
  BY <1>5, <1>6, <1>7, SeqEqual
<1> QED BY <1>1, <1>2, <1>3, <1>4, <1>8 DEF s, t

LEMMA TailOfAppend ==
  ASSUME NEW S, NEW x \in Seq(S), NEW e \in S, x # <<>>
  PROVE  Tail(Append(x, e)) = Append(Tail(x), e)
<1> DEFINE n == Len(x)
           s == Tail(Append(x, e))
           t == Append(Tail(x), e)
<1>1. /\ n \in Nat \ {0} /\ Append(x, e) \in Seq(S) /\ Append(x, e) # <<>>
      /\ Len(Append(x, e)) = n + 1 /\ Append(x, e)[n + 1] = e
      /\ \A i \in 1..n : Append(x, e)[i] = x[i]
  BY EmptySeq, AppendProperties
<1>2. /\ Tail(x) \in Seq(S) /\ Len(Tail(x)) = n - 1
      /\ \A i \in 1..n - 1 : Tail(x)[i] = x[i + 1]
  BY HeadTailProperties
<1>3. /\ s \in Seq(S) /\ Len(s) = n /\ \A i \in 1..n : s[i] = Append(x, e)[i + 1]
  BY <1>1, HeadTailProperties
<1>4. /\ t \in Seq(S) /\ Len(t) = n /\ t[n] = e
      /\ \A i \in 1..n - 1 : t[i] = Tail(x)[i]
  BY <1>1, <1>2, AppendProperties
<1>5. \A i \in 1..n : s[i] = t[i]
  <2> TAKE i \in 1..n
  <2>1. CASE i = n
    BY <1>1, <1>3, <1>4, <2>1
  <2>2. CASE i # n
    <3>1. i \in 1..n - 1 /\ i + 1 \in 1..n
      BY <1>1, <2>2
    <3> QED BY <1>1, <1>2, <1>3, <1>4, <3>1
  <2> QED BY <2>1, <2>2
<1> HIDE DEF s, t, n
<1>6. s = t
  BY <1>3, <1>4, <1>5, SeqEqual
<1> QED BY <1>6 DEF s, t

LEMMA WaitingLabels == Waiting = Labels(Unannounced)
BY DEF Waiting, Labels

\* While the put stage lands its file, that file is the front one.
LEMMA UnannouncedType ==
  ASSUME TypeInv
  PROVE  /\ Flight \in Seq(File) /\ Unannounced \in Seq(File)
         /\ at["put"] = "land" => Flight # <<>>
<1>1. Flight \in Seq(File)
  BY FlightTypes
<1>2. at["put"] = "land" => Flight # <<>>
  BY PutHoldsFront
<1> QED BY <1>1, <1>2, HeadTailProperties DEF Unannounced

-----------------------------------------------------------------------------
(***************************************************************************)
(* Each kind of step.                                                      *)
(***************************************************************************)
\* What the queue does not see.
LEMMA PassStutters ==
  ASSUME TypeInv, Flight' = Flight, announced' = announced,
         UNCHANGED <<lastSealed, stagedOffset>>,
         at'["put"] = "land" <=> at["put"] = "land"
  PROVE  UNCHANGED Queue!vars
<1>1. Unannounced' = Unannounced
  BY DEF Unannounced
<1>2. Waiting' = Waiting
  BY <1>1 DEF Waiting
<1> QED BY <1>2 DEF Queue!vars

\* Landing takes the file off that the notifier was told of.
LEMMA LandStutters == ASSUME TypeInv, land PROVE UNCHANGED Queue!vars
<1> DEFINE h == InHand("put")
<1>1. /\ h \in File /\ Flight' \in Seq(File) /\ Flight = <<h>> \o Flight'
  BY LandDropsFront
<1>2. at["put"] = "land" /\ at'["put"] # "land" /\ UNCHANGED <<lastSealed, stagedOffset, announced>>
  BY DEF land, buffer, offsets, outside, TypeInv, TypeOK, PipelineTypeOK, Stages
<1>3. Tail(Flight) = Flight'
  <2> DEFINE n == Len(Flight')
             t == Tail(Flight)
  <2>1. /\ Flight # <<>> /\ n \in Nat /\ Len(Flight) = n + 1
        /\ \A i \in 1..n : Flight[i + 1] = Flight'[i]
    BY <1>1, FrontProperties
  <2>2. Flight \in Seq(File)
    BY FlightTypes
  <2>3. t \in Seq(File) /\ Len(t) = n /\ \A i \in 1..n : t[i] = Flight'[i]
    BY <2>1, <2>2, HeadTailProperties
  <2> HIDE DEF t
  <2>4. t = Flight'
    BY <1>1, <2>3, SeqEqual
  <2> QED BY <2>4 DEF t
<1>4. Unannounced' = Unannounced
  BY <1>2, <1>3 DEF Unannounced
<1>5. Waiting' = Waiting
  BY <1>4 DEF Waiting
<1> QED BY <1>2, <1>5 DEF Queue!vars

\* Sealing numbers the file above all earlier ones, and its rows end above theirs.
LEMMA CutSeals ==
  ASSUME TypeInv, TypeInv', AscendInv, NumberInv, Cuts, announced' = announced
  PROVE  \E e \in 0..MaxOffset : Queue!Seal(e)
<1> DEFINE e == CutFile.end
           fs == Unannounced
<1>1. CutFile \in File
  BY CutFileType DEF Cuts, TypeInv, TypeOK
<1>2. Flight' = Append(Flight, CutFile) /\ at' = at /\ stagedOffset' = stagedOffset
      /\ lastSealed' = Serial(CutFile)
  BY <1>1, SealExtendsFlight DEF Cuts, Seal
<1>3. lastSealed' \in Nat /\ lastSealed' > lastSealed
  <2>1. Serial(CutFile) = Encode(epoch, nextSeq)
    BY CutNumber
  <2>2. lastSealed \in Int
    BY FlightSerials
  <2> QED BY <1>1, <1>2, <2>1, <2>2, SerialIsNat DEF NumberInv
<1>4. fs \in Seq(File) /\ Flight \in Seq(File) /\ (at["put"] = "land" => Flight # <<>>)
  BY UnannouncedType
<1>5. Unannounced' = Append(fs, CutFile)
  <2>1. CASE at["put"] = "land"
    <3>1. Tail(Append(Flight, CutFile)) = Append(Tail(Flight), CutFile)
      BY <1>1, <1>4, <2>1, TailOfAppend
    <3> QED BY <1>2, <2>1, <3>1 DEF Unannounced
  <2>2. CASE at["put"] # "land"
    BY <1>2, <2>2 DEF Unannounced
  <2> QED BY <2>1, <2>2
<1>6. PICK b \in buffered : e = b.end
  BY CutFileRows DEF Cuts
<1>7. e > stagedOffset \/ stagedOffset = Recovered
  <2>1. stagedOffset \in Int /\ e \in Int
    BY <1>1, LabelType, FlightSerials
  <2> QED BY <1>6, <2>1 DEF AscendInv
<1>8. \A i \in 1..Len(fs) : \E k \in 1..Len(Flight) : fs[i] = Flight[k]
  <2>1. CASE at["put"] = "land"
    <3>1. /\ Len(fs) = Len(Flight) - 1 /\ Len(Flight) \in Nat
          /\ \A i \in 1..Len(fs) : fs[i] = Flight[i + 1]
      BY <1>4, <2>1, HeadTailProperties, LenProperties DEF Unannounced
    <3>2. \A i \in 1..Len(fs) : i + 1 \in 1..Len(Flight)
      BY <3>1
    <3> QED BY <3>1, <3>2
  <2>2. CASE at["put"] # "land"
    BY <2>2 DEF Unannounced
  <2> QED BY <2>1, <2>2
<1>9. \A k \in 1..Len(Flight) : e > Flight[k].end
  <2>1. \A k \in 1..Len(Flight) : Flight[k].end < b.end
    BY <1>6 DEF AscendInv
  <2>2. \A k \in 1..Len(Flight) : Flight[k].end \in Int
    BY FlightSerials
  <2>3. e \in Int
    BY <1>1, LabelType
  <2> QED BY <1>6, <2>1, <2>2, <2>3
<1>10. \A i \in 1..Len(Waiting) : e > Waiting[i].end
  <2>1. Len(Waiting) = Len(fs) /\ \A i \in 1..Len(fs) : Waiting[i] = Label(fs[i])
    BY <1>4, LabelsType, WaitingLabels
  <2>2. \A i \in 1..Len(fs) : e > fs[i].end
    BY <1>8, <1>9
  <2>3. \A f : Label(f).end = f.end
    BY DEF Label
  <2> QED BY <2>1, <2>2, <2>3, Zenon
<1>11. Waiting' = Append(Waiting, [serial |-> lastSealed', end |-> e])
  <2>1. Waiting' = Labels(Append(fs, CutFile))
    BY <1>5 DEF Waiting, Labels
  <2> QED BY <1>1, <1>2, <1>4, <2>1, LabelsAppend, WaitingLabels DEF Label
<1>12. e \in 0..MaxOffset
  BY <1>1, LabelType
<1> QED BY <1>2, <1>3, <1>7, <1>10, <1>11, <1>12 DEF Queue!Seal

\* Recording announces the front file, and staged_offset follows it unless it is above.
LEMMA RecordAnnounces ==
  ASSUME TypeInv, record_durable PROVE Queue!Announce
<1> DEFINE h == InHand("put")
<1>1. /\ at["put"] = "landed" /\ at'["put"] = "land" /\ Flight' = Flight
      /\ lastSealed' = lastSealed /\ announced' = Append(announced, Serial(h))
      /\ stagedOffset' = Max({stagedOffset, h.end})
  BY SameFlight DEF record_durable, buffer, TypeInv, TypeOK, PipelineTypeOK, Stages
<1>2. h \in File /\ Flight # <<>> /\ Flight[1] = h /\ Flight \in Seq(File)
  BY <1>1, PutHoldsFront, FlightTypes
<1>3. Unannounced = Flight /\ Unannounced' = Tail(Flight)
  BY <1>1 DEF Unannounced
<1>4. /\ Waiting # <<>> /\ Head(Waiting) = Label(h) /\ Waiting' = Tail(Waiting)
  <2>1. Waiting = Labels(Flight) /\ Waiting' = Labels(Tail(Flight))
    BY <1>3 DEF Waiting, Labels
  <2> QED BY <1>2, <2>1, LabelsFront
<1>5. stagedOffset' = IF h.end > stagedOffset THEN h.end ELSE stagedOffset
  <2>1. stagedOffset \in Int /\ h.end \in Int
    BY <1>2, LabelType, FlightSerials
  <2> HIDE DEF h
  <2>2. \E m \in {stagedOffset, h.end} : \A y \in {stagedOffset, h.end} : m >= y
    BY <2>1
  <2>3. /\ stagedOffset' \in {stagedOffset, h.end}
        /\ stagedOffset' >= h.end /\ stagedOffset' >= stagedOffset
    BY <1>1, <2>2 DEF Max
  <2> QED BY <2>1, <2>3
<1>6. Head(Waiting).serial = Serial(h) /\ Head(Waiting).end = h.end
  BY <1>4 DEF Label
<1> HIDE DEF h
<1> QED BY <1>1, <1>4, <1>5, <1>6 DEF Queue!Announce

(***************************************************************************)
(* The refinement: whatever the stages, the callers, the ticker and a      *)
(* fence do, every step of the writer is a step of StagingQueue or a       *)
(* stutter.                                                                *)
(***************************************************************************)
THEOREM RotationIsQueue == Spec => RotatesAsQueue
<1> DEFINE Inv == OrderInv /\ GateInv /\ AnswerInv
<1>1. Init => Inv /\ Queue!Init
  <2> SUFFICES ASSUME Init PROVE Inv /\ Queue!Init
    OBVIOUS
  <2>1. Flight = <<>> /\ Len(Flight) = 0
    BY DEF Init, Flight, Stages
  <2>2. Unannounced = <<>>
    BY <2>1 DEF Init, Unannounced, Stages
  <2>3. Waiting = <<>>
    BY <2>2 DEF Waiting
  <2> QED BY <2>1, <2>3, InitTypeInv, InitOrder, InitGate, InitAnswer
         DEF Init, OrderInv, Queue!Init, NoOffset
<1>2. Inv /\ [Next]_vars => Inv' /\ [Queue!Next]_(Queue!vars)
  <2> SUFFICES ASSUME Inv, [Next]_vars PROVE Inv' /\ [Queue!Next]_(Queue!vars)
    OBVIOUS
  <2>1. TypeInv /\ AscendInv /\ LandedInv /\ NumberInv
    BY DEF OrderInv, GateInv, AnswerInv, FlushInv
  <2>2. Inv'
    BY <2>1, NextOrder, NextGate, NextAnswer
  <2>3. TypeInv'
    BY <2>2 DEF OrderInv
  <2>4. [Queue!Next]_(Queue!vars)
    <3>1. CASE record_durable
      BY <2>1, <2>2, <3>1, RecordAnnounces DEF Queue!Next
    <3>2. CASE land
      BY <2>1, <3>2, LandStutters
    <3>3. CASE announced' = announced /\ (at'["put"] = "land" <=> at["put"] = "land")
      <4>1. CASE Passes
        BY <2>1, <3>3, <4>1, PassStutters DEF Passes
      <4>2. CASE Rolls
        BY <2>1, <3>3, <4>2, PassStutters, SameFlight DEF Rolls, SealRefused
      <4>3. CASE Cuts
        BY <2>1, <2>3, <3>3, <4>3, CutSeals DEF Queue!Next
      <4> QED BY <2>1, <3>1, <3>2, <4>1, <4>2, <4>3, FileShapes DEF FileShape
    <3> QED BY <2>1, <3>1, <3>2, <3>3, AnnounceShape
  <2> QED BY <2>2, <2>4
<1> QED BY <1>1, <1>2, PTL DEF Spec, RotatesAsQueue, Queue!Spec

-----------------------------------------------------------------------------
(***************************************************************************)
(* What the writer inherits from StagingQueue.                             *)
(***************************************************************************)
\* Waiting as any sequence of entries: nothing of the pipeline is needed here.
LEMMA SealKeepsQueue ==
  ASSUME Queue!NumberedInv, NEW e \in 0..MaxOffset, Queue!Seal(e) PROVE Queue!NumberedInv'
<1> DEFINE n == Len(Waiting)
           x == [serial |-> lastSealed', end |-> e]
<1>1. /\ Waiting \in Seq(Entry) /\ announced \in Seq(Nat) /\ x \in Entry
      /\ Waiting' = Append(Waiting, x) /\ announced' = announced
      /\ lastSealed' \in Nat /\ lastSealed' > lastSealed /\ lastSealed \in Int
  BY DEF Queue!NumberedInv, Queue!Seal, Entry
<1> HIDE DEF x
<1>2. /\ n \in Nat /\ Waiting' \in Seq(Entry) /\ Len(Waiting') = n + 1 /\ Waiting'[n + 1] = x
      /\ \A i \in 1..n : Waiting'[i] = Waiting[i]
  BY <1>1, AppendProperties, LenProperties
<1>3. x.serial = lastSealed'
  BY DEF x
<1>4. /\ \A i \in 1..n : Waiting[i].serial \in Nat
      /\ \A i \in 1..Len(announced) : announced[i] \in Nat
  <2>1. \A i \in 1..n : Waiting[i] \in Entry
    BY <1>1, ElementOfSeq
  <2> QED BY <1>1, <2>1, ElementOfSeq DEF Entry
<1>5. \A i \in 1..n + 1 : i \in 1..n \/ i = n + 1
  BY <1>2
<1>6. /\ \A i \in 1..n : Waiting[i].serial < lastSealed'
      /\ \A i \in 1..Len(announced) : announced[i] < lastSealed'
  <2>1. /\ \A i \in 1..n : Waiting[i].serial <= lastSealed
        /\ \A i \in 1..Len(announced) : announced[i] <= lastSealed
    BY DEF Queue!NumberedInv
  <2> QED BY <1>1, <1>4, <2>1
<1>7. \A i \in 1..Len(announced), j \in 1..n + 1 : announced[i] < Waiting'[j].serial
  BY <1>2, <1>3, <1>5, <1>6 DEF Queue!NumberedInv, Queue!StrictlyOrdered
<1>8. \A i, j \in 1..n + 1 : i < j => Waiting'[i].serial < Waiting'[j].serial
  <2> SUFFICES ASSUME NEW i \in 1..n + 1, NEW j \in 1..n + 1, i < j
               PROVE  Waiting'[i].serial < Waiting'[j].serial
    OBVIOUS
  <2>1. i \in 1..n
    BY <1>2
  <2>2. CASE j = n + 1
    BY <1>2, <1>3, <1>6, <2>1, <2>2
  <2>3. CASE j \in 1..n
    BY <1>2, <2>1, <2>3 DEF Queue!NumberedInv
  <2> QED BY <1>5, <2>2, <2>3
<1>9. /\ \A i \in 1..n + 1 : Waiting'[i].serial <= lastSealed'
      /\ \A i \in 1..Len(announced) : announced[i] <= lastSealed'
  <2>1. \A i \in 1..n : Waiting'[i].serial <= lastSealed'
    <3> TAKE i \in 1..n
    <3>1. Waiting'[i] = Waiting[i] /\ Waiting[i].serial < lastSealed'
      BY <1>2, <1>6
    <3>2. Waiting[i].serial \in Int /\ lastSealed' \in Int
      BY <1>1, <1>4
    <3>3. Waiting[i].serial <= lastSealed'
      BY <3>1, <3>2
    <3> QED BY <3>1, <3>3, Zenon
  <2>2. Waiting'[n + 1].serial <= lastSealed'
    BY <1>1, <1>2, <1>3
  <2> QED BY <1>1, <1>4, <1>5, <1>6, <2>1, <2>2
<1> QED BY <1>1, <1>2, <1>7, <1>8, <1>9 DEF Queue!NumberedInv, Queue!StrictlyOrdered, Entry

LEMMA AnnounceKeepsQueue ==
  ASSUME Queue!NumberedInv, Queue!Announce PROVE Queue!NumberedInv'
<1> DEFINE n == Len(Waiting)
           m == Len(announced)
           h == Waiting[1].serial
<1>1. /\ Waiting \in Seq(Entry) /\ Waiting # <<>> /\ announced \in Seq(Nat)
      /\ Waiting' = Tail(Waiting) /\ announced' = Append(announced, Head(Waiting).serial)
      /\ lastSealed' = lastSealed /\ lastSealed \in Int
  BY DEF Queue!NumberedInv, Queue!Announce, Entry
<1>2. /\ n \in Nat \ {0} /\ Waiting' \in Seq(Entry) /\ Len(Waiting') = n - 1
      /\ \A i \in 1..n - 1 : Waiting'[i] = Waiting[i + 1]
  BY <1>1, EmptySeq, HeadTailProperties
<1>3. Head(Waiting) = Waiting[1]
  BY <1>1
<1>4. \A i \in 1..n : Waiting[i].serial \in Nat
  <2>1. \A i \in 1..n : Waiting[i] \in Entry
    BY <1>1, ElementOfSeq
  <2> QED BY <2>1 DEF Entry
<1>5. 1 \in 1..n /\ h \in Nat
  BY <1>2, <1>4
<1>6. /\ m \in Nat /\ announced' \in Seq(Nat) /\ Len(announced') = m + 1 /\ announced'[m + 1] = h
      /\ \A i \in 1..m : announced'[i] = announced[i]
  BY <1>1, <1>3, <1>5, AppendProperties, LenProperties
<1> HIDE DEF h
<1>7. \A i \in 1..m + 1 : i \in 1..m \/ i = m + 1
  BY <1>6
<1>8. \A i \in 1..n - 1 : i + 1 \in 1..n /\ 1 < i + 1
  BY <1>2
<1>9. /\ \A i \in 1..m : announced[i] < h
      /\ \A j \in 1..n - 1 : h < Waiting'[j].serial
      /\ h <= lastSealed
  BY <1>2, <1>5, <1>8 DEF h, Queue!NumberedInv, Queue!StrictlyOrdered
<1>10. \A i, j \in 1..m + 1 : i < j => announced'[i] < announced'[j]
  <2> SUFFICES ASSUME NEW i \in 1..m + 1, NEW j \in 1..m + 1, i < j
               PROVE  announced'[i] < announced'[j]
    OBVIOUS
  <2>1. i \in 1..m
    BY <1>6
  <2>2. CASE j = m + 1
    BY <1>6, <1>9, <2>1, <2>2
  <2>3. CASE j \in 1..m
    BY <1>6, <2>1, <2>3 DEF Queue!NumberedInv, Queue!StrictlyOrdered
  <2> QED BY <1>7, <2>2, <2>3
<1>11. \A i \in 1..m + 1, j \in 1..n - 1 : announced'[i] < Waiting'[j].serial
  <2> SUFFICES ASSUME NEW i \in 1..m + 1, NEW j \in 1..n - 1
               PROVE  announced'[i] < Waiting'[j].serial
    OBVIOUS
  <2>1. CASE i = m + 1
    BY <1>6, <1>9, <2>1
  <2>2. CASE i \in 1..m
    BY <1>2, <1>6, <1>8, <2>2 DEF Queue!NumberedInv, Queue!StrictlyOrdered
  <2> QED BY <1>7, <2>1, <2>2
<1>12. \A i, j \in 1..n - 1 : i < j => Waiting'[i].serial < Waiting'[j].serial
  <2> SUFFICES ASSUME NEW i \in 1..n - 1, NEW j \in 1..n - 1, i < j
               PROVE  Waiting'[i].serial < Waiting'[j].serial
    OBVIOUS
  <2>1. i + 1 \in 1..n /\ j + 1 \in 1..n /\ i + 1 < j + 1
    BY <1>8
  <2> QED BY <1>2, <2>1 DEF Queue!NumberedInv
<1>13. /\ \A i \in 1..n - 1 : Waiting'[i].serial <= lastSealed
       /\ \A i \in 1..m + 1 : announced'[i] <= lastSealed
  BY <1>2, <1>6, <1>7, <1>8, <1>9 DEF Queue!NumberedInv
<1> QED BY <1>1, <1>2, <1>6, <1>10, <1>11, <1>12, <1>13
       DEF Queue!NumberedInv, Queue!StrictlyOrdered, Entry

(***************************************************************************)
(* "Files reach the put stage, and therefore the notify queue, in          *)
(* increasing seq" (head of table.rs): whatever fails, is retried,         *)
(* cancelled or fenced, and across an epoch roll, the notifier is handed   *)
(* strictly increasing numbers, and none that is still in the pipeline is  *)
(* below one it was handed.                                                *)
(***************************************************************************)
THEOREM AnnouncedInOrder == Spec => []Queue!StrictlyOrdered
<1>1. Queue!Init => Queue!NumberedInv
  <2> SUFFICES ASSUME Queue!Init PROVE Queue!NumberedInv
    OBVIOUS
  <2>1. Waiting = <<>> /\ announced = <<>> /\ lastSealed = -1
    BY DEF Queue!Init
  <2> QED BY <2>1, EmptySeq DEF Queue!NumberedInv, Queue!StrictlyOrdered
<1>2. Queue!NumberedInv /\ [Queue!Next]_(Queue!vars) => Queue!NumberedInv'
  BY SealKeepsQueue, AnnounceKeepsQueue
     DEF Queue!Next, Queue!vars, Queue!NumberedInv, Queue!StrictlyOrdered
<1>3. Queue!NumberedInv => Queue!StrictlyOrdered
  BY DEF Queue!NumberedInv
<1>4. Queue!Spec => []Queue!StrictlyOrdered
  BY <1>1, <1>2, <1>3, PTL DEF Queue!Spec
<1> QED BY <1>4, RotationIsQueue, PTL DEF RotatesAsQueue

\* A number the notifier was handed belongs to a file on storage.
AnnouncedIsStored == \A i \in 1..Len(announced) : \E f \in stored : Serial(f) = announced[i]

(***************************************************************************)
(* "durable before announced" (head of table.rs): the notify request is    *)
(* enqueued only for a file that is on storage, and it stays there.        *)
(***************************************************************************)
THEOREM DurableBeforeAnnounced == Spec => []AnnouncedIsStored
<1> DEFINE Inv == OrderInv /\ GateInv /\ AnnouncedIsStored
<1>1. Init => Inv
  <2>1. Init => AnnouncedIsStored
    BY EmptySeq DEF Init, AnnouncedIsStored
  <2> QED BY <2>1, InitTypeInv, InitOrder, InitGate DEF OrderInv
<1>2. Inv /\ [Next]_vars => Inv'
  <2> SUFFICES ASSUME Inv, [Next]_vars PROVE AnnouncedIsStored'
    BY NextOrder, NextGate
  <2>1. TypeInv /\ LandedInv /\ announced \in Seq(Int)
    BY DEF OrderInv, GateInv, TypeInv, TypeOK, StatusTypeOK
  <2>2. stored \subseteq stored'
    BY <2>1, StoredStays DEF vars, outside
  <2>3. CASE announced' = announced
    BY <2>2, <2>3 DEF AnnouncedIsStored
  <2>4. CASE record_durable
    <3> DEFINE m == Len(announced)
    <3>1. /\ announced' = Append(announced, Serial(InHand("put"))) /\ stored' = stored
          /\ InHand("put") \in stored /\ InHand("put") \in File
      BY <2>1, <2>4, PutHoldsFront DEF record_durable, LandedInv
    <3>2. /\ m \in Nat /\ Len(announced') = m + 1 /\ announced'[m + 1] = Serial(InHand("put"))
          /\ \A i \in 1..m : announced'[i] = announced[i]
      BY <2>1, <3>1, SerialType, AppendProperties, LenProperties
    <3>3. \A i \in 1..m + 1 : i \in 1..m \/ i = m + 1
      BY <3>2
    <3> QED BY <3>1, <3>2, <3>3 DEF AnnouncedIsStored
  <2>5. CASE land
    BY <2>3, <2>5 DEF land, outside
  <2> QED BY <2>1, <2>3, <2>4, <2>5, AnnounceShape
<1> QED BY <1>1, <1>2, PTL DEF Spec

=============================================================================
