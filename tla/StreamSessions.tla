--------------------------- MODULE StreamSessions ---------------------------
(***************************************************************************)
(* One stream (one table and writer_id) through the sessions that write    *)
(* it: open_table's recovery (src/client.rs, src/recovery.rs), the files a *)
(* session stages, the notify queue (src/notify.rs), state.json            *)
(* (src/state.rs, persist_state_if_due) and the GC (gc_pass), across       *)
(* crashes, reopens in the same process and a lease taken over from a      *)
(* writer that does not know it yet.                                       *)
(*                                                                         *)
(* A session is one TableWriter.  What RotationPipeline says about the     *)
(* inside of a session is used here: files leave the put stage in the      *)
(* order they were sealed.  Buffered rows touch neither staging nor the    *)
(* server, so an append is part of the Seal that cuts it.  The server and  *)
(* its gate are not in this repository: Submit and Load are what notify.rs *)
(* and recovery.rs rely on.                                                *)
(***************************************************************************)
EXTENDS SerialSeq, Sequences, SequencesExt

CONSTANTS
  MaxSessions,  \* sessions of the stream in this instance
  MaxOffset,    \* last Kafka offset of the partition
  MinFiles,     \* gc_retain_min_files
  Clock,        \* what the wall clock may read when a session is opened
  Events        \* what may happen to the stream in this instance

ASSUME SessionsAssumption == MaxSessions \in Nat \ {0}

ASSUME StreamAssumption == MaxOffset \in Nat /\ MinFiles \in Nat

ASSUME StreamEventsAssumption ==
  Events \subseteq {"crash", "drop", "close", "reopen", "preempt", "noudf", "gc", "openFails",
                    "writeFails"}

ASSUME ClockAssumption == Clock \subseteq Nat

VARIABLES
  session,   \* per session, its TableWriter and the open_table that made it
  notifier,  \* per process, the Notifier: its queue and what it saw confirmed
  holder,    \* whose lease object is on staging, NoSession if there is none
  stored,    \* staged files
  state,     \* state.json: <<>> or <<record>>
  accepted,  \* files the server has a job for
  loaded     \* those whose job is terminal

vars == <<session, notifier, holder, stored, state, accepted, loaded>>

storage == <<stored, state>>
server  == <<accepted, loaded>>

-----------------------------------------------------------------------------
Sessions == 1..MaxSessions

NoSession == 0

NoOffset == -1

NoSerial == -1

Offset == 0..MaxOffset

\* A staged file's name: epoch, seq, and the offset range it covers.
File == [epoch : 0..MaxEpoch, seq : 0..MaxSeq, start : Offset, end : Offset]

Serial(f) == Encode(f.epoch, f.seq)

\* decode_serial_seq's epoch.
EpochOf(serial) == serial \div (MaxSeq + 1)

StateFile == [resume_offset : Offset \cup {NoOffset}, max_epoch_used : 0..MaxEpoch]

\* What open_table has read so far.
Seen ==
  [state : Seq(StateFile), mark : Int, staged : SUBSET File]

NothingSeen == [state |-> <<>>, mark |-> NoSerial, staged |-> {}]

(***************************************************************************)
(* pc: "none" (not opened), the steps of open_table, "run", "gone".  A     *)
(* writer whose handle was dropped runs on while one of its tasks holds    *)
(* it; it is "gone" when the last of them lets go.                         *)
(***************************************************************************)
Opening == {"locked", "state", "mark", "listed", "written"}

NewSession ==
  [pc |-> "none", proc |-> NoSession, seen |-> NothingSeen, fenced |-> FALSE,
   epoch |-> 0, nextSeq |-> 0,
   from |-> 0,             \* first offset not cut into a file of this session
   flight |-> <<>>,        \* sealed files, in order
   put |-> <<>>,           \* the file being put
   landed |-> FALSE,       \* it is on storage
   staged |-> NoOffset,    \* staged_offset
   persisted |-> NoOffset, \* resume_persisted
   writing |-> <<>>]       \* the state.json write in flight

NewNotifier == [up |-> FALSE, queue |-> <<>>, confirmed |-> <<NoSerial, NoOffset>>]

Init ==
  /\ session = [s \in Sessions |-> NewSession]
  /\ notifier = [p \in Sessions |-> NewNotifier]
  /\ holder = NoSession
  /\ stored = {} /\ state = <<>> /\ accepted = {} /\ loaded = {}

Proc(s) == notifier[session[s].proc]

Running(s) == session[s].pc = "run"

\* What is left of a session whose writer is gone.
Gone == [NewSession EXCEPT !.pc = "gone"]

Released(s) == IF holder = s THEN NoSession ELSE holder

\* The last session of an instance is not stopped: the application comes back.
Spare == session[MaxSessions].pc = "none"

-----------------------------------------------------------------------------
(***************************************************************************)
(* The server: the group's watermark, the submission gate, the loads.      *)
(***************************************************************************)
Watermark == IF loaded = {} THEN NoSerial ELSE Max({Serial(f) : f \in loaded})

\* Replays (at or below the watermark) and known identifiers are swallowed.
Gate(f) ==
  IF Serial(f) <= Watermark \/ \E g \in accepted : Serial(g) = Serial(f)
    THEN accepted ELSE accepted \cup {f}

\* Jobs of one group run one at a time, in serial order.
Load ==
  \E f \in accepted \ loaded :
    /\ \A g \in accepted \ loaded : Serial(f) <= Serial(g)
    /\ loaded' = loaded \cup {f}
    /\ UNCHANGED <<session, notifier, holder, storage, accepted>>

-----------------------------------------------------------------------------
(***************************************************************************)
(* notify_loop: submit the head of the queue until the server answers.     *)
(***************************************************************************)
Confirmed(c, f) == IF Serial(f) >= c[1] THEN <<Serial(f), f.end>> ELSE c

\* Mutant: the loop moves on to the next file when no answer came.
SubmitMovesOn(p, answered) ==
  /\ notifier[p].queue # <<>>
  /\ LET f == Head(notifier[p].queue)
     IN  /\ accepted' = IF answered THEN Gate(f) ELSE accepted
         /\ notifier' =
              [notifier EXCEPT ![p].queue = Tail(@), ![p].confirmed = Confirmed(@, f)]
  /\ UNCHANGED <<session, holder, storage, loaded>>

\* The answer may be lost: the server has acted, the loop tries again.
Submit(p, answered) ==
  /\ notifier[p].queue # <<>>
  /\ LET f == Head(notifier[p].queue)
     IN  /\ accepted' = Gate(f)
         /\ notifier' = IF answered
              THEN [notifier EXCEPT ![p].queue = Tail(@), ![p].confirmed = Confirmed(@, f)]
              ELSE notifier
  /\ UNCHANGED <<session, holder, storage, loaded>>

Enqueued(p, files) == [notifier EXCEPT ![p].queue = @ \o files]

-----------------------------------------------------------------------------
(***************************************************************************)
(* open_table.  The lease is free, its holder is provably dead or its      *)
(* heartbeats have stopped; "preempt" is a holder that is alive, but was   *)
(* paused or could not reach storage for lock_lease_timeout.  The process  *)
(* is a new one, or one that ran an earlier session.                       *)
(***************************************************************************)
LeaseFree ==
  \/ holder \in {NoSession} \cup {s \in Sessions : session[s].pc = "gone"}
  \/ "preempt" \in Events

Open(s, p) ==
  /\ session[s].pc = "none"
  /\ \A r \in Sessions : r < s => session[r].pc \notin Opening \cup {"none"}
  /\ LeaseFree
  /\ p = s \/ ("reopen" \in Events /\ p < s /\ notifier[p].up)
  /\ holder' = s
  /\ session' = [session EXCEPT ![s].pc = "locked", ![s].proc = p]
  /\ notifier' = [notifier EXCEPT ![p].up = TRUE]
  /\ UNCHANGED <<storage, server>>

ReadState(s) ==
  /\ session[s].pc = "locked"
  /\ session' = [session EXCEPT ![s].pc = "state", ![s].seen.state = state]
  /\ UNCHANGED <<notifier, holder, storage, server>>

\* A server without the function has no watermark to tell.
ReadWatermark(s, known) ==
  /\ session[s].pc = "state"
  /\ known \/ "noudf" \in Events
  /\ session' = [session EXCEPT ![s].pc = "mark",
                                ![s].seen.mark = IF known THEN Watermark ELSE NoSerial]
  /\ UNCHANGED <<notifier, holder, storage, server>>

List(s) ==
  /\ session[s].pc = "mark"
  /\ session' = [session EXCEPT ![s].pc = "listed", ![s].seen.staged = stored]
  /\ UNCHANGED <<notifier, holder, storage, server>>

-----------------------------------------------------------------------------
(***************************************************************************)
(* plan_recovery, the resume position and the epoch of the new session.    *)
(***************************************************************************)
\* Mutant: a state.json, where there is one, wins over the listing.
PlanResumeRecorded(seen) ==
  IF seen.state # <<>> THEN seen.state[1].resume_offset + 1
  ELSE IF seen.staged = {} THEN 0 ELSE Max({f.end : f \in seen.staged}) + 1

PlanResume(seen) ==
  LET listed == IF seen.staged = {} THEN NoOffset ELSE Max({f.end : f \in seen.staged})
      recorded == IF seen.state = <<>> THEN NoOffset ELSE seen.state[1].resume_offset
  IN  Max({listed, recorded}) + 1

\* A set of files as a sequence, oldest first.
OldestFirst(files) ==
  CHOOSE q \in SetToSeqs(files) : \A i, j \in DOMAIN q : i < j => Serial(q[i]) <= Serial(q[j])

\* Mutant: the files are notified again newest first.
PlanBackfillReversed(seen) == Reverse(OldestFirst({f \in seen.staged : Serial(f) > seen.mark}))

\* Mutant: the backfill stops at the epoch of the watermark.
PlanBackfillSameEpoch(seen) == OldestFirst({f \in seen.staged : f.epoch > EpochOf(seen.mark)})

PlanBackfill(seen) == OldestFirst({f \in seen.staged : Serial(f) > seen.mark})

\* Mutant: staging is not an anchor.
AnchorsWithoutList(seen) ==
  IF seen.mark = NoSerial THEN {} ELSE {EpochOf(seen.mark)}

\* The epochs a new session must be above.
Anchors(seen) ==
  {f.epoch : f \in seen.staged}
    \cup (IF seen.mark = NoSerial THEN {} ELSE {EpochOf(seen.mark)})
    \cup {seen.state[i].max_epoch_used : i \in DOMAIN seen.state}

next_epoch(now, anchors) ==
  IF anchors # {} /\ now <= Max(anchors) THEN Max(anchors) + 1 ELSE now

-----------------------------------------------------------------------------
\* The epoch is chosen, by whatever the clock says, and made durable.
WriteState(s, now) ==
  /\ session[s].pc = "listed"
  /\ LET seen == session[s].seen
         e == next_epoch(now, Anchors(seen))
         resume == IF seen.state = <<>> THEN NoOffset ELSE seen.state[1].resume_offset
     IN  /\ Encodable(e, 0)
         /\ state' = <<[resume_offset |-> resume, max_epoch_used |-> e]>>
         /\ session' = [session EXCEPT ![s].pc = "written", ![s].epoch = e,
                                       ![s].persisted = resume]
  /\ UNCHANGED <<notifier, holder, stored, server>>

\* The backfill is enqueued and the writer constructed.
Start(s) ==
  /\ session[s].pc = "written"
  /\ LET seen == session[s].seen
     IN  /\ notifier' = Enqueued(session[s].proc, PlanBackfill(seen))
         /\ session' = [session EXCEPT ![s].pc = "run", ![s].seen = NothingSeen,
                                       ![s].from = PlanResume(seen),
                                       ![s].staged = PlanResume(seen) - 1]
  /\ UNCHANGED <<holder, storage, server>>

\* A read or a write failed, or the epoch does not fit: the lease is given back.
OpenFails(s) ==
  /\ "openFails" \in Events /\ Spare
  /\ session[s].pc \in Opening
  /\ session' = [session EXCEPT ![s] = Gone]
  /\ holder' = Released(s)
  /\ UNCHANGED <<notifier, storage, server>>

-----------------------------------------------------------------------------
(***************************************************************************)
(* A running session.                                                      *)
(***************************************************************************)
\* Mutant: the encoding is not checked.
SealUnchecked(s, e) ==
  /\ Running(s) /\ ~session[s].fenced
  /\ session[s].from <= e
  /\ LET slot == Rolled(session[s].epoch, session[s].nextSeq)
         f == [epoch |-> slot[1], seq |-> slot[2], start |-> session[s].from, end |-> e]
     IN  session' = [session EXCEPT ![s].epoch = slot[1], ![s].nextSeq = slot[2] + 1,
                                    ![s].from = e + 1, ![s].flight = Append(@, f)]
  /\ UNCHANGED <<notifier, holder, storage, server>>

\* Rows up to offset e are appended, and the buffer is cut into a file.
Seal(s, e) ==
  /\ Running(s) /\ ~session[s].fenced
  /\ session[s].from <= e
  /\ LET slot == Rolled(session[s].epoch, session[s].nextSeq)
         f == [epoch |-> slot[1], seq |-> slot[2], start |-> session[s].from, end |-> e]
     IN  /\ Encodable(slot[1], slot[2])
         /\ session' = [session EXCEPT ![s].epoch = slot[1], ![s].nextSeq = slot[2] + 1,
                                       ![s].from = e + 1, ![s].flight = Append(@, f)]
  /\ UNCHANGED <<notifier, holder, storage, server>>

\* put_stage: not fenced when it looked.
StartPut(s) ==
  /\ Running(s) /\ ~session[s].fenced
  /\ session[s].put = <<>> /\ session[s].flight # <<>>
  /\ session' = [session EXCEPT ![s].put = <<Head(session[s].flight)>>,
                                ![s].flight = Tail(@)]
  /\ UNCHANGED <<notifier, holder, storage, server>>

Land(s) ==
  /\ session[s].put # <<>> /\ ~session[s].landed
  /\ stored' = stored \cup {session[s].put[1]}
  /\ session' = [session EXCEPT ![s].landed = TRUE]
  /\ UNCHANGED <<notifier, holder, state, server>>

\* The put returned and the writer is still not fenced: record_durable.
Record(s) ==
  /\ Running(s) /\ ~session[s].fenced
  /\ session[s].put # <<>> /\ session[s].landed
  /\ LET f == session[s].put[1]
     IN  /\ session' = [session EXCEPT ![s].put = <<>>, ![s].landed = FALSE,
                                       ![s].staged = Max({@, f.end})]
         /\ notifier' = Enqueued(session[s].proc, <<f>>)
  /\ UNCHANGED <<holder, storage, server>>

\* fenced_exit: the stage drops what it holds, landed or not.
Abandon(s) ==
  /\ Running(s) /\ session[s].fenced
  /\ session[s].put # <<>> \/ session[s].flight # <<>>
  /\ session' = [session EXCEPT ![s].put = <<>>, ![s].landed = FALSE, ![s].flight = <<>>]
  /\ UNCHANGED <<notifier, holder, storage, server>>

\* The heartbeat reads the lease back and it is someone else's, or deleted; or
\* it could neither read nor renew it for a whole lock_lease_timeout.
Fence(s) ==
  /\ Running(s) /\ ~session[s].fenced
  /\ holder # s \/ "preempt" \in Events
  /\ session' = [session EXCEPT ![s].fenced = TRUE]
  /\ UNCHANGED <<notifier, holder, storage, server>>

-----------------------------------------------------------------------------
(***************************************************************************)
(* state.json: what is written is decided, then the write travels.  The    *)
(* heartbeat makes a write due at any time, confirmed files or not.        *)
(***************************************************************************)
\* Mutant: what is staged is recorded, accepted by the server or not.
StateOfStaged(s) ==
  [resume_offset |-> session[s].staged, max_epoch_used |-> session[s].epoch]

StateOf(s) ==
  [resume_offset |-> Max({Proc(s).confirmed[2], session[s].persisted}),
   max_epoch_used |-> session[s].epoch]

PersistState(s) ==
  /\ Running(s) /\ ~session[s].fenced
  /\ session[s].writing = <<>>
  /\ session' = [session EXCEPT ![s].writing = <<StateOf(s)>>]
  /\ UNCHANGED <<notifier, holder, storage, server>>

StateWritten(s) ==
  /\ session[s].writing # <<>>
  /\ state' = session[s].writing
  /\ session' = [session EXCEPT ![s].writing = <<>>,
                                ![s].persisted = session[s].writing[1].resume_offset]
  /\ UNCHANGED <<notifier, holder, stored, server>>

StateWriteFails(s) ==
  /\ "writeFails" \in Events
  /\ session[s].writing # <<>>
  /\ session' = [session EXCEPT ![s].writing = <<>>]
  /\ UNCHANGED <<notifier, holder, storage, server>>

-----------------------------------------------------------------------------
(***************************************************************************)
(* How a session ends.                                                     *)
(***************************************************************************)
\* close: drained, state.json refreshed (or not: not fatal), lease released
\* (or not: best effort).  The ticker may still have a write under way.
Close(s, written, released) ==
  /\ "close" \in Events /\ Spare
  /\ Running(s) /\ ~session[s].fenced
  /\ session[s].flight = <<>> /\ session[s].put = <<>>
  /\ state' = IF written THEN <<StateOf(s)>> ELSE state
  /\ holder' = IF released THEN Released(s) ELSE holder
  /\ session' = [session EXCEPT ![s] = [Gone EXCEPT !.proc = session[s].proc,
                                                    !.writing = session[s].writing]]
  /\ UNCHANGED <<notifier, stored, server>>

\* The last task of a dropped writer lets go of it; the heartbeat, if it has
\* not fenced the writer, releases the lease.
Drop(s) ==
  /\ "drop" \in Events /\ Spare
  /\ Running(s)
  /\ session[s].put = <<>> \/ session[s].landed
  /\ session[s].writing = <<>>
  /\ session' = [session EXCEPT ![s] = Gone]
  /\ holder' = IF session[s].fenced THEN holder ELSE Released(s)
  /\ UNCHANGED <<notifier, storage, server>>

\* A process dies with its sessions, its queue and what it saw confirmed.
Crash(p) ==
  /\ "crash" \in Events /\ Spare
  /\ notifier[p].up
  /\ notifier' = [notifier EXCEPT ![p] = NewNotifier]
  /\ session' = [s \in Sessions |->
                   IF session[s].pc # "none" /\ session[s].proc = p THEN Gone ELSE session[s]]
  /\ UNCHANGED <<holder, storage, server>>

-----------------------------------------------------------------------------
\* Mutant: the newest file is not spared.
Collectable == {f \in stored : Serial(f) <= Watermark}

\* Files a GC pass may delete: consumed, and not the newest one.
Deletable == {f \in stored : Serial(f) <= Watermark /\ \E g \in stored : Serial(f) < Serial(g)}

\* gc_pass deletes the oldest of them; gc_retain_days may or may not spare it.
\* Nothing ends a pass under way: it may outlive the close, the drop or the
\* fence of its writer.
Collect(s) ==
  /\ "gc" \in Events
  /\ session[s].pc \in {"run", "gone"}
  /\ Cardinality(stored) > MinFiles
  /\ \E f \in Deletable :
       /\ \A g \in Deletable : Serial(f) <= Serial(g)
       /\ stored' = stored \ {f}
  /\ UNCHANGED <<session, notifier, holder, state, server>>

-----------------------------------------------------------------------------
OpenStep(s) ==
  \/ ReadState(s) \/ ReadWatermark(s, TRUE) \/ List(s)
  \/ \E now \in Clock : WriteState(s, now)
  \/ Start(s)

PutStep(s) == StartPut(s) \/ Land(s) \/ Record(s) \/ Abandon(s)

StateStep(s) == PersistState(s) \/ StateWritten(s) \/ StateWriteFails(s)

Stop(s) ==
  \/ OpenFails(s) \/ Drop(s) \/ Crash(s)
  \/ \E written, released \in BOOLEAN : Close(s, written, released)

SessionStep(s) ==
  \/ \E p \in Sessions : Open(s, p)
  \/ OpenStep(s) \/ ReadWatermark(s, FALSE)
  \/ \E e \in Offset : Seal(s, e)
  \/ PutStep(s) \/ StateStep(s) \/ Fence(s) \/ Collect(s) \/ Stop(s)

Next ==
  \/ \E s \in Sessions : SessionStep(s)
  \/ \E p \in Sessions, answered \in BOOLEAN : Submit(p, answered)
  \/ Load

Spec == Init /\ [][Next]_vars

(***************************************************************************)
(* The application opens the stream again after a stop, tasks run, a put   *)
(* and a submission are answered in the end, and the server works.         *)
(***************************************************************************)
Fairness ==
  /\ \A s \in Sessions :
       WF_vars(\E p \in Sessions : Open(s, p)) /\ WF_vars(OpenStep(s)) /\ WF_vars(PutStep(s))
  /\ \A p \in Sessions : WF_vars(Submit(p, TRUE))
  /\ WF_vars(Load)

FairSpec == Spec /\ Fairness

-----------------------------------------------------------------------------
(***************************************************************************)
(* Properties.                                                             *)
(***************************************************************************)
SessionPcs == Opening \cup {"none", "run", "gone"}

Session ==
  [pc : SessionPcs, proc : 0..MaxSessions, seen : Seen, fenced : BOOLEAN,
   epoch : 0..MaxEpoch, nextSeq : 0..MaxSeq + 1, from : 0..MaxOffset + 1,
   flight : Seq(File), put : Seq(File), landed : BOOLEAN,
   staged : Offset \cup {NoOffset}, persisted : Offset \cup {NoOffset},
   writing : Seq(StateFile)]

NotifierType == [up : BOOLEAN, queue : Seq(File), confirmed : Int \X (Offset \cup {NoOffset})]

Covers(files, o) == \E f \in files : f.start <= o /\ o <= f.end

(***************************************************************************)
(* Every variable has its type; the server only loads what it accepted.    *)
(***************************************************************************)
StreamTypeOK ==
  /\ session \in [Sessions -> Session]
  /\ notifier \in [Sessions -> NotifierType]
  /\ holder \in 0..MaxSessions
  /\ stored \subseteq File /\ state \in Seq(StateFile) /\ Len(state) <= 1
  /\ accepted \subseteq File /\ loaded \subseteq accepted

(***************************************************************************)
(* No rows are skipped: every offset the holder of the lease takes to be   *)
(* staged (and lets the application commit) is in a job the server has     *)
(* accepted, or in a staged file the gate has not closed on.  A session    *)
(* that resumes too far, a backfill that leaves a file out, or a watermark *)
(* that runs past a file nobody submitted would lose rows silently.        *)
(***************************************************************************)
OffsetsAreOwned ==
  \A s \in Sessions : Running(s) /\ holder = s =>
    \A o \in 0..session[s].staged :
      Covers(accepted \cup {f \in stored : Serial(f) > Watermark}, o)

(***************************************************************************)
(* GUIDE: "the files of one writer are loaded strictly in order and        *)
(* exactly once".  The sessions implement LoadedStream: what the next      *)
(* session would resume behind never goes back, and each file the server   *)
(* loads begins right where the rows loaded before it end.                 *)
(***************************************************************************)
\* The last offset a later session would find on staging or in state.json.
Durable ==
  Max({f.end : f \in stored} \cup {state[i].resume_offset : i \in DOMAIN state} \cup {NoOffset})

Stream == INSTANCE LoadedStream WITH Batch <- File, durable <- Durable, jobs <- loaded

LoadedInOrder == Stream!Spec

(***************************************************************************)
(* state.rs: resume_offset "must never lead what the server confirmed":    *)
(* recovery may skip everything up to it, so the server must own it.       *)
(***************************************************************************)
ResumeIsAccepted ==
  \A i \in DOMAIN state : \A o \in 0..state[i].resume_offset : Covers(accepted, o)

(***************************************************************************)
(* Two files never share a serial_seq, whatever the clock says, across     *)
(* sessions, epoch rolls and the GC: the server would take the second for  *)
(* a replay of the first.                                                  *)
(***************************************************************************)
AllFiles ==
  stored \cup accepted
    \cup UNION {ToSet(session[s].flight) \cup ToSet(session[s].put) : s \in Sessions}

SerialsAreFresh == \A f, g \in AllFiles : Serial(f) = Serial(g) => f = g

(***************************************************************************)
(* Were every process to die now, the next session would resume right      *)
(* where staging ends: not behind it (rows loaded twice), whatever the GC  *)
(* has deleted and however old state.json is.                              *)
(***************************************************************************)
ResumeCoversStaged ==
  \A s \in Sessions : Running(s) =>
    PlanResume([state |-> state, mark |-> Watermark, staged |-> stored]) > session[s].staged

(***************************************************************************)
(* The server catches up: again and again, everything on staging has been  *)
(* loaded.  Loads are never undone, so every file that reaches staging is  *)
(* loaded, through whatever crashes, lost answers and failed opens: by the *)
(* session that staged it or by a later one's backfill.                    *)
(***************************************************************************)
StagedIsLoaded == []<>(stored \subseteq loaded)

=============================================================================
