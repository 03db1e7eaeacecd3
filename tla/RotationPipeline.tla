-------------------------- MODULE RotationPipeline --------------------------
(***************************************************************************)
(* One TableWriter (src/table.rs): the caller's tasks inside append,       *)
(* flush and close, the ticker, and the render -> gzip -> put stages that  *)
(* turn the buffer into staged files.  The lease, state.json and the       *)
(* notify loop are other components: here they are the steps Fence and     *)
(* SerialFatal they take on this writer, and the queue `announced` this    *)
(* writer feeds.                                                           *)
(*                                                                         *)
(* An Option<i64> that is None is NoOffset.  The batches a file is cut     *)
(* from are its `rows`; Arrow data, sizes, timings and log lines are left  *)
(* out, so "the size threshold is reached" is a free choice in Append.     *)
(***************************************************************************)
EXTENDS SerialSeq, Sequences, FiniteSetsExt

CONSTANTS
  Tasks,       \* the caller's tasks that share the writer
  Appender,    \* the one that appends ("call this serially, from one task")
  MaxOffset,   \* highest Kafka offset of the instance
  Recovered,   \* kafka_resume_offset - 1 of the open_table that made the writer, or -1
  Batches,     \* the offset ranges the application has to append
  Depth,       \* rotation_queue_depth
  StallAfter,  \* staging_error_after_attempts
  Gzip,        \* staging_compression is Gzip
  Events       \* what may happen to the writer in this instance

ASSUME TasksAssumption == Appender \in Tasks /\ Tasks \cap {"free", "ticker"} = {}

ASSUME OffsetAssumption ==
  /\ MaxOffset \in Nat
  /\ Batches \subseteq {b \in [start : 0..MaxOffset, end : 0..MaxOffset] : b.start <= b.end}

ASSUME RecoveredAssumption == Recovered \in -1..MaxOffset

ASSUME DepthAssumption == Depth \in Nat \ {0}

ASSUME StallAssumption == StallAfter \in Nat \ {0}

ASSUME GzipAssumption == Gzip \in BOOLEAN

ASSUME EventsAssumption ==
  Events \subseteq {"age", "fence", "serial", "reject", "cancel", "close", "drop", "misuse"}

VARIABLES
  buffered,      \* WriterState.buffered: the batches not yet cut into a file
  aged,          \* the oldest of them is past rotate_interval_max
  epoch,         \* WriterState.epoch_ms
  nextSeq,       \* WriterState.next_seq
  lastSealed,    \* WriterState.last_sealed_seq
  maxEnd,        \* WriterState.max_end_offset
  stagedOffset,  \* WriterState.staged_offset
  sealLock,      \* Pipeline.seal_lock: a task, "ticker" or "free"
  call,          \* per caller task, the future it is polling
  ticker,        \* the ticker task: "tick", "seal" or "exited"
  at,            \* per stage, where its loop is
  inbox,         \* per stage, the channel it receives from
  hand,          \* per stage, the file it works on (at most one)
  tries,         \* per stage, `attempt` for that file, capped at StallAfter
  prev,          \* put_stage's `prev`: <<>> or <<epoch, seq>>
  durable,       \* Progress.durable_seq
  failing,       \* Progress.failing
  fenced,        \* WriterInner.fenced is set
  orderFatal,    \* WriterInner.order_fatal is set
  serialFatal,   \* the notifier holds a fatal state for this group
  alarm,         \* WriterInner.alarm_raised
  handle,        \* the TableWriter: open, closing, dropped, freed
  stored,        \* files that are on staging storage
  announced,     \* serial_seqs handed to the notifier, in order
  acked,         \* batches an append returned Ok for (history)
  returned       \* the call that returned in the last step, if one did (history)

buffer   == <<buffered, aged, epoch, nextSeq, lastSealed>>
callers  == <<sealLock, call, ticker, handle>>
pipeline == <<at, inbox, hand, tries, prev>>
offsets  == <<maxEnd, stagedOffset, acked>>
stops    == <<fenced, orderFatal, serialFatal, alarm>>
progress == <<durable, failing>>
outside  == <<stored, announced>>
vars == <<buffer, callers, pipeline, offsets, stops, progress, outside, returned>>

-----------------------------------------------------------------------------
NoOffset == -1

Offset == 0..MaxOffset

NoBatch == [start |-> NoOffset, end |-> NoOffset]

\* What a caller may pass as (start_offset, end_offset), malformed ranges included.
OffsetRange == Batches \cup {NoBatch, [start |-> MaxOffset, end |-> NoOffset]}

\* A staged file: StagedFile's identity, its end_offset, and Sealed.batches.
File == [epoch : 0..MaxEpoch, seq : 0..MaxSeq, end : Offset, rows : SUBSET Batches]

Serial(f) == Encode(f.epoch, f.seq)

Stages == {"render", "gzip", "put"}

\* The stage that receives what stage s sends.
NextStage == [s \in {"render", "gzip"} |-> IF s = "render" THEN "gzip" ELSE "put"]

-----------------------------------------------------------------------------
(***************************************************************************)
(* The Progress channel: one Failing slot.  A terminal entry has seq       *)
(* i64::MIN, below every file's; NoOffset is below them all here.          *)
(***************************************************************************)
TerminalKinds == {"PipelineGone", "Fenced", "OrderViolation", "Rotation"}

NotFailing == [kind |-> "none", seq |-> NoOffset, attempts |-> 0, permanent |-> FALSE]

is_terminal(f) == f.kind \in TerminalKinds

publish_terminal(f, kind) ==
  IF is_terminal(f) THEN f
  ELSE [kind |-> kind, seq |-> NoOffset, attempts |-> 0, permanent |-> TRUE]

report_failure(f, file, attempt, perm) ==
  IF is_terminal(f) \/ (f.kind = "Stage" /\ f.seq < Serial(file)) THEN f
  ELSE [kind |-> "Stage", seq |-> Serial(file), attempts |-> attempt, permanent |-> perm]

clear_failure(f, file) ==
  IF f.kind # "none" /\ f.seq = Serial(file) THEN NotFailing ELSE f

\* Mutant: a landing clears a terminal entry too (seq i64::MIN compares below).
LandingClearsAll(f, file) == IF f.seq <= Serial(file) THEN NotFailing ELSE f

\* land()'s clearing of a stage failure the landed file has caught up with.
ClearedByLanding(f, file) ==
  IF f.kind = "Stage" /\ f.seq <= Serial(file) THEN NotFailing ELSE f

terminal_error(f) ==
  CASE f.kind = "Stage" -> (IF f.permanent THEN "RotationFailed" ELSE "StagingStalled")
    [] f.kind = "PipelineGone" -> "WriterClosed"
    [] f.kind = "Fenced" -> "WriterFenced"
    [] f.kind = "OrderViolation" -> "StagingOrderViolation"
    [] f.kind = "Rotation" -> "RotationFailed"
    [] OTHER -> "none"

\* Whether a waiter on any file is owed an error (target i64::MAX).
Stalled(f) == f.kind # "none" /\ (f.permanent \/ f.attempts >= StallAfter)

\* stall_error(p, i64::MAX) and stall_error(p, target).
StallError(f) == IF Stalled(f) THEN terminal_error(f) ELSE "none"

StallErrorAt(f, target) == IF f.seq > target THEN "none" ELSE StallError(f)

-----------------------------------------------------------------------------
(***************************************************************************)
(* fatal_state, its rank, and raise_stream_stopped (fetch_min on the       *)
(* announced rank; 4 is "nothing announced").                              *)
(***************************************************************************)
fatal_state(order, fence, serial, f) ==
  CASE order -> "StagingOrderViolation"
    [] ~order /\ fence -> "WriterFenced"
    [] ~order /\ ~fence /\ serial -> "SerialContractViolation"
    [] OTHER -> (IF StallError(f) = "RotationFailed" THEN "RotationFailed" ELSE "none")

FatalState == fatal_state(orderFatal, fenced, serialFatal, failing)

fatal_priority(e) ==
  CASE e = "StagingOrderViolation" -> 0
    [] e = "WriterFenced" -> 1
    [] e = "SerialContractViolation" -> 2
    [] e = "RotationFailed" -> 3
    [] OTHER -> 4

\* alarm_raised after raise_stream_stopped ran on the state given.
Raised(order, fence, serial, f) ==
  LET prio == fatal_priority(fatal_state(order, fence, serial, f))
  IN  IF prio < alarm THEN prio ELSE alarm

-----------------------------------------------------------------------------
Results == {"none", "ok", "cancelled", "Config", "Schema", "Naming", "StagingStalled", "WriterFenced",
            "StagingOrderViolation", "RotationFailed", "WriterClosed",
            "SerialContractViolation"}

\* A task that is in no call.
Idle ==
  [pc |-> "idle", op |-> "none", batch |-> NoBatch, before |-> NoOffset,
   target |-> NoOffset, err |-> "none", owed |-> NoOffset]

NoReturn == [op |-> "none", result |-> "none", batch |-> NoBatch, owed |-> NoOffset]

Silent == returned' = NoReturn

Calls ==
  [pc : {"idle", "lock", "waitLock", "reserve", "waitRoom", "unbuffer", "target", "durable"},
   op : {"none", "append", "flush", "close"},
   batch : Batches \cup {NoBatch},       \* append's (start_offset, end_offset)
   before : Offset \cup {NoOffset},    \* append's prev_max_end
   target : Int,                       \* the seq a flush or close waits for
   err : Results,                      \* the error append has in hand
   owed : Offset \cup {NoOffset}]      \* highest offset acked when the call began (history)

\* The tasks whose call holds seal_lock give it up when their guard is dropped.
Unlocked(t) == IF sealLock = t THEN "free" ELSE sealLock

\* close() consumes the writer, whatever it returns.
HandleAfter(t) == IF call[t].op = "close" THEN "dropped" ELSE handle

\* Task t's call returns res.
Return(t, res) ==
  /\ call' = [call EXCEPT ![t] = Idle]
  /\ returned' = [op |-> call[t].op, result |-> res, batch |-> call[t].batch,
                   owed |-> call[t].owed]
  /\ handle' = HandleAfter(t)
  /\ acked' = IF call[t].op = "append" /\ res = "ok" THEN acked \cup {call[t].batch} ELSE acked

Goto(t, pc) == call' = [call EXCEPT ![t].pc = pc]

\* seal_and_send returned Err(e): append takes its batch back first.
SealFailed(t, e) ==
  /\ sealLock' = Unlocked(t)
  /\ IF call[t].op = "append"
       THEN /\ call' = [call EXCEPT ![t].pc = "unbuffer", ![t].err = e]
            /\ UNCHANGED <<handle, acked>> /\ Silent
       ELSE Return(t, e)

\* seal_and_send returned Ok(None): append is done, flush waits for what is in flight.
NothingSealed(t) ==
  /\ sealLock' = Unlocked(t)
  /\ IF call[t].op = "append"
       THEN Return(t, "ok")
       ELSE Goto(t, "target") /\ UNCHANGED <<handle, acked>> /\ Silent

\* seal_and_send returned Ok(Some(seq)).
SealSent(t, seq) ==
  /\ sealLock' = Unlocked(t)
  /\ IF call[t].op = "append"
       THEN Return(t, "ok")
       ELSE /\ call' = [call EXCEPT ![t].pc = "durable", ![t].target = seq]
            /\ UNCHANGED <<handle, acked>> /\ Silent

-----------------------------------------------------------------------------
\* TableWriter::new: staged_offset is what the recovery found staged, and
\* max_end_offset is None, "so a replay of pre-crash offsets is not refused".
Init ==
  /\ buffered = {} /\ aged = FALSE
  /\ epoch = 0 /\ nextSeq = 0 /\ lastSealed = NoOffset
  /\ maxEnd = NoOffset /\ stagedOffset = Recovered /\ acked = {}
  /\ sealLock = "free"
  /\ call = [t \in Tasks |-> Idle]
  /\ ticker = "tick"
  /\ at = [s \in Stages |-> "recv"]
  /\ inbox = [s \in Stages |-> <<>>]
  /\ hand = [s \in Stages |-> <<>>]
  /\ tries = [s \in Stages |-> 0]
  /\ prev = <<>>
  /\ durable = NoOffset /\ failing = NotFailing
  /\ fenced = FALSE /\ orderFatal = FALSE /\ serialFatal = FALSE /\ alarm = 4
  /\ handle = "open"
  /\ stored = {} /\ announced = <<>> /\ returned = NoReturn

-----------------------------------------------------------------------------
(***************************************************************************)
(* append, up to the state lock it releases.                               *)
(***************************************************************************)
CanCall(t) == handle = "open" /\ call[t].pc = "idle"

Owed == IF acked = {} THEN NoOffset ELSE Max({b.end : b \in acked})

\* Why append refuses range r without buffering anything, in the code's order.
AppendError(r, schemaOk) ==
  CASE FatalState # "none" -> FatalState
    [] FatalState = "none" /\ ~(0 <= r.start /\ r.start <= r.end) -> "Config"
    [] FatalState = "none" /\ 0 <= r.start /\ r.start <= r.end /\ ~schemaOk -> "Schema"
    [] OTHER -> (IF r.start <= maxEnd THEN "Config" ELSE "none")

AppendRefused(t, r, schemaOk) ==
  /\ t = Appender /\ CanCall(t)
  /\ FatalState # "none" \/ "misuse" \in Events
  /\ AppendError(r, schemaOk) # "none"
  /\ returned' = [NoReturn EXCEPT !.op = "append", !.result = AppendError(r, schemaOk)]
  /\ UNCHANGED <<buffer, callers, pipeline, offsets, stops, progress, outside>>

\* The batch is buffered; `rotate` is the size or age threshold being reached.
AppendBatch(t, b, rotate) ==
  /\ t = Appender /\ CanCall(t)
  /\ AppendError(b, TRUE) = "none"
  /\ aged => rotate
  /\ buffered' = buffered \cup {b}
  /\ maxEnd' = b.end
  /\ IF rotate
       THEN /\ call' = [call EXCEPT ![t] = [Idle EXCEPT !.pc = "lock", !.op = "append",
                                              !.batch = b, !.before = maxEnd]]
            /\ UNCHANGED acked /\ Silent
       ELSE /\ returned' = [NoReturn EXCEPT !.op = "append", !.result = "ok", !.batch = b]
            /\ UNCHANGED call
            /\ acked' = acked \cup {b}
  /\ UNCHANGED <<aged, epoch, nextSeq, lastSealed, stagedOffset, sealLock, ticker, handle, pipeline,
                 stops, progress, outside>>

\* Mutant: the high-water mark is restored although the batch was sealed meanwhile.
UnbufferRestoresAlways(t) ==
  /\ call[t].pc = "unbuffer"
  /\ LET b == call[t].batch
         res == IF b \in buffered \/ call[t].err # "StagingStalled" THEN call[t].err ELSE "ok"
     IN  /\ buffered' = buffered \ {b}
         /\ aged' = (aged /\ buffered' # {})
         /\ maxEnd' = IF maxEnd = b.end THEN call[t].before ELSE maxEnd
         /\ Return(t, res)
  /\ UNCHANGED <<epoch, nextSeq, lastSealed, stagedOffset, sealLock, ticker, pipeline, stops,
                 progress, outside>>

\* Mutant: a stall is reported although the batch could not be taken back.
UnbufferAlwaysErr(t) ==
  /\ call[t].pc = "unbuffer"
  /\ LET b == call[t].batch
     IN  /\ buffered' = buffered \ {b}
         /\ aged' = (aged /\ buffered' # {})
         /\ maxEnd' = IF b \in buffered /\ maxEnd = b.end THEN call[t].before ELSE maxEnd
         /\ Return(t, call[t].err)
  /\ UNCHANGED <<epoch, nextSeq, lastSealed, stagedOffset, sealLock, ticker, pipeline, stops,
                 progress, outside>>

\* unbuffer, and append's verdict on what seal_and_send returned.
Unbuffer(t) ==
  /\ call[t].pc = "unbuffer"
  /\ LET b == call[t].batch
         takenBack == b \in buffered
         res == IF takenBack \/ call[t].err # "StagingStalled" THEN call[t].err ELSE "ok"
     IN  /\ buffered' = buffered \ {b}
         /\ aged' = (aged /\ buffered' # {})
         /\ maxEnd' = IF takenBack /\ maxEnd = b.end THEN call[t].before ELSE maxEnd
         /\ Return(t, res)
  /\ UNCHANGED <<epoch, nextSeq, lastSealed, stagedOffset, sealLock, ticker, pipeline, stops,
                 progress, outside>>

(***************************************************************************)
(* flush and close: check_health, then flush_pipeline.  close takes the    *)
(* writer by value, so no other call is running.                           *)
(***************************************************************************)
Flush(t, op) ==
  /\ CanCall(t)
  /\ op = "close" => "close" \in Events /\ \A u \in Tasks : call[u].pc = "idle"
  /\ IF FatalState # "none"
       THEN /\ returned' = [NoReturn EXCEPT !.op = op, !.result = FatalState]
            /\ UNCHANGED call
            /\ handle' = IF op = "close" THEN "dropped" ELSE handle
       ELSE /\ call' = [call EXCEPT ![t] = [Idle EXCEPT !.pc = "lock", !.op = op,
                                              !.owed = Owed]]
            /\ Silent
            /\ handle' = IF op = "close" THEN "closing" ELSE handle
  /\ UNCHANGED <<buffer, sealLock, ticker, pipeline, offsets, stops, progress, outside>>

-----------------------------------------------------------------------------
(***************************************************************************)
(* seal_and_send(false, true).  tokio hands a released mutex to its first  *)
(* waiter, so try_lock succeeds only when nobody waits.  Queue room is     *)
(* only ever reserved by the lock's holder: the permit is the free slot.   *)
(***************************************************************************)
TryLock == sealLock = "free" /\ \A u \in Tasks : call[u].pc # "waitLock"

Closed == at["render"] = "exited"

\* Mutant: the bound of the seal channel is not enforced.
RoomUnbounded == ~Closed

Room == ~Closed /\ Len(inbox["render"]) < Depth

TakeLock(t) ==
  /\ Silent
  /\ call[t].pc = "lock"
  /\ IF TryLock
       THEN sealLock' = t /\ Goto(t, "reserve")
       ELSE Goto(t, "waitLock") /\ UNCHANGED sealLock
  /\ UNCHANGED <<buffer, ticker, handle, pipeline, offsets, stops, progress, outside>>

GetLock(t) ==
  /\ Silent
  /\ call[t].pc = "waitLock"
  /\ sealLock = "free"
  /\ sealLock' = t
  /\ Goto(t, "reserve")
  /\ UNCHANGED <<buffer, ticker, handle, pipeline, offsets, stops, progress, outside>>

\* Mutant: the wait for queue room is not raced against until_stalled.
GiveUpLockOnly(t) ==
  /\ call[t].pc = "waitLock"
  /\ Stalled(failing)
  /\ SealFailed(t, terminal_error(failing))
  /\ UNCHANGED <<buffer, maxEnd, stagedOffset, ticker, pipeline, stops, progress, outside>>

\* until_stalled wins the select while waiting for the lock or for room.
GiveUp(t) ==
  /\ call[t].pc \in {"waitLock", "waitRoom"}
  /\ Stalled(failing)
  /\ SealFailed(t, terminal_error(failing))
  /\ UNCHANGED <<buffer, maxEnd, stagedOffset, ticker, pipeline, stops, progress, outside>>

NothingToSeal(t) ==
  /\ call[t].pc = "reserve"
  /\ buffered = {}
  /\ NothingSealed(t)
  /\ UNCHANGED <<buffer, maxEnd, stagedOffset, ticker, pipeline, stops, progress, outside>>

QueueFull(t) ==
  /\ Silent
  /\ call[t].pc = "reserve"
  /\ buffered # {}
  /\ ~Closed /\ ~Room
  /\ Goto(t, "waitRoom")
  /\ UNCHANGED <<buffer, sealLock, ticker, handle, pipeline, offsets, stops, progress, outside>>

\* The render stage is gone: name the cause, or record that there is none.
PipelineClosed(t) ==
  /\ call[t].pc = "waitRoom" \/ (call[t].pc = "reserve" /\ buffered # {})
  /\ Closed
  /\ LET gone == publish_terminal(failing, "PipelineGone")
     IN  IF FatalState # "none"
           THEN SealFailed(t, FatalState) /\ UNCHANGED failing
           ELSE SealFailed(t, terminal_error(gone)) /\ failing' = gone
  /\ UNCHANGED <<buffer, maxEnd, stagedOffset, ticker, pipeline, stops, durable, outside>>

\* seal(): cut the whole buffer into one file and push it on the seal channel.
CutFile ==
  LET slot == Rolled(epoch, nextSeq)
  IN  [epoch |-> slot[1], seq |-> slot[2], end |-> Max({b.end : b \in buffered}),
       rows |-> buffered]

CanEncode == LET slot == Rolled(epoch, nextSeq) IN Encodable(slot[1], slot[2])

\* Mutant: the seq is not spent.
SealReusesSeq ==
  /\ epoch' = CutFile.epoch
  /\ nextSeq' = CutFile.seq
  /\ buffered' = {} /\ aged' = FALSE
  /\ lastSealed' = Serial(CutFile)
  /\ inbox' = [inbox EXCEPT !["render"] = Append(@, CutFile)]

Seal ==
  /\ epoch' = CutFile.epoch
  /\ nextSeq' = CutFile.seq + 1
  /\ buffered' = {} /\ aged' = FALSE
  /\ lastSealed' = Serial(CutFile)
  /\ inbox' = [inbox EXCEPT !["render"] = Append(@, CutFile)]

\* The serial_seq does not fit: the buffer is intact, the roll has happened.
SealRefused ==
  /\ epoch' = Rolled(epoch, nextSeq)[1]
  /\ nextSeq' = Rolled(epoch, nextSeq)[2]
  /\ UNCHANGED <<buffered, aged, lastSealed, inbox>>

\* Room reserved; check_health, seal and send.
SealAndSend(t) ==
  /\ call[t].pc = "waitRoom" \/ (call[t].pc = "reserve" /\ buffered # {})
  /\ Room
  /\ CASE FatalState # "none" ->
            /\ SealFailed(t, FatalState)
            /\ UNCHANGED <<buffer, inbox>>
       [] FatalState = "none" /\ buffered = {} ->
            /\ NothingSealed(t)
            /\ UNCHANGED <<buffer, inbox>>
       [] FatalState = "none" /\ buffered # {} /\ CanEncode ->
            /\ SealSent(t, Serial(CutFile))
            /\ Seal
       [] FatalState = "none" /\ buffered # {} /\ ~CanEncode ->
            /\ SealFailed(t, "Naming")
            /\ SealRefused
  /\ UNCHANGED <<maxEnd, stagedOffset, ticker, at, hand, tries, prev, stops, progress, outside>>

-----------------------------------------------------------------------------
\* Mutant: a flush waits for its file whatever happens to it.
AwaitOnlyDurable(t) ==
  /\ call[t].pc = "durable"
  /\ durable >= call[t].target
  /\ Return(t, "ok")
  /\ UNCHANGED <<buffer, maxEnd, stagedOffset, sealLock, ticker, pipeline, stops, progress,
                 outside>>

\* Mutant: an empty buffer is taken to mean that there is nothing to wait for.
ReadNoTarget(t) ==
  /\ call[t].pc = "target"
  /\ Return(t, "ok")
  /\ UNCHANGED <<buffer, maxEnd, stagedOffset, sealLock, ticker, pipeline, stops, progress,
                 outside>>

(***************************************************************************)
(* flush_pipeline's wait.                                                  *)
(***************************************************************************)
ReadTarget(t) ==
  /\ call[t].pc = "target"
  /\ IF lastSealed = NoOffset
       THEN Return(t, "ok")
       ELSE /\ call' = [call EXCEPT ![t].pc = "durable", ![t].target = lastSealed]
            /\ UNCHANGED <<handle, acked>> /\ Silent
  /\ UNCHANGED <<buffer, maxEnd, stagedOffset, sealLock, ticker, pipeline, stops, progress,
                 outside>>

AwaitDurable(t) ==
  /\ call[t].pc = "durable"
  /\ LET e == IF durable >= call[t].target THEN "ok"
              ELSE StallErrorAt(failing, call[t].target)
     IN  e # "none" /\ Return(t, e)
  /\ UNCHANGED <<buffer, maxEnd, stagedOffset, sealLock, ticker, pipeline, stops, progress,
                 outside>>

\* The caller drops the future (a timeout around append, flush or close).
Cancel(t) ==
  /\ "cancel" \in Events
  /\ call[t].pc # "idle"
  /\ sealLock' = Unlocked(t)
  /\ Return(t, "cancelled")
  /\ UNCHANGED <<buffer, maxEnd, stagedOffset, ticker, pipeline, stops, progress, outside>>

-----------------------------------------------------------------------------
(***************************************************************************)
(* The ticker.  A tick that finds the lock held, the queue full or the     *)
(* writer stopped by a rotation failure does nothing and is not a step.    *)
(***************************************************************************)
Alive == handle # "freed"

TickerStop ==
  /\ ticker = "tick"
  /\ ~Alive \/ fenced \/ orderFatal \/ serialFatal
  /\ ticker' = "exited"
  /\ alarm' = IF Alive /\ ~fenced /\ ~orderFatal
                THEN Raised(orderFatal, fenced, serialFatal, failing) ELSE alarm
  /\ Silent
  /\ UNCHANGED <<buffer, sealLock, call, handle, pipeline, offsets, fenced, orderFatal, serialFatal,
                 progress, outside>>

TickerLock ==
  /\ ticker = "tick" /\ Alive
  /\ FatalState = "none"
  /\ TryLock /\ Room
  /\ sealLock' = "ticker"
  /\ ticker' = "seal"
  /\ Silent
  /\ UNCHANGED <<buffer, call, handle, pipeline, offsets, stops, progress, outside>>

TickerSeal ==
  /\ ticker = "seal"
  /\ IF buffered # {} /\ aged
       THEN IF CanEncode THEN Seal ELSE SealRefused
       ELSE UNCHANGED <<buffer, inbox>>
  /\ sealLock' = "free"
  /\ ticker' = "tick"
  /\ Silent
  /\ UNCHANGED <<call, handle, at, hand, tries, prev, offsets, stops, progress, outside>>

-----------------------------------------------------------------------------
(***************************************************************************)
(* What the three stage loops share.  A channel whose receiver has exited  *)
(* keeps its files here: nothing takes them any more, and dropping them is *)
(* what the code does with them.                                           *)
(***************************************************************************)
InHand(s) == Head(hand[s])

StageRecv(s) ==
  /\ at[s] = "recv" /\ inbox[s] # <<>>
  /\ hand' = [hand EXCEPT ![s] = <<Head(inbox[s])>>]
  /\ inbox' = [inbox EXCEPT ![s] = Tail(@)]
  /\ tries' = [tries EXCEPT ![s] = 0]
  /\ at' = [at EXCEPT ![s] = CASE s = "put" -> "check"
                                [] s = "gzip" /\ ~Gzip -> "send"
                                [] OTHER -> "try"]
  /\ Silent
  /\ UNCHANGED <<buffer, callers, prev, offsets, stops, progress, outside>>

SenderGone(s) ==
  CASE s = "render" -> ~Alive
    [] s = "gzip" -> at["render"] = "exited"
    [] s = "put" -> at["gzip"] = "exited"

\* recv() returned None: the channel is closed and drained.
StageDrained(s) ==
  /\ at[s] = "recv" /\ inbox[s] = <<>> /\ SenderGone(s)
  /\ at' = [at EXCEPT ![s] = "exited"]
  /\ Silent
  /\ UNCHANGED <<buffer, callers, inbox, hand, tries, prev, offsets, stops, progress, outside>>

\* Mutant: a fenced stage ends without waking the waiters.
StageStopsQuietly(s) ==
  /\ at[s] \in {"try", "check", "landed"}
  /\ ~Alive \/ fenced
  /\ at' = [at EXCEPT ![s] = "exited"]
  /\ Silent
  /\ UNCHANGED <<buffer, callers, inbox, hand, tries, prev, offsets, stops, progress, outside>>

\* weak.upgrade() fails, or fenced_exit: the stage drops its file and ends.
StageStop(s) ==
  /\ at[s] \in {"try", "check", "landed"}
  /\ ~Alive \/ fenced
  /\ at' = [at EXCEPT ![s] = "exited"]
  /\ IF Alive
       THEN /\ failing' = publish_terminal(failing, "Fenced")
            /\ alarm' = Raised(orderFatal, fenced, serialFatal, failing')
       ELSE UNCHANGED <<failing, alarm>>
  /\ Silent
  /\ UNCHANGED <<buffer, callers, inbox, hand, tries, prev, offsets, fenced, orderFatal,
                 serialFatal, durable, outside>>

StageTry(s) ==
  /\ at[s] = "try" /\ Alive /\ ~fenced
  /\ at' = [at EXCEPT ![s] = "work"]
  /\ Silent
  /\ UNCHANGED <<buffer, callers, inbox, hand, tries, prev, offsets, stops, progress, outside>>

AttemptOk(s) ==
  /\ at[s] = "work"
  /\ at' = [at EXCEPT ![s] = IF s = "put" THEN "landed" ELSE "send"]
  /\ failing' = IF tries[s] > 0 THEN clear_failure(failing, InHand(s)) ELSE failing
  /\ tries' = [tries EXCEPT ![s] = 0]
  /\ stored' = IF s = "put" THEN stored \cup {InHand(s)} ELSE stored
  /\ Silent
  /\ UNCHANGED <<buffer, callers, inbox, hand, prev, offsets, stops, durable, announced>>

\* A retriable failure.  A put that reports one may have landed all the same.
AttemptFails(s, landed) ==
  /\ at[s] = "work"
  /\ landed => s = "put"
  /\ at' = [at EXCEPT ![s] = "try"]
  /\ tries' = [tries EXCEPT ![s] = IF @ < StallAfter THEN @ + 1 ELSE @]
  /\ failing' = report_failure(failing, InHand(s), tries'[s], FALSE)
  /\ stored' = IF landed THEN stored \cup {InHand(s)} ELSE stored
  /\ Silent
  /\ UNCHANGED <<buffer, callers, inbox, hand, prev, offsets, stops, durable, announced>>

StageSend(s) ==
  /\ s \in DOMAIN NextStage
  /\ LET n == NextStage[s]
     IN  /\ at[s] = "send" /\ at[n] # "exited" /\ inbox[n] = <<>>
         /\ inbox' = [inbox EXCEPT ![n] = Append(@, InHand(s))]
         /\ hand' = [hand EXCEPT ![s] = <<>>]
         /\ at' = [at EXCEPT ![s] = "recv"]
  /\ Silent
  /\ UNCHANGED <<buffer, callers, tries, prev, offsets, stops, progress, outside>>

\* The next stage is gone.
SendRefused(s) ==
  /\ s \in DOMAIN NextStage
  /\ at[s] = "send" /\ at[NextStage[s]] = "exited"
  /\ at' = [at EXCEPT ![s] = "exited"]
  /\ Silent
  /\ UNCHANGED <<buffer, callers, inbox, hand, tries, prev, offsets, stops, progress, outside>>

(***************************************************************************)
(* Render: a row that cannot be rendered (is_permanent) is reported, and   *)
(* only then published as the terminal state: two updates of the slot.     *)
(***************************************************************************)
RenderRejects ==
  /\ "reject" \in Events
  /\ at["render"] = "work"
  /\ at' = [at EXCEPT !["render"] = "rejected"]
  /\ failing' = report_failure(failing, InHand("render"), tries["render"] + 1, TRUE)
  /\ Silent
  /\ UNCHANGED <<buffer, callers, inbox, hand, tries, prev, offsets, stops, durable, outside>>

\* Mutant: a rejected file is skipped and the stage goes on.
RenderSkips ==
  /\ at["render"] = "rejected"
  /\ at' = [at EXCEPT !["render"] = "recv"]
  /\ hand' = [hand EXCEPT !["render"] = <<>>]
  /\ Silent
  /\ UNCHANGED <<buffer, callers, inbox, tries, prev, offsets, stops, progress, outside>>

RenderGivesUp ==
  /\ at["render"] = "rejected"
  /\ at' = [at EXCEPT !["render"] = "exited"]
  /\ failing' = publish_terminal(failing, "Rotation")
  /\ alarm' = Raised(orderFatal, fenced, serialFatal, failing')
  /\ Silent
  /\ UNCHANGED <<buffer, callers, inbox, hand, tries, prev, offsets, fenced, orderFatal,
                 serialFatal, durable, outside>>

(***************************************************************************)
(* Put: the order tripwire before the first attempt, record_durable and    *)
(* land after the object is on storage.                                    *)
(***************************************************************************)
check_order(p, f) ==
  \/ p = <<>>
  \/ f.epoch = p[1] /\ f.seq = p[2] + 1
  \/ f.epoch > p[1] /\ f.seq = 0

PutCheck ==
  /\ at["put"] = "check" /\ Alive /\ ~fenced
  /\ LET ok == check_order(prev, InHand("put"))
     IN  /\ at' = [at EXCEPT !["put"] = IF ok THEN "try" ELSE "exited"]
         /\ orderFatal' = (orderFatal \/ ~ok)
         /\ failing' = IF ok THEN failing ELSE publish_terminal(failing, "OrderViolation")
         /\ alarm' = IF ok THEN alarm ELSE Raised(TRUE, fenced, serialFatal, failing')
  /\ Silent
  /\ UNCHANGED <<buffer, callers, inbox, hand, tries, prev, offsets, fenced, serialFatal, durable,
                 outside>>

\* Mutant: a failed attempt is recorded as if the put had landed.
record_durable_early ==
  /\ at["put"] \in {"try", "landed"} /\ Alive /\ ~fenced
  /\ at' = [at EXCEPT !["put"] = "land"]
  /\ stagedOffset' = Max({stagedOffset, InHand("put").end})
  /\ announced' = Append(announced, Serial(InHand("put")))
  /\ Silent
  /\ UNCHANGED <<buffer, callers, inbox, hand, tries, prev, maxEnd, acked, stops, progress, stored>>

record_durable ==
  /\ at["put"] = "landed" /\ Alive /\ ~fenced
  /\ at' = [at EXCEPT !["put"] = "land"]
  /\ stagedOffset' = Max({stagedOffset, InHand("put").end})
  /\ announced' = Append(announced, Serial(InHand("put")))
  /\ Silent
  /\ UNCHANGED <<buffer, callers, inbox, hand, tries, prev, maxEnd, acked, stops, progress, stored>>

land ==
  /\ at["put"] = "land"
  /\ at' = [at EXCEPT !["put"] = "recv"]
  /\ prev' = <<InHand("put").epoch, InHand("put").seq>>
  /\ hand' = [hand EXCEPT !["put"] = <<>>]
  /\ durable' = Serial(InHand("put"))
  /\ failing' = ClearedByLanding(failing, InHand("put"))
  /\ Silent
  /\ UNCHANGED <<buffer, callers, inbox, tries, offsets, stops, outside>>

-----------------------------------------------------------------------------
(***************************************************************************)
(* The rest of the process.                                                *)
(***************************************************************************)
\* rotate_interval_max passes for the oldest buffered batch.
Age ==
  /\ "age" \in Events
  /\ buffered # {} /\ ~aged
  /\ aged' = TRUE
  /\ Silent
  /\ UNCHANGED <<buffered, epoch, nextSeq, lastSealed, callers, pipeline, offsets, stops, progress,
                 outside>>

\* The heartbeat finds the lease lost.
fence ==
  /\ "fence" \in Events
  /\ Alive /\ ~fenced
  /\ fenced' = TRUE
  /\ alarm' = Raised(orderFatal, TRUE, serialFatal, failing)
  /\ Silent
  /\ UNCHANGED <<buffer, callers, pipeline, offsets, orderFatal, serialFatal, progress, outside>>

\* The notify loop parks a serial-contract violation on the group, over a file
\* of this writer or over the backfill open_table handed it before.
SerialFatal ==
  /\ "serial" \in Events
  /\ ~serialFatal
  /\ serialFatal' = TRUE
  /\ Silent
  /\ UNCHANGED <<buffer, callers, pipeline, offsets, fenced, orderFatal, alarm, progress, outside>>

\* The caller drops an idle writer.
Drop ==
  /\ "drop" \in Events
  /\ handle = "open" /\ \A t \in Tasks : call[t].pc = "idle"
  /\ handle' = "dropped"
  /\ Silent
  /\ UNCHANGED <<buffer, sealLock, call, ticker, pipeline, offsets, stops, progress, outside>>

\* The last Arc goes: no task is in a section that holds one.
Free ==
  /\ handle = "dropped"
  /\ at["render"] \notin {"work", "rejected"} /\ at["put"] \notin {"work", "land"}
  /\ ticker # "seal"
  /\ handle' = "freed"
  /\ Silent
  /\ UNCHANGED <<buffer, sealLock, call, ticker, pipeline, offsets, stops, progress, outside>>

\* Every task of the writer has ended.
Terminated ==
  /\ handle = "freed" /\ ticker = "exited" /\ \A s \in Stages : at[s] = "exited"
  /\ UNCHANGED vars

-----------------------------------------------------------------------------
CallerStep(t) ==
  \/ Unbuffer(t)
  \/ TakeLock(t) \/ GetLock(t) \/ GiveUp(t)
  \/ NothingToSeal(t) \/ QueueFull(t) \/ PipelineClosed(t) \/ SealAndSend(t)
  \/ ReadTarget(t) \/ AwaitDurable(t)

StartCall(t) ==
  \/ \E r \in OffsetRange, schemaOk \in BOOLEAN : AppendRefused(t, r, schemaOk)
  \/ \E b \in Batches, rotate \in BOOLEAN : AppendBatch(t, b, rotate)
  \/ \E op \in {"flush", "close"} : Flush(t, op)

StageStep(s) ==
  \/ StageRecv(s) \/ StageDrained(s) \/ StageStop(s) \/ StageTry(s)
  \/ AttemptOk(s)
  \/ \E landed \in BOOLEAN : AttemptFails(s, landed)
  \/ StageSend(s) \/ SendRefused(s)

RenderStep == StageStep("render") \/ RenderRejects \/ RenderGivesUp

GzipStep == StageStep("gzip")

PutStep == StageStep("put") \/ PutCheck \/ record_durable \/ land

\* What the put stage does on its own, between two attempts.
PutMove ==
  \/ StageRecv("put") \/ StageDrained("put") \/ StageStop("put") \/ StageTry("put")
  \/ PutCheck \/ record_durable \/ land

TickerStep == TickerStop \/ TickerLock \/ TickerSeal

Environment == Age \/ fence \/ SerialFatal \/ Drop \/ Free

Next ==
  \/ \E t \in Tasks : CallerStep(t) \/ StartCall(t) \/ Cancel(t)
  \/ RenderStep \/ GzipStep \/ PutStep \/ TickerStep
  \/ Environment \/ Terminated

Spec == Init /\ [][Next]_vars

(***************************************************************************)
(* The runtime polls every task that is ready, and render and gzip are     *)
(* computations that end, one way or the other.  Storage owes nothing: no  *)
(* put has a timeout, so an attempt may fail, succeed or never end.        *)
(* tokio's mutex is FIFO, so a waiter gets a lock that is released again   *)
(* and again: strong fairness.                                             *)
(***************************************************************************)
Fairness ==
  /\ \A t \in Tasks : WF_vars(CallerStep(t)) /\ SF_vars(GetLock(t))
  /\ WF_vars(RenderStep) /\ WF_vars(GzipStep) /\ WF_vars(PutMove)
  /\ WF_vars(TickerStep)

FairSpec == Spec /\ Fairness

-----------------------------------------------------------------------------
(***************************************************************************)
(* Properties.                                                             *)
(***************************************************************************)

\* The files sealed and not yet landed, in the order the put stage meets them.
Flight ==
  hand["put"] \o inbox["put"] \o hand["gzip"] \o inbox["gzip"] \o hand["render"]
    \o inbox["render"]

Files == stored \cup {Flight[i] : i \in 1..Len(Flight)}

StagePcs == {"recv", "check", "try", "work", "rejected", "send", "landed", "land", "exited"}

Failing ==
  [kind : {"none", "Stage"} \cup TerminalKinds, seq : Int, attempts : 0..StallAfter + 1,
   permanent : BOOLEAN]

Returns ==
  [op : {"none", "append", "flush", "close"}, result : Results,
   batch : Batches \cup {NoBatch}, owed : Offset \cup {NoOffset}]

WriterTypeOK ==
  /\ buffered \subseteq Batches
  /\ epoch \in 0..MaxEpoch + 1 /\ nextSeq \in 0..MaxSeq + 1
  /\ lastSealed \in Int
  /\ maxEnd \in Offset \cup {NoOffset} /\ stagedOffset \in Offset \cup {NoOffset}
  /\ acked \subseteq Batches

CallerTypeOK ==
  /\ sealLock \in Tasks \cup {"free", "ticker"}
  /\ call \in [Tasks -> Calls]
  /\ ticker \in {"tick", "seal", "exited"}
  /\ handle \in {"open", "closing", "dropped", "freed"}
  /\ returned \in Returns

PipelineTypeOK ==
  /\ at \in [Stages -> StagePcs]
  /\ inbox \in [Stages -> Seq(File)]
  /\ \A s \in Stages : Len(inbox[s]) <= IF s = "render" THEN Depth ELSE 1
  /\ hand \in [Stages -> Seq(File)]
  /\ \A s \in Stages : Len(hand[s]) <= 1
  /\ tries \in [Stages -> 0..StallAfter]
  /\ prev \in {<<>>} \cup ((0..MaxEpoch) \X (0..MaxSeq))

StatusTypeOK ==
  /\ durable \in Int /\ failing \in Failing
  /\ alarm \in 0..4
  /\ stored \subseteq File /\ announced \in Seq(Int)

FlagTypeOK ==
  /\ aged \in BOOLEAN
  /\ fenced \in BOOLEAN /\ orderFatal \in BOOLEAN /\ serialFatal \in BOOLEAN

(***************************************************************************)
(* Every variable has its type, no channel of the pipeline is ever over    *)
(* its capacity, and a stage works on at most one file.                    *)
(***************************************************************************)
TypeOK == WriterTypeOK /\ CallerTypeOK /\ PipelineTypeOK /\ StatusTypeOK /\ FlagTypeOK

(***************************************************************************)
(* check_order: "Correctly built, this never fires".  Whatever the stages, *)
(* the callers, the ticker and a fence do, and across an epoch roll, no    *)
(* file reaches the put stage out of sequence.                             *)
(***************************************************************************)
TripwireSilent == ~orderFatal

(***************************************************************************)
(* Why: the files between seal and land are a dense run of (epoch, seq)    *)
(* that starts right after the last landed file and ends right before the  *)
(* number seal hands out next, wherever in the pipeline they are.          *)
(***************************************************************************)
Slot(f) == <<f.epoch, f.seq>>

SpentUpTo(slot) == <<epoch, nextSeq>> \in {<<slot[1], slot[2] + 1>>, <<slot[1] + 1, 0>>}

PipelineInOrder ==
  /\ \A i \in 1..Len(Flight) - 1 : check_order(Slot(Flight[i]), Flight[i + 1])
  /\ Flight # <<>> => /\ check_order(prev, Flight[1])
                      /\ SpentUpTo(Slot(Flight[Len(Flight)]))
  /\ Flight = <<>> => prev = <<>> \/ SpentUpTo(prev)

(***************************************************************************)
(* The rotation is one queue: through the three stages, their retries,     *)
(* dropped futures, an epoch roll and a fence, sealing numbers a file, and *)
(* record_durable announces the front one and moves staged_offset to its   *)
(* end.  Nothing else is seen of it from outside (StagingQueue).           *)
(***************************************************************************)
\* The files the notifier is not told of yet, front first.
Unannounced == IF at["put"] = "land" THEN Tail(Flight) ELSE Flight

Label(f) == [serial |-> Serial(f), end |-> f.end]

Waiting == [i \in 1..Len(Unannounced) |-> Label(Unannounced[i])]

Queue == INSTANCE StagingQueue WITH queue <- Waiting, last <- lastSealed, staged <- stagedOffset

RotatesAsQueue == Queue!Spec

(***************************************************************************)
(* The commit gate of staged_offset(): once it has moved past what the     *)
(* recovery found, every batch append accepted at or below it is in a file *)
(* that is on storage, the replayed ones of a rewound consumer included.   *)
(* Until then it says nothing of a replay: it lies above rows that are     *)
(* only buffered.                                                          *)
(***************************************************************************)
StagedOffsetIsDurable ==
  stagedOffset > Recovered =>
    \A b \in acked : b.end <= stagedOffset => \E f \in stored : b \in f.rows

(***************************************************************************)
(* No batch is in the buffer and a file, or in two files, and one append   *)
(* said Ok for is in exactly one: retries, a batch taken back, a second    *)
(* sealer and a dropped future neither lose rows nor stage them twice.     *)
(***************************************************************************)
HeldOnce ==
  \A b \in Batches :
    LET holders == Cardinality({f \in Files : b \in f.rows}) + (IF b \in buffered THEN 1 ELSE 0)
    IN  holders <= 1 /\ (b \in acked => holders = 1)

(***************************************************************************)
(* A stage only ends for a reason the callers are told: while the writer   *)
(* is in use, a stage that has exited has left a terminal entry, and       *)
(* append, flush and close are refused for it.  So pipeline_gone() never   *)
(* has to make one up.                                                     *)
(***************************************************************************)
StoppedStageIsReported ==
  handle \in {"open", "closing"} /\ (\E s \in Stages : at[s] = "exited") =>
    is_terminal(failing) /\ failing.kind # "PipelineGone" /\ FatalState # "none"

(***************************************************************************)
(* A flush or close that returns Ok has staged everything append accepted  *)
(* before it was called ("a flush that returns Ok already guarantees it    *)
(* for everything appended before the call"): staged_offset() covers it,   *)
(* and it is in files on storage, replays included.                        *)
(***************************************************************************)
FlushOkIsDurable ==
  returned.op \in {"flush", "close"} /\ returned.result = "ok" =>
    /\ stagedOffset >= returned.owed
    /\ \A b \in acked : b.end <= returned.owed => \E f \in stored : b \in f.rows

(***************************************************************************)
(* "An Err from append means not accepted, retry later": after             *)
(* StagingStalled the batch is nowhere in the writer and the high-water    *)
(* mark lets the very same range in again.                                 *)
(***************************************************************************)
StalledAppendCanBeRetried ==
  returned.op = "append" /\ returned.result = "StagingStalled" =>
    /\ returned.batch \notin buffered
    /\ \A f \in Files : returned.batch \notin f.rows
    /\ maxEnd < returned.batch.start

(***************************************************************************)
(* A terminal entry is never overwritten and never cleared: the first      *)
(* cause stays, and a parked flush is always woken by it.                  *)
(***************************************************************************)
TerminalIsSticky == [][is_terminal(failing) => failing' = failing]_failing

(***************************************************************************)
(* No call hangs while every put attempt ends, with whatever outcome:      *)
(* though storage may refuse every file, and the writer be fenced, tripped *)
(* or closed meanwhile, append, flush and close return.  An attempt that   *)
(* never ends reports nothing that could wake them.                        *)
(***************************************************************************)
CallsReturn ==
  \/ <>[](at["put"] = "work")
  \/ \A t \in Tasks : call[t].pc # "idle" ~> call[t].pc = "idle"

=============================================================================
