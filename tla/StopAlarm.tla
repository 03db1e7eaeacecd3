------------------------------ MODULE StopAlarm ------------------------------
(***************************************************************************)
(* The stream-stopped alarm of one writer (table.rs, raise_stream_stopped).*)
(* RotationPipeline raises it in one step; here every lock it takes is a   *)
(* step of its own: the four places fatal_state reads, the fetch_min on    *)
(* the rank announced so far, and the alarm line.  The tasks that raise    *)
(* it - the heartbeat, the three stages, the ticker - run in parallel and  *)
(* each ends right after it has.                                           *)
(***************************************************************************)
EXTENDS Integers, Sequences

CONSTANT Gzip   \* staging is compressed; if not, the gzip stage only passes files on

ASSUME GzipAssumption == Gzip \in BOOLEAN

Stages == IF Gzip THEN {"render", "gzip", "put"} ELSE {"render", "put"}
Tasks == Stages \cup {"heartbeat", "ticker"}

\* The states that stop a writer by fatal_priority: an order violation, a
\* fence, a serial-contract violation, a file that can never be staged.
Ranks == 0..3
NotRaised == 4

fatal_priority(state) ==
  CASE state = "order" -> 0 [] state = "fenced" -> 1 [] state = "violation" -> 2
    [] OTHER -> 3

\* The failing slot of the progress channel: what failed, and in which stage.
Failing == {"transient", "permanent", "Rotation", "Fenced", "OrderViolation", "PipelineGone"}
Terminal == {"Rotation", "Fenced", "OrderViolation", "PipelineGone"}

\* s holds an earlier file than t: files pass render, gzip and put in order.
Ahead(s, t) == <<s, t>> \in {<<"put", "gzip">>, <<"put", "render">>, <<"gzip", "render">>}

VARIABLES
  order_fatal,   \* WriterInner.order_fatal is set
  fenced,        \* WriterInner.fenced is set
  violation,     \* the notify loop has parked a violation on the group
  failing,       \* Progress.failing
  alarm_raised,  \* WriterInner.alarm_raised
  lines,         \* the ranks of the alarm lines, as they were emitted
  at,            \* where each task is
  cause          \* the rank a task in raise_stream_stopped has found

flags == <<order_fatal, fenced, violation>>
vars == <<order_fatal, fenced, violation, failing, alarm_raised, lines, at, cause>>

NotFailing == [kind |-> "none", stage |-> "put"]

Init ==
  /\ order_fatal = FALSE /\ fenced = FALSE /\ violation = FALSE
  /\ failing = NotFailing
  /\ alarm_raised = NotRaised
  /\ lines = <<>>
  /\ at = [t \in Tasks |-> IF t = "ticker" THEN "sleep" ELSE "works"]
  /\ cause = [t \in Tasks |-> NotRaised]

Go(t, step) == at' = [at EXCEPT ![t] = step]

publish_terminal(kind, s) ==
  failing' = IF failing.kind \in Terminal THEN failing ELSE [kind |-> kind, stage |-> s]

-----------------------------------------------------------------------------
(***************************************************************************)
(* raise_stream_stopped: fatal_state reads its four places one after the   *)
(* other; then fetch_min; then the line.                                   *)
(***************************************************************************)
\* The caller of raise_stream_stopped ends with it.
Return(t) == Go(t, "ended") /\ cause' = [cause EXCEPT ![t] = NotRaised]

Found(t, state) ==
  /\ cause' = [cause EXCEPT ![t] = fatal_priority(state)]
  /\ Go(t, "lower")

ReadFlag(t, step, flag, state, next) ==
  /\ at[t] = step
  /\ \/ flag /\ Found(t, state)
     \/ ~flag /\ Go(t, next) /\ UNCHANGED cause
  /\ UNCHANGED <<flags, failing, alarm_raised, lines>>

ReadProgress(t) ==
  /\ at[t] = "readProgress"
  /\ \/ failing.kind \in {"permanent", "Rotation"} /\ Found(t, "failed")
     \/ failing.kind \notin {"permanent", "Rotation"} /\ Go(t, "ended") /\ UNCHANGED cause
  /\ UNCHANGED <<flags, failing, alarm_raised, lines>>

fatal_state(t) ==
  \/ ReadFlag(t, "readOrder", order_fatal, "order", "readFenced")
  \/ ReadFlag(t, "readFenced", fenced, "fenced", "readViolation")
  \/ ReadFlag(t, "readViolation", violation, "violation", "readProgress")
  \/ ReadProgress(t)

\* Mutant: whoever finds the rank it has itself announces it once more.
LowerAgain(t) ==
  /\ at[t] = "lower"
  /\ IF cause[t] <= alarm_raised
     THEN alarm_raised' = cause[t] /\ Go(t, "emit") /\ UNCHANGED cause
     ELSE Return(t) /\ UNCHANGED alarm_raised
  /\ UNCHANGED <<flags, failing, lines>>

\* Mutant: a flag, not a rank: the first cause is the only one announced.
LowerOnce(t) ==
  /\ at[t] = "lower"
  /\ IF alarm_raised = NotRaised
     THEN alarm_raised' = cause[t] /\ Go(t, "emit") /\ UNCHANGED cause
     ELSE Return(t) /\ UNCHANGED alarm_raised
  /\ UNCHANGED <<flags, failing, lines>>

Lower(t) ==
  /\ at[t] = "lower"
  /\ IF cause[t] < alarm_raised
     THEN alarm_raised' = cause[t] /\ Go(t, "emit") /\ UNCHANGED cause
     ELSE Return(t) /\ UNCHANGED alarm_raised
  /\ UNCHANGED <<flags, failing, lines>>

stream_stopped(t) ==
  /\ at[t] = "emit"
  /\ lines' = Append(lines, cause[t])
  /\ Return(t)
  /\ UNCHANGED <<flags, failing, alarm_raised>>

raise_stream_stopped(t) == fatal_state(t) \/ Lower(t) \/ stream_stopped(t)

-----------------------------------------------------------------------------
(***************************************************************************)
(* The tasks that raise it.                                                *)
(***************************************************************************)
\* The heartbeat finds the lease lost.
fence ==
  /\ at["heartbeat"] = "works"
  /\ fenced' = TRUE
  /\ Go("heartbeat", "readOrder")
  /\ UNCHANGED <<order_fatal, violation, failing, alarm_raised, lines, cause>>

\* A stage sees the fence before an attempt.
fenced_exit(s) ==
  /\ at[s] = "works" /\ fenced
  /\ publish_terminal("Fenced", s)
  /\ Go(s, "readOrder")
  /\ UNCHANGED <<flags, alarm_raised, lines, cause>>

\* The put stage finds a file out of order: the flag, then the slot.
trip_order_fatal ==
  /\ at["put"] = "works"
  /\ order_fatal' = TRUE
  /\ Go("put", "trip")
  /\ UNCHANGED <<fenced, violation, failing, alarm_raised, lines, cause>>

PublishTrip ==
  /\ at["put"] = "trip"
  /\ publish_terminal("OrderViolation", "put")
  /\ Go("put", "readOrder")
  /\ UNCHANGED <<flags, alarm_raised, lines, cause>>

\* An attempt fails.  The slot keeps the failure of an earlier file.
report_failure(s) ==
  \E kind \in {"transient", "permanent"} :
    /\ at[s] = "works"
    /\ failing' = IF failing.kind \in Terminal
                     \/ (failing.kind # "none" /\ Ahead(failing.stage, s))
                  THEN failing ELSE [kind |-> kind, stage |-> s]
    /\ Go(s, IF kind = "permanent" THEN "publish" ELSE "works")
    /\ UNCHANGED <<flags, alarm_raised, lines, cause>>

\* Mutant: the report is taken to be enough, the entry is not protected.
PublishRotationReported(s) ==
  /\ at[s] = "publish"
  /\ Go(s, "readOrder")
  /\ UNCHANGED <<flags, failing, alarm_raised, lines, cause>>

PublishRotation(s) ==
  /\ at[s] = "publish"
  /\ publish_terminal("Rotation", s)
  /\ Go(s, "readOrder")
  /\ UNCHANGED <<flags, alarm_raised, lines, cause>>

\* The file gets past the stage: its failure is cleared.
clear_failure(s) ==
  /\ at[s] = "works"
  /\ failing.kind = "transient" /\ failing.stage = s
  /\ failing' = NotFailing
  /\ UNCHANGED <<flags, alarm_raised, lines, at, cause>>

\* The next stage has gone: the send fails and the stage ends.
SendFails(s) ==
  /\ at[s] = "works"
  /\ \E t \in Stages : Ahead(t, s) /\ at[t] = "ended"
  /\ Go(s, "ended")
  /\ UNCHANGED <<flags, failing, alarm_raised, lines, cause>>

\* A caller finds the render stage gone.
pipeline_gone ==
  /\ at["render"] = "ended"
  /\ publish_terminal("PipelineGone", "render")
  /\ UNCHANGED <<flags, alarm_raised, lines, at, cause>>

\* The notify loop parks a violation; it does not raise the alarm itself.
ParkViolation ==
  /\ violation' = TRUE
  /\ UNCHANGED <<order_fatal, fenced, failing, alarm_raised, lines, at, cause>>

TickerLooks(step, flag, next) ==
  /\ at["ticker"] = step
  /\ Go("ticker", IF flag THEN "ended" ELSE next)
  /\ UNCHANGED <<flags, failing, alarm_raised, lines, cause>>

\* Mutant: the ticker stops for a violation as it does for the others.
TickerFindsViolationQuietly == TickerLooks("tickViolation", violation, "sleep")

TickerFindsViolation ==
  /\ at["ticker"] = "tickViolation"
  /\ Go("ticker", IF violation THEN "readOrder" ELSE "sleep")
  /\ UNCHANGED <<flags, failing, alarm_raised, lines, cause>>

\* One tick: fenced, order_fatal and the parked violation, in this order.
Tick ==
  \/ TickerLooks("sleep", fenced, "tickOrder")
  \/ TickerLooks("tickOrder", order_fatal, "tickViolation")
  \/ TickerFindsViolation

StageStep(s) ==
  fenced_exit(s) \/ report_failure(s) \/ PublishRotation(s) \/ clear_failure(s) \/ SendFails(s)

Next ==
  \/ \E t \in Tasks : raise_stream_stopped(t)
  \/ \E s \in Stages : StageStep(s)
  \/ fence \/ trip_order_fatal \/ PublishTrip \/ pipeline_gone \/ ParkViolation
  \/ Tick

Spec == Init /\ [][Next]_vars

(***************************************************************************)
(* A task that has begun to raise, or to publish, goes on, and the ticker  *)
(* ticks.  Nothing obliges anything to fail.                               *)
(***************************************************************************)
Fairness ==
  /\ \A t \in Tasks : WF_vars(raise_stream_stopped(t))
  /\ \A s \in Stages : WF_vars(PublishRotation(s))
  /\ WF_vars(PublishTrip)
  /\ WF_vars(Tick)

FairSpec == Spec /\ Fairness

-----------------------------------------------------------------------------
AlarmTypeOK ==
  /\ order_fatal \in BOOLEAN /\ fenced \in BOOLEAN /\ violation \in BOOLEAN
  /\ failing \in [kind : Failing \cup {"none"}, stage : Stages]
  /\ alarm_raised \in Ranks \cup {NotRaised}
  /\ lines \in Seq(Ranks)
  /\ at \in [Tasks -> {"works", "sleep", "trip", "publish", "tickOrder", "tickViolation",
                       "readOrder", "readFenced", "readViolation", "readProgress",
                       "lower", "emit", "ended"}]
  /\ cause \in [Tasks -> Ranks \cup {NotRaised}]

Announced == {lines[i] : i \in 1..Len(lines)}

(***************************************************************************)
(* raise_stream_stopped, "a writer cannot page repeatedly": however many   *)
(* tasks find the same state at once, it gets one line.                    *)
(***************************************************************************)
PagesOncePerState == \A i, j \in 1..Len(lines) : lines[i] = lines[j] => i = j

Resting(t) == at[t] \in {"works", "sleep", "ended"}

(***************************************************************************)
(* raise_stream_stopped: once the tasks that set a state have returned     *)
(* from raising it, the most urgent one has its line, whichever was set    *)
(* first and whatever the others had read by then.  An operator who was    *)
(* told of a fence only would not rewind the offsets of a gap.             *)
(***************************************************************************)
MostUrgentIsAnnounced ==
  (\A t \in Tasks : Resting(t)) =>
    /\ order_fatal => 0 \in Announced
    /\ fenced => \E r \in Announced : r <= 1
    /\ failing.kind = "Rotation" => Announced # {}

\* What fatal_error() would report: the rank of the first state that is set.
Reported ==
  IF order_fatal THEN 0 ELSE IF fenced THEN 1 ELSE IF violation THEN 2
  ELSE IF failing.kind \in {"permanent", "Rotation"} THEN 3 ELSE NotRaised

(***************************************************************************)
(* raise_stream_stopped, "the alarm text and fatal_error() have to agree": *)
(* once a state has its line, fatal_error() reports it or a more urgent    *)
(* one for good, and never goes back to saying the writer is well.         *)
(***************************************************************************)
AnnouncedIsReported == \A r \in Announced : Reported <= r

(***************************************************************************)
(* spawn_ticker: a violation parked by the notify loop, which nobody       *)
(* returns to a caller while the application is idle, is announced, or a   *)
(* more urgent state is.                                                   *)
(***************************************************************************)
ViolationIsAlarmed == violation ~> \E r \in Announced : r <= 2

=============================================================================
