---------------------------- MODULE WriterLease ----------------------------
(***************************************************************************)
(* The writer lease (src/lock.rs): acquire_writer_lease and the release on *)
(* a failed open (src/client.rs), the heartbeat, close's stop_heartbeat    *)
(* and release_lease, and the release by a dropped writer (src/table.rs).  *)
(* StreamSessions takes the lease for granted; this module is about its    *)
(* timing, so it has a clock.                                              *)
(*                                                                         *)
(* Time is discrete and every duration is an age that counts up from its   *)
(* event, so no clock reading is ever stored and nothing bounds the length *)
(* of a behaviour.  Elapse lets one unit go by unless something is due.    *)
(*                                                                         *)
(* A storage request is sent, takes effect on the lock object, and is      *)
(* answered: three moments, the last at most OpTime after the first.  What *)
(* a read found may no longer hold when its answer is handled, and then    *)
(* the next request has not yet been sent.  An instance_uuid is made for   *)
(* one open_table: each writer opens the stream once.                      *)
(***************************************************************************)
EXTENDS Integers, FiniteSets

CONSTANTS
  Writer,       \* the open_table calls of the instance
  Host,         \* the machines they may run on
  Skew,         \* how far each host's clock is ahead of the slowest one's
  MaxSkew,      \* the largest of these
  Tick,         \* tick of the heartbeat task
  Period,       \* lock_heartbeat_interval
  Lease,        \* lock_lease_timeout
  Settle,       \* settle delay between write and read-back
  Poll,         \* pause between two looks at a fresh lock
  AcquireWait,  \* ACQUIRE_WAIT
  JoinWait,     \* how long close waits for the heartbeat task
  OpenTime,     \* longest recovery: the rest of open_table
  Settings      \* the circumstances a behaviour of this instance may meet

ASSUME TimesAssumption ==
  /\ Tick \in Nat \ {0} /\ Period \in Nat /\ Tick <= Period
  /\ Lease \in Nat /\ Lease >= 3 * Period
  /\ {Settle, Poll, AcquireWait, JoinWait, OpenTime} \subseteq Nat \ {0}

\* 1 s and 30 s.
ASSUME JoinAssumption == Settle <= JoinWait

ASSUME SkewAssumption == MaxSkew \in Nat /\ Skew \in [Host -> 0..MaxSkew]

(***************************************************************************)
(* A setting says which faults there are, which writers may find storage   *)
(* failing, which may be paused for any time, the longest storage round    *)
(* trip and who runs where.                                                *)
(***************************************************************************)
ASSUME SettingsAssumption ==
  Settings \subseteq [faults : SUBSET {"crash", "force"}, failing : SUBSET Writer,
                      paused : SUBSET Writer, opTime : Nat \ {0}, host : [Writer -> Host]]

VARIABLES
  setting, \* the one of this behaviour
  lock,    \* the lock object: <<>>, or its holder and the age of heartbeat_at_ms
  writer,  \* per writer: its open_table, close and drop
  beat,    \* per writer: its heartbeat task
  seen,    \* per writer: the lock object its look has found, until it is answered
  lost,    \* per running writer, how long the lock has not been its own
  forced   \* whether the operator deleted the lock

vars == <<setting, lock, writer, beat, seen, lost, forced>>

-----------------------------------------------------------------------------
\* Ages saturate where no comparison can tell them apart any more.
MaxAge == Lease + MaxSkew + 1

OpTime == setting.opTime

Older(age) == IF age < MaxAge THEN age + 1 ELSE age

\* No step lasts longer, but for the age of a stamp in a request of a paused process.
MaxSince == MaxAge + OpTime + Settle + Poll + OpenTime + JoinWait

Lock == [holder : Writer, age : 0..MaxAge]

\* The lock object, or what a read of it finds.
LockObject == {<<>>} \cup {<<l>> : l \in Lock}

(***************************************************************************)
(* step: "new"; acquire_writer_lease's "look", "poll", "claim", "settle",  *)
(* "readback"; "open" (the recovery) and the release when it fails,        *)
(* "undo", "undelete"; "run"; close's "join", "release", "delete"; and the *)
(* ends: "refused", "fenced", "dropped", "dead", "released" and "leaked",  *)
(* for a close that could not release.                                     *)
(*                                                                         *)
(* answer: "none" until the request of this step has taken effect; then    *)
(* whether the lock object was the writer's own (after a write: is).       *)
(***************************************************************************)
NewWriter == [step |-> "new", answer |-> "none", since |-> 0, waited |-> 0, attempt |-> 0]

NoBeat ==
  [step |-> "none", answer |-> "none", since |-> 0, ticked |-> 0, due |-> 0, unverified |-> 0]

Init ==
  /\ setting \in Settings
  /\ lock = <<>>
  /\ writer = [w \in Writer |-> NewWriter]
  /\ beat = [w \in Writer |-> NoBeat]
  /\ seen = [w \in Writer |-> <<>>]
  /\ lost = [w \in Writer |-> 0]
  /\ forced = FALSE

At(w, step) == writer[w].step = step

Beat(w, step) == beat[w].step = step

Goto(w, step) ==
  writer' = [writer EXCEPT ![w].step = step, ![w].answer = "none", ![w].since = 0]

\* The last step of a writer: nothing of its past matters any more.
End(w, step) == writer' = [writer EXCEPT ![w] = [NewWriter EXCEPT !.step = step]]

BeatGoto(w, step) ==
  beat' = [beat EXCEPT ![w].step = step, ![w].answer = "none", ![w].since = 0]

BeatEnds(w) == beat' = [beat EXCEPT ![w] = [NoBeat EXCEPT !.step = "done"]]

Owns(w) == lock # <<>> /\ lock[1].holder = w

Failing(w) == w \in setting.failing

\* A write of w's record, stamped when it was sent.
Written(w, age) == <<[holder |-> w, age |-> IF age < MaxAge THEN age ELSE MaxAge]>>

-----------------------------------------------------------------------------
(***************************************************************************)
(* Storage: read_lock, write_lock and delete_lock take effect.             *)
(***************************************************************************)
Requests == {"look", "claim", "readback", "undo", "undelete", "release", "delete"}

BeatRequests == {"check", "renew", "dropcheck", "dropdelete"}

\* What the answer will say.
Verdict(w) == IF Owns(w)' THEN "mine" ELSE "other"

Serve(w) ==
  /\ writer[w].step \in Requests /\ writer[w].answer = "none"
  /\ lock' = CASE At(w, "claim") -> Written(w, writer[w].since)
              [] writer[w].step \in {"undelete", "delete"} -> <<>>
              [] OTHER -> lock
  /\ writer' = [writer EXCEPT ![w].answer = Verdict(w)]
  /\ seen' = IF At(w, "look") THEN [seen EXCEPT ![w] = lock] ELSE seen
  /\ UNCHANGED <<setting, beat, lost, forced>>

\* heartbeat_at_ms is stamped when the write is sent.  A renewal takes a lock
\* back that was lost after the check.
BeatServe(w) ==
  /\ beat[w].step \in BeatRequests /\ beat[w].answer = "none"
  /\ lock' = CASE Beat(w, "renew") -> Written(w, beat[w].since)
              [] Beat(w, "dropdelete") -> <<>>
              [] OTHER -> lock
  /\ beat' = [beat EXCEPT ![w].answer = Verdict(w)]
  /\ lost' = IF Owns(w)' THEN [lost EXCEPT ![w] = 0] ELSE lost
  /\ UNCHANGED <<setting, writer, seen, forced>>

\* A good answer follows the effect; an error may come before it, and then the
\* request has none.
Answered(w) == writer[w].answer # "none"

BeatAnswered(w) == beat[w].answer # "none"

-----------------------------------------------------------------------------
(***************************************************************************)
(* What a reader makes of the lock object it has read.                     *)
(***************************************************************************)
\* Mutant: the deadline is the heartbeat's period.
IsStalePeriod(w) ==
  seen[w][1].age + Skew[setting.host[w]] - Skew[setting.host[seen[w][1].holder]] > Period

\* is_stale: by the reader's clock, saturating.
IsStale(w) ==
  seen[w][1].age + Skew[setting.host[w]] - Skew[setting.host[seen[w][1].holder]] > Lease

\* provably_dead_on_this_host: the kill -9 fast path.
ProvablyDead(w) ==
  /\ setting.host[seen[w][1].holder] = setting.host[w]
  /\ At(seen[w][1].holder, "dead")

\* Nobody holds it, or whoever does may be overruled.
Claimable(w) == seen[w] # <<>> => seen[w][1].holder = w \/ IsStale(w) \/ ProvablyDead(w)

-----------------------------------------------------------------------------
(***************************************************************************)
(* acquire_writer_lease.                                                   *)
(***************************************************************************)
Open(w) ==
  /\ At(w, "new")
  /\ writer' = [writer EXCEPT ![w] = [NewWriter EXCEPT !.step = "look"]]
  /\ UNCHANGED <<setting, lock, beat, seen, lost, forced>>

Look(w) ==
  /\ At(w, "look")
  /\ \/ Answered(w) /\ Claimable(w) /\ Goto(w, "claim")
     \/ /\ Answered(w) /\ ~Claimable(w)
        /\ IF writer[w].waited >= AcquireWait THEN End(w, "refused") ELSE Goto(w, "poll")
     \/ Failing(w) /\ End(w, "refused")
  /\ seen' = [seen EXCEPT ![w] = <<>>]
  /\ UNCHANGED <<setting, lock, beat, lost, forced>>

LookAgain(w) ==
  /\ At(w, "poll") /\ writer[w].since = Poll
  /\ Goto(w, "look")
  /\ UNCHANGED <<setting, lock, beat, seen, lost, forced>>

Claim(w) ==
  /\ At(w, "claim")
  /\ \/ Answered(w) /\ Goto(w, "settle")
     \/ Failing(w) /\ End(w, "refused")
  /\ UNCHANGED <<setting, lock, beat, seen, lost, forced>>

Settled(w) ==
  /\ At(w, "settle") /\ writer[w].since = Settle
  /\ Goto(w, "readback")
  /\ UNCHANGED <<setting, lock, beat, seen, lost, forced>>

\* Mutant: no read-back, the settle delay is the whole check.
ReadBackNot(w) ==
  /\ At(w, "readback")
  /\ Goto(w, "open")
  /\ UNCHANGED <<setting, lock, beat, seen, lost, forced>>

ReadBack(w) ==
  /\ At(w, "readback")
  /\ \/ writer[w].answer = "mine" /\ Goto(w, "open")
     \/ writer[w].answer = "other" /\ End(w, "refused")
     \/ Failing(w) /\ End(w, "refused")
  /\ UNCHANGED <<setting, lock, beat, seen, lost, forced>>

(***************************************************************************)
(* The rest of open_table runs under the lease, unrenewed.  If it fails    *)
(* the lease is given back, best effort.                                   *)
(***************************************************************************)
\* TableWriter::new and spawn_lock_heartbeat: the first real tick is a beat.
Opened(w) ==
  /\ At(w, "open")
  /\ Goto(w, "run")
  /\ beat' = [beat EXCEPT ![w] = [NoBeat EXCEPT !.step = "wait", !.due = Period]]
  /\ UNCHANGED <<setting, lock, seen, lost, forced>>

OpenFails(w) ==
  /\ At(w, "open")
  /\ Goto(w, "undo")
  /\ UNCHANGED <<setting, lock, beat, seen, lost, forced>>

Undo(w) ==
  /\ At(w, "undo")
  /\ \/ writer[w].answer = "mine" /\ Goto(w, "undelete")
     \/ (writer[w].answer = "other" \/ Failing(w)) /\ End(w, "refused")
  /\ UNCHANGED <<setting, lock, beat, seen, lost, forced>>

Undelete(w) ==
  /\ At(w, "undelete")
  /\ Answered(w) \/ Failing(w)
  /\ End(w, "refused")
  /\ UNCHANGED <<setting, lock, beat, seen, lost, forced>>

-----------------------------------------------------------------------------
(***************************************************************************)
(* spawn_lock_heartbeat.                                                   *)
(***************************************************************************)
\* A fence stops append and flush for good, and the heartbeat with it.
Fence(w) ==
  /\ BeatEnds(w)
  /\ IF At(w, "run") THEN End(w, "fenced") ELSE UNCHANGED writer

\* A renewal or a check that failed: retried on the next tick, for one lease.
BeatFails(w) ==
  IF beat[w].unverified >= Lease THEN Fence(w) ELSE BeatGoto(w, "wait") /\ UNCHANGED writer

\* The select prefers stop, which close has signalled before it joins.
Stopping(w) == writer[w].step \in {"join", "release", "delete", "released", "leaked"}

\* since_beat += tick: a beat is due, not yet due, or the writer is gone.
HeartbeatTick(w) ==
  /\ Beat(w, "wait") /\ ~Stopping(w)
  /\ beat[w].ticked >= Tick
  /\ beat' = [beat EXCEPT ![w].ticked = 0, ![w].since = 0,
       ![w].due = IF At(w, "dropped") THEN 0 ELSE IF @ < Period THEN @ + Tick ELSE Period,
       ![w].step =
          IF At(w, "dropped") THEN "dropcheck"
          ELSE IF beat[w].due + Tick < Period THEN "wait" ELSE "check"]
  /\ UNCHANGED <<setting, lock, writer, seen, lost, forced>>

\* Mutant: a lock that is another's counts as a check that failed.
CheckRetries(w) ==
  /\ Beat(w, "check")
  /\ \/ beat[w].answer = "mine" /\ BeatGoto(w, "renew") /\ UNCHANGED writer
     \/ (beat[w].answer = "other" \/ Failing(w)) /\ BeatFails(w)
  /\ UNCHANGED <<setting, lock, seen, lost, forced>>

Check(w) ==
  /\ Beat(w, "check")
  /\ \/ beat[w].answer = "mine" /\ BeatGoto(w, "renew") /\ UNCHANGED writer
     \/ beat[w].answer = "other" /\ Fence(w)
     \/ Failing(w) /\ BeatFails(w)
  /\ UNCHANGED <<setting, lock, seen, lost, forced>>

\* last_verified is set when the write has been answered.
Renew(w) ==
  /\ Beat(w, "renew")
  /\ \/ /\ BeatAnswered(w)
        /\ beat' = [beat EXCEPT ![w].step = "wait", ![w].answer = "none", ![w].since = 0,
                                ![w].due = 0, ![w].unverified = 0]
        /\ UNCHANGED writer
     \/ Failing(w) /\ BeatFails(w)
  /\ UNCHANGED <<setting, lock, seen, lost, forced>>

\* stop.notified() wins the select.
Stop(w) ==
  /\ Beat(w, "wait") /\ Stopping(w)
  /\ BeatEnds(w)
  /\ UNCHANGED <<setting, lock, writer, seen, lost, forced>>

\* The last handle was dropped: the task releases the lease, best effort.
DropCheck(w) ==
  /\ Beat(w, "dropcheck")
  /\ \/ beat[w].answer = "mine" /\ BeatGoto(w, "dropdelete")
     \/ (beat[w].answer = "other" \/ Failing(w)) /\ BeatEnds(w)
  /\ UNCHANGED <<setting, lock, writer, seen, lost, forced>>

DropDelete(w) ==
  /\ Beat(w, "dropdelete")
  /\ BeatAnswered(w) \/ Failing(w)
  /\ BeatEnds(w)
  /\ UNCHANGED <<setting, lock, writer, seen, lost, forced>>

-----------------------------------------------------------------------------
(***************************************************************************)
(* close and drop.                                                         *)
(***************************************************************************)
\* Mutant: close notifies the heartbeat and releases without waiting for it.
CloseNoJoin(w) ==
  /\ At(w, "run")
  /\ writer' = [writer EXCEPT ![w].step = "release", ![w].attempt = 1]
  /\ UNCHANGED <<setting, lock, beat, seen, lost, forced>>

\* Past the drain: stop_heartbeat signals the task and waits for it.
Close(w) ==
  /\ At(w, "run")
  /\ Goto(w, "join")
  /\ UNCHANGED <<setting, lock, beat, seen, lost, forced>>

\* The heartbeat has stopped, or has not within JoinWait.
Joined(w) ==
  /\ At(w, "join")
  /\ Beat(w, "done") \/ writer[w].since >= JoinWait
  /\ writer' = [writer EXCEPT ![w] = [NewWriter EXCEPT !.step = "release", !.attempt = 1]]
  /\ UNCHANGED <<setting, lock, beat, seen, lost, forced>>

\* Mutant: the release is retried without end.
ReleaseFailsAgain(w) ==
  writer' = [writer EXCEPT ![w].step = "release", ![w].answer = "none", ![w].since = 0,
                           ![w].attempt = @ + 1]

\* One of three attempts failed.
ReleaseFails(w) ==
  IF writer[w].attempt < 3
    THEN writer' = [writer EXCEPT ![w].step = "release", ![w].answer = "none", ![w].since = 0,
                                  ![w].attempt = @ + 1]
    ELSE End(w, "leaked")

Release(w) ==
  /\ At(w, "release")
  /\ \/ writer[w].answer = "mine" /\ Goto(w, "delete")
     \/ writer[w].answer = "other" /\ End(w, "released")
     \/ Failing(w) /\ ReleaseFails(w)
  /\ UNCHANGED <<setting, lock, beat, seen, lost, forced>>

Delete(w) ==
  /\ At(w, "delete")
  /\ \/ Answered(w) /\ End(w, "released")
     \/ Failing(w) /\ ReleaseFails(w)
  /\ UNCHANGED <<setting, lock, beat, seen, lost, forced>>

Drop(w) ==
  /\ At(w, "run")
  /\ End(w, "dropped")
  /\ UNCHANGED <<setting, lock, beat, seen, lost, forced>>

-----------------------------------------------------------------------------
(***************************************************************************)
(* The environment.                                                        *)
(***************************************************************************)
Ended == {"refused", "released", "leaked", "dead"}

(***************************************************************************)
(* A write that was sent and has not taken effect may outlive its process. *)
(***************************************************************************)
Unserved(w) ==
  (IF At(w, "claim") /\ ~Answered(w) THEN {<<"lateput", writer[w].since>>} ELSE {}) \cup
  (IF Beat(w, "renew") /\ ~BeatAnswered(w) THEN {<<"lateput", beat[w].since>>} ELSE {}) \cup
  (IF writer[w].step \in {"undelete", "delete"} /\ ~Answered(w)
     THEN {<<"latedelete", writer[w].since>>} ELSE {}) \cup
  (IF Beat(w, "dropdelete") /\ ~BeatAnswered(w) THEN {<<"latedelete", beat[w].since>>} ELSE {})

Crash(w) ==
  /\ "crash" \in setting.faults
  /\ writer[w].step \notin Ended \cup {"new"}
  /\ End(w, "dead")
  /\ \/ BeatEnds(w)
     \/ \E late \in Unserved(w) :
          beat' = [beat EXCEPT ![w] = [NoBeat EXCEPT !.step = late[1], !.since = late[2]]]
  /\ seen' = [seen EXCEPT ![w] = <<>>]
  /\ UNCHANGED <<setting, lock, lost, forced>>

\* The last write of a dead process reaches the lock object.
Land(w) ==
  /\ beat[w].step \in {"lateput", "latedelete"}
  /\ lock' = IF Beat(w, "lateput") THEN Written(w, beat[w].since) ELSE <<>>
  /\ BeatEnds(w)
  /\ UNCHANGED <<setting, writer, seen, lost, forced>>

\* The operator deletes the lock object, once.
OperatorDeletes ==
  /\ "force" \in setting.faults /\ ~forced /\ lock # <<>>
  /\ lock' = <<>> /\ forced' = TRUE
  /\ UNCHANGED <<setting, writer, beat, seen, lost>>

(***************************************************************************)
(* What cannot wait: requests are answered within OpTime and timers fire   *)
(* on time, unless the process is paused.                                  *)
(***************************************************************************)
Patience(w) ==
  CASE writer[w].step \in Requests -> OpTime
    [] At(w, "poll")   -> Poll
    [] At(w, "settle") -> Settle
    [] At(w, "open")   -> OpenTime
    [] At(w, "join")   -> IF Beat(w, "done") THEN 0 ELSE JoinWait
    [] OTHER           -> MaxAge + 1

BeatPatience(w) ==
  CASE Beat(w, "wait") -> IF Stopping(w) THEN 0 ELSE MaxAge + 1
    [] beat[w].step \in BeatRequests \cup {"lateput", "latedelete"} -> OpTime
    [] OTHER -> MaxAge + 1

Urgent(w) ==
  \/ writer[w].since >= Patience(w)
  \/ beat[w].since >= BeatPatience(w)
  \/ Beat(w, "wait") /\ beat[w].ticked >= Tick

\* The steps whose duration matters.
Timed == Requests \cup {"poll", "settle", "open", "join"}

\* How long a writer may work on without the lock.
BeatBound(w) == Tick + 2 * OpTime + IF Failing(w) THEN Lease ELSE Period

MaxLost == Tick + 2 * OpTime + Lease + 1

Holding(w) == writer[w].step \in {"open", "run"}

\* The stamp of a lock object, or of a copy that was read, grows older.
Aging(l) == IF l = <<>> THEN l ELSE <<[l[1] EXCEPT !.age = Older(@)]>>

Elapse ==
  /\ \A w \in Writer \ setting.paused : ~Urgent(w)
  /\ lock' = Aging(lock)
  /\ seen' = [w \in Writer |-> Aging(seen[w])]
  /\ writer' = [w \in Writer |->
       IF writer[w].step \in Timed
         THEN [writer[w] EXCEPT
                !.since = IF @ < Patience(w) THEN @ + 1
                          ELSE IF At(w, "claim") THEN Older(@) ELSE @,
                !.waited = IF writer[w].step \in {"look", "poll"} /\ @ < AcquireWait
                             THEN @ + 1 ELSE @]
         ELSE writer[w]]
  /\ beat' = [w \in Writer |->
       IF beat[w].step \in {"none", "done"} THEN beat[w]
       ELSE [beat[w] EXCEPT
              !.ticked = IF @ < Tick THEN @ + 1 ELSE @,
              !.since = IF beat[w].step = "wait" THEN 0
                        ELSE IF @ < OpTime THEN @ + 1
                        ELSE IF beat[w].step \in {"renew", "lateput"} THEN Older(@) ELSE @,
              !.unverified = IF Failing(w) /\ @ < Lease THEN @ + 1 ELSE @]]
  /\ lost' = [w \in Writer |->
       IF ~At(w, "run") \/ Owns(w) THEN 0
       ELSE IF lost[w] <= BeatBound(w) THEN lost[w] + 1 ELSE lost[w]]
  /\ UNCHANGED <<setting, forced>>

WriterStep(w) ==
  \/ Serve(w)
  \/ Open(w) \/ Look(w) \/ LookAgain(w) \/ Claim(w) \/ Settled(w) \/ ReadBack(w)
  \/ Opened(w) \/ OpenFails(w) \/ Undo(w) \/ Undelete(w)
  \/ Close(w) \/ Joined(w) \/ Release(w) \/ Delete(w) \/ Drop(w)

BeatStep(w) ==
  \/ BeatServe(w) \/ Land(w)
  \/ HeartbeatTick(w) \/ Check(w) \/ Renew(w) \/ Stop(w) \/ DropCheck(w) \/ DropDelete(w)

Next ==
  \/ \E w \in Writer : WriterStep(w) \/ BeatStep(w) \/ Crash(w)
  \/ OperatorDeletes
  \/ Elapse

Spec == Init /\ [][Next]_vars

-----------------------------------------------------------------------------
(***************************************************************************)
(* Properties.                                                             *)
(***************************************************************************)
\* Every variable holds values of its type.
LeaseTypeOK ==
  /\ setting \in Settings
  /\ lock \in LockObject /\ seen \in [Writer -> LockObject]
  /\ \A w \in Writer :
       /\ writer[w].since \in 0..MaxSince /\ beat[w].since \in 0..MaxSince
       /\ writer[w].waited \in 0..AcquireWait /\ writer[w].attempt \in 0..3
       /\ beat[w].unverified \in 0..Lease /\ beat[w].due \in 0..(Period + Tick)
  /\ lost \in [Writer -> 0..MaxLost]
  /\ forced \in BOOLEAN

Timely == setting.paused = {}

Reliable == setting.failing = {}

(***************************************************************************)
(* "lock_lease_timeout must dwarf worst-case clock skew": and everything   *)
(* that happens between two stamps, the recovery and its first beat or a   *)
(* period and the tick that ends it.                                       *)
(***************************************************************************)
LeaseDwarfsTheRest ==
  \A v, w \in Writer :
    /\ 5 * OpTime + Settle + OpenTime + Tick + Skew[setting.host[w]] - Skew[setting.host[v]] <= Lease
    /\ 4 * OpTime + Period + Tick + Skew[setting.host[w]] - Skew[setting.host[v]] <= Lease

(***************************************************************************)
(* lock.rs, "at most one live process per (table, writer_id)": while no    *)
(* process pauses, storage answers and the operator keeps off the lock,    *)
(* two writers never work under the lease together - if two requests fit   *)
(* into the settle delay: the look that found the lock free and the claim  *)
(* that follows it may take effect on either side of a rival's claim.      *)
(***************************************************************************)
AtMostOneWriter ==
  Timely /\ Reliable /\ setting.faults \subseteq {"crash"} /\ 2 * OpTime < Settle
    /\ LeaseDwarfsTheRest =>
    Cardinality({w \in Writer : Holding(w)}) <= 1

(***************************************************************************)
(* lock.rs, "a fenced writer within one heartbeat": a writer whose lock    *)
(* was taken or deleted while it ran, or that won an acquire race by a     *)
(* read-back that came too early, has stopped a heartbeat later, give or   *)
(* take the requests in flight.  If its storage fails it has stopped when  *)
(* it could verify nothing for a lease.                                    *)
(***************************************************************************)
LoserStops ==
  \A w \in Writer \ setting.paused : At(w, "run") => lost[w] <= BeatBound(w)

(***************************************************************************)
(* A writer that runs keeps the lock as long as storage answers in time,   *)
(* twice within the settle delay: its renewals outpace every reader's      *)
(* clock, and a predecessor's release or a rival's claim never takes it    *)
(* away.  Only the operator can.                                           *)
(***************************************************************************)
RunningKeepsTheLock ==
  [][\A w \in Writer :
       /\ Timely /\ Reliable /\ 2 * OpTime < Settle /\ LeaseDwarfsTheRest
       /\ At(w, "run") /\ Owns(w) /\ ~Owns(w)'
       => forced']_vars

(***************************************************************************)
(* stop_heartbeat: after close has released the lease no renewal writes    *)
(* the lock back, if requests are answered within the time close waits.    *)
(***************************************************************************)
ReleasedStaysReleased ==
  2 * OpTime < JoinWait =>
    \A w \in Writer \ setting.paused : At(w, "released") => ~Owns(w)

=============================================================================
