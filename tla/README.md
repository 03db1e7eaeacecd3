# A TLA+ model of relyt-ingest

relyt-ingest is a Rust SDK that turns one Kafka partition into a stream of CSV
files on object storage ("staging") and announces each file to a Relyt server,
which loads the files of one writer in order.  This directory models the parts
of it that are hard to get right and hard to test, checks them with TLC on
small instances, and proves the most important facts with TLAPS for every
instance.

Paths are relative to the repository; `table.rs:536` means `src/table.rs`,
line 536.

## 1. Inventory

| component | state it keeps | operations | interacts with |
|---|---|---|---|
| writer front end (`table.rs` TableWriter) | buffer, offset high-water mark, epoch and next file number, last sealed serial, staged offset | `append`, `flush`, `close`, `fatal_error`, `staged_offset` | seal lock and seal channel of the pipeline; the progress slot |
| rotation pipeline (`table.rs` render/gzip/put stages) | three channels, one file per stage, the retry count, `prev` of the put stage, the progress watch (`durable_seq`, one `failing` slot) | receive, attempt, retry, send on, give up, land | writer front end, fence flag, object storage, notifier |
| ticker (`spawn_ticker`) | none | seal an aged buffer, persist state.json, notice a parked violation | seal lock, notifier, lease flag |
| stream-stopped alarm (`raise_stream_stopped`, `alarm.rs`) | most urgent rank announced so far | raise, once per worse cause | every way a writer stops |
| serial sequence (`naming.rs`) | - | encode `(epoch, seq)`, parse a staged name | seal, recovery, server watermark |
| notifier (`notify.rs`) | per writer: a FIFO queue, the confirmed pair, a parked violation | enqueue, submit with retry, clear on reopen | put stage, server, ticker, `open_table` |
| recovery (`client.rs` open_table, `recovery.rs`) | - | read state and watermark, LIST, choose resume offset and epoch, write state, re-notify | staging, server, notifier |
| writer lease (`lock.rs`, `acquire_writer_lease`, `spawn_lock_heartbeat`, `release_lease`) | one lock object | acquire with read-back, renew, take over when stale, release | fence flag, staging |
| state.json (`state.rs`, `persist_state_if_due`) | resume offset, highest epoch | write at open, refresh on confirmation | recovery |
| staging GC (`gc_pass`) | - | delete consumed files above the floor | staging, server watermark |
| lag monitor (`spawn_lag_monitor`, `lag_of`) | known files, last sample | sample | server watermark |
| staging credentials (`staging.rs` StagingHandle, `refresh_managed_staging`) | the live snapshot | swap credentials | put stage, notifier |
| dedup (`dedup.rs`), CSV (`csv.rs`), schema (`schema.rs`), config (`config.rs`), errors, failpoints | - | pure conversions and validation | render stage, `connect` |


What is hard here, and what makes each part correct:

- **Front end and pipeline.**  Several application tasks, the ticker and three
  stage tasks share a buffer, a seal lock, bounded channels and one progress
  slot, and any caller may drop its future at an await.  Correct means: a batch
  `append` accepted is in exactly one place; `staged_offset` never leads what is
  on storage; files reach the put stage in the order they were sealed; a call
  never hangs and a stopped writer says why.
- **Sessions.**  A process may die, drop its writer, close it, fail to open it
  or be preempted between any two steps, and a submission's answer may be lost.
  Correct means: the next session resumes neither behind nor past what the
  server owns, announces what was left unannounced, in order, and never reuses
  a `serial_seq`.
- **Lease.**  A read-then-write protocol on storage without conditional puts,
  with time stamps of several clocks.  Correct means: at most one writer that
  works, within the limits `lock.rs` states; a writer that lost the lock stops
  in bounded time; a released lock stays released.
- **Alarm.**  Every way a writer stops raises it, in parallel, from what each
  task could see.  Correct means: a line per state, the most urgent state among
  them, and `fatal_error` saying the same.
- **Credentials.**  A snapshot swapped under the puts that use it, by refreshes
  nobody orders.  Correct means: denied puts land in the end, files never leave
  the location, the newest key stays.
- **Dedup, CSV.**  Two encodings of one row, for a hash map and for a file.
  Correct means: the last version of a key stays, the loader reads back what was
  written, and the two agree on what a key is.

Every place where this bites is listed with its line under `hazards` in
`PROJECT.json`, with the properties that cover it.

## 2. Modules and the code

| module | models | state | actions |
|---|---|---|---|
| `SerialSeq` | `naming.rs` encode, the epoch roll of `seal` | - | operators |
| `RotationPipeline` | one `TableWriter` | buffer, locks, calls, stages, channels, progress slot, stop flags, alarm rank, storage | one per section of code between two awaits |
| `StagingQueue` | what a writer promises of its files (head of `table.rs`) | the files not announced, the last number, the staged offset, what was announced | `Seal`, `Announce` |
| `StreamSessions` | one stream across its sessions | per session its writer, per process its notifier, lease holder, staging, state.json, the server's jobs | one per request to storage or the server |
| `LoadedStream` | what a stream promises (GUIDE.md) | the last durable offset, the loaded batches | `Stage`, `Load` |
| `WriterLease` | the lock object, `acquire_writer_lease`, the heartbeat, every release | the lock and the age of its stamp, per writer its open/close and its heartbeat | one per request to storage or timer; `Elapse` for time |
| `StopAlarm` | `raise_stream_stopped` and every task that calls it | stop flags, progress slot, rank, lines | one per lock taken |
| `Credentials` | `StagingHandle`, `put_once`, `refresh_managed_staging` | the master's answer, the live snapshot, what each task holds | one per request or lock |
| `RenderedFile` | `render`: `dedup.rs`, quoting in `csv.rs`, and a model of the loader | the sealed file, the cursors of the loops, `latest`, the kept rows, what has been read | one per turn of a loop |
| `MCRotationPipeline`, `MCStreamSessions`, `MCWriterLease`, `MCRenderedFile` | instances for TLC | | |
| `RotationPipelineProofs` | theorems about `RotationPipeline` | | |
| `StreamSessionsProofs`, `StreamLogProofs` | theorems about `StreamSessions`; `LoadedStream` holds its own | | |
| `WriterLeaseProofs`, `StopAlarmProofs`, `CredentialsProofs`, `RenderedFileProofs` | theorems about the module of that name | | |

How they compose.  `StreamSessions` implements `LoadedStream`: the refinement
mapping takes what a later session could still find (`Durable`: staging and
state.json) for `durable` and the server's jobs for `jobs`, and the property
`LoadedInOrder == Stream!Spec` says that every step of the sessions is a step of
the promise or none.  In the same way `RotationPipeline` implements
`StagingQueue` (`RotatesAsQueue == Queue!Spec`): the queue is what lies between
`seal` and `record_durable`, read off the six places a file can be in.  The other
modules each open up what another one takes as a
single step: `WriterLease` the lease of `StreamSessions` (`holder`), `StopAlarm`
the alarm of `RotationPipeline` (`Raised`), `Credentials` the put of both,
`RenderedFile` the render attempt.

`StreamSessions` uses, as its granularity, what `RotationPipeline` establishes
about the inside of a session: it is one queue that files leave in the order they
were sealed (`RotationIsQueue`, `AnnouncedInOrder`).  It does not instantiate
`RotationPipeline`; the two meet at `record_durable`, which is an action of both
(`record_durable` there, `Record` here).

### RotationPipeline

A caller's `append`, `flush` or `close` is a record in `call` whose `pc` says at
which await it stands: waiting for the seal lock (`waitLock`), for room in the
queue (`waitRoom`), for a file to land (`durable`), and the short sections
between them.  A stage is its `at`, the file in its `hand` and its `inbox`.  What the
environment may do is chosen per instance by `Events`: rows age, the heartbeat
fences, the notify loop parks a contract violation, a row does not render, a
future is dropped, the writer is closed or dropped, a caller passes a bad range.
Storage may fail or succeed at every attempt, or leave it unanswered, in every
instance.

A writer does not start from nothing.  `Recovered` is the `staged_offset` that
`open_table` hands to `TableWriter::new` (`client.rs:321`, `table.rs:464`); the
high-water mark starts at none (`table.rs:482`), so a consumer that was rewound
replays offsets at or below `Recovered` and `append` takes them
(`table.rs:441`, GUIDE.md:421).  The instances start with `Recovered` inside the
range of offsets, so replayed, straddling and new files all occur; the proofs hold for every
`Recovered`, none included.  The notify
loop may park a contract violation before the writer has announced anything: the
backfill of `open_table` is in the same queue (`client.rs:307`).

Reductions, each of which removes only orders that no variable shows:

- `check_health` is one step with the section under the state lock that follows
  it; a stop flag set in between is as if set after.
- The permit of `try_reserve` is not a variable: only the holder of the seal
  lock reserves, so nobody can take the room.
- What is left in a channel whose receiver has gone stays in `inbox`; nothing
  reads it.
- A put's landing is one step with its return (`StreamSessions` separates
  them), and the fence check after the put one step with `record_durable`.
- `enqueue` cannot fail: the notify task of a live process does not end.
- `tries` saturates at `StallAfter`, the only threshold it is compared with.
- `buffered` is a set of batches: their order in a file is not observed.
- Sizes and ages are free choices: an append may or may not reach
  `rotate_size_bytes`, a non-empty buffer may become old at any time.

### StreamSessions

A session goes through `open_table` (`locked`, `state`, `mark`, `listed`,
`written`: what it has done), runs, and is gone.  A process is the number of the
session that started it; a later session may run in the same process and then
shares its notifier, whose queue and confirmed pair outlive the writer.  The
server is external: its watermark, the gate that swallows replays and known
identifiers, and loads in serial order, as `notify.rs` and `recovery.rs`
describe and rely on them.

Reductions and limits:

- Appending is part of the `Seal` that cuts the rows: buffered rows touch
  neither storage nor server.
- A dropped writer is still running until the last of its tasks lets go;
  nobody appends then, which is one of the behaviours of a running session.
- `close` writes state.json and releases the lease in one step; both may fail.
  Splitting them would let a successor in only later.
- A GC pass is its deletions, one step each, oldest first.  Its watermark and
  listing are never older than the pass; the watermark and the newest file only
  grow while it runs; the age limit may spare any file.  Nothing in `gc_pass`
  looks at the fence or at the close, so a session that is gone may still delete,
  while its successor lists and plans too.  The model lets every session that is
  gone do so, those that crashed or failed to open included, which only adds
  behaviours.
- A session appends from its resume position on.  A consumer that is rewound by
  hand loads rows again, by intention (GUIDE.md:421); what that means for one
  writer is in `RotationPipeline`.
- `"preempt"` stands for every takeover from a live writer: paused for
  `lock_lease_timeout`, or cut off from storage.  Such a writer may also fence
  itself.  Two `open_table` calls never overlap: the acquire race is
  `WriterLease`'s.
- The put of a process that died does not land later; the same put of a
  preempted process does, and covers it.
- The contract violation (23P01) needs a known serial under another identifier;
  the identifier is a function of the serial within a group (`naming.rs:253`),
  so this SDK never causes it.  `RotationPipeline` has it as an event.
- `OldestFirst` chooses among the sequences of a set; serials within the set
  differ, so there is one choice.
- A stream the SDK knows nothing of (`kafka_resume_offset` is `None`) starts at
  offset 0.

### WriterLease

Time is discrete.  Nothing stores a clock reading: each duration is an age that
counts up, `Elapse` lets a unit go by, and it may not while something is due, so
requests are answered within `OpTime` and timers fire on time, unless the process
is paused.  `IsStale` adds the difference of the two clocks to the age of the
stamp.  A `setting` says what one behaviour may meet: crashes, processes
whose storage fails (also for requests that took effect), an operator who deletes
the lock, paused processes, requests too slow for the settle delay, one machine or two.

- A request is sent, takes effect on storage and is answered, each a step of its
  own (`Serve` and `BeatServe` are the effect).  What a read has found stands in
  `seen` until the writer decides on it, and the PUT it leads to is a request
  again: between the effect of a look and that of its claim up to two request
  times go by, and anybody may write in between.  A PUT carries the stamp of the
  moment it was sent.
- An error answer settles the fate of its request: it took effect before, or it
  will not.
- A process that is killed may leave a write behind that takes effect within the
  request's time, or never (`lateput`, `latedelete`, `Land`).
- An `open_table` has its own `instance_uuid`, so each writer opens once.
- The recovery is `OpenTime` of doing nothing; the drain of `close` comes before
  `Close`.  The pause of 300-600 ms between two attempts of `release_lease` is
  left out, and pids are not reused.
- The age of a stamp saturates at `MaxAge`, above which no comparison changes; no
  step lasts longer than `MaxSince`, except the request of a paused process, whose
  stamp ages with it.
- A renewal in flight when the lock was lost takes it back: `lost` starts again.
- `JoinAssumption` relates two constants of the code: the settle delay (1 s,
  `client.rs:678`) is not longer than `close` waits for the heartbeat (30 s,
  `table.rs:764`).

### StopAlarm

`fatal_state` reads order flag, fence flag, parked violation and progress slot
one after the other, each a step; then `fetch_min`, then the line.  The tasks end
where the code's do.  A file is not modelled: that a stage holds an earlier file
than another is that it stands behind it (`Ahead`).  `pipeline_gone` never
changes the slot, because whoever ended the render stage has published a terminal
state before; the action is there because the code is.

### Credentials

A key is a number, the location is `"home"` or `"away"`.  A put takes the live
snapshot when it is sent; the operator issues a key, revokes the older ones at
any time later, and may move the location and move it back.  A submission reads
the live snapshot at each attempt and keeps nothing, so it adds no state.

### RenderedFile

The loops of the code are the steps: one per row and key column in
`dedup_last_wins` (`pk_key`, `Insert`, `NextBatch`), one per winner that is
sorted into `keep` (`Keep`), one per cell and character in the formatter
(`BeginCell`, `WriteChar`, `EndCell`, `EndLine`).  There is no choice in them
after the file is chosen; they are steps, and not functions of the file, so that
what they compute can be proved by an invariant.  A text is a sequence of
characters that matter to the formats, a cell is `<< >>` for NULL or `<<text>>`, and
the primary key is any sequence of columns.  The bytes of a key are characters
here, with tag, length and separator among those a text may hold; `Length` says
how a length is written, and that two of them are written differently up to
`MaxText` (`u32::MAX`) is all the proofs know of it.  Integers, dates and decimals have keys of fixed width and CSV
text without quotes or NUL; their spelling is not modelled.

The loader is external: `format=csv`, `header=true`, as the comments of `csv.rs`
rely on it.  It reads a file one character after the other and looks neither
back nor ahead, so it reads along: each character goes to `ReadChar` when it is
written, and the file itself is not a variable.

## 3. Runs

Each run visits every reachable state of its instance.  The runs of
`RotationPipeline` check deadlock; the others do not: a finite partition that is
consumed, writers that have closed, tasks that have ended and a rendered file are
at rest.

| run | instance | states | asks |
|---|---|---|---|
| `PipelineLifecycle` | one task, two batches, every event | 605 000 | does every ending leave a reason behind, does the reason stay, is no batch lost or doubled? |
| `PipelineContention` | fair; two tasks, close | 67 000 | does `flush` mean durable and a stalled `append` not accepted, while two tasks seal, wait and take batches back; does a task that waits for the other's lock return while put attempts end? |
| `PipelineBackpressure` | fair; three files, fence, reject | 246 000 | do files stay in order through an epoch roll, and is the rotation one queue from outside (the refinement of `StagingQueue`); does the sealer that waits for room return when storage refuses every attempt? |
| `SessionsRecovery` | three sessions, three offsets | 792 000 | recovery after crashes, drops, reopens in one process, GC passes that outlive their writer; the refinement of `LoadedStream` |
| `SessionsShutdown` | fair; two sessions, two offsets, an epoch per file | 71 000 | close, failed opens and state writes, a server with and without a watermark, a clock that jumps, a GC floor; is everything staged loaded in the end? |
| `SessionsTakeover` | two sessions, an epoch per file | 1 144 000 | a takeover from a live writer: does the successor own what it believes staged? |
| `LeaseExclusion` | two writers, ten settings | 2 345 000 | who may write, when a loser stops, what a release leaves |
| `StopAlarm` | fair; no gzip stage | 59 000 | the race of the raisers |
| `Credentials` | fair; two writers, three keys, a move | 45 000 | rotation, revocation, refreshes that overtake each other |
| `RenderedRows` | 4 key texts, 4 payloads, any two rows; four versions of a few keys | 1 063 000 | dedup and quoting |
| `SessionsPreempted`, `RenderedNulKeys` | violations | | see Findings |

**Bounds.**  Three files are the least that fill queue, stage and put at once
with `Depth = 1`, and that have one file rolled to a new epoch between two
others; `StallAfter` 1 and 2 are the two sides of "the first failure already
counts".  Two tasks are enough for one to hold the seal lock and one to wait;
more waiters only lengthen the queue.  Two tasks with three batches under
fairness are out of reach (450 000 states; their safety was checked apart), which
is why waiting for room for ever is `PipelineBackpressure`'s question and waiting
for the lock `PipelineContention`'s.  Three sessions are needed for a file to be
staged by one, left by the next and picked up by a third; `StagedIsLoaded` was
also checked with three sessions (850 000 states), too slow to run each time.
`MaxSeq` is 0 or 1 so that epochs roll within a session; in `SessionsTakeover` they
roll at every file of both writers.  `Spare` keeps the last
session of an instance from being stopped, so that every stop is followed by a
reopen.  In `LeaseExclusion` a request takes 1 unit or 2, the settle delay is 3,
the heartbeat period 2 and the lease 11: two short requests fit into the settle
delay and two long ones do not, and the lease is the smallest that leaves room
for an open, a claim, a period and a clock a unit apart; the code's defaults (1 s,
30 s, 180 s) have the same order and more room.  Two writers
are the race; a third only waits.  Storage fails for one of them at a time, and one
at a time may be paused; the theorems allow any set.  The safety of `StopAlarm` was also checked
with gzip (1 150 000 states); three keys are the least for a refresh to bring back one that
is neither the oldest nor the newest.

**Fairness.**  `RotationPipeline`: weak fairness of every task, stage and the
ticker, because tokio polls a woken task and every wait of the code has a waker
(channel, lock, progress watch); strong fairness of `GetLock`, because tokio's
mutex is first come, first served.  Storage owes nothing: the put stage is fair
in what it does itself (`PutMove`), and an attempt may fail for ever or never end,
because no timeout stands around `op.write` (`staging.rs:33`, `table.rs:1965`;
`table.rs:756` knows of storage that hangs).  What nothing wakes cannot return:
`CallsReturn` is about the behaviours in which every attempt ends, and its first
disjunct names the others.
`StreamSessions`: weak fairness of opening a session (the application restarts
after a stop, the contract of GUIDE.md), of the steps of `open_table` and of the
put stage, of an *answered* submission (the loop retries without end, and the
server is reachable in the end) and of the server's loads.  Nothing obliges
state.json, the GC, a fence or a stop.  `StopAlarm`: weak fairness of a task that
has begun to raise or to publish, and of the ticker; nothing obliges anything to
fail.  `Credentials`: weak fairness of the tasks; strong fairness of a put with a
good key and of the master's answer, both of which the code repeats without end.
`WriterLease` needs none: time does not pass while something is due.

**Properties.**  `TypeOK`, `StreamTypeOK`, `LeaseTypeOK` are the type invariants.
In the pipeline: `TripwireSilent`, `PipelineInOrder`, `StagedOffsetIsDurable`,
`HeldOnce`, `FlushOkIsDurable`, `StalledAppendCanBeRetried`,
`StoppedStageIsReported`, `TerminalIsSticky`, `RotatesAsQueue` (the refinement),
`CallsReturn`.  In the stream:
`OffsetsAreOwned` (nothing skipped), `LoadedInOrder` (the refinement),
`ResumeIsAccepted` (state.json never leads the server), `SerialsAreFresh`,
`ResumeCoversStaged` (the GC and a lagging state.json never move the resume
offset back), `StagedIsLoaded`.  Of the lease: `AtMostOneWriter`, `LoserStops`,
`RunningKeepsTheLock`, `ReleasedStaysReleased`; each says in its premise which
circumstances it needs, and `LeaseDwarfsTheRest` spells out what "must dwarf
worst-case clock skew" (`lock.rs`) has to cover.  `AtMostOneWriter` and
`RunningKeepsTheLock` need two requests to fit into the settle delay
(`2 * OpTime < Settle`), the look that found the lock free and the claim.  One
request is not enough: with `OpTime` 2, `Settle` 3 and `Lease` 16 TLC finds A's look
taking effect on a free lock, B claiming, settling and reading its own record
back, and A's claim landing after that: two writers, until B's next heartbeat.
This is the residual race `client.rs:675` concedes.  Of the alarm:
`PagesOncePerState`, `MostUrgentIsAnnounced`, `AnnouncedIsReported`,
`ViolationIsAlarmed`.  Of the credentials: `FilesLandAtHome`, `DeniedPutLands`,
`RotationArrives`.  Of a file: `LastVersionStays`, `LoadsAsWritten`.  Each is
stated in words above its definition, and each is broken by a mutant of the code
listed in `PROJECT.json` (operators marked "Mutant" in the modules; no
specification uses them).

## 4. Findings

1. **A put that lands after the successor's listing** (`SessionsPreempted`).
   A preempted writer's put lands after the new holder's LIST.  The new holder
   stages a shorter file of its own, the watermark passes the old object, and the
   session after it resumes behind the *end* of the old object without
   announcing it: those rows are in no job.  `table.rs:1945` and GUIDE.md:431
   say the successor's LIST owns such objects.  One takeover alone loses nothing
   (`SessionsTakeover` passes `OffsetsAreOwned`); the loss needs a further
   session.  Rows in the takeover window may also be loaded twice: with
   `"preempt"`, `LoadedInOrder` does not hold either, which `lock.rs:24`
   concedes.
2. **Keys that differ in a NUL only** (`RenderedNulKeys`).  The deduplication
   compares texts as they are (`dedup.rs:130`), the CSV writer drops NULs
   afterwards (`csv.rs:293`).  Two rows of an upsert stream with the keys `a` and
   `a\0` both stay and are written with one key, the duplicate that `dedup.rs:3`
   says makes the server reject the whole file for ever.

Smaller disagreements met on the way, which no run checks:

- `table.rs:670` says `Some` from `fatal_error` is for good.  Between reporting a
  permanent failure (`table.rs:1649`) and publishing it another stage's report of
  an earlier file can replace it, so it is `Some`, then `None`, then `Some`.
  What has been *announced* stays reported (`AnnouncedIsReported`).
- `table.rs:1297` says a stale state.json must not overwrite the successor's.
  The ticker's write can be under way while `close` releases the lease
  (`table.rs:1347`), and takes the recorded epoch back.  When the writer has
  stopped, listing and watermark are anchors too and no serial is reused
  (`StreamSerialsFresh`).  When it is still alive and was taken over, one can be:
  session 1 has its write under way when session 2 takes the lease, records its
  epoch and seals a file; the write of session 1 lands; session 3 takes over
  from session 2 before that file is staged, and when its clock has not moved
  past session 2's epoch it opens the same one.  Two sessions suffice when the
  one that is still alive rolls its epoch, into the one its successor has just
  opened, and the clock stood still.  So `SerialsAreFresh` is violated under
  takeovers, in the instances of `SessionsPreempted` and of `SessionsTakeover`
  alike; no run claims it there, and `StreamSerialsFresh` assumes `NoPreemption`.
  Both traces need two opens of one stream within the resolution of the clock
  (a millisecond) or a clock that goes back, on top of the takeover.
- `table.rs:10` and GUIDE.md:162 say the Kafka offset may be committed once
  `staged_offset()` has reached a batch.  After a rewind it has from the start:
  the reopened writer begins with the recovered offset (`table.rs:464`) and takes
  replays below it (`table.rs:441`), so `staged_offset()` lies above rows that are
  only buffered, until it moves past what the recovery found
  (`StagedOffsetIsDurable` says so).  Ok from `flush` means staged in a rewind too
  (`FlushOkIsDurable`).
- `table.rs:3187` says a writer that cannot renew stops "before they start".
  Its deadline counts from the start of the heartbeat, after the recovery
  (`table.rs:3133`), and competitors count from the stamp written before it; a
  long recovery lets them run first, until the next failed renewal
  (`LoserStops` bounds it).  For the same reason a recovery longer than the lease
  loses it.
- `table.rs:1186` says "Only ever an upgrade", and GUIDE.md:556: "it only ever
  escalates", so "When several lines arrive for one writer, act on the last one".
  The rank is lowered before the line is emitted, so the line of the less urgent
  state may come last, and "do not rewind" after "you must rewind".
  `MostUrgentIsAnnounced` says that the line is there, not where.
- `notify.rs:393` says a submission carries the key that is valid now.  A refresh
  that read an older key may install it over a newer one until the next refresh
  (`RotationArrives`); harmless while Relyt keeps the previous key for a day
  (GUIDE.md:121).
- An operator's delete of the lock can be undone by a renewal in flight.
- `table.rs:988` says only sealers under the lock touch the buffer, and
  `unbuffer` (`table.rs:1069`) does without it, so the `None` it calls
  unreachable in practice is not (the model takes that branch); `table.rs:403`
  says state.json is persisted before the epoch rolls, and `seal`
  (`table.rs:868`) persists nothing, so files can be staged under an epoch above
  the recorded one.  Both without consequence.

## 5. Proofs

TLAPS checks 14 628 obligations in eight modules.  Every invariant and every
action property that a passing run checks is also a theorem, for every value of
the constants that the named assumptions allow; only liveness is left to TLC.

About `RotationPipeline`, for every set of tasks, offset range, batch set, queue
depth, stall threshold, encoding width and set of events (`TasksAssumption`,
`OffsetAssumption`, `DepthAssumption`, `StallAssumption`, `GzipAssumption`,
`EventsAssumption`, `RecoveredAssumption`, and `SerialSeq`'s two), in `RotationPipelineProofs`:

- `TypeCorrect`: `Spec => []TypeOK`.  `TypeOK` includes the capacity of every
  channel and is not inductive: that a stage which is about to send holds a
  file, that the ticker holds the seal lock exactly while it seals, that a
  caller inside the locked section holds it, and that the number `seal` hands
  out is in range have to be known.  The inductive invariant is `TypeInv ==
  TypeOK /\ HandInv /\ LockInv /\ CallInv /\ SlotInv`; the proof has one step
  per action, split by the five type conjuncts.
- `TerminalStays`: `Spec => TerminalIsSticky`, from `StickyInv == TypeInv /\
  TerminalIsBelow` (a terminal entry compares below every file, which is why
  `clear_failure` cannot match it).
- `RunStaysInOrder`, `TripwireNeverFires`: `OrderInv == TypeInv /\
  PipelineInOrder /\ TripwireSilent` is inductive.  The argument is about
  `Flight`, the concatenation of the six places a file can be in: receiving and
  sending leave it as it is, sealing appends the next number, landing drops its
  front, and everything else leaves the places alone.
- `RotationIsQueue`: `Spec => RotatesAsQueue`, the refinement of `StagingQueue`.
  The abstract queue is `Flight` without the file that is recorded and not yet
  landed (`Unannounced`).  Cutting the buffer maps to `Seal`, `record_durable` to
  `Announce`, `land` and everything else to a stutter.  That a new file's number
  lies above all earlier ones and its end above those ahead of it comes from
  `NumberInv` and `AscendInv` below.  Announcing moves `stagedOffset` to the file's
  end, unless it is above it already: the replay of what the recovery found.
- `AnnouncedInOrder`: `Spec => []Queue!StrictlyOrdered`, inherited through the
  refinement from `StagingQueue`, whose inductive invariant is `NumberedInv`.
- `DurableBeforeAnnounced`: `Spec => []AnnouncedIsStored`, from `LandedInv`: the
  notifier is never handed the number of a file that is not on storage.  With the
  two above these are the first two of the three invariants in the head comment
  of `table.rs`; the third, no lost rows, is `RowsHeldOnce`.

In the second half of `RotationPipelineProofs`, what the callers are told:

- `CommitGate`, `RowsHeldOnce`: from `OrderInv` and `GateInv == AscendInv /\
  LandedInv /\ AccountInv`.  Offsets ascend through `Flight` to the buffer, and
  `stagedOffset` is where it started (`Recovered`) or below all of them but the
  file between `record_durable` and `land`, whose put is done.  An accepted batch
  is in the buffer or in a file, so once `stagedOffset` has moved past `Recovered`
  what lies at or below it is on storage.  The
  batch of an append under way is above every accepted one: taking it back and
  restoring the high-water mark (`Unbuffer`) uncovers nothing, whoever sealed in
  between.
- `FlushMeansDurable`: `Spec => []FlushOkIsDurable`, with `FlushInv == NumberInv
  /\ CoverInv /\ OwedInv`.  Numbers ascend with the files, so the number a flush
  waits for is not below any file in flight that holds what it owes; what it owes
  left the buffer with its own seal or an earlier one; a file that is no longer in
  flight is on storage and at or below `stagedOffset`.  It speaks of the files as
  well as of `staged_offset()`, so it says something of replays too.
- `StalledMeansRetry`: `Spec => []StalledAppendCanBeRetried`, with `RetryInv`: the
  mark an append restores is below its own range.
- `StoppedIsReported`: `Spec => []StoppedStageIsReported`, with `ReportInv ==
  StickyInv /\ RetryInv /\ CloseInv /\ EndedInv`.  While the process lives, a
  stage that has ended has left a terminal entry together with the flag that
  makes `fatal_error` name it, whichever stage came first; `pipeline_gone`'s own
  entry never becomes necessary.

About `StreamSessions`, for every number of sessions, offsets and files, every
clock and encoding width:

- `StreamTypeCorrect` (`StreamSessionsProofs`): `Spec => []StreamTypeOK`, with
  every event.  It needs `ShapeInv`: at most one put and one state.json write in
  flight, a live session has its process, a watermark that was read is bounded.
- `StreamSerialsFresh`, `StreamResumeAccepted`, `StreamOffsetsOwned`,
  `StreamResumeCovers` and the refinement `StreamLoadedInOrder`
  (`StreamLogProofs`), all from `StreamInv == TypeInv /\ LeaseInv /\ LogInv /\
  QueueInv /\ SureInv /\ OpenInv /\ RunInv`.  What staging and the server know
  is one log: ordered by serial, contiguous in offsets, accepted up to one
  file and loaded up to another (`LogInv`).  A notify queue has nothing missing
  in front of an entry (`QueueInv`); every resume offset that is recorded, in
  flight or confirmed is covered by jobs (`SureInv`); what an open has read still
  holds when it plans with it, but for files the server has and a GC pass of the
  session before has deleted since (`OpenInv`); and the files a running session has
  under way continue the log without a gap (`RunInv`).  The refinement then maps
  a landed put to `Stage`, a load of the server to `Load` and every other step to
  a stutter.
- `RowsLoadExactlyOnce`: the sessions inherit `LoadsExactlyOnce` through the
  refinement.

  These theorems assume `NoPreemption` (`"preempt" \notin Events`): nobody takes
  the lease from a writer that is alive.  The hypothesis is needed, not
  convenient: finding 1 refutes `OffsetsAreOwned` without it
  (`SessionsPreempted`).  `WriterLease` says when it holds.  What remains true
  under a single takeover is model-checked (`SessionsTakeover`).
- `LoadsExactlyOnce` (`LoadedStream`): `Spec => []ExactlyOnce` for every set of
  batches: no row is loaded before it is durable, none twice, none skipped.  The
  inductive step says that a job which starts at the frontier overlaps nothing
  and leaves no gap.  It assumes `BatchesAreRuns`, which the files of
  `StreamSessions` satisfy.

About `WriterLease` (`WriterLeaseProofs`), for every number of writers and
machines, every skew and every length of the delays that `TimesAssumption`,
`JoinAssumption` and `SkewAssumption` allow.  The steps are first brought into
three shapes per writer (`WriterShape`, `BeatShape`, `CrashShape`) and one for
time (`ElapseShape`); the invariants are proved against the shapes.

- `LeaseTypeCorrect`: no age, wait or attempt runs past its bound, with every
  fault and pause.
- `ReleasedIsFinal`: `Spec => []ReleasedStaysReleased`, from `TimeInv == TypeInv
  /\ BeatInv /\ TimerInv /\ JoinInv`: while close joins, its wait is no longer
  than a check under way has taken, or a renewal plus one request, so when
  the wait is over neither is under way any more.
- `LosersStop`: `Spec => []LoserStops`, with `LossInv`: at each step of the
  heartbeat, how long the lock has been lost is bounded by what has gone by since
  the last check that found it; a renewal that takes effect late, and is answered
  later still, counts with the time of two requests.
- `MutualExclusion`, `RunnersKeepTheLock`: `Spec => []AtMostOneWriter` and
  `Spec => RunningKeepsTheLock`, with `KeepInv`.  Whoever is past its read-back
  owns the lock and is `Alone`: no claim is on its way, no write of a dead process
  will land, and whoever has looked and not yet decided saw this owner's stamp
  (`SafeLook`), young enough for any clock.  That this is so when the read-back
  succeeds is the work of the settle delay (`Settling`): whatever was decided on an
  earlier look, or left behind by a dead process, takes effect within two
  requests of it, and these fit into the delay, so the read-back finds it.

About the other modules:

- `OneLinePerState`: `StopAlarm!Spec => []PagesOncePerState`, with and without a
  gzip stage.  Inductive with `NoneBelow` (whatever has a line, or is about to
  get one, is not below `alarm_raised`) and `OwnRank` (tasks between `fetch_min`
  and the line hold distinct ranks): the property alone says nothing about the
  window between the two.
- `MostUrgentAnnounced`, `AnnouncedReported`: the other two safety properties of
  `StopAlarm`, for the same two pipelines.  The inductive `UrgentInv` names, for
  every state a writer stops in, who still owes its line (`LineOwed`,
  `OrderOwed`, `FenceOwed`, `RotationOwed`), and says that whoever raises the
  alarm has a state behind it that lasts (`Founded`, `Explained`), so that what a
  task found, and what has a line, never gets ahead of `fatal_error` (`Truthful`).
- `FilesStayAtHome`: `Credentials!Spec => []FilesLandAtHome`, for every number of
  writers and keys.  Inductive with the location of every snapshot and of every
  answer about to be installed.

About `RenderedFile` (`RenderedFileProofs`), for every table, every primary key,
every encoding of lengths and every sealed file, all from `RenderInv ==
DedupInv /\ KeepInv /\ FormatInv`:

- `LastVersionStaysHolds`: `Spec => []LastVersionStays`.  Two rows have the same
  key bytes just when they have the same primary key (`SameCellsSameKey`,
  `SameKeySameCells`): no cell's bytes begin with those of another
  (`CellIsUnambiguous`), because a tag tells NULL from a text and the length says
  where a text ends, whatever bytes it holds; the separator has no part in it,
  as `dedup.rs:60` says.  With that, `LatestInv` (every row up to the
  cursor is in the map under its own key, itself or a later version of it) makes
  the map, read out at the end, the set of last versions, and `KeptInOrder` keeps
  them sorted.
- `LoadsAsWrittenHolds`: `Spec => []LoadsAsWritten`.  `FormatInv` says that the
  loader is always exactly where the formatter is: the lines written are read as
  they were, so are the cells of this line, and inside a cell the field is open
  and holds the characters written so far without the NULs.
- `OneRowPerLoadedKeyHolds`: `Spec => [](NoNULInKeys => OneRowPerLoadedKey)`.
  Finding 2 is the only exception: a text without NULs is read as itself
  (`NothingLeftOut`), so equal keys in the loaded file would have been equal keys
  in the sealed one.

Induction over the bytes of a key and over the characters of a text is done
without an induction theorem: a set of numbers has a least one (`LeastNumber`, from
the well-foundedness of `<`), and so a set with 0 that is closed under + 1 holds
every number (`UpTo`).

Only model-checked:

- the liveness properties (`CallsReturn`, `StagedIsLoaded`, `ViolationIsAlarmed`,
  `DeniedPutLands`, `RotationArrives`): fairness and ENABLED are out of the
  prover's reach;
- the behaviour of `StreamSessions` with `"preempt"`, except for its types.

No module declares a RECURSIVE operator.

## 6. Not modelled

The lag monitor (a sampler nothing depends on), schema checks, configuration,
error texts, failpoints and the examples, for the reasons in `components` of
`PROJECT.json`; the spelling of numbers and dates in a CSV; the paging of LIST;
pids that are reused.

## 7. Plan

Done: every module of section 2, and a theorem for every safety property that is
within the prover's reach.

1. An abstract lease (one holder, takeover, fence) that `StreamSessions` uses and
   `WriterLease` refines under the hypotheses of `MutualExclusion`; today the two
   share only the words, and `NoPreemption` is where they meet.
2. `lag_of` and `plan_recovery` as pure functions against reference definitions.

## 8. Running it

`tlc -config <run>.cfg <MC module>` for a run, `tlapm <module>.tla` for the
proofs; the table in section 3 and `runs` in `PROJECT.json` name the pairs.
