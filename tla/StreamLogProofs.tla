-------------------------- MODULE StreamLogProofs --------------------------
(***************************************************************************)
(* What the sessions of a stream promise, for every value of the           *)
(* constants, as long as the lease is never taken from a holder that is    *)
(* alive: no serial_seq is used twice, state.json never leads what the     *)
(* server accepted, no offset is given up, and rows are loaded in order    *)
(* and exactly once (StreamSessions implements LoadedStream).              *)
(*                                                                         *)
(* The files the server or staging know of form one log: ordered by        *)
(* serial_seq, contiguous in offsets, accepted up to some file and loaded  *)
(* up to another.  The predicates below take the state they speak of as    *)
(* arguments, so that a lemma about one of them is about sets of files.    *)
(***************************************************************************)
EXTENDS StreamSessionsProofs

NoPreemption == "preempt" \notin Events

\* known: the files that were ever staged or accepted and are not forgotten.
LogOK(st, acc, ld) ==
  LET known == st \cup acc IN
  /\ \A f \in known : f.start <= f.end
  /\ \A f, g \in known : Serial(f) < Serial(g) => f.end < g.start
  /\ \A f, g \in known : Serial(f) = Serial(g) => f = g
  /\ \A f \in known : \A o \in 0..f.end : Covers(known, o)
  /\ \A f \in known : \E g \in st : Serial(f) <= Serial(g)
  /\ \A f \in known, g \in acc : Serial(f) < Serial(g) => f \in acc
  /\ \A f \in known, g \in ld : Serial(f) < Serial(g) => f \in ld

\* A notify queue: what is older than an entry is accepted or queued before it.
QueueOK(q, known, acc) ==
  \A i \in 1..Len(q) :
    /\ q[i] \in known
    /\ \A f \in known : Serial(f) < Serial(q[i]) => f \in acc \/ \E j \in 1..i-1 : q[j] = f

\* Everything up to offset r is in a job of the server.
Sure(r, acc) == \A o \in 0..r : Covers(acc, o)

AllSure(records, acc) == \A i \in 1..Len(records) : Sure(records[i].resume_offset, acc)

SureOK(x, acc) ==
  /\ Sure(x.persisted, acc)
  /\ AllSure(x.writing, acc)
  /\ AllSure(x.seen.state, acc)

\* What open_table has read is still so when it plans with it, but for the
\* files that a GC pass of the session before may have deleted since.
OpenOK(x, st, acc, ld) ==
  /\ x.seen.mark # NoSerial => \E f \in ld : x.seen.mark = Serial(f)
  /\ x.pc \in {"listed", "written"} => st \subseteq x.seen.staged /\ x.seen.staged \subseteq st \cup acc
  /\ x.pc = "written" => \A f \in st \cup acc : f.epoch < x.epoch

\* The files of a running session that are not recorded, oldest first.
Ahead(x) == x.put \o x.flight

\* The next file's serial_seq, and a bound on all those before.
Limit(x) == Encode(x.epoch, x.nextSeq)

IsPut(x, f) == x.landed /\ f = x.put[1]

\* Files a in order, without a gap from staged to from, numbered below limit.
Chain(a, staged, from, limit) ==
  /\ \A i \in 1..Len(a) :
       /\ Serial(a[i]) < limit /\ a[i].start <= a[i].end
       /\ a[i].start = (IF i = 1 THEN staged ELSE a[i - 1].end) + 1
  /\ \A i, j \in 1..Len(a) : i < j => Serial(a[i]) < Serial(a[j])
  /\ from = (IF a = <<>> THEN staged ELSE a[Len(a)].end) + 1

\* A recorded file: behind those ahead, and queued if it is not accepted.
Recorded(f, a, staged, q, acc) ==
  /\ f.end <= staged
  /\ f \in acc \/ \E i \in 1..Len(q) : q[i] = f
  /\ \A i \in 1..Len(a) : Serial(f) < Serial(a[i])

RunOK(x, q, st, acc) ==
  LET known == st \cup acc IN
  /\ Chain(Ahead(x), x.staged, x.from, Limit(x))
  /\ x.landed => x.put[1] \in st
  /\ \A f \in known :
       /\ Serial(f) < Limit(x)
       /\ IsPut(x, f) \/ Recorded(f, Ahead(x), x.staged, q, acc)
  /\ \A o \in 0..x.staged : Covers(known, o)

-----------------------------------------------------------------------------
IsLive(x) == x.pc \in Opening \cup {"run"}

Idle(x) == x.put = <<>> /\ x.flight = <<>> /\ ~x.landed

\* Only a running session has files, and none is ever fenced.
LeaseOK(x) ==
  /\ ~x.fenced
  /\ x.pc # "run" => Idle(x)
  /\ x.pc \in Opening \cup {"none"} => x.nextSeq = 0

\* One session at a time is open, the last one opened, and it has the lease.
LeaseInv ==
  /\ \A r, s \in Sessions : r < s /\ session[s].pc # "none" => session[r].pc = "gone"
  /\ \A s \in Sessions : IsLive(session[s]) => holder = s
  /\ \A s \in Sessions : LeaseOK(session[s])

LogInv == LogOK(stored, accepted, loaded)

QueueInv == \A p \in Sessions : QueueOK(notifier[p].queue, stored \cup accepted, accepted)

SureInv ==
  /\ AllSure(state, accepted)
  /\ \A p \in Sessions : Sure(notifier[p].confirmed[2], accepted)
  /\ \A s \in Sessions : SureOK(session[s], accepted)

OpenInv == \A s \in Sessions : OpenOK(session[s], stored, accepted, loaded)

RunInv == \A s \in Sessions : Running(s) => RunOK(session[s], Proc(s).queue, stored, accepted)

StreamInv == TypeInv /\ LeaseInv /\ LogInv /\ QueueInv /\ SureInv /\ OpenInv /\ RunInv

-----------------------------------------------------------------------------
(***************************************************************************)
(* The log.  Of its files, the ones behind a file do not reach into it,    *)
(* and all up to an accepted one are accepted.                             *)
(***************************************************************************)
LEMMA FileFields ==
  ASSUME NEW f \in File
  PROVE  /\ f.epoch \in 0..MaxEpoch /\ f.seq \in 0..MaxSeq
         /\ f.start \in 0..MaxOffset /\ f.end \in 0..MaxOffset
         /\ f.start \in Int /\ f.end \in Int /\ f.epoch \in Int /\ f.seq \in Int
         /\ Serial(f) \in 0..Top /\ Serial(f) \in Int
BY SerialBounds, ConstantFacts, TopType DEF File, Offset

LEMMA UpToAccepted ==
  ASSUME NEW st \in SUBSET File, NEW acc \in SUBSET File, NEW ld \in SUBSET acc, LogOK(st, acc, ld),
         NEW f \in st \cup acc, NEW g \in acc, Serial(f) <= Serial(g)
  PROVE  f \in acc
<1>1. Serial(f) \in Int /\ Serial(g) \in Int
  BY FileFields
<1>2. CASE Serial(f) < Serial(g)
  BY <1>2 DEF LogOK
<1>3. CASE Serial(f) = Serial(g)
  BY <1>3 DEF LogOK
<1> QED BY <1>1, <1>2, <1>3

\* A file that reaches behind the start of another is older.
LEMMA ReachesBehind ==
  ASSUME NEW st \in SUBSET File, NEW acc \in SUBSET File, NEW ld \in SUBSET acc, LogOK(st, acc, ld),
         NEW f \in st \cup acc, NEW g \in st \cup acc, f.start <= g.end
  PROVE  Serial(f) <= Serial(g)
<1>1. Serial(f) \in Int /\ Serial(g) \in Int /\ f.start \in Int /\ g.end \in Int
  BY FileFields
<1>2. Serial(g) < Serial(f) => g.end < f.start
  BY DEF LogOK
<1> QED BY <1>1, <1>2

\* The ends grow with the serials.
LEMMA EndsGrow ==
  ASSUME NEW st \in SUBSET File, NEW acc \in SUBSET File, NEW ld \in SUBSET acc, LogOK(st, acc, ld),
         NEW f \in st \cup acc, NEW g \in st \cup acc, Serial(f) <= Serial(g)
  PROVE  f.end <= g.end
<1>1. Serial(f) \in Int /\ Serial(g) \in Int /\ f.end \in Int /\ g.end \in Int /\ g.start \in Int
      /\ g.start <= g.end
  BY FileFields DEF LogOK
<1>2. CASE Serial(f) < Serial(g)
  <2>1. f.end < g.start
    BY <1>2 DEF LogOK
  <2> QED BY <1>1, <2>1
<1>3. CASE Serial(f) = Serial(g)
  BY <1>1, <1>3 DEF LogOK
<1> QED BY <1>1, <1>2, <1>3

\* What ends a covered prefix is the end of a known file.
LEMMA SureGrows ==
  ASSUME NEW r, NEW acc, NEW new, acc \subseteq new, Sure(r, acc)
  PROVE  Sure(r, new)
BY DEF Sure, Covers

LEMMA NothingSure == \A acc : Sure(NoOffset, acc)
BY DEF Sure, NoOffset

LEMMA AllSureGrows ==
  ASSUME NEW records, NEW acc, NEW new, acc \subseteq new, AllSure(records, acc)
  PROVE  AllSure(records, new)
BY SureGrows DEF AllSure

-----------------------------------------------------------------------------
(***************************************************************************)
(* How the log changes: a new last file lands, a file is accepted, the     *)
(* first accepted one is loaded, and a file behind the newest is deleted.  *)
(***************************************************************************)
LEMMA LandKeepsLog ==
  ASSUME NEW st \in SUBSET File, NEW acc \in SUBSET File, NEW ld \in SUBSET acc, LogOK(st, acc, ld),
         NEW f \in File, f.start <= f.end,
         \A g \in st \cup acc : Serial(g) < Serial(f) /\ g.end < f.start,
         \A o \in 0..f.start - 1 : Covers(st \cup acc, o)
  PROVE  LogOK(st \cup {f}, acc, ld)
<1> DEFINE known == st \cup acc
           new == (st \cup {f}) \cup acc
<1>0. new = known \cup {f} /\ \A g \in new : g \in File
  OBVIOUS
<1>1. \A g \in new : g.start <= g.end
  BY <1>0 DEF LogOK
<1>2. \A g, h \in new : Serial(g) < Serial(h) => g.end < h.start
  <2> SUFFICES ASSUME NEW g \in new, NEW h \in new, Serial(g) < Serial(h) PROVE g.end < h.start
    OBVIOUS
  <2>1. Serial(g) \in Int /\ Serial(h) \in Int /\ Serial(f) \in Int
    BY FileFields
  <2>2. CASE g \in known /\ h \in known
    BY <2>2 DEF LogOK
  <2>3. CASE h = f
    BY <1>0, <2>1, <2>3
  <2>4. CASE g = f /\ h \in known
    BY <2>1, <2>4
  <2> QED BY <1>0, <2>2, <2>3, <2>4
<1>3. \A g, h \in new : Serial(g) = Serial(h) => g = h
  <2> SUFFICES ASSUME NEW g \in new, NEW h \in new, Serial(g) = Serial(h) PROVE g = h
    OBVIOUS
  <2>1. Serial(g) \in Int /\ Serial(h) \in Int /\ Serial(f) \in Int
    BY FileFields
  <2>2. CASE g \in known /\ h \in known
    BY <2>2 DEF LogOK
  <2> QED BY <1>0, <2>1, <2>2
<1>4. ASSUME NEW g \in new, NEW o \in 0..g.end PROVE Covers(new, o)
  <2>1. CASE g \in known
    <3>1. Covers(known, o)
      BY <2>1 DEF LogOK
    <3> QED BY <3>1 DEF Covers
  <2>2. CASE g = f /\ o < f.start
    <3>1. o \in 0..f.start - 1
      BY <2>2, FileFields
    <3>2. Covers(known, o)
      BY <3>1
    <3> QED BY <3>2 DEF Covers
  <2>3. CASE g = f /\ f.start <= o
    BY <2>3 DEF Covers
  <2>4. o \in Int /\ f.start \in Int
    BY FileFields, <1>0
  <2> QED BY <1>0, <2>1, <2>2, <2>3, <2>4
<1>5. \A g \in new : \E h \in st \cup {f} : Serial(g) <= Serial(h)
  <2> TAKE g \in new
  <2>1. Serial(g) \in Int /\ Serial(f) \in Int
    BY FileFields
  <2> QED BY <1>0, <2>1
<1>6. ASSUME NEW g \in new, NEW h \in acc, Serial(g) < Serial(h) PROVE g \in acc /\ (h \in ld => g \in ld)
  <2>1. Serial(g) \in Int /\ Serial(h) \in Int /\ Serial(f) \in Int /\ h \in known
    BY FileFields
  <2>2. g # f
    BY <1>6, <2>1
  <2> QED BY <1>0, <1>6, <2>2 DEF LogOK
<1> QED BY <1>1, <1>2, <1>3, <1>4, <1>5, <1>6 DEF LogOK

LEMMA AcceptKeepsLog ==
  ASSUME NEW st \in SUBSET File, NEW acc \in SUBSET File, NEW ld \in SUBSET acc, LogOK(st, acc, ld),
         NEW f \in st \cup acc, \A g \in st \cup acc : Serial(g) < Serial(f) => g \in acc
  PROVE  LogOK(st, acc \cup {f}, ld)
<1>1. st \cup (acc \cup {f}) = st \cup acc
  OBVIOUS
<1>2. \A g \in st \cup acc, h \in acc \cup {f} : Serial(g) < Serial(h) => g \in acc \cup {f}
  BY DEF LogOK
<1> QED BY <1>1, <1>2 DEF LogOK

LEMMA LoadKeepsLog ==
  ASSUME NEW st \in SUBSET File, NEW acc \in SUBSET File, NEW ld \in SUBSET acc, LogOK(st, acc, ld),
         NEW f \in acc \ ld, \A g \in acc \ ld : Serial(f) <= Serial(g)
  PROVE  /\ LogOK(st, acc, ld \cup {f})
         /\ \A g \in st \cup acc : Serial(g) < Serial(f) => g \in ld
<1>1. ASSUME NEW g \in st \cup acc, Serial(g) < Serial(f) PROVE g \in ld
  <2>1. Serial(g) \in Int /\ Serial(f) \in Int
    BY FileFields
  <2>2. g \in acc
    BY <1>1 DEF LogOK
  <2> QED BY <1>1, <2>1, <2>2
<1>2. \A g \in st \cup acc, h \in ld \cup {f} : Serial(g) < Serial(h) => g \in ld \cup {f}
  BY <1>1 DEF LogOK
<1> QED BY <1>1, <1>2 DEF LogOK

LEMMA DeleteKeepsLog ==
  ASSUME NEW st \in SUBSET File, NEW acc \in SUBSET File, NEW ld \in SUBSET acc, LogOK(st, acc, ld),
         NEW f \in acc, NEW g \in st, Serial(f) < Serial(g)
  PROVE  /\ (st \ {f}) \cup acc = st \cup acc
         /\ LogOK(st \ {f}, acc, ld)
<1>1. (st \ {f}) \cup acc = st \cup acc
  OBVIOUS
<1>2. ASSUME NEW h \in st \cup acc PROVE \E k \in st \ {f} : Serial(h) <= Serial(k)
  <2>1. PICK k \in st : Serial(h) <= Serial(k)
    BY DEF LogOK
  <2>2. Serial(h) \in Int /\ Serial(k) \in Int /\ Serial(f) \in Int /\ Serial(g) \in Int
    BY FileFields
  <2>3. g # f
    BY <2>2
  <2>4. CASE k = f
    <3>1. Serial(h) <= Serial(g)
      BY <2>1, <2>2, <2>4
    <3> QED BY <2>3, <3>1
  <2> QED BY <2>1, <2>4
<1> QED BY <1>1, <1>2 DEF LogOK

-----------------------------------------------------------------------------
(***************************************************************************)
(* The notify queue: files behind the log's end are added in order, and    *)
(* its head is the oldest file that is not accepted.                       *)
(***************************************************************************)
FollowsQueue(b, q, known, acc) ==
  \A i \in 1..Len(b) :
    /\ b[i] \in known
    /\ \A f \in known : Serial(f) < Serial(b[i]) =>
         \/ f \in acc
         \/ \E j \in 1..Len(q) : q[j] = f
         \/ \E j \in 1..i-1 : b[j] = f

Keeps(q, b) == \A j \in 1..Len(b) : \E i \in 1..Len(q) : q[i] = b[j]

\* All of q but f.
KeepsBut(r, q, f) == \A i \in 1..Len(q) : q[i] = f \/ \E j \in 1..Len(r) : r[j] = q[i]

LEMMA QueueGrows ==
  ASSUME NEW known \in SUBSET File, NEW acc, NEW q \in Seq(File), NEW b \in Seq(File),
         QueueOK(q, known, acc), FollowsQueue(b, q, known, acc)
  PROVE  QueueOK(q \o b, known, acc) /\ Keeps(q \o b, q) /\ Keeps(q \o b, b)
<1> DEFINE c == q \o b
           m == Len(q)
           n == Len(b)
<1>1. m \in Nat /\ n \in Nat /\ Len(c) = m + n
      /\ \A i \in 1..Len(c) : c[i] = IF i <= m THEN q[i] ELSE b[i - m]
  BY ConcatProperties, LenProperties
<1> HIDE DEF c
<1>2. \A j \in 1..m : j \in 1..Len(c) /\ c[j] = q[j]
  BY <1>1
<1>3. \A j \in 1..n : m + j \in 1..Len(c) /\ c[m + j] = b[j]
  <2> TAKE j \in 1..n
  <2>1. m + j \in 1..Len(c) /\ ~(m + j <= m) /\ (m + j) - m = j
    BY <1>1
  <2> QED BY <1>1, <2>1
<1>4. ASSUME NEW i \in 1..Len(c)
      PROVE  /\ c[i] \in known
             /\ \A f \in known : Serial(f) < Serial(c[i]) => f \in acc \/ \E j \in 1..i-1 : c[j] = f
  <2>1. CASE i <= m
    <3>1. i \in 1..m /\ c[i] = q[i]
      BY <1>1, <2>1
    <3>2. \A j \in 1..i-1 : c[j] = q[j]
      <4> TAKE j \in 1..i-1
      <4>1. j \in 1..m
        BY <1>1, <3>1
      <4> QED BY <1>2, <4>1
    <3>3. /\ q[i] \in known
          /\ \A f \in known : Serial(f) < Serial(q[i]) => f \in acc \/ \E j \in 1..i-1 : q[j] = f
      BY <3>1 DEF QueueOK
    <3> QED BY <3>1, <3>2, <3>3
  <2>2. CASE i > m
    <3> DEFINE k == i - m
    <3>1. k \in 1..n /\ c[i] = b[k] /\ i = m + k
      BY <1>1, <2>2
    <3>2. ASSUME NEW f \in known, Serial(f) < Serial(b[k])
          PROVE  f \in acc \/ \E j \in 1..i-1 : c[j] = f
      <4>1. \/ f \in acc
            \/ \E j \in 1..m : q[j] = f
            \/ \E j \in 1..k-1 : b[j] = f
        BY <3>1, <3>2 DEF FollowsQueue
      <4>2. ASSUME NEW j \in 1..m, q[j] = f PROVE \E jj \in 1..i-1 : c[jj] = f
        <5>1. j \in 1..i-1 /\ c[j] = f
          BY <1>1, <1>2, <2>2, <4>2
        <5> QED BY <5>1
      <4>3. ASSUME NEW j \in 1..k-1, b[j] = f PROVE \E jj \in 1..i-1 : c[jj] = f
        <5>1. j \in 1..n /\ m + j \in 1..i-1
          BY <1>1, <3>1
        <5>2. c[m + j] = f
          BY <1>3, <4>3, <5>1
        <5> QED BY <5>1, <5>2
      <4> QED BY <4>1, <4>2, <4>3
    <3> HIDE DEF k
    <3> QED BY <3>1, <3>2 DEF FollowsQueue
  <2> QED BY <1>1, <2>1, <2>2
<1>5. QueueOK(c, known, acc)
  BY <1>4 DEF QueueOK
<1>6. Keeps(c, q) /\ Keeps(c, b)
  BY <1>2, <1>3 DEF Keeps
<1> QED BY <1>5, <1>6 DEF c

LEMMA TailKeeps ==
  ASSUME NEW q \in Seq(File), q # <<>>
  PROVE  KeepsBut(Tail(q), q, Head(q))
<1> DEFINE t == Tail(q)
<1>1. Head(q) = q[1] /\ Len(q) \in Nat /\ Len(t) = Len(q) - 1
      /\ \A i \in 1..Len(t) : t[i] = q[i + 1]
  BY HeadTailProperties, EmptySeq, LenProperties
<1> HIDE DEF t
<1>2. ASSUME NEW i \in 1..Len(q) PROVE q[i] = q[1] \/ \E j \in 1..Len(t) : t[j] = q[i]
  <2>1. CASE i = 1
    BY <2>1
  <2>2. CASE i # 1
    <3>1. i - 1 \in 1..Len(t) /\ (i - 1) + 1 = i
      BY <1>1, <2>2
    <3>2. t[i - 1] = q[i]
      BY <1>1, <3>1
    <3> QED BY <3>1, <3>2
  <2> QED BY <2>1, <2>2
<1> QED BY <1>1, <1>2 DEF t, KeepsBut

LEMMA QueueAdvances ==
  ASSUME NEW known, NEW acc, NEW q \in Seq(File), q # <<>>, QueueOK(q, known, acc),
         NEW f, f = Head(q)
  PROVE  /\ f \in known /\ f = q[1]
         /\ \A g \in known : Serial(g) < Serial(f) => g \in acc
         /\ QueueOK(q, known, acc \cup {f})
         /\ QueueOK(Tail(q), known, acc \cup {f})
<1> DEFINE t == Tail(q)
<1>1. f = q[1] /\ Len(q) \in Nat /\ Len(q) > 0 /\ Len(t) = Len(q) - 1
      /\ \A i \in 1..Len(t) : t[i] = q[i + 1]
  BY HeadTailProperties, EmptySeq, LenProperties
<1> HIDE DEF t
<1>2. 1 \in 1..Len(q)
  BY <1>1
<1>3. f \in known /\ \A g \in known : Serial(g) < Serial(f) => g \in acc
  <2>1. /\ q[1] \in known
        /\ \A g \in known : Serial(g) < Serial(q[1]) => g \in acc \/ \E j \in 1..1-1 : q[j] = g
    BY <1>2 DEF QueueOK
  <2>2. 1..1-1 = {}
    OBVIOUS
  <2> QED BY <1>1, <2>1, <2>2
<1>4. QueueOK(q, known, acc \cup {f})
  BY DEF QueueOK
<1>5. ASSUME NEW i \in 1..Len(t)
      PROVE  /\ t[i] \in known
             /\ \A g \in known : Serial(g) < Serial(t[i]) =>
                  g \in acc \cup {f} \/ \E j \in 1..i-1 : t[j] = g
  <2>1. i + 1 \in 1..Len(q) /\ t[i] = q[i + 1]
    BY <1>1
  <2>2. /\ t[i] \in known
        /\ \A g \in known : Serial(g) < Serial(t[i]) => g \in acc \/ \E j \in 1..(i+1)-1 : q[j] = g
    BY <2>1 DEF QueueOK
  <2>3. ASSUME NEW g, NEW j \in 1..(i+1)-1, q[j] = g
        PROVE  g = f \/ \E jj \in 1..i-1 : t[jj] = g
    <3>1. CASE j = 1
      BY <1>1, <2>3, <3>1
    <3>2. CASE j # 1
      <4>1. j - 1 \in 1..i-1 /\ j - 1 \in 1..Len(t) /\ (j - 1) + 1 = j
        BY <1>1, <3>2
      <4>2. t[j - 1] = g
        BY <1>1, <2>3, <4>1
      <4> QED BY <4>1, <4>2
    <3> QED BY <3>1, <3>2
  <2> QED BY <2>2, <2>3
<1>6. QueueOK(t, known, acc \cup {f})
  BY <1>5 DEF QueueOK
<1> QED BY <1>1, <1>3, <1>4, <1>6 DEF t

LEMMA QueueMonotonic ==
  ASSUME NEW known, NEW acc, NEW new, acc \subseteq new, NEW q, QueueOK(q, known, acc)
  PROVE  QueueOK(q, known, new)
BY DEF QueueOK

\* A file that lands is newer than everything queued.
LEMMA LandKeepsQueue ==
  ASSUME NEW st \in SUBSET File, NEW acc \in SUBSET File, NEW q, QueueOK(q, st \cup acc, acc),
         NEW f \in File, \A g \in st \cup acc : Serial(g) < Serial(f)
  PROVE  QueueOK(q, (st \cup {f}) \cup acc, acc)
<1> SUFFICES ASSUME NEW i \in 1..Len(q)
             PROVE  /\ q[i] \in (st \cup {f}) \cup acc
                    /\ \A g \in (st \cup {f}) \cup acc :
                         Serial(g) < Serial(q[i]) => g \in acc \/ \E j \in 1..i-1 : q[j] = g
  BY DEF QueueOK
<1>1. /\ q[i] \in st \cup acc
      /\ \A g \in st \cup acc : Serial(g) < Serial(q[i]) => g \in acc \/ \E j \in 1..i-1 : q[j] = g
  BY DEF QueueOK
<1>2. Serial(q[i]) < Serial(f) /\ Serial(q[i]) \in Int /\ Serial(f) \in Int
  BY <1>1, FileFields
<1>3. ~(Serial(f) < Serial(q[i]))
  BY <1>2
<1> QED BY <1>1, <1>3

(***************************************************************************)
(* The answer to a submission: the queue's head is accepted, whatever the  *)
(* gate did, and everything up to its end is then in a job.                *)
(***************************************************************************)
LEMMA AcceptedUpTo ==
  ASSUME NEW st \in SUBSET File, NEW acc \in SUBSET File, NEW ld \in SUBSET acc, LogOK(st, acc, ld),
         NEW f \in st \cup acc, \A g \in st \cup acc : Serial(g) < Serial(f) => g \in acc
  PROVE  Sure(f.end, acc \cup {f})
<1> SUFFICES ASSUME NEW o \in 0..f.end PROVE Covers(acc \cup {f}, o)
  BY DEF Sure
<1>1. PICK g \in st \cup acc : g.start <= o /\ o <= g.end
  BY DEF LogOK, Covers
<1>2. g.start <= f.end
  BY <1>1, FileFields
<1>3. Serial(g) <= Serial(f) /\ Serial(g) \in Int /\ Serial(f) \in Int
  BY <1>2, ReachesBehind, FileFields
<1>4. g \in acc \cup {f}
  <2>1. CASE Serial(g) < Serial(f)
    BY <2>1
  <2>2. CASE Serial(g) = Serial(f)
    BY <2>2 DEF LogOK
  <2> QED BY <1>3, <2>1, <2>2
<1> QED BY <1>1, <1>4 DEF Covers

LEMMA GateAccepts ==
  ASSUME TypeInv, LogInv, NEW f \in stored \cup accepted
  PROVE  Gate(f) = accepted \cup {f}
<1>0. stored \in SUBSET File /\ accepted \in SUBSET File /\ loaded \in SUBSET accepted /\ StoreType
      /\ LogOK(stored, accepted, loaded)
  BY TypeParts DEF StoreType, LogInv
<1>1. Serial(f) \in Int /\ Serial(f) >= 0
  BY <1>0, FileFields
<1>2. ASSUME Serial(f) <= Watermark PROVE f \in accepted
  <2>1. loaded # {}
    BY <1>0, <1>1, <1>2, WatermarkMax DEF NoSerial
  <2>2. PICK g \in loaded : Watermark = Serial(g)
    BY <1>0, <2>1, WatermarkMax
  <2> QED BY <1>0, <1>2, <2>2, UpToAccepted
<1>3. ASSUME NEW g \in accepted, Serial(g) = Serial(f) PROVE f \in accepted
  BY <1>0, <1>3 DEF LogOK
<1> QED BY <1>2, <1>3 DEF Gate

-----------------------------------------------------------------------------
(***************************************************************************)
(* The files ahead of a running session, as a sequence.                    *)
(***************************************************************************)
LEMMA ChainFields ==
  ASSUME NEW a \in Seq(File), NEW i \in 1..Len(a)
  PROVE  a[i] \in File /\ a[i].start \in Int /\ a[i].end \in Int /\ Serial(a[i]) \in Int
BY FileFields, ElementOfSeq

LEMMA ChainAppend ==
  ASSUME NEW a \in Seq(File), NEW staged \in Int, NEW from \in Int, NEW limit \in Int, NEW next \in Int,
         Chain(a, staged, from, limit),
         NEW f \in File, f.start = from, f.start <= f.end, Serial(f) = limit, limit < next
  PROVE  Chain(Append(a, f), staged, f.end + 1, next)
<1> DEFINE b == Append(a, f)
           n == Len(a)
<1>1. n \in Nat /\ Len(b) = n + 1 /\ b[n + 1] = f /\ \A i \in 1..n : b[i] = a[i]
  BY AppendProperties, LenProperties
<1>2. b # <<>>
  BY <1>1
<1>3. a = <<>> <=> n = 0
  BY EmptySeq
<1>4. ASSUME NEW i \in 1..Len(b)
      PROVE  /\ Serial(b[i]) < next /\ b[i].start <= b[i].end
             /\ b[i].start = (IF i = 1 THEN staged ELSE b[i - 1].end) + 1
  <2>1. CASE i \in 1..n
    <3>1. /\ Serial(a[i]) < limit /\ a[i].start <= a[i].end
          /\ a[i].start = (IF i = 1 THEN staged ELSE a[i - 1].end) + 1
      BY <2>1 DEF Chain
    <3>2. Serial(a[i]) \in Int /\ b[i] = a[i]
      BY <1>1, <2>1, ChainFields
    <3>3. i # 1 => b[i - 1] = a[i - 1]
      BY <1>1, <2>1
    <3> QED BY <3>1, <3>2, <3>3
  <2>2. CASE i = n + 1
    <3>1. b[i] = f
      BY <1>1, <2>2
    <3>2. i # 1 => a # <<>> /\ n \in 1..n /\ b[i - 1] = a[n]
      BY <1>1, <1>3, <2>2
    <3>3. i = 1 => a = <<>>
      BY <1>1, <1>3, <2>2
    <3>4. from = (IF a = <<>> THEN staged ELSE a[n].end) + 1
      BY DEF Chain
    <3> HIDE DEF b, n
    <3> QED BY <3>1, <3>2, <3>3, <3>4
  <2> QED BY <1>1, <2>1, <2>2
<1>5. ASSUME NEW i \in 1..Len(b), NEW j \in 1..Len(b), i < j PROVE Serial(b[i]) < Serial(b[j])
  <2>1. i \in 1..n /\ b[i] = a[i] /\ Serial(a[i]) \in Int
    BY <1>1, <1>5, ChainFields
  <2>2. CASE j \in 1..n
    BY <1>1, <1>5, <2>1, <2>2 DEF Chain
  <2>3. CASE j = n + 1
    BY <1>1, <2>1, <2>3 DEF Chain
  <2> QED BY <1>1, <2>2, <2>3
<1>6. f.end + 1 = (IF b = <<>> THEN staged ELSE b[Len(b)].end) + 1
  <2>1. b[Len(b)] = f
    BY <1>1
  <2> HIDE DEF b
  <2> QED BY <1>2, <2>1
<1> QED BY <1>4, <1>5, <1>6 DEF Chain

LEMMA ChainTail ==
  ASSUME NEW a \in Seq(File), a # <<>>, NEW staged \in Int, NEW from \in Int, NEW limit \in Int,
         Chain(a, staged, from, limit)
  PROVE  /\ Chain(Tail(a), a[1].end, from, limit)
         /\ a[1] \in File /\ staged < a[1].start /\ a[1].start = staged + 1 /\ a[1].start <= a[1].end
         /\ Serial(a[1]) < limit
         /\ \A i \in 1..Len(Tail(a)) : Serial(a[1]) < Serial(Tail(a)[i])
         /\ \A i \in 1..Len(Tail(a)) : \E j \in 1..Len(a) : Tail(a)[i] = a[j]
<1> DEFINE t == Tail(a)
           n == Len(a)
<1>1. n \in Nat /\ n > 0 /\ t \in Seq(File) /\ Len(t) = n - 1 /\ \A i \in 1..n-1 : t[i] = a[i + 1]
  BY HeadTailProperties, EmptySeq, LenProperties
<1> HIDE DEF t
<1>2. t = <<>> <=> n = 1
  <2>1. Len(<<>>) = 0 /\ \A r \in Seq(File) : r # <<>> => Len(r) # 0
    BY EmptySeq
  <2> QED BY <1>1, <2>1
<1>3. 1 \in 1..n /\ a[1] \in File /\ a[1].start \in Int
  BY <1>1, ChainFields
<1>4. Serial(a[1]) < limit /\ a[1].start <= a[1].end /\ a[1].start = staged + 1
  BY <1>3 DEF Chain
<1>5. \A i \in 1..Len(t) : i + 1 \in 1..n /\ t[i] = a[i + 1]
  BY <1>1
<1>6. ASSUME NEW i \in 1..Len(t)
      PROVE  /\ Serial(t[i]) < limit /\ t[i].start <= t[i].end
             /\ t[i].start = (IF i = 1 THEN a[1].end ELSE t[i - 1].end) + 1
  <2>1. i + 1 \in 1..n /\ t[i] = a[i + 1] /\ i + 1 # 1 /\ (i + 1) - 1 = i
    BY <1>1, <1>5
  <2>2. /\ Serial(t[i]) < limit /\ t[i].start <= t[i].end
        /\ t[i].start = a[i].end + 1
    BY <2>1 DEF Chain
  <2>3. i # 1 => t[i - 1] = a[i]
    BY <1>1
  <2> QED BY <2>2, <2>3
<1>7. ASSUME NEW i \in 1..Len(t), NEW j \in 1..Len(t), i < j PROVE Serial(t[i]) < Serial(t[j])
  <2>1. i + 1 \in 1..n /\ j + 1 \in 1..n /\ i + 1 < j + 1 /\ t[i] = a[i + 1] /\ t[j] = a[j + 1]
    BY <1>1, <1>5, <1>7
  <2> QED BY <2>1 DEF Chain
<1>8. from = (IF t = <<>> THEN a[1].end ELSE t[Len(t)].end) + 1
  <2>1. from = a[n].end + 1
    BY DEF Chain
  <2>2. t # <<>> => t[Len(t)] = a[n]
    BY <1>1, <1>2
  <2> QED BY <1>2, <2>1, <2>2
<1>9. \A i \in 1..Len(t) : Serial(a[1]) < Serial(t[i])
  <2> TAKE i \in 1..Len(t)
  <2>1. i + 1 \in 1..n /\ t[i] = a[i + 1] /\ 1 < i + 1
    BY <1>1, <1>5
  <2> QED BY <1>3, <2>1 DEF Chain
<1>10. Chain(t, a[1].end, from, limit)
  BY <1>6, <1>7, <1>8 DEF Chain
<1> QED BY <1>3, <1>4, <1>5, <1>9, <1>10 DEF t

LEMMA AheadType ==
  ASSUME NEW x \in Session
  PROVE  /\ x.put \in Seq(File) /\ x.flight \in Seq(File) /\ Ahead(x) \in Seq(File)
         /\ Len(Ahead(x)) = Len(x.put) + Len(x.flight)
         /\ Len(x.put) \in Nat /\ Len(x.flight) \in Nat
         /\ \A i \in 1..Len(Ahead(x)) :
              Ahead(x)[i] = IF i <= Len(x.put) THEN x.put[i] ELSE x.flight[i - Len(x.put)]
<1>1. x.put \in Seq(File) /\ x.flight \in Seq(File)
  BY DEF Session
<1> QED BY <1>1, ConcatProperties, LenProperties DEF Ahead

LEMMA NothingAhead ==
  ASSUME NEW x, x.put = <<>>, x.flight = <<>>
  PROVE  Ahead(x) = <<>> /\ Len(Ahead(x)) = 0
<1>1. <<>> \o <<>> = <<>>
  BY ConcatEmptySeq, EmptySeq
<1> QED BY <1>1, EmptySeq DEF Ahead

LEMMA ConcatAppend ==
  ASSUME NEW S, NEW p \in Seq(S), NEW r \in Seq(S), NEW f \in S
  PROVE  p \o Append(r, f) = Append(p \o r, f)
<1>1. <<f>> \in Seq(S) /\ p \o r \in Seq(S)
  BY ConcatProperties
<1>2. Append(r, f) = r \o <<f>> /\ Append(p \o r, f) = (p \o r) \o <<f>>
  BY <1>1, AppendIsConcat
<1> DEFINE e == <<f>>
<1> HIDE DEF e
<1>3. e \in Seq(S)
  BY <1>1 DEF e
<1>4. (p \o r) \o e = p \o (r \o e)
  BY <1>3, ConcatAssociative
<1> QED BY <1>2, <1>4 DEF e

LEMMA SealAhead ==
  ASSUME NEW x \in Session, NEW y, NEW f \in File,
         y.put = x.put, y.flight = Append(x.flight, f)
  PROVE  Ahead(y) = Append(Ahead(x), f)
<1>1. x.put \in Seq(File) /\ x.flight \in Seq(File)
  BY AheadType
<1> DEFINE p == x.put
           r == x.flight
<1> HIDE DEF p, r
<1>2. p \in Seq(File) /\ r \in Seq(File)
  BY <1>1 DEF p, r
<1>3. p \o Append(r, f) = Append(p \o r, f)
  BY <1>2, ConcatAppend
<1> QED BY <1>3 DEF Ahead, p, r

LEMMA StartPutAhead ==
  ASSUME NEW x \in Session, NEW y \in Session, x.put = <<>>, x.flight # <<>>,
         y.put = <<Head(x.flight)>>, y.flight = Tail(x.flight)
  PROVE  Ahead(y) = Ahead(x)
<1> DEFINE fl == x.flight
<1>1. fl \in Seq(File) /\ fl # <<>>
  BY AheadType
<1>2. Ahead(x) = fl
  BY <1>1, ConcatEmptySeq DEF Ahead
<1>3. <<Head(fl)>> \o Tail(fl) = fl
  <2> HIDE DEF fl
  <2>1. Head(fl) \in File /\ Tail(fl) \in Seq(File) /\ Len(fl) \in Nat /\ Len(Tail(fl)) = Len(fl) - 1
        /\ Head(fl) = fl[1] /\ \A i \in 1..Len(Tail(fl)) : Tail(fl)[i] = fl[i + 1]
    BY <1>1, HeadTailProperties, LenProperties
  <2> DEFINE g == <<Head(fl)>> \o Tail(fl)
  <2>2. <<Head(fl)>> \in Seq(File) /\ Len(<<Head(fl)>>) = 1 /\ <<Head(fl)>>[1] = fl[1]
    BY <2>1
  <2>3. g \in Seq(File) /\ Len(g) = Len(fl)
        /\ \A i \in 1..Len(fl) : g[i] = IF i <= 1 THEN <<Head(fl)>>[i] ELSE Tail(fl)[i - 1]
    BY <2>1, <2>2, ConcatProperties
  <2> HIDE DEF g
  <2>4. ASSUME NEW i \in 1..Len(fl) PROVE g[i] = fl[i]
    <3>1. CASE i = 1
      BY <2>2, <2>3, <3>1
    <3>2. CASE i # 1
      <4>1. i - 1 \in 1..Len(Tail(fl)) /\ (i - 1) + 1 = i /\ ~(i <= 1)
        BY <2>1, <3>2
      <4> QED BY <2>1, <2>3, <4>1
    <3> QED BY <3>1, <3>2
  <2> QED BY <1>1, <2>3, <2>4, SeqEqual DEF g
<1> QED BY <1>2, <1>3 DEF Ahead

LEMMA RecordAhead ==
  ASSUME NEW x \in Session, NEW y \in Session, Len(x.put) = 1, y.put = <<>>, y.flight = x.flight
  PROVE  Ahead(x) # <<>> /\ Ahead(x)[1] = x.put[1] /\ Ahead(y) = Tail(Ahead(x))
<1> DEFINE a == Ahead(x)
           n == Len(x.flight)
<1>0. n \in Nat /\ a \in Seq(File) /\ Len(a) = 1 + n /\ x.flight \in Seq(File)
  BY AheadType
<1>1. n \in Nat /\ a \in Seq(File) /\ Len(a) = n + 1 /\ x.flight \in Seq(File)
      /\ \A i \in 1..n+1 : a[i] = IF i <= 1 THEN x.put[i] ELSE x.flight[i - 1]
  <2>1. \A i \in 1..Len(a) : a[i] = IF i <= Len(x.put) THEN x.put[i] ELSE x.flight[i - Len(x.put)]
    BY AheadType
  <2> HIDE DEF a, n
  <2> QED BY <1>0, <2>1
<1>2. Ahead(y) = x.flight
  BY <1>1, ConcatEmptySeq DEF Ahead
<1> HIDE DEF a, n
<1>3. a # <<>> /\ a[1] = x.put[1]
  BY <1>1, EmptySeq
<1>4. Tail(a) \in Seq(File) /\ Len(Tail(a)) = n /\ \A i \in 1..n : Tail(a)[i] = a[i + 1]
  BY <1>1, <1>3, HeadTailProperties
<1>5. \A i \in 1..n : Tail(a)[i] = x.flight[i]
  <2> TAKE i \in 1..n
  <2>1. i + 1 \in 1..n+1 /\ ~(i + 1 <= 1) /\ (i + 1) - 1 = i
    BY <1>1
  <2> QED BY <1>1, <1>4, <2>1
<1>6. Tail(a) = x.flight
  BY <1>1, <1>4, <1>5, SeqEqual DEF n
<1> QED BY <1>2, <1>3, <1>6 DEF a

-----------------------------------------------------------------------------
(***************************************************************************)
(* What each step of a running session makes of RunOK.                     *)
(***************************************************************************)
LEMMA RolledLimit ==
  ASSUME NEW e \in Nat, NEW n \in 0..MaxSeq + 1
  PROVE  Encode(Rolled(e, n)[1], Rolled(e, n)[2]) = Encode(e, n)
<1>1. MaxSeq \in Nat
  BY ConstantFacts
<1>2. CASE n > MaxSeq
  <2>1. Rolled(e, n) = <<e + 1, 0>> /\ n = MaxSeq + 1
    BY <1>1, <1>2 DEF Rolled
  <2>2. (e + 1) * (MaxSeq + 1) = e * (MaxSeq + 1) + (MaxSeq + 1)
    BY <1>1
  <2>3. e * (MaxSeq + 1) \in Nat
    BY EncodeBase
  <2> QED BY <1>1, <2>1, <2>2, <2>3 DEF Encode
<1>3. CASE ~(n > MaxSeq)
  BY <1>3 DEF Rolled
<1> QED BY <1>2, <1>3

LEMMA LimitType ==
  ASSUME NEW x \in Session
  PROVE  Limit(x) \in Int /\ x.staged \in Int /\ x.from \in Int /\ x.staged \in -1..MaxOffset
<1>1. x.epoch \in Nat /\ x.nextSeq \in Nat /\ x.staged \in Offset \cup {NoOffset}
      /\ x.from \in 0..MaxOffset + 1
  BY ConstantFacts DEF Session
<1>2. x.epoch * (MaxSeq + 1) \in Nat
  BY <1>1, EncodeBase
<1> QED BY <1>1, <1>2, OffsetRange, ConstantFacts DEF Limit, Encode

LEMMA SealKeepsRun ==
  ASSUME NEW x \in Session, NEW q, NEW st \in SUBSET File, NEW acc \in SUBSET File,
         RunOK(x, q, st, acc),
         NEW d \in 0..MaxEpoch, NEW n \in 0..MaxSeq, Encode(d, n) = Limit(x),
         NEW e \in Offset, x.from \in Offset, x.from <= e,
         NEW f \in File, f = [epoch |-> d, seq |-> n, start |-> x.from, end |-> e],
         NEW y \in Session,
         y.put = x.put /\ y.flight = Append(x.flight, f) /\ y.landed = x.landed,
         y.staged = x.staged /\ y.from = e + 1 /\ y.epoch = d /\ y.nextSeq = n + 1
  PROVE  RunOK(y, q, st, acc)
<1> DEFINE a == Ahead(x)
<1>1. f \in File /\ f.start = x.from /\ f.end = e /\ Serial(f) = Limit(x)
  BY DEF File, Serial
<1>2. y.put = x.put /\ y.flight = Append(x.flight, f) /\ y.landed = x.landed /\ y.staged = x.staged
      /\ y.from = e + 1 /\ y.epoch = d /\ y.nextSeq = n + 1
  OBVIOUS
<1>3. Ahead(y) = Append(a, f)
  BY SealAhead
<1>4. Limit(x) \in Int /\ Limit(y) \in Int /\ Limit(x) < Limit(y)
  <2>1. Limit(y) = Encode(d, n + 1)
    BY <1>2 DEF Limit
  <2>2. d * (MaxSeq + 1) \in Nat
    BY EncodeBase, ConstantFacts
  <2> QED BY <2>1, <2>2, LimitType, ConstantFacts DEF Encode
<1>5. Chain(a, x.staged, x.from, Limit(x)) /\ a \in Seq(File)
  BY AheadType DEF RunOK
<1>6. x.staged \in Int /\ x.from \in Int /\ f.start <= f.end
  BY <1>1, LimitType
<1> HIDE DEF a
<1>7. Chain(Append(a, f), x.staged, e + 1, Limit(y))
  <2>1. Chain(Append(a, f), x.staged, f.end + 1, Limit(y))
    BY <1>1, <1>4, <1>5, <1>6, ChainAppend
  <2> QED BY <1>1, <2>1
<1>8. ASSUME NEW g \in st \cup acc
      PROVE  /\ Serial(g) < Limit(y)
             /\ IsPut(y, g) \/ Recorded(g, Ahead(y), y.staged, q, acc)
  <2>1. Serial(g) < Limit(x) /\ (IsPut(x, g) \/ Recorded(g, a, x.staged, q, acc))
        /\ Serial(g) \in Int
    BY FileFields DEF RunOK, a
  <2>2. Serial(g) < Limit(y)
    BY <1>4, <2>1
  <2>3. CASE IsPut(x, g)
    BY <1>2, <2>2, <2>3 DEF IsPut
  <2>4. CASE Recorded(g, a, x.staged, q, acc)
    <3>1. Len(a) \in Nat /\ Len(Append(a, f)) = Len(a) + 1 /\ Append(a, f)[Len(a) + 1] = f
          /\ \A i \in 1..Len(a) : Append(a, f)[i] = a[i]
      BY <1>1, <1>5, AppendProperties, LenProperties
    <3>2. ASSUME NEW i \in 1..Len(Append(a, f)) PROVE Serial(g) < Serial(Append(a, f)[i])
      <4>1. CASE i \in 1..Len(a)
        BY <2>4, <3>1, <4>1 DEF Recorded
      <4>2. CASE i = Len(a) + 1
        BY <1>1, <2>1, <3>1, <4>2
      <4> QED BY <3>1, <4>1, <4>2
    <3> QED BY <1>2, <1>3, <2>2, <2>4, <3>2 DEF Recorded
  <2> QED BY <2>1, <2>2, <2>3, <2>4
<1> QED BY <1>2, <1>3, <1>7, <1>8 DEF RunOK

LEMMA StartPutKeepsRun ==
  ASSUME NEW x \in Session, NEW q, NEW st, NEW acc, RunOK(x, q, st, acc),
         x.put = <<>>, x.flight # <<>>, ~x.landed, NEW y \in Session,
         y.put = <<Head(x.flight)>> /\ y.flight = Tail(x.flight) /\ y.landed = x.landed,
         y.staged = x.staged /\ y.from = x.from /\ y.epoch = x.epoch /\ y.nextSeq = x.nextSeq
  PROVE  RunOK(y, q, st, acc)
<1>1. y.put = <<Head(x.flight)>> /\ y.flight = Tail(x.flight) /\ y.landed = x.landed
      /\ y.staged = x.staged /\ y.from = x.from /\ y.epoch = x.epoch /\ y.nextSeq = x.nextSeq
  OBVIOUS
<1>2. Ahead(y) = Ahead(x)
  BY <1>1, StartPutAhead
<1>3. Limit(y) = Limit(x)
  BY <1>1 DEF Limit
<1>4. \A f : ~IsPut(x, f) /\ ~IsPut(y, f)
  BY <1>1 DEF IsPut
<1> QED BY <1>1, <1>2, <1>3, <1>4 DEF RunOK

\* The file being put lands: the log grows by one, at its end.
LEMMA LandKeepsRun ==
  ASSUME NEW x \in Session, NEW q, NEW st \in SUBSET File, NEW acc \in SUBSET File,
         RunOK(x, q, st, acc), Len(x.put) = 1, ~x.landed,
         NEW y \in Session, y.put = x.put /\ y.flight = x.flight /\ y.landed,
         y.staged = x.staged /\ y.from = x.from /\ y.epoch = x.epoch /\ y.nextSeq = x.nextSeq
  PROVE  LET f == x.put[1] IN
         /\ f \in File /\ f.start <= f.end
         /\ \A g \in st \cup acc : Serial(g) < Serial(f) /\ g.end < f.start
         /\ \A o \in 0..f.start - 1 : Covers(st \cup acc, o)
         /\ RunOK(y, q, st \cup {f}, acc)
<1> DEFINE f == x.put[1]
           a == Ahead(x)
<1>1. a # <<>> /\ a[1] = f /\ a \in Seq(File)
  <2>1. [x EXCEPT !.put = <<>>] \in Session /\ [x EXCEPT !.put = <<>>].put = <<>>
        /\ [x EXCEPT !.put = <<>>].flight = x.flight
    BY EmptyFiles DEF Session
  <2> QED BY <2>1, RecordAhead, AheadType
<1>2. y.put = x.put /\ y.flight = x.flight /\ y.landed /\ y.staged = x.staged /\ y.from = x.from
      /\ y.epoch = x.epoch /\ y.nextSeq = x.nextSeq
  OBVIOUS
<1>3. Ahead(y) = a /\ Limit(y) = Limit(x)
  BY <1>2 DEF Ahead, Limit
<1>4. x.staged \in Int /\ x.from \in Int /\ Limit(x) \in Int
  BY LimitType
<1>5. Chain(a, x.staged, x.from, Limit(x))
  BY DEF RunOK
<1> HIDE DEF a, f
<1>6. f \in File /\ f.start = x.staged + 1 /\ f.start <= f.end /\ Serial(f) < Limit(x) /\ 1 \in 1..Len(a)
  <2>1. 1 \in 1..Len(a)
    BY <1>1, EmptySeq
  <2> QED BY <1>1, <1>4, <1>5, <2>1, ChainTail
<1>7. ASSUME NEW g \in st \cup acc
      PROVE  Serial(g) < Serial(f) /\ g.end < f.start /\ Serial(g) < Limit(x)
             /\ Recorded(g, a, x.staged, q, acc)
  <2>1. Serial(g) < Limit(x) /\ Recorded(g, a, x.staged, q, acc) /\ g.end \in Int
    BY FileFields DEF RunOK, IsPut, a
  <2> QED BY <1>1, <1>4, <1>6, <2>1 DEF Recorded
<1>8. \A o \in 0..f.start - 1 : Covers(st \cup acc, o)
  <2>1. f.start - 1 = x.staged
    BY <1>4, <1>6
  <2> QED BY <2>1 DEF RunOK
<1>9. \A g \in (st \cup {f}) \cup acc :
        Serial(g) < Limit(y) /\ (IsPut(y, g) \/ Recorded(g, Ahead(y), y.staged, q, acc))
  BY <1>2, <1>3, <1>6, <1>7 DEF IsPut, f
<1>10. \A o \in 0..y.staged : Covers((st \cup {f}) \cup acc, o)
  BY <1>2 DEF RunOK, Covers
<1>11. RunOK(y, q, st \cup {f}, acc)
  BY <1>2, <1>3, <1>5, <1>9, <1>10 DEF RunOK, f
<1> QED BY <1>6, <1>7, <1>8, <1>11 DEF f

LEMMA OnePut ==
  ASSUME NEW x \in Session, Shape(x)
  PROVE  x.put # <<>> => Len(x.put) = 1
<1>1. \A r \in Seq(File) : r # <<>> => Len(r) \in Nat \ {0}
  BY EmptySeq
<1>2. x.put \in Seq(File) /\ Len(x.put) <= 1
  BY AheadType DEF Shape
<1> DEFINE p == x.put
<1>3. p \in Seq(File) /\ Len(p) <= 1
  BY <1>2
<1> HIDE DEF p
<1>4. p # <<>> => Len(p) \in Nat \ {0}
  BY <1>1, <1>3
<1> DEFINE n == Len(p)
<1>5. n <= 1 /\ (p # <<>> => n \in Nat \ {0})
  BY <1>3, <1>4
<1> HIDE DEF n
<1>6. p # <<>> => n = 1
  BY <1>5
<1> QED BY <1>6 DEF n, p

\* The file that has landed, about to be recorded: the oldest of those ahead.
LEMMA LandedFile ==
  ASSUME NEW x \in Session, NEW q, NEW st \in SUBSET File, NEW acc \in SUBSET File,
         RunOK(x, q, st, acc), Len(x.put) = 1, x.landed
  PROVE  LET f == x.put[1] IN
         /\ f \in st /\ f \in File /\ x.staged < f.end
         /\ Ahead(x) # <<>> /\ Ahead(x)[1] = f
         /\ Chain(Tail(Ahead(x)), f.end, x.from, Limit(x))
         /\ \A i \in 1..Len(Tail(Ahead(x))) : Serial(f) < Serial(Tail(Ahead(x))[i])
         /\ \A i \in 1..Len(Tail(Ahead(x))) : \E j \in 1..Len(Ahead(x)) : Tail(Ahead(x))[i] = Ahead(x)[j]
         /\ \A g \in st \cup acc : g # f => Recorded(g, Ahead(x), x.staged, q, acc)
<1> DEFINE f == x.put[1]
           a == Ahead(x)
<1>1. a # <<>> /\ a[1] = f /\ a \in Seq(File)
  <2>1. [x EXCEPT !.put = <<>>] \in Session /\ [x EXCEPT !.put = <<>>].put = <<>>
        /\ [x EXCEPT !.put = <<>>].flight = x.flight
    BY EmptyFiles DEF Session
  <2> QED BY <2>1, RecordAhead, AheadType
<1>2. x.staged \in Int /\ x.from \in Int /\ Limit(x) \in Int
  BY LimitType
<1>3. Chain(a, x.staged, x.from, Limit(x)) /\ f \in st
  BY DEF RunOK
<1>4. \A g \in st \cup acc : g # f => Recorded(g, a, x.staged, q, acc)
  BY DEF RunOK, IsPut
<1> HIDE DEF a, f
<1>5. /\ Chain(Tail(a), f.end, x.from, Limit(x))
      /\ f \in File /\ f.start = x.staged + 1 /\ f.start <= f.end
      /\ \A i \in 1..Len(Tail(a)) : Serial(f) < Serial(Tail(a)[i])
      /\ \A i \in 1..Len(Tail(a)) : \E j \in 1..Len(a) : Tail(a)[i] = a[j]
  BY <1>1, <1>2, <1>3, ChainTail
<1>6. x.staged < f.end
  BY <1>2, <1>5, FileFields
<1> QED BY <1>1, <1>3, <1>4, <1>5, <1>6 DEF a, f

LEMMA RecordKeepsRun ==
  ASSUME NEW x \in Session, NEW q, NEW st \in SUBSET File, NEW acc \in SUBSET File,
         NEW ld \in SUBSET acc, LogOK(st, acc, ld),
         RunOK(x, q, st, acc), Len(x.put) = 1, x.landed,
         NEW f, f = x.put[1],
         NEW r, Keeps(r, q), Keeps(r, <<f>>),
         NEW y \in Session, y.put = <<>> /\ y.flight = x.flight /\ ~y.landed,
         y.staged = f.end /\ y.from = x.from /\ y.epoch = x.epoch /\ y.nextSeq = x.nextSeq
  PROVE  RunOK(y, r, st, acc)
<1> DEFINE a == Ahead(x)
<1>1. Ahead(y) = Tail(a)
  BY RecordAhead
<1>2. Limit(y) = Limit(x)
  BY DEF Limit
<1>3. /\ f \in st /\ f \in File /\ x.staged < f.end
      /\ Chain(Tail(a), f.end, x.from, Limit(x))
      /\ \A i \in 1..Len(Tail(a)) : Serial(f) < Serial(Tail(a)[i])
      /\ \A i \in 1..Len(Tail(a)) : \E j \in 1..Len(a) : Tail(a)[i] = a[j]
      /\ \A g \in st \cup acc : g # f => Recorded(g, a, x.staged, q, acc)
  BY LandedFile
<1>4. f.end \in Int /\ x.staged \in Int
  BY <1>3, FileFields, LimitType
<1> HIDE DEF a
<1>5. ASSUME NEW g \in st \cup acc PROVE Recorded(g, Tail(a), f.end, r, acc)
  <2>0. \E i \in 1..Len(r) : r[i] = f
    BY DEF Keeps
  <2>1. CASE g = f
    BY <1>3, <1>4, <2>0, <2>1 DEF Recorded
  <2>2. CASE g # f
    <3>1. Recorded(g, a, x.staged, q, acc) /\ g.end \in Int
      BY <1>3, <2>2, FileFields
    <3>2. g.end <= f.end
      BY <1>3, <1>4, <3>1 DEF Recorded
    <3>3. g \in acc \/ \E i \in 1..Len(r) : r[i] = g
      BY <3>1 DEF Recorded, Keeps
    <3>4. \A i \in 1..Len(Tail(a)) : Serial(g) < Serial(Tail(a)[i])
      BY <1>3, <3>1 DEF Recorded
    <3> QED BY <3>2, <3>3, <3>4 DEF Recorded
  <2> QED BY <2>1, <2>2
<1>6. \A g \in st \cup acc : Serial(g) < Limit(y)
  BY <1>2 DEF RunOK
<1>7. \A o \in 0..y.staged : Covers(st \cup acc, o)
  BY <1>3 DEF LogOK
<1> QED BY <1>1, <1>2, <1>3, <1>5, <1>6, <1>7 DEF RunOK

LEMMA AcceptKeepsRun ==
  ASSUME NEW x, NEW q, NEW st, NEW acc, RunOK(x, q, st, acc),
         NEW f \in st \cup acc, NEW r, KeepsBut(r, q, f)
  PROVE  RunOK(x, r, st, acc \cup {f})
<1>1. st \cup (acc \cup {f}) = st \cup acc
  OBVIOUS
<1>2. \A g, a, n : Recorded(g, a, n, q, acc) => Recorded(g, a, n, r, acc \cup {f})
  BY DEF Recorded, KeepsBut
<1> QED BY <1>1, <1>2 DEF RunOK

LEMMA DeleteKeepsRun ==
  ASSUME NEW x \in Session, Shape(x), NEW q, NEW st \in SUBSET File, NEW acc \in SUBSET File,
         RunOK(x, q, st, acc), NEW f \in acc, NEW g \in st, Serial(f) < Serial(g)
  PROVE  RunOK(x, q, st \ {f}, acc)
<1>1. (st \ {f}) \cup acc = st \cup acc
  OBVIOUS
<1>2. ASSUME x.landed PROVE x.put[1] # f
  <2>1. Len(x.put) = 1
    BY <1>2, OnePut DEF Shape
  <2>2. Ahead(x) # <<>> /\ Ahead(x)[1] = x.put[1] /\ Ahead(x) \in Seq(File)
        /\ \A h \in st \cup acc : h # x.put[1] => Recorded(h, Ahead(x), x.staged, q, acc)
    BY <1>2, <2>1, LandedFile, AheadType
  <2>3. 1 \in 1..Len(Ahead(x))
    BY <2>2, EmptySeq
  <2>4. Serial(f) \in Int /\ Serial(g) \in Int
    BY FileFields
  <2>5. g = x.put[1] \/ Serial(g) < Serial(x.put[1])
    BY <2>2, <2>3 DEF Recorded
  <2> QED BY <2>4, <2>5
<1> QED BY <1>1, <1>2 DEF RunOK

(***************************************************************************)
(* A session that starts: what open_table planned from still holds, so it  *)
(* resumes right behind the log, with everything the server has not        *)
(* accepted in the queue, in order.                                        *)
(***************************************************************************)
\* The log as it was listed: it differs in files the server has.
LEMMA ListedLog ==
  ASSUME NEW x, x.pc \in {"listed", "written"}, NEW st, NEW acc, NEW ld,
         OpenOK(x, st, acc, ld), LogOK(st, acc, ld)
  PROVE  /\ x.seen.staged \cup acc = st \cup acc
         /\ LogOK(x.seen.staged, acc, ld)
         /\ OpenOK(x, x.seen.staged, acc, ld)
<1> DEFINE listed == x.seen.staged
<1>1. st \subseteq listed /\ listed \subseteq st \cup acc
  BY DEF OpenOK
<1> HIDE DEF listed
<1>2. listed \cup acc = st \cup acc
  BY <1>1
<1>3. LogOK(listed, acc, ld)
  BY <1>1, <1>2 DEF LogOK
<1>4. OpenOK(x, listed, acc, ld)
  <2>1. listed = x.seen.staged
    BY DEF listed
  <2> QED BY <1>2, <2>1 DEF OpenOK
<1> QED BY <1>2, <1>3, <1>4 DEF listed

Completes(b, st, acc) ==
  /\ b \in Seq(File)
  /\ \A f \in st \cup acc : f \in acc \/ \E i \in 1..Len(b) : b[i] = f
  /\ \A i \in 1..Len(b) :
       /\ b[i] \in st
       /\ \A f \in st \cup acc : Serial(f) < Serial(b[i]) => f \in acc \/ \E j \in 1..i-1 : b[j] = f

LEMMA BackfillCompletes ==
  ASSUME NEW x \in Session, Shape(x), x.pc = "written",
         NEW st \in SUBSET File, NEW acc \in SUBSET File, NEW ld \in SUBSET acc, LogOK(st, acc, ld),
         OpenOK(x, st, acc, ld), x.seen.staged = st
  PROVE  Completes(PlanBackfill(x.seen), st, acc)
<1> DEFINE mark == x.seen.mark
           S == {f \in st : Serial(f) > mark}
           b == OldestFirst(S)
<1>1. PlanBackfill(x.seen) = b
  BY DEF PlanBackfill
<1>2. S \subseteq File
  OBVIOUS
<1>3. /\ b \in Seq(S) /\ b \in Seq(File)
      /\ \A f \in S : \E i \in 1..Len(b) : b[i] = f
      /\ \A i, j \in 1..Len(b) : i < j => Serial(b[i]) <= Serial(b[j])
  <2> HIDE DEF S
  <2> QED BY <1>2, OldestFirstSorts
<1>4. mark \in Int /\ (mark # NoSerial => \E g \in ld : mark = Serial(g))
  BY TopType DEF Shape, OpenOK, NoSerial
<1> HIDE DEF mark, b
<1>5. ASSUME NEW f \in st \cup acc PROVE f \in acc \/ f \in S
  <2>1. Serial(f) \in Int /\ Serial(f) >= 0
    BY FileFields
  <2>2. CASE f \in st /\ Serial(f) <= mark
    <3>1. PICK g \in ld : mark = Serial(g)
      BY <1>4, <2>1, <2>2 DEF NoSerial
    <3> QED BY <2>2, <3>1, UpToAccepted
  <2> QED BY <1>4, <2>1, <2>2
<1> HIDE DEF S
<1>6. \A f \in st \cup acc : f \in acc \/ \E i \in 1..Len(b) : b[i] = f
  BY <1>3, <1>5
<1>7. ASSUME NEW i \in 1..Len(b)
      PROVE  /\ b[i] \in st
             /\ \A f \in st \cup acc : Serial(f) < Serial(b[i]) =>
                  f \in acc \/ \E j \in 1..i-1 : b[j] = f
  <2>1. b[i] \in S /\ b[i] \in File
    BY <1>3, ElementOfSeq
  <2>2. b[i] \in st
    BY <2>1 DEF S
  <2>3. ASSUME NEW f \in st \cup acc, Serial(f) < Serial(b[i]), f \notin acc
        PROVE  \E j \in 1..i-1 : b[j] = f
    <3>1. PICK j \in 1..Len(b) : b[j] = f
      BY <1>6, <2>3
    <3>2. Serial(f) \in Int /\ Serial(b[i]) \in Int
      BY <2>1, FileFields
    <3>3. ~(i < j) /\ i # j
      <4>1. i < j => Serial(b[i]) <= Serial(b[j])
        BY <1>3, <3>1
      <4>2. Serial(b[j]) < Serial(b[i])
        BY <2>3, <3>1
      <4>3. ~(Serial(b[i]) <= Serial(b[j])) /\ b[i] # b[j]
        BY <3>1, <3>2, <4>2
      <4> QED BY <4>1, <4>3
    <3>4. j \in 1..i-1
      BY <3>3
    <3> QED BY <3>1, <3>4
  <2> QED BY <2>2, <2>3
<1>8. Completes(b, st, acc)
  BY <1>3, <1>6, <1>7 DEF Completes
<1> QED BY <1>1, <1>8

LEMMA ResumesBehindLog ==
  ASSUME NEW x \in Session, Shape(x), x.pc = "written",
         NEW st \in SUBSET File, NEW acc \in SUBSET File, NEW ld \in SUBSET acc, LogOK(st, acc, ld),
         OpenOK(x, st, acc, ld), SureOK(x, acc), x.seen.staged = st
  PROVE  LET n == PlanResume(x.seen) - 1 IN
         /\ n \in -1..MaxOffset
         /\ \A f \in st \cup acc : f.end <= n
         /\ \A o \in 0..n : Covers(st \cup acc, o)
<1> DEFINE seen == x.seen
           n == PlanResume(seen) - 1
<1>1. seen \in Seen /\ Len(seen.state) <= 1 /\ seen.mark \in NoSerial..Top /\ seen.staged = st
      /\ seen.state \in Seq(StateFile)
  BY DEF Session, Seen, Shape, OpenOK
<1>2. AllSure(seen.state, acc)
  BY DEF SureOK
<1> HIDE DEF seen
<1>3. /\ PlanResume(seen) \in 0..MaxOffset + 1
      /\ \A f \in st : f.end < PlanResume(seen)
      /\ PlanResume(seen) = 0 \/ (\E f \in st : PlanResume(seen) = f.end + 1)
              \/ (seen.state # <<>> /\ PlanResume(seen) = seen.state[1].resume_offset + 1)
  BY <1>1, PlanTypes
<1>4. n \in -1..MaxOffset /\ MaxOffset \in Nat /\ n \in Int
  BY <1>3, ConstantFacts
<1>5. \A f \in st : f.end <= n
  BY <1>3, FileFields
<1>6. ASSUME NEW f \in st \cup acc PROVE f.end <= n
  <2>1. PICK g \in st : Serial(f) <= Serial(g)
    BY DEF LogOK
  <2>2. f.end <= g.end /\ f.end \in Int /\ g.end \in Int
    BY <2>1, EndsGrow, FileFields
  <2>3. g.end <= n
    BY <1>5
  <2> QED BY <1>4, <2>2, <2>3
<1>7. ASSUME NEW o \in 0..n PROVE Covers(st \cup acc, o)
  <2>1. CASE PlanResume(seen) = 0
    BY <1>4, <2>1
  <2>2. ASSUME NEW f \in st, PlanResume(seen) = f.end + 1 PROVE Covers(st \cup acc, o)
    <3>1. n = f.end
      BY <2>2, FileFields
    <3> QED BY <3>1 DEF LogOK
  <2>3. CASE seen.state # <<>> /\ PlanResume(seen) = seen.state[1].resume_offset + 1
    <3>1. seen.state[1] \in StateFile /\ 1 \in 1..Len(seen.state)
      BY <1>1, <2>3, HeadOf, EmptySeq
    <3>2. n = seen.state[1].resume_offset
      BY <2>3, <3>1, OffsetRange, ConstantFacts DEF StateFile
    <3>3. Covers(acc, o)
      BY <1>2, <3>1, <3>2 DEF AllSure, Sure
    <3> QED BY <3>3 DEF Covers
  <2> QED BY <1>3, <2>1, <2>2, <2>3
<1> QED BY <1>4, <1>6, <1>7 DEF seen

LEMMA StartRuns ==
  ASSUME NEW x \in Session, Shape(x), x.pc = "written", Idle(x), x.nextSeq = 0,
         NEW st \in SUBSET File, NEW acc \in SUBSET File, NEW ld \in SUBSET acc, LogOK(st, acc, ld),
         OpenOK(x, st, acc, ld), SureOK(x, acc), x.seen.staged = st,
         NEW q \in Seq(File), QueueOK(q, st \cup acc, acc),
         NEW c, c = q \o PlanBackfill(x.seen),
         NEW y \in Session, y.put = <<>> /\ y.flight = <<>> /\ ~y.landed,
         y.epoch = x.epoch /\ y.nextSeq = 0,
         y.from = PlanResume(x.seen) /\ y.staged = PlanResume(x.seen) - 1
  PROVE  QueueOK(c, st \cup acc, acc) /\ RunOK(y, c, st, acc)
<1> DEFINE b == PlanBackfill(x.seen)
           known == st \cup acc
<1>1. Completes(b, st, acc)
  BY BackfillCompletes
<1>2. /\ y.staged \in -1..MaxOffset /\ y.from = y.staged + 1
      /\ \A f \in known : f.end <= y.staged
      /\ \A o \in 0..y.staged : Covers(known, o)
  <2>1. PlanResume(x.seen) - 1 \in -1..MaxOffset
    BY ResumesBehindLog
  <2>2. PlanResume(x.seen) = (PlanResume(x.seen) - 1) + 1
    BY LimitType
  <2> QED BY <2>1, <2>2, ResumesBehindLog
<1> HIDE DEF b
<1>3. QueueOK(q \o b, known, acc) /\ Keeps(q \o b, b)
  <2>1. known \in SUBSET File /\ b \in Seq(File)
    BY <1>1 DEF Completes
  <2>2. FollowsQueue(b, q, known, acc)
    BY <1>1 DEF Completes, FollowsQueue
  <2> HIDE DEF known
  <2>3. QueueOK(q, known, acc)
    BY DEF known
  <2> QED BY <2>1, <2>2, <2>3, QueueGrows
<1>4. c = q \o b
  BY DEF b
<1>5. Ahead(y) = <<>> /\ Len(Ahead(y)) = 0 /\ 1..Len(Ahead(y)) = {}
  <2>1. Ahead(y) = <<>> /\ Len(Ahead(y)) = 0
    BY NothingAhead
  <2> QED BY <2>1
<1>6. Chain(Ahead(y), y.staged, y.from, Limit(y))
  BY <1>2, <1>5 DEF Chain
<1>7. ASSUME NEW f \in known PROVE Serial(f) < Limit(y)
  <2>1. f.epoch < x.epoch
    BY DEF OpenOK
  <2>2. f.epoch \in Nat /\ f.seq \in 0..MaxSeq /\ x.epoch \in Nat
    <3>1. f \in File
      OBVIOUS
    <3>2. x.epoch \in 0..MaxEpoch
      BY DEF Session
    <3> QED BY <3>1, <3>2, FileFields, ConstantFacts
  <2>3. Encode(f.epoch, f.seq) < Encode(x.epoch, 0)
    BY <2>1, <2>2, EncodeOrder
  <2> QED BY <2>3 DEF Serial, Limit
<1>8. ASSUME NEW f \in known PROVE Recorded(f, Ahead(y), y.staged, c, acc)
  <2>1. f \in acc \/ \E i \in 1..Len(c) : c[i] = f
    BY <1>1, <1>3, <1>4 DEF Completes, Keeps
  <2> QED BY <1>2, <1>5, <2>1 DEF Recorded
<1>9. RunOK(y, c, st, acc)
  BY <1>2, <1>6, <1>7, <1>8 DEF RunOK
<1> QED BY <1>3, <1>4, <1>9

-----------------------------------------------------------------------------
(***************************************************************************)
(* The lease: only the last session opened is alive.                       *)
(***************************************************************************)
LEMMA PcCases ==
  ASSUME NEW x
  PROVE  /\ IsLive(x) <=> x.pc \in {"locked", "state", "mark", "listed", "written", "run"}
         /\ x.pc \in Opening \cup {"none"} <=>
              x.pc \in {"locked", "state", "mark", "listed", "written", "none"}
BY DEF IsLive, Opening

\* A live session is the only one, and it has the lease.
LEMMA OneLive ==
  ASSUME LeaseInv, NEW s \in Sessions, IsLive(session[s])
  PROVE  /\ holder = s
         /\ \A r \in Sessions : IsLive(session[r]) => r = s
         /\ \A r \in Sessions : r < s => session[r].pc = "gone"
         /\ \A r \in Sessions : s < r => session[r].pc = "none"
<1>1. session[s].pc \notin {"none", "gone"}
  BY PcCases
<1> QED BY <1>1 DEF LeaseInv

\* A live session goes on.
LEMMA LiveGoesOn ==
  ASSUME TypeInv, LeaseInv, NEW s \in Sessions, IsLive(session[s]),
         NEW rec, IsLive(rec), LeaseOK(rec),
         session' = [session EXCEPT ![s] = rec], holder' = holder
  PROVE  LeaseInv'
<1>1. \A r \in Sessions : session'[r] = IF r = s THEN rec ELSE session[r]
  BY TypeParts
<1>2. session[s].pc \notin {"none", "gone"} /\ rec.pc \notin {"none", "gone"}
  BY PcCases
<1>3. \A r, t \in Sessions : r < t /\ session'[t].pc # "none" => session'[r].pc = "gone"
  BY <1>1, <1>2 DEF LeaseInv
<1>4. \A r \in Sessions : (IsLive(session'[r]) => holder' = r) /\ LeaseOK(session'[r])
  BY <1>1, OneLive DEF LeaseInv
<1> QED BY <1>3, <1>4 DEF LeaseInv

\* Sessions that were opened are gone, and a lease one of them had may be free.
LEMMA SessionsEnd ==
  ASSUME TypeInv, LeaseInv, session' \in [Sessions -> Session],
         \A r \in Sessions : session'[r] = session[r]
            \/ (session[r].pc # "none" /\ session'[r].pc = "gone" /\ LeaseOK(session'[r])),
         holder' = holder \/ (\E s \in Sessions : session'[s].pc = "gone" /\ holder = s)
  PROVE  LeaseInv'
<1>1. ASSUME NEW r \in Sessions, NEW t \in Sessions, r < t, session'[t].pc # "none"
      PROVE  session'[r].pc = "gone"
  <2>1. session[t].pc # "none"
    BY <1>1
  <2>2. session[r].pc = "gone"
    BY <1>1, <2>1 DEF LeaseInv
  <2> QED BY <2>2
<1>2. ASSUME NEW r \in Sessions, IsLive(session'[r]) PROVE holder' = r
  <2>1. session'[r].pc # "gone"
    BY <1>2, PcCases
  <2>2. IsLive(session[r]) /\ session[r].pc = session'[r].pc
    BY <1>2, <2>1
  <2>3. holder = r
    BY <2>2, OneLive
  <2> QED BY <2>1, <2>3
<1>3. \A r \in Sessions : LeaseOK(session'[r])
  BY DEF LeaseInv
<1> QED BY <1>1, <1>2, <1>3 DEF LeaseInv

\* A write of state.json travels whatever its session does.
LEMMA WriteTravels ==
  ASSUME TypeInv, LeaseInv, NEW s \in Sessions, NEW rec,
         session' = [session EXCEPT ![s] = rec], holder' = holder,
         rec.pc = session[s].pc /\ rec.fenced = session[s].fenced,
         rec.put = session[s].put /\ rec.flight = session[s].flight,
         rec.landed = session[s].landed /\ rec.nextSeq = session[s].nextSeq
  PROVE  LeaseInv'
<1>1. \A r \in Sessions : session'[r] = IF r = s THEN rec ELSE session[r]
  BY TypeParts
<1>2. \A r \in Sessions : session'[r].pc = session[r].pc
  BY <1>1
<1>3. LeaseOK(session[s]) => LeaseOK(rec)
  BY DEF LeaseOK, Idle
<1>4. \A r \in Sessions : LeaseOK(session'[r])
  BY <1>1, <1>3 DEF LeaseInv
<1>5. \A r \in Sessions : IsLive(session'[r]) => IsLive(session[r])
  BY <1>2 DEF IsLive
<1> QED BY <1>2, <1>4, <1>5 DEF LeaseInv

LEMMA OpenKeepsLease ==
  ASSUME NoPreemption, TypeInv, LeaseInv, NEW s \in Sessions, NEW p \in Sessions, Open(s, p)
  PROVE  LeaseInv'
<1> DEFINE rec == [session[s] EXCEPT !.pc = "locked", !.proc = p]
<1>0. session \in [Sessions -> Session] /\ session[s] \in Session
  BY TypeParts
<1>1. session' = [session EXCEPT ![s] = rec] /\ holder' = s /\ session[s].pc = "none"
      /\ (\A r \in Sessions : r < s => session[r].pc \notin Opening \cup {"none"})
      /\ holder \in {NoSession} \cup {r \in Sessions : session[r].pc = "gone"}
  BY <1>0 DEF Open, LeaseFree, NoPreemption
<1>2. rec.pc = "locked" /\ rec.fenced = session[s].fenced /\ rec.put = session[s].put
      /\ rec.flight = session[s].flight /\ rec.landed = session[s].landed
      /\ rec.nextSeq = session[s].nextSeq
  BY <1>0 DEF Session
<1> HIDE DEF rec
<1>3. \A r \in Sessions : session'[r] = IF r = s THEN rec ELSE session[r]
  BY <1>0, <1>1
<1>4. LeaseOK(rec)
  <2>1. LeaseOK(session[s])
    BY DEF LeaseInv
  <2> QED BY <1>1, <1>2, <2>1 DEF LeaseOK, Idle
<1>5. \A r \in Sessions : ~IsLive(session[r])
  <2> SUFFICES ASSUME NEW r \in Sessions, IsLive(session[r]) PROVE FALSE
    OBVIOUS
  <2>1. holder = r /\ session[r].pc # "gone"
    BY OneLive, PcCases
  <2> QED BY <1>1, <2>1 DEF NoSession, Sessions
<1>6. \A r \in Sessions : r < s => session[r].pc = "gone"
  <2> SUFFICES ASSUME NEW r \in Sessions, r < s PROVE session[r].pc = "gone"
    OBVIOUS
  <2>1. session[r].pc \in SessionPcs
    BY FieldTypes
  <2>2. session[r].pc \notin Opening \cup {"none", "run"}
    BY <1>1, <1>5 DEF IsLive
  <2> QED BY <2>1, <2>2 DEF SessionPcs
<1>7. \A r \in Sessions : s < r => session[r].pc = "none"
  BY <1>1 DEF LeaseInv
<1>8. ASSUME NEW r \in Sessions, NEW t \in Sessions, r < t, session'[t].pc # "none"
      PROVE  session'[r].pc = "gone"
  <2>1. CASE t = s
    BY <1>3, <1>6, <1>8, <2>1 DEF Sessions
  <2>2. CASE t # s
    <3>1. ~(s < t)
      BY <1>3, <1>7, <1>8, <2>2
    <3>2. r < s /\ r # s
      BY <1>8, <2>2, <3>1 DEF Sessions
    <3> QED BY <1>3, <1>6, <3>2
  <2> QED BY <2>1, <2>2
<1>9. \A r \in Sessions : (IsLive(session'[r]) => holder' = r) /\ LeaseOK(session'[r])
  BY <1>1, <1>3, <1>4, <1>5 DEF LeaseInv
<1> QED BY <1>8, <1>9 DEF LeaseInv


LEMMA LiveStepsKeepLease ==
  ASSUME TypeInv, LeaseInv, NEW s \in Sessions
  PROVE  /\ ReadState(s) => LeaseInv'
         /\ \A known \in BOOLEAN : ReadWatermark(s, known) => LeaseInv'
         /\ List(s) => LeaseInv'
         /\ \A now \in Clock : WriteState(s, now) => LeaseInv'
         /\ Start(s) => LeaseInv'
<1>0. session[s] \in Session /\ LeaseOK(session[s])
  BY FieldTypes DEF LeaseInv
<1> DEFINE x == session[s]
<1>1. ASSUME NEW rec, session' = [session EXCEPT ![s] = rec], holder' = holder,
             IsLive(x), x.pc # "run", rec.pc \in Opening \cup {"run"},
             rec.fenced = x.fenced /\ rec.put = x.put /\ rec.flight = x.flight,
             rec.landed = x.landed /\ rec.nextSeq = x.nextSeq
      PROVE  LeaseInv'
  <2>1. IsLive(rec)
    BY <1>1 DEF IsLive
  <2>2. LeaseOK(rec)
    BY <1>0, <1>1 DEF LeaseOK, Idle, IsLive
  <2> HIDE DEF x
  <2>3. IsLive(session[s])
    BY <1>1 DEF x
  <2> QED BY <1>1, <2>1, <2>2, <2>3, LiveGoesOn
<1>2. ASSUME ReadState(s) PROVE LeaseInv'
  <2> DEFINE rec == [x EXCEPT !.pc = "state", !.seen.state = state]
  <2>1. session' = [session EXCEPT ![s] = rec] /\ holder' = holder /\ x.pc = "locked"
    BY <1>0, <1>2, TypeParts DEF ReadState
  <2>2. rec.pc = "state" /\ rec.fenced = x.fenced /\ rec.put = x.put /\ rec.flight = x.flight
        /\ rec.landed = x.landed /\ rec.nextSeq = x.nextSeq
    BY <1>0 DEF Session
  <2> HIDE DEF rec, x
  <2> QED BY <1>1, <2>1, <2>2, PcCases DEF Opening
<1>3. ASSUME NEW known \in BOOLEAN, ReadWatermark(s, known) PROVE LeaseInv'
  <2> DEFINE rec == [x EXCEPT !.pc = "mark", !.seen.mark = IF known THEN Watermark ELSE NoSerial]
  <2>1. session' = [session EXCEPT ![s] = rec] /\ holder' = holder /\ x.pc = "state"
    BY <1>0, <1>3, TypeParts DEF ReadWatermark
  <2>2. rec.pc = "mark" /\ rec.fenced = x.fenced /\ rec.put = x.put /\ rec.flight = x.flight
        /\ rec.landed = x.landed /\ rec.nextSeq = x.nextSeq
    BY <1>0 DEF Session
  <2> HIDE DEF rec, x
  <2> QED BY <1>1, <2>1, <2>2, PcCases DEF Opening
<1>4. ASSUME List(s) PROVE LeaseInv'
  <2> DEFINE rec == [x EXCEPT !.pc = "listed", !.seen.staged = stored]
  <2>1. session' = [session EXCEPT ![s] = rec] /\ holder' = holder /\ x.pc = "mark"
    BY <1>0, <1>4, TypeParts DEF List
  <2>2. rec.pc = "listed" /\ rec.fenced = x.fenced /\ rec.put = x.put /\ rec.flight = x.flight
        /\ rec.landed = x.landed /\ rec.nextSeq = x.nextSeq
    BY <1>0 DEF Session
  <2> HIDE DEF rec, x
  <2> QED BY <1>1, <2>1, <2>2, PcCases DEF Opening
<1>5. ASSUME NEW now \in Clock, WriteState(s, now) PROVE LeaseInv'
  <2> DEFINE seen == x.seen
             e == next_epoch(now, Anchors(seen))
             resume == IF seen.state = <<>> THEN NoOffset ELSE seen.state[1].resume_offset
             rec == [x EXCEPT !.pc = "written", !.epoch = e, !.persisted = resume]
  <2>1. session' = [session EXCEPT ![s] = rec] /\ holder' = holder /\ x.pc = "listed"
    BY <1>0, <1>5, TypeParts DEF WriteState
  <2>2. rec.pc = "written" /\ rec.fenced = x.fenced /\ rec.put = x.put /\ rec.flight = x.flight
        /\ rec.landed = x.landed /\ rec.nextSeq = x.nextSeq
    BY <1>0 DEF Session
  <2> HIDE DEF rec, x
  <2> QED BY <1>1, <2>1, <2>2, PcCases DEF Opening
<1>6. ASSUME Start(s) PROVE LeaseInv'
  <2> DEFINE seen == x.seen
             rec == [x EXCEPT !.pc = "run", !.seen = NothingSeen, !.from = PlanResume(seen),
                              !.staged = PlanResume(seen) - 1]
  <2>1. session' = [session EXCEPT ![s] = rec] /\ holder' = holder /\ x.pc = "written"
    BY <1>0, <1>6, TypeParts DEF Start
  <2>2. rec.pc = "run" /\ rec.fenced = x.fenced /\ rec.put = x.put /\ rec.flight = x.flight
        /\ rec.landed = x.landed /\ rec.nextSeq = x.nextSeq
    BY <1>0 DEF Session
  <2> HIDE DEF rec, x
  <2> QED BY <1>1, <2>1, <2>2, PcCases DEF Opening
<1> QED BY <1>2, <1>3, <1>4, <1>5, <1>6

LEMMA RunningStepsKeepLease ==
  ASSUME NoPreemption, TypeInv, LeaseInv, NEW s \in Sessions
  PROVE  /\ \A e \in Offset : Seal(s, e) => LeaseInv'
         /\ StartPut(s) => LeaseInv'
         /\ Land(s) => LeaseInv'
         /\ Record(s) => LeaseInv'
         /\ ~Abandon(s)
         /\ ~Fence(s)
<1> DEFINE x == session[s]
<1>0. x \in Session /\ LeaseOK(x)
  BY FieldTypes DEF LeaseInv
<1>1. ASSUME NEW rec, session' = [session EXCEPT ![s] = rec], holder' = holder,
             x.pc = "run", rec.pc = "run", rec.fenced = x.fenced
      PROVE  LeaseInv'
  <2>1. IsLive(rec) /\ IsLive(session[s])
    BY <1>1 DEF IsLive
  <2>2. LeaseOK(rec)
    BY <1>0, <1>1 DEF LeaseOK, Opening
  <2> HIDE DEF x
  <2> QED BY <1>1, <2>1, <2>2, LiveGoesOn
<1>2. ASSUME NEW e \in Offset, Seal(s, e) PROVE LeaseInv'
  <2> DEFINE slot == Rolled(x.epoch, x.nextSeq)
             f == [epoch |-> slot[1], seq |-> slot[2], start |-> x.from, end |-> e]
             rec == [x EXCEPT !.epoch = slot[1], !.nextSeq = slot[2] + 1, !.from = e + 1,
                              !.flight = Append(@, f)]
  <2>1. session' = [session EXCEPT ![s] = rec] /\ holder' = holder /\ x.pc = "run"
    BY <1>0, <1>2, TypeParts DEF Seal, Running
  <2>2. rec.pc = x.pc /\ rec.fenced = x.fenced
    BY <1>0 DEF Session
  <2> HIDE DEF rec, x
  <2> QED BY <1>1, <2>1, <2>2
<1>3. ASSUME StartPut(s) PROVE LeaseInv'
  <2> DEFINE rec == [x EXCEPT !.put = <<Head(x.flight)>>, !.flight = Tail(@)]
  <2>1. session' = [session EXCEPT ![s] = rec] /\ holder' = holder /\ x.pc = "run"
    BY <1>0, <1>3, TypeParts DEF StartPut, Running
  <2>2. rec.pc = x.pc /\ rec.fenced = x.fenced
    BY <1>0 DEF Session
  <2> HIDE DEF rec, x
  <2> QED BY <1>1, <2>1, <2>2
<1>4. ASSUME Land(s) PROVE LeaseInv'
  <2> DEFINE rec == [x EXCEPT !.landed = TRUE]
  <2>1. session' = [session EXCEPT ![s] = rec] /\ holder' = holder /\ x.pc = "run"
    BY <1>0, <1>4, TypeParts DEF Land, LeaseOK, Idle
  <2>2. rec.pc = x.pc /\ rec.fenced = x.fenced
    BY <1>0 DEF Session
  <2> HIDE DEF rec, x
  <2> QED BY <1>1, <2>1, <2>2
<1>5. ASSUME Record(s) PROVE LeaseInv'
  <2> DEFINE rec == [x EXCEPT !.put = <<>>, !.landed = FALSE, !.staged = Max({@, x.put[1].end})]
  <2>1. session' = [session EXCEPT ![s] = rec] /\ holder' = holder /\ x.pc = "run"
    BY <1>0, <1>5, TypeParts DEF Record, Running
  <2>2. rec.pc = x.pc /\ rec.fenced = x.fenced
    BY <1>0 DEF Session
  <2> HIDE DEF rec, x
  <2> QED BY <1>1, <2>1, <2>2
<1>6. ~Abandon(s)
  BY <1>0 DEF Abandon, LeaseOK
<1>7. ~Fence(s)
  <2> SUFFICES ASSUME Fence(s) PROVE FALSE
    OBVIOUS
  <2>1. holder # s /\ IsLive(session[s])
    BY DEF Fence, NoPreemption, Running, IsLive
  <2> QED BY <2>1, OneLive
<1> QED BY <1>2, <1>3, <1>4, <1>5, <1>6, <1>7

LEMMA StateStepsKeepLease ==
  ASSUME TypeInv, LeaseInv, NEW s \in Sessions
  PROVE  /\ PersistState(s) => LeaseInv'
         /\ StateWritten(s) => LeaseInv'
         /\ StateWriteFails(s) => LeaseInv'
<1> DEFINE x == session[s]
<1>0. x \in Session
  BY FieldTypes
<1>1. ASSUME NEW w, NEW o,
             session' = [session EXCEPT ![s].writing = w, ![s].persisted = o], holder' = holder
      PROVE  LeaseInv'
  <2> DEFINE rec == [x EXCEPT !.writing = w, !.persisted = o]
  <2>1. session' = [session EXCEPT ![s] = rec]
    BY <1>0, <1>1, TypeParts
  <2>2. /\ rec.pc = x.pc /\ rec.fenced = x.fenced
        /\ rec.put = x.put /\ rec.flight = x.flight
        /\ rec.landed = x.landed /\ rec.nextSeq = x.nextSeq
    BY <1>0 DEF Session
  <2> HIDE DEF rec
  <2> QED BY <1>1, <2>1, <2>2, WriteTravels
<1>2. ASSUME NEW w, session' = [session EXCEPT ![s].writing = w], holder' = holder
      PROVE  LeaseInv'
  <2>1. session' = [session EXCEPT ![s].writing = w, ![s].persisted = x.persisted]
    BY <1>0, <1>2, TypeParts DEF Session
  <2> HIDE DEF x
  <2> QED BY <1>1, <1>2, <2>1
<1>3. PersistState(s) => LeaseInv'
  <2> DEFINE w == <<StateOf(s)>>
  <2>1. PersistState(s) => session' = [session EXCEPT ![s].writing = w] /\ holder' = holder
    BY DEF PersistState
  <2> HIDE DEF w
  <2> QED BY <1>2, <2>1
<1>4. StateWritten(s) => LeaseInv'
  <2> DEFINE w == <<>>
             o == x.writing[1].resume_offset
  <2>1. StateWritten(s) =>
          session' = [session EXCEPT ![s].writing = w, ![s].persisted = o] /\ holder' = holder
    BY DEF StateWritten
  <2> HIDE DEF w, o
  <2> QED BY <1>1, <2>1
<1>5. StateWriteFails(s) => LeaseInv'
  <2> DEFINE w == <<>>
  <2>1. StateWriteFails(s) => session' = [session EXCEPT ![s].writing = w] /\ holder' = holder
    BY DEF StateWriteFails
  <2> HIDE DEF w
  <2> QED BY <1>2, <2>1
<1> QED BY <1>3, <1>4, <1>5

\* What is left of a session that has ended.
LEMMA GoneFields ==
  /\ Gone.pc = "gone" /\ Gone.put = <<>> /\ Gone.flight = <<>> /\ ~Gone.landed /\ ~Gone.fenced
  /\ Gone.nextSeq = 0 /\ Gone.writing = <<>> /\ Gone.persisted = NoOffset
  /\ Gone.seen = NothingSeen /\ LeaseOK(Gone)
BY DEF Gone, NewSession, LeaseOK, Idle, Opening

LEMMA StopsKeepLease ==
  ASSUME TypeInv, LeaseInv, NEW s \in Sessions, TypeInv'
  PROVE  /\ OpenFails(s) => LeaseInv'
         /\ \A written, released \in BOOLEAN : Close(s, written, released) => LeaseInv'
         /\ Drop(s) => LeaseInv'
         /\ Crash(s) => LeaseInv'
<1>0. session \in [Sessions -> Session] /\ session' \in [Sessions -> Session]
  BY DEF TypeInv, StreamTypeOK
<1>1. ASSUME NEW rec, session' = [session EXCEPT ![s] = rec], session[s].pc # "none",
             rec.pc = "gone", LeaseOK(rec), holder' \in {holder, Released(s)}
      PROVE  LeaseInv'
  <2>1. \A r \in Sessions : session'[r] = IF r = s THEN rec ELSE session[r]
    BY <1>0, <1>1
  <2>2. holder' = holder \/ (session'[s].pc = "gone" /\ holder = s)
    BY <1>1, <2>1 DEF Released
  <2> QED BY <1>0, <1>1, <2>1, <2>2, SessionsEnd
<1>2. OpenFails(s) => LeaseInv'
  BY <1>1, GoneFields, PcCases DEF OpenFails, Opening
<1>3. ASSUME NEW written \in BOOLEAN, NEW released \in BOOLEAN, Close(s, written, released)
      PROVE  LeaseInv'
  <2> DEFINE rec == [Gone EXCEPT !.proc = session[s].proc, !.writing = session[s].writing]
  <2>1. session' = [session EXCEPT ![s] = rec] /\ session[s].pc # "none"
        /\ holder' \in {holder, Released(s)}
    BY <1>3 DEF Close, Running
  <2>2. /\ rec.pc = Gone.pc /\ rec.put = Gone.put /\ rec.flight = Gone.flight
        /\ rec.landed = Gone.landed /\ rec.fenced = Gone.fenced /\ rec.nextSeq = Gone.nextSeq
    BY DEF Gone, NewSession
  <2> HIDE DEF rec
  <2>3. LeaseOK(rec)
    BY <2>2, GoneFields DEF LeaseOK, Idle, Opening
  <2> QED BY <1>1, <2>1, <2>2, <2>3, GoneFields
<1>4. Drop(s) => LeaseInv'
  <2>1. Drop(s) => session' = [session EXCEPT ![s] = Gone] /\ session[s].pc # "none"
                   /\ holder' \in {holder, Released(s)}
    BY DEF Drop, Running
  <2> QED BY <1>1, <2>1, GoneFields
<1>5. Crash(s) => LeaseInv'
  <2>1. Crash(s) =>
          /\ \A r \in Sessions : session'[r] = session[r]
               \/ (session[r].pc # "none" /\ session'[r].pc = "gone" /\ LeaseOK(session'[r]))
          /\ holder' = holder
    BY <1>0, GoneFields DEF Crash
  <2> QED BY <1>0, <2>1, SessionsEnd
<1> QED BY <1>2, <1>3, <1>4, <1>5

(***************************************************************************)
(* One session at a time is open and holds the lease.                      *)
(***************************************************************************)
LEMMA LeaseStep ==
  ASSUME NoPreemption, TypeInv, LeaseInv, TypeInv', Step
  PROVE  LeaseInv'
<1>1. ASSUME UNCHANGED <<session, holder>> PROVE LeaseInv'
  BY <1>1 DEF LeaseInv
<1>2. ASSUME NEW s \in Sessions, Collect(s) PROVE LeaseInv'
  BY <1>1, <1>2 DEF Collect
<1>3. ASSUME NEW p \in Sessions, NEW answered \in BOOLEAN, Submit(p, answered) PROVE LeaseInv'
  BY <1>1, <1>3 DEF Submit
<1>4. ASSUME Load PROVE LeaseInv'
  BY <1>1, <1>4 DEF Load
<1> QED
  BY <1>2, <1>3, <1>4, OpenKeepsLease, LiveStepsKeepLease, RunningStepsKeepLease,
     StateStepsKeepLease, StopsKeepLease, Zenon DEF Step

-----------------------------------------------------------------------------
(***************************************************************************)
(* The steps, one group after the other.  SafeInv is what is left to show. *)
(***************************************************************************)
SafeInv == LogInv /\ QueueInv /\ SureInv /\ OpenInv /\ RunInv

Known == stored \cup accepted

\* Sessions only differ in what RunOK does not speak of.
LEMMA RunUnchanged ==
  ASSUME NEW x, NEW q, NEW st, NEW acc, RunOK(x, q, st, acc),
         NEW y, y.put = x.put /\ y.flight = x.flight /\ y.landed = x.landed,
         y.staged = x.staged /\ y.from = x.from /\ y.epoch = x.epoch /\ y.nextSeq = x.nextSeq
  PROVE  RunOK(y, q, st, acc)
<1>1. Ahead(y) = Ahead(x) /\ Limit(y) = Limit(x)
  BY DEF Ahead, Limit
<1>2. \A f : IsPut(x, f) => IsPut(y, f)
  BY DEF IsPut
<1> QED BY <1>1, <1>2 DEF RunOK

\* A step of one session that leaves storage, the server and the queues alone.
LEMMA SessionChanges ==
  ASSUME TypeInv, SafeInv, NEW s \in Sessions, NEW rec, session' = [session EXCEPT ![s] = rec],
         \A p \in Sessions : /\ notifier'[p].queue = notifier[p].queue
                             /\ notifier'[p].confirmed = notifier[p].confirmed,
         stored' = stored /\ accepted' = accepted /\ loaded' = loaded,
         AllSure(state', accepted), SureOK(rec, accepted),
         OpenOK(rec, stored, accepted, loaded),
         rec.pc = "run" => /\ rec.proc \in Sessions
                           /\ RunOK(rec, notifier[rec.proc].queue, stored, accepted)
  PROVE  SafeInv'
<1>1. \A r \in Sessions : session'[r] = IF r = s THEN rec ELSE session[r]
  BY TypeParts
<1>2. LogInv' /\ QueueInv'
  BY DEF SafeInv, LogInv, QueueInv
<1>3. SureInv'
  BY <1>1 DEF SafeInv, SureInv
<1>4. OpenInv'
  BY <1>1 DEF SafeInv, OpenInv
<1>5. ASSUME NEW r \in Sessions, session'[r].pc = "run"
      PROVE  RunOK(session'[r], notifier'[session'[r].proc].queue, stored', accepted')
  <2>1. CASE r = s
    BY <1>1, <1>5, <2>1
  <2>2. CASE r # s
    <3>1. session'[r] = session[r] /\ Running(r)
      BY <1>1, <1>5, <2>2 DEF Running
    <3>2. session[r].proc \in Sessions
      BY <3>1, TypeParts DEF ShapeInv, Shape, Running
    <3>3. RunOK(session[r], notifier[session[r].proc].queue, stored, accepted)
      BY <3>1 DEF SafeInv, RunInv, Proc
    <3> QED BY <3>1, <3>2, <3>3
  <2> QED BY <2>1, <2>2
<1>6. RunInv'
  BY <1>5 DEF RunInv, Running, Proc
<1> QED BY <1>2, <1>3, <1>4, <1>6 DEF SafeInv

\* What SafeInv says of a session.
LEMMA SafeParts ==
  ASSUME TypeInv, SafeInv, NEW s \in Sessions
  PROVE  /\ SureOK(session[s], accepted) /\ OpenOK(session[s], stored, accepted, loaded)
         /\ AllSure(state, accepted) /\ LogOK(stored, accepted, loaded)
         /\ stored \in SUBSET File /\ accepted \in SUBSET File /\ loaded \in SUBSET accepted
         /\ session[s].pc = "run" => /\ session[s].proc \in Sessions
                                     /\ RunOK(session[s], notifier[session[s].proc].queue,
                                              stored, accepted)
<1>1. session[s].pc = "run" => session[s].proc \in Sessions
  BY FieldTypes DEF Shape
<1> QED BY <1>1, TypeParts DEF SafeInv, SureInv, OpenInv, LogInv, RunInv, Running, Proc, StoreType

LEMMA OpeningKeepsSafe ==
  ASSUME TypeInv, SafeInv, NEW s \in Sessions
  PROVE  /\ \A p \in Sessions : Open(s, p) => SafeInv'
         /\ ReadState(s) => SafeInv'
         /\ \A known \in BOOLEAN : ReadWatermark(s, known) => SafeInv'
         /\ List(s) => SafeInv'
<1> DEFINE x == session[s]
<1>0. x \in Session /\ x.seen \in Seen /\ SureOK(x, accepted) /\ AllSure(state, accepted)
      /\ OpenOK(x, stored, accepted, loaded)
  BY FieldTypes, SafeParts
<1>1. ASSUME NEW p \in Sessions, Open(s, p) PROVE SafeInv'
  <2> DEFINE rec == [x EXCEPT !.pc = "locked", !.proc = p]
  <2>1. session' = [session EXCEPT ![s] = rec]
        /\ (stored' = stored /\ accepted' = accepted /\ loaded' = loaded) /\ state' = state
    BY <1>0, <1>1, TypeParts DEF Open, storage, server
  <2>2. \A q \in Sessions : /\ notifier'[q].queue = notifier[q].queue
                            /\ notifier'[q].confirmed = notifier[q].confirmed
    BY <1>1, TypeParts DEF Open, NotifierOK, NotifierType
  <2>3. rec.pc = "locked" /\ rec.seen = x.seen /\ rec.persisted = x.persisted
        /\ rec.writing = x.writing
    BY <1>0 DEF Session
  <2> HIDE DEF rec
  <2>4. SureOK(rec, accepted) /\ OpenOK(rec, stored, accepted, loaded)
    BY <1>0, <2>3 DEF SureOK, OpenOK
  <2> QED BY <1>0, <2>1, <2>2, <2>3, <2>4, SessionChanges
<1>2. ASSUME NEW rec, session' = [session EXCEPT ![s] = rec],
             UNCHANGED <<notifier, holder, storage, server>>, rec.pc # "run",
             SureOK(rec, accepted), OpenOK(rec, stored, accepted, loaded)
      PROVE  SafeInv'
  <2>1. (stored' = stored /\ accepted' = accepted /\ loaded' = loaded) /\ state' = state
    BY <1>2 DEF storage, server
  <2> HIDE DEF x
  <2> QED BY <1>0, <1>2, <2>1, SessionChanges
<1>3. ASSUME ReadState(s) PROVE SafeInv'
  <2> DEFINE rec == [x EXCEPT !.pc = "state", !.seen.state = state]
  <2>1. session' = [session EXCEPT ![s] = rec] /\ UNCHANGED <<notifier, holder, storage, server>>
    BY <1>0, <1>3, TypeParts DEF ReadState
  <2>2. rec.pc = "state" /\ rec.seen.mark = x.seen.mark /\ rec.seen.state = state
        /\ rec.persisted = x.persisted /\ rec.writing = x.writing
    BY <1>0 DEF Session, Seen
  <2> HIDE DEF rec
  <2>3. SureOK(rec, accepted) /\ OpenOK(rec, stored, accepted, loaded)
    BY <1>0, <2>2 DEF SureOK, OpenOK
  <2> QED BY <1>2, <2>1, <2>2, <2>3
<1>4. ASSUME NEW known \in BOOLEAN, ReadWatermark(s, known) PROVE SafeInv'
  <2> DEFINE m == IF known THEN Watermark ELSE NoSerial
             rec == [x EXCEPT !.pc = "mark", !.seen.mark = m]
  <2>1. session' = [session EXCEPT ![s] = rec] /\ UNCHANGED <<notifier, holder, storage, server>>
    BY <1>0, <1>4, TypeParts DEF ReadWatermark
  <2>2. m # NoSerial => \E f \in loaded : m = Serial(f)
    BY WatermarkMax, TypeParts
  <2> HIDE DEF m
  <2>3. rec.pc = "mark" /\ rec.seen.mark = m /\ rec.seen.state = x.seen.state
        /\ rec.persisted = x.persisted /\ rec.writing = x.writing
    BY <1>0 DEF Session, Seen
  <2> HIDE DEF rec
  <2>4. SureOK(rec, accepted) /\ OpenOK(rec, stored, accepted, loaded)
    BY <1>0, <2>2, <2>3 DEF SureOK, OpenOK
  <2> QED BY <1>2, <2>1, <2>3, <2>4
<1>5. ASSUME List(s) PROVE SafeInv'
  <2> DEFINE rec == [x EXCEPT !.pc = "listed", !.seen.staged = stored]
  <2>1. session' = [session EXCEPT ![s] = rec] /\ UNCHANGED <<notifier, holder, storage, server>>
    BY <1>0, <1>5, TypeParts DEF List
  <2>2. rec.pc = "listed" /\ rec.seen.mark = x.seen.mark /\ rec.seen.state = x.seen.state
        /\ rec.seen.staged = stored /\ rec.persisted = x.persisted /\ rec.writing = x.writing
    BY <1>0 DEF Session, Seen
  <2> HIDE DEF rec
  <2>3. SureOK(rec, accepted) /\ OpenOK(rec, stored, accepted, loaded)
    BY <1>0, <2>2 DEF SureOK, OpenOK
  <2> QED BY <1>2, <2>1, <2>2, <2>3
<1> QED BY <1>1, <1>3, <1>4, <1>5

LEMMA WriteStateKeepsSafe ==
  ASSUME TypeInv, SafeInv, NEW s \in Sessions, NEW now \in Clock, WriteState(s, now)
  PROVE  SafeInv'
<1> DEFINE x == session[s]
           seen == x.seen
           e == next_epoch(now, Anchors(seen))
           resume == IF seen.state = <<>> THEN NoOffset ELSE seen.state[1].resume_offset
           rec == [x EXCEPT !.pc = "written", !.epoch = e, !.persisted = resume]
           written == [resume_offset |-> resume, max_epoch_used |-> e]
<1>0. x \in Session /\ seen \in Seen /\ Len(seen.state) <= 1 /\ seen.mark \in NoSerial..Top
      /\ seen.state \in Seq(StateFile) /\ SureOK(x, accepted)
      /\ OpenOK(x, stored, accepted, loaded) /\ LogOK(stored, accepted, loaded)
      /\ stored \in SUBSET File /\ accepted \in SUBSET File /\ loaded \in SUBSET accepted
  BY FieldTypes, SafeParts DEF Shape
<1>1. session' = [session EXCEPT ![s] = rec] /\ state' = <<written>> /\ x.pc = "listed"
      /\ UNCHANGED <<notifier, holder, stored, server>>
  BY <1>0, TypeParts DEF WriteState
<1>2. AllSure(seen.state, accepted) /\ Sure(resume, accepted)
  <2>1. AllSure(seen.state, accepted)
    BY <1>0 DEF SureOK
  <2>2. CASE seen.state = <<>>
    BY <2>1, <2>2, NothingSure
  <2>3. CASE seen.state # <<>>
    <3>1. 1 \in 1..Len(seen.state)
      BY <1>0, <2>3, EmptySeq
    <3> QED BY <2>1, <2>3, <3>1 DEF AllSure
  <2> QED BY <2>1, <2>2, <2>3
<1>3. ASSUME NEW f \in stored \cup accepted PROVE f.epoch < e
  <2>1. now \in Nat
    BY ClockAssumption DEF ClockAssumption
  <2>2. stored \subseteq seen.staged
    BY <1>0, <1>1 DEF OpenOK
  <2> HIDE DEF seen
  <2>3. e \in Nat /\ \A g \in stored : g.epoch < e
    BY <1>0, <2>1, <2>2, NextEpochAbove
  <2>4. PICK g \in stored : Serial(f) <= Serial(g)
    BY <1>0 DEF LogOK
  <2> HIDE DEF e
  <2>5. f.epoch <= g.epoch /\ f.epoch \in Int /\ g.epoch \in Int
    BY <1>0, <2>4, SerialOrder, FileFields
  <2> QED BY <2>3, <2>5
<1>4. /\ rec.pc = "written" /\ rec.seen = seen /\ rec.epoch = e
      /\ rec.persisted = resume /\ rec.writing = x.writing
  BY <1>0 DEF Session
<1>5. AllSure(state', accepted)
  <2>1. state' = <<written>> /\ written.resume_offset = resume
    BY <1>1
  <2> HIDE DEF written, resume
  <2>2. \A i \in 1..Len(<<written>>) : <<written>>[i] = written
    OBVIOUS
  <2> QED BY <1>2, <2>1, <2>2 DEF AllSure
<1> HIDE DEF rec, written, e, resume
<1>6. SureOK(rec, accepted)
  BY <1>0, <1>2, <1>4 DEF SureOK
<1>7. OpenOK(rec, stored, accepted, loaded)
  BY <1>0, <1>1, <1>3, <1>4 DEF OpenOK
<1>8. (stored' = stored /\ accepted' = accepted /\ loaded' = loaded)
      /\ \A q \in Sessions : /\ notifier'[q].queue = notifier[q].queue
                             /\ notifier'[q].confirmed = notifier[q].confirmed
  BY <1>1 DEF server
<1> QED BY <1>1, <1>4, <1>5, <1>6, <1>7, <1>8, SessionChanges

LEMMA StartKeepsSafe ==
  ASSUME TypeInv, LeaseInv, SafeInv, TypeInv', NEW s \in Sessions, Start(s)
  PROVE  SafeInv'
<1> DEFINE x == session[s]
           seen == x.seen
           p == x.proc
           b == PlanBackfill(seen)
           rec == [x EXCEPT !.pc = "run", !.seen = NothingSeen, !.from = PlanResume(seen),
                            !.staged = PlanResume(seen) - 1]
<1>0. /\ x \in Session /\ Shape(x) /\ LeaseOK(x) /\ SureOK(x, accepted)
      /\ OpenOK(x, stored, accepted, loaded) /\ LogOK(stored, accepted, loaded)
      /\ stored \in SUBSET File /\ accepted \in SUBSET File /\ loaded \in SUBSET accepted
      /\ NotifierOK
  BY FieldTypes, SafeParts, TypeParts DEF LeaseInv
<1>1. session' = [session EXCEPT ![s] = rec] /\ x.pc = "written"
      /\ notifier' = Enqueued(p, b) /\ UNCHANGED <<holder, storage, server>>
  BY <1>0, TypeParts DEF Start
<1>2. p \in Sessions
  BY <1>0, <1>1 DEF Shape, Opening
<1>3. Idle(x) /\ x.nextSeq = 0 /\ x.put = <<>> /\ x.flight = <<>> /\ ~x.landed
  BY <1>0, <1>1 DEF LeaseOK, Opening, Idle
<1>4. /\ rec.pc = "run" /\ rec.proc = p /\ rec.seen = NothingSeen
      /\ rec.put = x.put /\ rec.flight = x.flight /\ rec.landed = x.landed
      /\ rec.epoch = x.epoch /\ rec.nextSeq = x.nextSeq
      /\ rec.from = PlanResume(seen) /\ rec.staged = PlanResume(seen) - 1
      /\ rec.persisted = x.persisted /\ rec.writing = x.writing
  BY <1>0 DEF Session
<1>5. session'[s] = rec /\ \A r \in Sessions : r # s => session'[r] = session[r]
  BY <1>1, TypeParts
<1>6. rec \in Session
  BY <1>5, FieldTypes, TypeParts, TypeInv DEF TypeInv, StreamTypeOK
<1> DEFINE c == notifier[p].queue \o b
<1>7. \A q \in Sessions : /\ notifier'[q].queue = IF q = p THEN c ELSE notifier[q].queue
                          /\ notifier'[q].confirmed = notifier[q].confirmed
  BY <1>0, <1>1, <1>2 DEF Enqueued, NotifierOK, NotifierType
<1>8. QueueOK(c, stored \cup accepted, accepted) /\ RunOK(rec, c, stored, accepted)
  <2>1. notifier[p].queue \in Seq(File)
        /\ QueueOK(notifier[p].queue, stored \cup accepted, accepted)
    BY <1>0, <1>2, NotifierTypes DEF SafeInv, QueueInv
  <2> DEFINE q == notifier[p].queue
  <2> HIDE DEF q, rec
  <2>2. c = q \o PlanBackfill(x.seen) /\ q \in Seq(File)
        /\ QueueOK(q, stored \cup accepted, accepted)
    BY <2>1 DEF q
  <2>3. /\ rec.put = <<>> /\ rec.flight = <<>> /\ ~rec.landed
        /\ rec.epoch = x.epoch /\ rec.nextSeq = 0
        /\ rec.from = PlanResume(x.seen) /\ rec.staged = PlanResume(x.seen) - 1
    BY <1>3, <1>4
  <2> DEFINE listed == x.seen.staged
  <2>4. /\ listed \cup accepted = stored \cup accepted
        /\ LogOK(listed, accepted, loaded) /\ OpenOK(x, listed, accepted, loaded)
    BY <1>0, <1>1, ListedLog
  <2>5. listed \in SUBSET File
    BY <1>0 DEF Session, Seen
  <2> HIDE DEF x, c, listed
  <2>6. x.seen.staged = listed
    BY DEF listed
  <2>7. /\ QueueOK(c, listed \cup accepted, accepted)
        /\ RunOK(rec, c, listed, accepted)
    BY <1>0, <1>1, <1>3, <1>6, <2>2, <2>3, <2>4, <2>5, <2>6, StartRuns
  <2> QED BY <2>3, <2>4, <2>7 DEF RunOK
<1> HIDE DEF rec, c
<1>9. (stored' = stored /\ accepted' = accepted /\ loaded' = loaded) /\ state' = state
  BY <1>1 DEF storage, server
<1>10. LogInv' /\ QueueInv'
  BY <1>7, <1>8, <1>9 DEF SafeInv, LogInv, QueueInv
<1>11. SureInv'
  <2>1. SureOK(rec, accepted)
    <3>1. NothingSeen.state = <<>> /\ 1..Len(NothingSeen.state) = {}
      BY DEF NothingSeen
    <3> QED BY <1>0, <1>4, <3>1 DEF SureOK, AllSure
  <2> QED BY <1>5, <1>7, <1>9, <2>1 DEF SafeInv, SureInv
<1>12. OpenInv'
  <2>1. OpenOK(rec, stored, accepted, loaded)
    BY <1>4 DEF OpenOK, NothingSeen
  <2> QED BY <1>5, <1>9, <2>1 DEF SafeInv, OpenInv
<1>13. RunInv'
  <2>1. \A r \in Sessions : session'[r].pc = "run" => r = s
    <3>1. IsLive(session[s])
      BY <1>1, PcCases
    <3>2. \A r \in Sessions : session[r].pc = "run" => r = s
      BY <3>1, OneLive, PcCases
    <3> QED BY <1>5, <3>2
  <2>2. RunOK(session'[s], notifier'[session'[s].proc].queue, stored', accepted')
    BY <1>2, <1>4, <1>5, <1>7, <1>8, <1>9
  <2> QED BY <2>1, <2>2 DEF RunInv, Running, Proc
<1> QED BY <1>10, <1>11, <1>12, <1>13 DEF SafeInv

\* A running session changes what it holds, not what it knows.
LEMMA RunChanges ==
  ASSUME TypeInv, SafeInv, TypeInv', NEW s \in Sessions, NEW rec,
         session' = [session EXCEPT ![s] = rec], UNCHANGED <<notifier, storage, server>>,
         rec.pc = session[s].pc /\ rec.proc = session[s].proc /\ rec.seen = session[s].seen,
         rec.persisted = session[s].persisted /\ rec.writing = session[s].writing,
         session[s].pc = "run",
         RunOK(rec, Proc(s).queue, stored, accepted)
  PROVE  SafeInv'
<1> DEFINE x == session[s]
<1>1. SureOK(x, accepted) /\ OpenOK(x, stored, accepted, loaded) /\ AllSure(state, accepted)
      /\ x.proc \in Sessions
  BY SafeParts
<1>2. SureOK(rec, accepted)
  BY <1>1 DEF SureOK
<1>3. OpenOK(rec, stored, accepted, loaded)
  BY <1>1 DEF OpenOK
<1>4. (stored' = stored /\ accepted' = accepted /\ loaded' = loaded) /\ state' = state
      /\ \A q \in Sessions : /\ notifier'[q].queue = notifier[q].queue
                             /\ notifier'[q].confirmed = notifier[q].confirmed
  BY DEF storage, server
<1>5. rec.proc \in Sessions /\ RunOK(rec, notifier[rec.proc].queue, stored, accepted)
  BY <1>1 DEF Proc
<1> HIDE DEF x
<1> QED BY <1>1, <1>2, <1>3, <1>4, <1>5, SessionChanges

LEMMA SealKeepsSafe ==
  ASSUME TypeInv, SafeInv, TypeInv', NEW s \in Sessions, NEW e \in Offset, Seal(s, e)
  PROVE  SafeInv'
<1> DEFINE x == session[s]
           slot == Rolled(x.epoch, x.nextSeq)
           f == [epoch |-> slot[1], seq |-> slot[2], start |-> x.from, end |-> e]
           rec == [x EXCEPT !.epoch = slot[1], !.nextSeq = slot[2] + 1, !.from = e + 1,
                            !.flight = Append(@, f)]
<1>0. /\ x \in Session /\ x.epoch \in 0..MaxEpoch /\ x.nextSeq \in 0..MaxSeq + 1
      /\ x.from \in 0..MaxOffset + 1 /\ stored \in SUBSET File /\ accepted \in SUBSET File
  BY FieldTypes, SafeParts
<1>1. session' = [session EXCEPT ![s] = rec] /\ x.pc = "run" /\ x.from <= e
      /\ UNCHANGED <<notifier, storage, server>> /\ slot[1] <= MaxEpoch /\ slot[2] <= MaxSeq
  BY <1>0, TypeParts DEF Seal, Running, Encodable
<1>2. RunOK(x, Proc(s).queue, stored, accepted)
  BY <1>1, SafeParts DEF Proc
<1>3. Encode(slot[1], slot[2]) = Limit(x)
  BY <1>0, RolledLimit, ConstantFacts DEF Limit
<1>4. slot[1] \in 0..MaxEpoch /\ slot[2] \in 0..MaxSeq /\ x.from \in Offset
  <2>1. slot[1] \in Nat /\ slot[2] \in Nat
    BY <1>0, ConstantFacts DEF Rolled
  <2>2. x.from \in 0..MaxOffset
    BY <1>0, <1>1, ConstantFacts DEF Offset
  <2> HIDE DEF slot, x
  <2> QED BY <1>1, <2>1, <2>2, ConstantFacts DEF Offset
<1>5. /\ rec.pc = x.pc /\ rec.proc = x.proc /\ rec.seen = x.seen
      /\ rec.persisted = x.persisted /\ rec.writing = x.writing
      /\ rec.put = x.put /\ rec.flight = Append(x.flight, f) /\ rec.landed = x.landed
      /\ rec.staged = x.staged /\ rec.from = e + 1
      /\ rec.epoch = slot[1] /\ rec.nextSeq = slot[2] + 1
  BY <1>0 DEF Session
<1>6. rec \in Session
  <2>1. session'[s] \in Session /\ session'[s] = rec
    BY <1>1, TypeParts DEF TypeInv, StreamTypeOK
  <2> QED BY <2>1
<1> DEFINE d == slot[1]
           n == slot[2]
<1>7. f = [epoch |-> d, seq |-> n, start |-> x.from, end |-> e]
  OBVIOUS
<1>8. f \in File
  BY <1>4, <1>7 DEF File
<1>9. d \in 0..MaxEpoch /\ n \in 0..MaxSeq /\ Encode(d, n) = Limit(x)
      /\ rec.epoch = d /\ rec.nextSeq = n + 1
  BY <1>3, <1>4, <1>5
<1> DEFINE q == Proc(s).queue
<1> HIDE DEF d, n, f, rec, slot, q
<1>10. RunOK(x, q, stored, accepted)
  BY <1>2 DEF q
<1>11. RunOK(rec, q, stored, accepted)
  <2> HIDE DEF x
  <2> QED BY <1>0, <1>1, <1>4, <1>5, <1>6, <1>7, <1>8, <1>9, <1>10, SealKeepsRun
<1> QED BY <1>1, <1>5, <1>11, RunChanges DEF q

LEMMA StartPutKeepsSafe ==
  ASSUME TypeInv, LeaseInv, SafeInv, TypeInv', NEW s \in Sessions, StartPut(s)
  PROVE  SafeInv'
<1> DEFINE x == session[s]
           rec == [x EXCEPT !.put = <<Head(x.flight)>>, !.flight = Tail(@)]
<1>0. x \in Session /\ Shape(x)
  BY FieldTypes
<1>1. session' = [session EXCEPT ![s] = rec] /\ x.pc = "run" /\ x.put = <<>> /\ x.flight # <<>>
      /\ UNCHANGED <<notifier, storage, server>>
  BY <1>0, TypeParts DEF StartPut, Running
<1>2. RunOK(x, Proc(s).queue, stored, accepted)
  BY <1>1, SafeParts DEF Proc
<1>3. ~x.landed
  BY <1>0, <1>1 DEF Shape
<1>4. /\ rec.pc = x.pc /\ rec.proc = x.proc /\ rec.seen = x.seen
      /\ rec.persisted = x.persisted /\ rec.writing = x.writing
      /\ rec.put = <<Head(x.flight)>> /\ rec.flight = Tail(x.flight) /\ rec.landed = x.landed
      /\ rec.staged = x.staged /\ rec.from = x.from
      /\ rec.epoch = x.epoch /\ rec.nextSeq = x.nextSeq
  BY <1>0 DEF Session
<1>5. rec \in Session
  BY <1>1, TypeParts DEF TypeInv, StreamTypeOK
<1> DEFINE q == Proc(s).queue
<1> HIDE DEF rec, q
<1>6. RunOK(rec, q, stored, accepted)
  <2>1. RunOK(x, q, stored, accepted)
    BY <1>2 DEF q
  <2> HIDE DEF x
  <2> QED BY <1>0, <1>1, <1>3, <1>4, <1>5, <2>1, StartPutKeepsRun
<1> QED BY <1>1, <1>4, <1>6, RunChanges DEF q

\* Nobody but the live session runs or recovers.
LEMMA OthersRest ==
  ASSUME LeaseInv, NEW s \in Sessions, IsLive(session[s])
  PROVE  \A r \in Sessions : r # s => session[r].pc \in {"none", "gone"}
<1>1. s \in Int /\ \A r \in Sessions : r \in Int
  BY DEF Sessions
<1> QED BY <1>1, OneLive

LEMMA LandKeepsSafe ==
  ASSUME TypeInv, LeaseInv, SafeInv, TypeInv', NEW s \in Sessions, Land(s)
  PROVE  SafeInv' /\ \E f \in Known' : \A g \in Known : g.end < f.end
<1> DEFINE x == session[s]
           f == x.put[1]
           rec == [x EXCEPT !.landed = TRUE]
           q == Proc(s).queue
<1>0. /\ x \in Session /\ Shape(x) /\ LeaseOK(x) /\ SureOK(x, accepted)
      /\ OpenOK(x, stored, accepted, loaded) /\ LogOK(stored, accepted, loaded)
      /\ stored \in SUBSET File /\ accepted \in SUBSET File /\ loaded \in SUBSET accepted
  BY FieldTypes, SafeParts DEF LeaseInv
<1>1. session' = [session EXCEPT ![s] = rec] /\ stored' = stored \cup {f} /\ x.put # <<>>
      /\ ~x.landed /\ UNCHANGED <<notifier, holder, state, server>>
  BY <1>0, TypeParts DEF Land
<1>2. x.pc = "run" /\ Len(x.put) = 1
  BY <1>0, <1>1, OnePut DEF LeaseOK, Idle
<1>3. RunOK(x, q, stored, accepted) /\ x.proc \in Sessions
  BY <1>2, SafeParts DEF Proc
<1>4. /\ rec.pc = x.pc /\ rec.proc = x.proc /\ rec.seen = x.seen
      /\ rec.persisted = x.persisted /\ rec.writing = x.writing
      /\ rec.put = x.put /\ rec.flight = x.flight /\ rec.landed
      /\ rec.staged = x.staged /\ rec.from = x.from
      /\ rec.epoch = x.epoch /\ rec.nextSeq = x.nextSeq
  BY <1>0 DEF Session
<1>5. session'[s] = rec /\ \A r \in Sessions : r # s => session'[r] = session[r]
  BY <1>1, TypeParts
<1>6. rec \in Session
  BY <1>5, TypeParts DEF TypeInv, StreamTypeOK
<1> HIDE DEF rec, q
<1>7. /\ f \in File /\ f.start <= f.end
      /\ \A g \in stored \cup accepted : Serial(g) < Serial(f) /\ g.end < f.start
      /\ \A o \in 0..f.start - 1 : Covers(stored \cup accepted, o)
      /\ RunOK(rec, q, stored \cup {f}, accepted)
  <2> HIDE DEF x, f
  <2>1. /\ x.put[1] \in File /\ x.put[1].start <= x.put[1].end
        /\ \A g \in stored \cup accepted :
             Serial(g) < Serial(x.put[1]) /\ g.end < x.put[1].start
        /\ \A o \in 0..x.put[1].start - 1 : Covers(stored \cup accepted, o)
        /\ RunOK(rec, q, stored \cup {x.put[1]}, accepted)
    BY <1>0, <1>1, <1>2, <1>3, <1>4, <1>6, LandKeepsRun
  <2> QED BY <2>1 DEF f
<1>8. state' = state /\ accepted' = accepted /\ loaded' = loaded /\ notifier' = notifier
  BY <1>1 DEF server
<1> HIDE DEF f
<1>9. LogInv'
  BY <1>0, <1>1, <1>7, <1>8, LandKeepsLog DEF LogInv
<1>10. QueueInv'
  <2>1. ASSUME NEW p \in Sessions
        PROVE  QueueOK(notifier[p].queue, (stored \cup {f}) \cup accepted, accepted)
    <3>1. QueueOK(notifier[p].queue, stored \cup accepted, accepted)
      BY DEF SafeInv, QueueInv
    <3> QED BY <1>0, <1>7, <3>1, LandKeepsQueue
  <2> QED BY <1>1, <1>8, <2>1 DEF QueueInv
<1>11. SureInv'
  <2>1. SureOK(rec, accepted)
    BY <1>0, <1>4 DEF SureOK
  <2> QED BY <1>5, <1>8, <2>1 DEF SafeInv, SureInv
<1>12. \A r \in Sessions : r # s => session[r].pc \in {"none", "gone"}
  BY <1>2, OthersRest, PcCases
<1>13. OpenInv'
  <2>1. OpenOK(rec, stored', accepted, loaded)
    BY <1>0, <1>2, <1>4 DEF OpenOK
  <2>2. ASSUME NEW r \in Sessions, r # s PROVE OpenOK(session[r], stored', accepted, loaded)
    <3>1. OpenOK(session[r], stored, accepted, loaded)
      BY DEF SafeInv, OpenInv
    <3> QED BY <1>12, <2>2, <3>1 DEF OpenOK
  <2> QED BY <1>5, <1>8, <2>1, <2>2 DEF OpenInv
<1>14. RunInv'
  <2>1. \A r \in Sessions : session'[r].pc = "run" => r = s
    BY <1>5, <1>12
  <2>2. RunOK(session'[s], notifier'[session'[s].proc].queue, stored', accepted')
    BY <1>1, <1>4, <1>5, <1>7, <1>8 DEF q, Proc
  <2> QED BY <2>1, <2>2 DEF RunInv, Running, Proc
<1>15. f \in Known' /\ \A g \in Known : g.end < f.end
  <2>1. \A g \in Known : g.end \in Int /\ f.start \in Int /\ f.end \in Int
    BY <1>0, <1>7, FileFields DEF Known
  <2> QED BY <1>1, <1>7, <2>1 DEF Known
<1> QED BY <1>9, <1>10, <1>11, <1>13, <1>14, <1>15 DEF SafeInv

\* What is older than the landed file is accepted or queued.
LEMMA LandedFollows ==
  ASSUME NEW x \in Session, NEW q, NEW st \in SUBSET File, NEW acc \in SUBSET File,
         RunOK(x, q, st, acc), Len(x.put) = 1, x.landed,
         NEW g \in st \cup acc, Serial(g) < Serial(x.put[1])
  PROVE  g \in acc \/ \E i \in 1..Len(q) : q[i] = g
<1>1. Serial(g) \in Int /\ x.put[1] \in st
  BY FileFields DEF RunOK
<1>2. ~IsPut(x, g)
  BY <1>1 DEF IsPut
<1> QED BY <1>2 DEF RunOK, Recorded

LEMMA RecordKeepsSafe ==
  ASSUME TypeInv, LeaseInv, SafeInv, TypeInv', NEW s \in Sessions, Record(s)
  PROVE  SafeInv'
<1> DEFINE x == session[s]
           f == x.put[1]
           p == x.proc
           q == notifier[p].queue
           c == q \o <<f>>
           rec == [x EXCEPT !.put = <<>>, !.landed = FALSE, !.staged = Max({@, f.end})]
<1>0. /\ x \in Session /\ Shape(x) /\ SureOK(x, accepted)
      /\ OpenOK(x, stored, accepted, loaded) /\ LogOK(stored, accepted, loaded)
      /\ stored \in SUBSET File /\ accepted \in SUBSET File /\ loaded \in SUBSET accepted
      /\ NotifierOK
  BY FieldTypes, SafeParts, TypeParts
<1>1. session' = [session EXCEPT ![s] = rec] /\ x.pc = "run" /\ x.put # <<>> /\ x.landed
      /\ notifier' = Enqueued(p, <<f>>) /\ UNCHANGED <<holder, storage, server>>
  BY <1>0, TypeParts DEF Record, Running
<1>2. RunOK(x, q, stored, accepted) /\ p \in Sessions /\ Len(x.put) = 1
  BY <1>0, <1>1, OnePut, SafeParts
<1>3. /\ f \in stored /\ f \in File /\ x.staged < f.end
      /\ \A g \in stored \cup accepted :
           Serial(g) < Serial(f) => g \in accepted \/ \E i \in 1..Len(q) : q[i] = g
  <2> HIDE DEF x, f, q, rec
  <2>1. /\ x.put[1] \in stored /\ x.put[1] \in File /\ x.staged < x.put[1].end
        /\ \A g \in stored \cup accepted :
             Serial(g) < Serial(x.put[1]) => g \in accepted \/ \E i \in 1..Len(q) : q[i] = g
    <3>1. x \in Session /\ stored \in SUBSET File /\ accepted \in SUBSET File /\ x.landed
      BY <1>0, <1>1
    <3>2. RunOK(x, q, stored, accepted) /\ Len(x.put) = 1
      BY <1>2
    <3> HIDE DEF x
    <3>3. x.put[1] \in stored /\ x.put[1] \in File /\ x.staged < x.put[1].end
      BY <3>1, <3>2, LandedFile
    <3>4. \A g \in stored \cup accepted :
            Serial(g) < Serial(x.put[1]) => g \in accepted \/ \E i \in 1..Len(q) : q[i] = g
      <4> TAKE g \in stored \cup accepted
      <4> HAVE Serial(g) < Serial(x.put[1])
      <4> QED BY <3>1, <3>2, LandedFollows
    <3> QED BY <3>3, <3>4
  <2> QED BY <2>1 DEF f
<1>4. Max({x.staged, f.end}) = f.end
  <2>1. x.staged \in Int /\ f.end \in Int
    BY <1>0, <1>3, FileFields, LimitType
  <2> HIDE DEF x, f
  <2>2. Max({x.staged, f.end}) \in {x.staged, f.end} /\ f.end <= Max({x.staged, f.end})
    BY <2>1, MaxOfTwo
  <2> QED BY <1>3, <2>1, <2>2
<1>5. /\ rec.pc = x.pc /\ rec.proc = p /\ rec.seen = x.seen
      /\ rec.persisted = x.persisted /\ rec.writing = x.writing
      /\ rec.put = <<>> /\ rec.flight = x.flight /\ ~rec.landed
      /\ rec.staged = f.end /\ rec.from = x.from
      /\ rec.epoch = x.epoch /\ rec.nextSeq = x.nextSeq
  BY <1>0, <1>4 DEF Session
<1>6. session'[s] = rec /\ \A r \in Sessions : r # s => session'[r] = session[r]
  BY <1>1, TypeParts
<1>7. rec \in Session
  BY <1>6, TypeParts DEF TypeInv, StreamTypeOK
<1>8. \A r \in Sessions : /\ notifier'[r].queue = IF r = p THEN c ELSE notifier[r].queue
                          /\ notifier'[r].confirmed = notifier[r].confirmed
  BY <1>0, <1>1, <1>2 DEF Enqueued, NotifierOK, NotifierType
<1>9. QueueOK(c, stored \cup accepted, accepted) /\ Keeps(c, q) /\ Keeps(c, <<f>>)
  <2>1. q \in Seq(File) /\ QueueOK(q, stored \cup accepted, accepted)
    BY <1>0, <1>2, NotifierTypes DEF SafeInv, QueueInv
  <2> DEFINE b == <<f>>
             known == stored \cup accepted
  <2> HIDE DEF f, q
  <2>2. b \in Seq(File) /\ Len(b) = 1 /\ b[1] = f
    BY <1>3
  <2> HIDE DEF b
  <2>3. FollowsQueue(b, q, known, accepted)
    BY <1>3, <2>2 DEF FollowsQueue
  <2>4. known \in SUBSET File /\ QueueOK(q, known, accepted)
    BY <1>0, <2>1
  <2> HIDE DEF known
  <2>5. QueueOK(q \o b, known, accepted) /\ Keeps(q \o b, q) /\ Keeps(q \o b, b)
    BY <2>1, <2>2, <2>3, <2>4, QueueGrows
  <2> QED BY <2>5 DEF b, known
<1> HIDE DEF rec, c
<1>10. RunOK(rec, c, stored, accepted)
  <2>1. f = x.put[1]
    OBVIOUS
  <2> HIDE DEF x, f, q
  <2> QED BY <1>0, <1>1, <1>2, <1>5, <1>7, <1>9, <2>1, RecordKeepsRun
<1>11. (stored' = stored /\ accepted' = accepted /\ loaded' = loaded) /\ state' = state
  BY <1>1 DEF storage, server
<1>12. LogInv' /\ QueueInv'
  BY <1>8, <1>9, <1>11 DEF SafeInv, LogInv, QueueInv
<1>13. SureInv'
  <2>1. SureOK(rec, accepted)
    BY <1>0, <1>5 DEF SureOK
  <2> QED BY <1>6, <1>8, <1>11, <2>1 DEF SafeInv, SureInv
<1>14. OpenInv'
  <2>1. OpenOK(rec, stored, accepted, loaded)
    BY <1>0, <1>1, <1>5 DEF OpenOK
  <2> QED BY <1>6, <1>11, <2>1 DEF SafeInv, OpenInv
<1>15. RunInv'
  <2>1. \A r \in Sessions : r # s => session[r].pc \in {"none", "gone"}
    BY <1>1, OthersRest, PcCases
  <2>2. \A r \in Sessions : session'[r].pc = "run" => r = s
    BY <1>6, <2>1
  <2>3. RunOK(session'[s], notifier'[session'[s].proc].queue, stored', accepted')
    BY <1>2, <1>5, <1>6, <1>8, <1>10, <1>11
  <2> QED BY <2>2, <2>3 DEF RunInv, Running, Proc
<1> QED BY <1>12, <1>13, <1>14, <1>15 DEF SafeInv

-----------------------------------------------------------------------------
\* What is about to be recorded in state.json is accepted.
LEMMA StateOfSure ==
  ASSUME TypeInv, SafeInv, NEW s \in Sessions, session[s].pc = "run"
  PROVE  Sure(StateOf(s).resume_offset, accepted)
<1> DEFINE c == Proc(s).confirmed[2]
           d == session[s].persisted
<1>1. session[s].proc \in Sessions /\ Sure(c, accepted) /\ Sure(d, accepted)
  BY SafeParts DEF SureOK, SafeInv, SureInv, Proc
<1>2. c \in Int /\ d \in Int
  <2>1. c \in -1..MaxOffset
    BY <1>1, TypeParts, NotifierTypes, OffsetRange DEF Proc
  <2>2. d \in -1..MaxOffset
    BY FieldTypes, OffsetRange
  <2> QED BY <2>1, <2>2, ConstantFacts
<1>3. StateOf(s).resume_offset = Max({c, d})
  BY DEF StateOf
<1> HIDE DEF c, d
<1>4. Max({c, d}) \in {c, d}
  BY <1>2, MaxOfTwo
<1> QED BY <1>1, <1>3, <1>4

LEMMA OneRecord ==
  ASSUME NEW w, NEW acc, Sure(w.resume_offset, acc)
  PROVE  AllSure(<<w>>, acc)
BY DEF AllSure

LEMMA FirstRecord ==
  ASSUME NEW q \in Seq(StateFile), q # <<>>, NEW acc, AllSure(q, acc)
  PROVE  Sure(q[1].resume_offset, acc)
<1>1. 1 \in 1..Len(q)
  BY EmptySeq, LenProperties
<1> QED BY <1>1 DEF AllSure

LEMMA StateStepsKeepSafe ==
  ASSUME TypeInv, SafeInv, NEW s \in Sessions
  PROVE  /\ PersistState(s) => SafeInv'
         /\ StateWritten(s) => SafeInv'
         /\ StateWriteFails(s) => SafeInv'
<1> DEFINE x == session[s]
<1>0. /\ x \in Session /\ SureOK(x, accepted) /\ OpenOK(x, stored, accepted, loaded)
      /\ AllSure(state, accepted) /\ x.writing \in Seq(StateFile)
      /\ (x.pc = "run" => /\ x.proc \in Sessions
                          /\ RunOK(x, notifier[x.proc].queue, stored, accepted))
  BY FieldTypes, SafeParts
<1>1. ASSUME NEW w, NEW o, Sure(o, accepted), AllSure(w, accepted), AllSure(state', accepted),
             session' = [session EXCEPT ![s] = [x EXCEPT !.writing = w, !.persisted = o]],
             UNCHANGED <<notifier, holder, stored, server>>
      PROVE  SafeInv'
  <2> DEFINE rec == [x EXCEPT !.writing = w, !.persisted = o]
  <2>1. /\ rec.pc = x.pc /\ rec.proc = x.proc /\ rec.seen = x.seen
        /\ rec.persisted = o /\ rec.writing = w
        /\ rec.put = x.put /\ rec.flight = x.flight /\ rec.landed = x.landed
        /\ rec.staged = x.staged /\ rec.from = x.from
        /\ rec.epoch = x.epoch /\ rec.nextSeq = x.nextSeq
    BY <1>0 DEF Session
  <2>2. session' = [session EXCEPT ![s] = rec]
    BY <1>1
  <2> HIDE DEF rec
  <2>3. SureOK(rec, accepted)
    BY <1>0, <1>1, <2>1 DEF SureOK
  <2>4. OpenOK(rec, stored, accepted, loaded)
    <3>1. CASE x.pc = "written"
      <4>1. rec.epoch = x.epoch
        BY <2>1
      <4> QED BY <1>0, <2>1, <4>1 DEF OpenOK
    <3>2. CASE x.pc # "written"
      BY <1>0, <2>1, <3>2 DEF OpenOK
    <3> QED BY <3>1, <3>2
  <2>5. rec.pc = "run" => /\ rec.proc \in Sessions
                          /\ RunOK(rec, notifier[rec.proc].queue, stored, accepted)
    <3> SUFFICES ASSUME rec.pc = "run"
                 PROVE  /\ rec.proc \in Sessions
                        /\ RunOK(rec, notifier[rec.proc].queue, stored, accepted)
      OBVIOUS
    <3> DEFINE q == notifier[x.proc].queue
    <3>1. RunOK(x, q, stored, accepted)
      BY <1>0, <2>1
    <3> HIDE DEF q, x
    <3>2. RunOK(rec, q, stored, accepted)
      BY <2>1, <3>1, RunUnchanged
    <3> QED BY <1>0, <2>1, <3>2 DEF q
  <2>6. (stored' = stored /\ accepted' = accepted /\ loaded' = loaded)
        /\ \A q \in Sessions : /\ notifier'[q].queue = notifier[q].queue
                               /\ notifier'[q].confirmed = notifier[q].confirmed
    BY <1>1 DEF server
  <2> HIDE DEF x
  <2> QED BY <1>1, <2>2, <2>3, <2>4, <2>5, <2>6, SessionChanges
<1>2. Sure(x.persisted, accepted) /\ AllSure(x.writing, accepted)
  BY <1>0 DEF SureOK
<1>3. ASSUME PersistState(s) PROVE SafeInv'
  <2> DEFINE w == <<StateOf(s)>>
  <2>1. AllSure(w, accepted)
    BY <1>3, StateOfSure, OneRecord DEF PersistState, Running
  <2>2. /\ session' = [session EXCEPT ![s] = [x EXCEPT !.writing = w, !.persisted = x.persisted]]
        /\ UNCHANGED <<notifier, holder, stored, server>> /\ state' = state
    <3>1. session' = [session EXCEPT ![s] = [x EXCEPT !.writing = w]]
          /\ UNCHANGED <<notifier, holder, storage, server>>
      BY <1>3, TypeParts DEF PersistState
    <3> HIDE DEF w
    <3>2. [x EXCEPT !.writing = w] = [x EXCEPT !.writing = w, !.persisted = x.persisted]
      BY <1>0 DEF Session
    <3> QED BY <3>1, <3>2 DEF storage
  <2> HIDE DEF w, x
  <2> QED BY <1>0, <1>1, <1>2, <2>1, <2>2
<1>4. ASSUME StateWritten(s) PROVE SafeInv'
  <2> DEFINE w == <<>>
             o == x.writing[1].resume_offset
  <2>1. /\ session' = [session EXCEPT ![s] = [x EXCEPT !.writing = w, !.persisted = o]]
        /\ UNCHANGED <<notifier, holder, stored, server>> /\ state' = x.writing
        /\ x.writing # <<>>
    BY <1>4, TypeParts DEF StateWritten
  <2>2. AllSure(w, accepted) /\ Sure(o, accepted)
    BY <1>0, <1>2, <2>1, FirstRecord DEF AllSure
  <2> HIDE DEF w, o, x
  <2> QED BY <1>1, <1>2, <2>1, <2>2
<1>5. ASSUME StateWriteFails(s) PROVE SafeInv'
  <2> DEFINE w == <<>>
  <2>1. AllSure(w, accepted)
    BY DEF AllSure
  <2>2. /\ session' = [session EXCEPT ![s] = [x EXCEPT !.writing = w, !.persisted = x.persisted]]
        /\ UNCHANGED <<notifier, holder, stored, server>> /\ state' = state
    <3>1. session' = [session EXCEPT ![s] = [x EXCEPT !.writing = w]]
          /\ UNCHANGED <<notifier, holder, storage, server>>
      BY <1>5, TypeParts DEF StateWriteFails
    <3> HIDE DEF w
    <3>2. [x EXCEPT !.writing = w] = [x EXCEPT !.writing = w, !.persisted = x.persisted]
      BY <1>0 DEF Session
    <3> QED BY <3>1, <3>2 DEF storage
  <2> HIDE DEF w, x
  <2> QED BY <1>0, <1>1, <1>2, <2>1, <2>2
<1> QED BY <1>3, <1>4, <1>5

\* What is left of a session knows nothing but a write that may be under way.
LEMMA SessionGoes ==
  ASSUME TypeInv, SafeInv, NEW s \in Sessions, NEW rec, session' = [session EXCEPT ![s] = rec],
         UNCHANGED <<notifier, stored, server>>, AllSure(state', accepted),
         rec.pc = "gone" /\ rec.seen = NothingSeen /\ rec.persisted = NoOffset,
         AllSure(rec.writing, accepted)
  PROVE  SafeInv'
<1>1. NothingSeen.mark = NoSerial /\ NothingSeen.state = <<>>
  BY DEF NothingSeen
<1>2. OpenOK(rec, stored, accepted, loaded)
  BY <1>1 DEF OpenOK
<1>3. SureOK(rec, accepted)
  BY <1>1, NothingSure DEF SureOK, AllSure
<1>4. (stored' = stored /\ accepted' = accepted /\ loaded' = loaded)
      /\ \A q \in Sessions : /\ notifier'[q].queue = notifier[q].queue
                             /\ notifier'[q].confirmed = notifier[q].confirmed
  BY DEF server
<1> QED BY <1>2, <1>3, <1>4, SessionChanges

LEMMA StopsKeepSafe ==
  ASSUME TypeInv, SafeInv, NEW s \in Sessions
  PROVE  /\ OpenFails(s) => SafeInv'
         /\ \A written, released \in BOOLEAN : Close(s, written, released) => SafeInv'
         /\ Drop(s) => SafeInv'
<1>0. AllSure(state, accepted) /\ SureOK(session[s], accepted)
  BY SafeParts
<1>1. AllSure(Gone.writing, accepted)
  BY GoneFields DEF AllSure
<1>2. OpenFails(s) => SafeInv'
  <2>1. OpenFails(s) => /\ session' = [session EXCEPT ![s] = Gone]
                        /\ UNCHANGED <<notifier, stored, server>> /\ state' = state
    BY DEF OpenFails, storage
  <2> QED BY <1>0, <1>1, <2>1, GoneFields, SessionGoes
<1>3. Drop(s) => SafeInv'
  <2>1. Drop(s) => /\ session' = [session EXCEPT ![s] = Gone]
                   /\ UNCHANGED <<notifier, stored, server>> /\ state' = state
    BY DEF Drop, storage
  <2> QED BY <1>0, <1>1, <2>1, GoneFields, SessionGoes
<1>4. ASSUME NEW written \in BOOLEAN, NEW released \in BOOLEAN, Close(s, written, released)
      PROVE  SafeInv'
  <2> DEFINE rec == [Gone EXCEPT !.proc = session[s].proc, !.writing = session[s].writing]
  <2>1. /\ session' = [session EXCEPT ![s] = rec] /\ UNCHANGED <<notifier, stored, server>>
        /\ session[s].pc = "run" /\ state' \in {state, <<StateOf(s)>>}
    BY <1>4 DEF Close, Running
  <2>2. /\ rec.pc = Gone.pc /\ rec.seen = Gone.seen /\ rec.persisted = Gone.persisted
        /\ rec.writing = session[s].writing
    BY DEF Gone, NewSession
  <2> HIDE DEF rec
  <2>3. AllSure(state', accepted)
    BY <1>0, <2>1, StateOfSure, OneRecord
  <2>4. AllSure(rec.writing, accepted)
    BY <1>0, <2>2 DEF SureOK
  <2> QED BY <2>1, <2>2, <2>3, <2>4, GoneFields, SessionGoes
<1> QED BY <1>2, <1>3, <1>4

LEMMA CrashKeepsSafe ==
  ASSUME TypeInv, SafeInv, NEW p \in Sessions, Crash(p)
  PROVE  SafeInv'
<1>1. /\ \A r \in Sessions : session'[r] = Gone
           \/ (session'[r] = session[r] /\ (session[r].pc = "none" \/ session[r].proc # p))
      /\ \A r \in Sessions : notifier'[r] = IF r = p THEN NewNotifier ELSE notifier[r]
      /\ (stored' = stored /\ accepted' = accepted /\ loaded' = loaded) /\ state' = state
  BY TypeParts DEF Crash, NotifierOK, storage, server
<1>2. LogInv'
  BY <1>1 DEF SafeInv, LogInv
<1>3. QueueInv'
  <2>1. NewNotifier.queue = <<>> /\ 1..Len(NewNotifier.queue) = {}
    BY DEF NewNotifier
  <2>2. QueueOK(NewNotifier.queue, stored \cup accepted, accepted)
    BY <2>1 DEF QueueOK
  <2> QED BY <1>1, <2>2 DEF SafeInv, QueueInv
<1>4. NothingSeen.mark = NoSerial /\ NothingSeen.state = <<>>
  BY DEF NothingSeen
<1>5. SureInv'
  <2>1. Sure(NewNotifier.confirmed[2], accepted)
    <3>1. NewNotifier.confirmed[2] = NoOffset
      BY DEF NewNotifier
    <3> QED BY <3>1, NothingSure
  <2>2. SureOK(Gone, accepted)
    BY <1>4, GoneFields, NothingSure DEF SureOK, AllSure
  <2> QED BY <1>1, <2>1, <2>2 DEF SafeInv, SureInv
<1>6. OpenInv'
  <2>1. OpenOK(Gone, stored, accepted, loaded)
    BY <1>4, GoneFields DEF OpenOK
  <2> QED BY <1>1, <2>1 DEF SafeInv, OpenInv
<1>7. ASSUME NEW r \in Sessions, session'[r].pc = "run"
      PROVE  RunOK(session'[r], notifier'[session'[r].proc].queue, stored', accepted')
  <2>1. session'[r] = session[r] /\ session[r].proc # p
    BY <1>1, <1>7, GoneFields
  <2>2. session[r].proc \in Sessions
        /\ RunOK(session[r], notifier[session[r].proc].queue, stored, accepted)
    BY <1>7, <2>1, SafeParts
  <2> QED BY <1>1, <2>1, <2>2
<1>8. RunInv'
  BY <1>7 DEF RunInv, Running, Proc
<1> QED BY <1>2, <1>3, <1>5, <1>6, <1>8 DEF SafeInv

\* The GC deletes a file the server has, and never the newest one.
LEMMA CollectKeepsSafe ==
  ASSUME TypeInv, LeaseInv, SafeInv, NEW s \in Sessions, Collect(s)
  PROVE  SafeInv' /\ Known' = Known
<1>0. /\ StoreType /\ LogOK(stored, accepted, loaded) /\ stored \in SUBSET File
      /\ accepted \in SUBSET File /\ loaded \in SUBSET accepted
  BY TypeParts, SafeParts
<1>1. PICK f \in Deletable : stored' = stored \ {f}
  BY DEF Collect
<1>2. /\ (session' = session /\ notifier' = notifier)
      /\ (state' = state /\ accepted' = accepted /\ loaded' = loaded)
  BY DEF Collect, server
<1>3. f \in stored /\ f \in File /\ Serial(f) <= Watermark
      /\ \E g \in stored : Serial(f) < Serial(g)
  BY <1>0 DEF Deletable
<1>4. PICK g \in stored : Serial(f) < Serial(g)
  BY <1>3
<1>5. f \in accepted
  <2>1. Serial(f) \in Int /\ Serial(f) >= 0
    BY <1>3, FileFields
  <2>2. loaded # {}
    BY <1>0, <1>3, <2>1, WatermarkMax DEF NoSerial
  <2>3. PICK h \in loaded : Watermark = Serial(h)
    BY <1>0, <2>2, WatermarkMax
  <2> QED BY <1>0, <1>3, <2>3, UpToAccepted
<1>6. (stored \ {f}) \cup accepted = stored \cup accepted
      /\ LogOK(stored \ {f}, accepted, loaded)
  BY <1>0, <1>4, <1>5, DeleteKeepsLog
<1>7. LogInv' /\ QueueInv' /\ SureInv'
  BY <1>1, <1>2, <1>6 DEF SafeInv, LogInv, QueueInv, SureInv
<1>8. OpenInv'
  <2> SUFFICES ASSUME NEW r \in Sessions
               PROVE  OpenOK(session[r], stored \ {f}, accepted, loaded)
    BY <1>1, <1>2 DEF OpenInv
  <2>1. OpenOK(session[r], stored, accepted, loaded)
    BY SafeParts
  <2> QED BY <1>5, <1>6, <2>1 DEF OpenOK
<1>9. RunInv'
  <2> SUFFICES ASSUME NEW r \in Sessions, session[r].pc = "run"
               PROVE  RunOK(session[r], notifier[session[r].proc].queue, stored \ {f}, accepted)
    BY <1>1, <1>2 DEF RunInv, Running, Proc
  <2> DEFINE x == session[r]
             q == notifier[session[r].proc].queue
  <2>1. RunOK(x, q, stored, accepted) /\ x \in Session /\ Shape(x)
    BY SafeParts, FieldTypes
  <2> HIDE DEF x, q
  <2>2. RunOK(x, q, stored \ {f}, accepted)
    BY <1>0, <1>4, <1>5, <2>1, DeleteKeepsRun
  <2> QED BY <2>2 DEF x, q
<1>10. Known' = Known
  BY <1>1, <1>2, <1>6 DEF Known
<1> QED BY <1>7, <1>8, <1>9, <1>10 DEF SafeInv

\* The head of a queue is submitted: the oldest file the server does not have.
LEMMA SubmitKeepsSafe ==
  ASSUME TypeInv, SafeInv, NEW p \in Sessions, NEW answered \in BOOLEAN, Submit(p, answered)
  PROVE  SafeInv' /\ Known' = Known
<1> DEFINE q == notifier[p].queue
           f == Head(q)
           new == accepted \cup {f}
           known == stored \cup accepted
<1>0. /\ stored \in SUBSET File /\ accepted \in SUBSET File /\ loaded \in SUBSET accepted
      /\ LogOK(stored, accepted, loaded) /\ NotifierOK /\ LogInv
      /\ q \in Seq(File) /\ QueueOK(q, known, accepted)
  BY TypeParts, NotifierTypes DEF SafeInv, LogInv, QueueInv, StoreType
<1>1. /\ q # <<>> /\ accepted' = Gate(f) /\ UNCHANGED <<session, holder, storage, loaded>>
      /\ \/ notifier' = notifier
         \/ notifier' = [notifier EXCEPT ![p].queue = Tail(@), ![p].confirmed = Confirmed(@, f)]
  BY DEF Submit
<1>2. /\ f \in known /\ f = q[1]
      /\ \A g \in known : Serial(g) < Serial(f) => g \in accepted
      /\ QueueOK(q, known, new) /\ QueueOK(Tail(q), known, new)
      /\ KeepsBut(Tail(q), q, f)
  <2>1. f = Head(q)
    OBVIOUS
  <2> HIDE DEF q, f, known
  <2>2. /\ f \in known /\ f = q[1]
        /\ \A g \in known : Serial(g) < Serial(f) => g \in accepted
        /\ QueueOK(q, known, new) /\ QueueOK(Tail(q), known, new)
    BY <1>0, <1>1, <2>1, QueueAdvances
  <2>3. KeepsBut(Tail(q), q, f)
    BY <1>0, <1>1, <2>1, TailKeeps
  <2> QED BY <2>2, <2>3
<1>3. accepted' = new /\ stored \cup new = known
  BY <1>0, <1>1, <1>2, GateAccepts
<1>4. LogOK(stored, new, loaded) /\ Sure(f.end, new)
  BY <1>0, <1>2, AcceptKeepsLog, AcceptedUpTo
<1>5. /\ notifier'[p].queue \in {q, Tail(q)}
      /\ notifier'[p].confirmed \in {notifier[p].confirmed, <<Serial(f), f.end>>}
      /\ \A r \in Sessions : r # p => notifier'[r] = notifier[r]
  <2>1. notifier[p] \in NotifierType /\ notifier \in [Sessions -> NotifierType]
    BY <1>0, NotifierTypes DEF NotifierOK
  <2> QED BY <1>1, <2>1 DEF Confirmed, NotifierType
<1>6. session' = session /\ stored' = stored /\ state' = state /\ loaded' = loaded
  BY <1>1 DEF storage
<1> HIDE DEF q, f, new, known
<1>7. accepted \subseteq new
  BY DEF new
<1>8. LogInv'
  BY <1>3, <1>4, <1>6 DEF LogInv
<1>9. QueueInv'
  <2>1. ASSUME NEW r \in Sessions, r # p PROVE QueueOK(notifier[r].queue, known, new)
    <3>1. QueueOK(notifier[r].queue, known, accepted)
      BY DEF SafeInv, QueueInv, known
    <3> QED BY <1>7, <3>1, QueueMonotonic
  <2> QED BY <1>2, <1>3, <1>5, <1>6, <2>1 DEF QueueInv
<1>10. SureInv'
  <2>1. AllSure(state, new)
    BY <1>7, AllSureGrows DEF SafeInv, SureInv
  <2>2. ASSUME NEW r \in Sessions PROVE Sure(notifier'[r].confirmed[2], new)
    <3>1. Sure(notifier[r].confirmed[2], new)
      BY <1>7, SureGrows DEF SafeInv, SureInv
    <3>2. CASE notifier'[r].confirmed = notifier[r].confirmed
      BY <3>1, <3>2
    <3>3. CASE notifier'[r].confirmed = <<Serial(f), f.end>>
      BY <1>4, <3>3
    <3> QED BY <1>5, <3>2, <3>3
  <2>3. ASSUME NEW r \in Sessions PROVE SureOK(session[r], new)
    <3>1. SureOK(session[r], accepted)
      BY SafeParts
    <3> QED BY <1>7, <3>1, SureGrows, AllSureGrows DEF SureOK
  <2> QED BY <1>3, <1>6, <2>1, <2>2, <2>3 DEF SureInv
<1>11. OpenInv'
  <2> SUFFICES ASSUME NEW r \in Sessions PROVE OpenOK(session[r], stored, new, loaded)
    BY <1>3, <1>6 DEF OpenInv
  <2>1. OpenOK(session[r], stored, accepted, loaded)
    BY SafeParts
  <2> QED BY <1>3, <2>1 DEF OpenOK, known
<1>12. ASSUME NEW r \in Sessions, session[r].pc = "run"
       PROVE  RunOK(session[r], notifier'[session[r].proc].queue, stored, new)
  <2> DEFINE x == session[r]
             now == notifier[x.proc].queue
             next == notifier'[x.proc].queue
  <2>1. RunOK(x, now, stored, accepted) /\ x.proc \in Sessions
    BY <1>12, SafeParts
  <2>2. KeepsBut(next, now, f)
    <3>1. next = now \/ (next = Tail(q) /\ now = q)
      BY <1>5, <2>1 DEF q
    <3> HIDE DEF now, next
    <3> QED BY <1>2, <3>1 DEF KeepsBut
  <2> HIDE DEF x, now, next
  <2>3. RunOK(x, next, stored, accepted \cup {f})
    BY <1>2, <2>1, <2>2, AcceptKeepsRun DEF known
  <2> QED BY <2>3 DEF x, next, new
<1>13. RunInv'
  BY <1>3, <1>6, <1>12 DEF RunInv, Running, Proc
<1>14. Known' = Known
  BY <1>3, <1>6 DEF Known, known
<1> QED BY <1>8, <1>9, <1>10, <1>11, <1>13, <1>14 DEF SafeInv

LEMMA LoadKeepsSafe ==
  ASSUME TypeInv, SafeInv, Load
  PROVE  SafeInv'
<1>0. /\ stored \in SUBSET File /\ accepted \in SUBSET File /\ loaded \in SUBSET accepted
      /\ LogOK(stored, accepted, loaded)
  BY TypeParts DEF SafeInv, LogInv, StoreType
<1>1. PICK f \in accepted \ loaded : /\ \A g \in accepted \ loaded : Serial(f) <= Serial(g)
                                     /\ loaded' = loaded \cup {f}
  BY DEF Load
<1>2. (session' = session /\ notifier' = notifier)
      /\ (stored' = stored /\ state' = state /\ accepted' = accepted)
  BY DEF Load, storage
<1>3. LogInv'
  BY <1>0, <1>1, <1>2, LoadKeepsLog DEF LogInv
<1>4. OpenInv'
  BY <1>1, <1>2 DEF SafeInv, OpenInv, OpenOK
<1>5. QueueInv' /\ SureInv' /\ RunInv'
  BY <1>2 DEF SafeInv, QueueInv, SureInv, RunInv, Running, Proc
<1> QED BY <1>3, <1>4, <1>5 DEF SafeInv

-----------------------------------------------------------------------------
(***************************************************************************)
(* The inductive invariant.                                                *)
(***************************************************************************)
LEMMA StreamInit == Init => StreamInv
<1> SUFFICES ASSUME Init PROVE StreamInv
  OBVIOUS
<1>0. TypeInv
  BY TypeInit
<1>1. /\ session = [s \in Sessions |-> NewSession] /\ notifier = [p \in Sessions |-> NewNotifier]
      /\ stored = {} /\ state = <<>> /\ accepted = {} /\ loaded = {}
  BY DEF Init
<1>2. /\ NewSession.pc = "none" /\ NewSession.put = <<>> /\ NewSession.flight = <<>>
      /\ ~NewSession.landed /\ ~NewSession.fenced /\ NewSession.nextSeq = 0
      /\ NewSession.writing = <<>> /\ NewSession.persisted = NoOffset
      /\ NewSession.seen.mark = NoSerial /\ NewSession.seen.state = <<>>
  BY DEF NewSession, NothingSeen
<1>3. NewNotifier.queue = <<>> /\ NewNotifier.confirmed[2] = NoOffset
  BY DEF NewNotifier
<1>4. LeaseInv
  BY <1>1, <1>2, PcCases DEF LeaseInv, LeaseOK, Idle
<1>5. LogInv
  BY <1>1 DEF LogInv, LogOK
<1>6. QueueInv
  BY <1>1, <1>3 DEF QueueInv, QueueOK
<1>7. SureInv
  BY <1>1, <1>2, <1>3, NothingSure DEF SureInv, SureOK, AllSure
<1>8. OpenInv
  BY <1>1, <1>2 DEF OpenInv, OpenOK
<1>9. RunInv
  BY <1>1, <1>2 DEF RunInv, Running
<1> QED BY <1>0, <1>4, <1>5, <1>6, <1>7, <1>8, <1>9 DEF StreamInv

LEMMA SafeStep ==
  ASSUME NoPreemption, TypeInv, LeaseInv, SafeInv, TypeInv', Step
  PROVE  SafeInv'
BY OpeningKeepsSafe, WriteStateKeepsSafe, StartKeepsSafe, SealKeepsSafe, StartPutKeepsSafe,
   LandKeepsSafe, RecordKeepsSafe, RunningStepsKeepLease, StateStepsKeepSafe, StopsKeepSafe,
   CrashKeepsSafe, CollectKeepsSafe, SubmitKeepsSafe, LoadKeepsSafe, Zenon DEF Step

LEMMA StreamStep == NoPreemption /\ StreamInv /\ [Next]_vars => StreamInv'
<1> SUFFICES ASSUME NoPreemption, StreamInv, [Next]_vars PROVE StreamInv'
  OBVIOUS
<1>1. TypeInv /\ LeaseInv /\ SafeInv
  BY DEF StreamInv, SafeInv
<1>2. TypeInv'
  BY <1>1, TypeStep
<1>3. CASE Next
  <2>1. Step
    BY <1>3, NextIsStep
  <2> QED BY <1>1, <1>2, <2>1, LeaseStep, SafeStep DEF StreamInv, SafeInv
<1>4. CASE UNCHANGED vars
  <2>1. LeaseInv' /\ SafeInv'
    BY <1>1, <1>4 DEF vars, LeaseInv, SafeInv, LogInv, QueueInv, SureInv, OpenInv, RunInv,
                      Running, Proc
  <2> QED BY <1>2, <2>1 DEF StreamInv, SafeInv
<1> QED BY <1>3, <1>4

(***************************************************************************)
(* The invariant holds in every reachable state.  Without NoPreemption it  *)
(* does not: a holder that is alive goes on writing when its lease is      *)
(* taken, and TLC shows what is lost then (SessionsPreempted).             *)
(***************************************************************************)
LEMMA StreamInvariant ==
  ASSUME NoPreemption
  PROVE  Spec => []StreamInv
<1>1. StreamInv /\ [Next]_vars => StreamInv'
  BY StreamStep
<1> QED BY <1>1, StreamInit, PTL DEF Spec

-----------------------------------------------------------------------------
(***************************************************************************)
(* What follows from the invariant.                                        *)
(***************************************************************************)
LEMMA InvParts ==
  ASSUME StreamInv
  PROVE  /\ TypeInv /\ LeaseInv /\ SafeInv /\ StoreType
         /\ stored \in SUBSET File /\ accepted \in SUBSET File /\ loaded \in SUBSET accepted
         /\ LogOK(stored, accepted, loaded) /\ AllSure(state, accepted)
BY TypeParts DEF StreamInv, SafeInv, StoreType, LogInv, SureInv

\* A file is known or ahead of the running session.
LEMMA WhereFilesAre ==
  ASSUME StreamInv, NEW f \in AllFiles
  PROVE  \/ f \in Known
         \/ \E s \in Sessions : /\ session[s].pc = "run"
                                /\ \E i \in 1..Len(Ahead(session[s])) : f = Ahead(session[s])[i]
<1> SUFFICES ASSUME f \notin Known
             PROVE  \E s \in Sessions : /\ session[s].pc = "run"
                      /\ \E i \in 1..Len(Ahead(session[s])) : f = Ahead(session[s])[i]
  OBVIOUS
<1>1. PICK s \in Sessions : f \in ToSet(session[s].flight) \cup ToSet(session[s].put)
  BY DEF AllFiles, Known
<1> DEFINE x == session[s]
<1>2. x \in Session /\ LeaseOK(x)
  BY InvParts, FieldTypes DEF LeaseInv
<1>3. /\ x.put \in Seq(File) /\ x.flight \in Seq(File)
      /\ Len(Ahead(x)) = Len(x.put) + Len(x.flight)
      /\ Len(x.put) \in Nat /\ Len(x.flight) \in Nat
      /\ \A i \in 1..Len(Ahead(x)) :
           Ahead(x)[i] = IF i <= Len(x.put) THEN x.put[i] ELSE x.flight[i - Len(x.put)]
  BY <1>2, AheadType
<1>4. \E i \in 1..Len(Ahead(x)) : f = Ahead(x)[i]
  <2>1. ASSUME NEW i \in 1..Len(x.put), f = x.put[i] PROVE \E j \in 1..Len(Ahead(x)) : f = Ahead(x)[j]
    <3> DEFINE m == Len(x.put)
               n == Len(x.flight)
               k == Len(Ahead(x))
    <3>1. m \in Nat /\ n \in Nat /\ k = m + n /\ i \in 1..m
      BY <1>3
    <3> HIDE DEF m, n, k
    <3>2. i \in 1..k /\ i <= m
      BY <3>1
    <3> QED BY <1>3, <2>1, <3>2 DEF m, k
  <2>2. ASSUME NEW i \in 1..Len(x.flight), f = x.flight[i]
        PROVE  \E j \in 1..Len(Ahead(x)) : f = Ahead(x)[j]
    <3> DEFINE j == i + Len(x.put)
    <3> DEFINE m == Len(x.put)
               n == Len(x.flight)
               k == Len(Ahead(x))
    <3>1. m \in Nat /\ n \in Nat /\ k = m + n /\ i \in 1..n /\ j = i + m
      BY <1>3
    <3> HIDE DEF m, n, k, j
    <3>2. j \in 1..k /\ ~(j <= m) /\ j - m = i
      BY <3>1
    <3>3. Ahead(x)[j] = x.flight[i]
      BY <1>3, <3>2 DEF m, k
    <3> QED BY <2>2, <3>2, <3>3 DEF k
  <2>3. DOMAIN x.put = 1..Len(x.put) /\ DOMAIN x.flight = 1..Len(x.flight)
    BY <1>3, LenProperties
  <2> HIDE DEF x
  <2>4. \/ \E i \in 1..Len(x.put) : f = x.put[i]
        \/ \E i \in 1..Len(x.flight) : f = x.flight[i]
    BY <1>1, <2>3 DEF ToSet, x
  <2> QED BY <2>1, <2>2, <2>4
<1>5. x.pc = "run"
  <2>1. x.pc # "run" => Ahead(x) = <<>> /\ Len(Ahead(x)) = 0
    BY <1>2, NothingAhead DEF LeaseOK, Idle
  <2>2. Len(Ahead(x)) # 0
    BY <1>4
  <2> QED BY <2>1, <2>2
<1> QED BY <1>4, <1>5

\* A known file and one ahead with the same number are the file that has landed.
LEMMA AheadIsFresh ==
  ASSUME NEW x \in Session, Shape(x), NEW q, NEW st \in SUBSET File, NEW acc \in SUBSET File,
         RunOK(x, q, st, acc), NEW i \in 1..Len(Ahead(x)), NEW f \in st \cup acc,
         Serial(f) = Serial(Ahead(x)[i])
  PROVE  f = Ahead(x)[i]
<1> DEFINE a == Ahead(x)
<1>1. a \in Seq(File) /\ Chain(a, x.staged, x.from, Limit(x))
  BY AheadType DEF RunOK
<1>2. \A j \in 1..Len(a) : Serial(a[j]) \in Int
  BY <1>1, ChainFields
<1>3. CASE Recorded(f, a, x.staged, q, acc)
  <2>1. Serial(f) < Serial(a[i]) /\ Serial(f) = Serial(a[i]) /\ Serial(a[i]) \in Int
    BY <1>2, <1>3 DEF Recorded
  <2> QED BY <2>1
<1>4. CASE IsPut(x, f)
  <2>1. x.landed /\ f = x.put[1] /\ Len(x.put) = 1
    BY <1>4, OnePut DEF IsPut, Shape
  <2>2. a[1] = f /\ a # <<>>
    BY <2>1, LandedFile
  <2> HIDE DEF a
  <2>3. 1 \in 1..Len(a)
    BY <1>1, <2>2, EmptySeq
  <2>4. ~(1 < i)
    <3>1. 1 < i => Serial(a[1]) < Serial(a[i])
      BY <1>1, <2>3 DEF Chain, a
    <3>2. Serial(a[1]) = Serial(a[i]) /\ Serial(a[i]) \in Int
      BY <1>2, <2>2 DEF a
    <3> QED BY <3>1, <3>2
  <2>5. i = 1
    BY <2>4, <1>1, LenProperties DEF a
  <2> QED BY <2>2, <2>5 DEF a
<1> QED BY <1>3, <1>4 DEF RunOK

(***************************************************************************)
(* Two files never share a serial_seq, whatever the clock says, across     *)
(* sessions, epoch rolls and the GC (SerialsAreFresh).                     *)
(***************************************************************************)
LEMMA FreshFromInv == StreamInv => SerialsAreFresh
<1> SUFFICES ASSUME StreamInv, NEW f \in AllFiles, NEW g \in AllFiles, Serial(f) = Serial(g)
             PROVE  f = g
  BY DEF SerialsAreFresh
<1>1. LeaseInv /\ SafeInv /\ TypeInv /\ stored \in SUBSET File /\ accepted \in SUBSET File
      /\ LogOK(stored, accepted, loaded)
  BY InvParts
<1>2. ASSUME NEW h \in Known, NEW k, Serial(h) = Serial(k),
             NEW s \in Sessions, session[s].pc = "run",
             NEW i \in 1..Len(Ahead(session[s])), k = Ahead(session[s])[i]
      PROVE  h = k
  <2> DEFINE x == session[s]
             q == notifier[session[s].proc].queue
  <2>1. RunOK(x, q, stored, accepted) /\ x \in Session /\ Shape(x)
    BY <1>1, <1>2, SafeParts, FieldTypes
  <2>2. h \in stored \cup accepted /\ Serial(h) = Serial(Ahead(x)[i])
    BY <1>2 DEF Known
  <2> HIDE DEF q
  <2>3. h = Ahead(x)[i]
    BY <1>1, <2>1, <2>2, AheadIsFresh
  <2> QED BY <1>2, <2>3
<1>3. CASE f \in Known /\ g \in Known
  BY <1>1, <1>3 DEF Known, LogOK
<1>4. ASSUME NEW r \in Sessions, session[r].pc = "run", NEW s \in Sessions, session[s].pc = "run",
             NEW i \in 1..Len(Ahead(session[r])), f = Ahead(session[r])[i],
             NEW j \in 1..Len(Ahead(session[s])), g = Ahead(session[s])[j]
      PROVE  f = g
  <2>1. r = s
    BY <1>1, <1>4, OneLive, PcCases
  <2> DEFINE x == session[s]
             a == Ahead(x)
  <2>2. a \in Seq(File) /\ Chain(a, x.staged, x.from, Limit(x))
    BY <1>1, <1>4, AheadType, SafeParts, FieldTypes DEF RunOK
  <2>3. Serial(a[i]) \in Int /\ Serial(a[j]) \in Int /\ i \in Int /\ j \in Int
        /\ i \in 1..Len(a) /\ j \in 1..Len(a)
    BY <1>4, <2>1, <2>2, ChainFields
  <2>4. /\ i < j => Serial(a[i]) < Serial(a[j])
        /\ j < i => Serial(a[j]) < Serial(a[i])
    BY <2>2, <2>3 DEF Chain
  <2>5. Serial(a[i]) = Serial(a[j])
    BY <1>4, <2>1
  <2> HIDE DEF a
  <2>6. i = j
    BY <2>3, <2>4, <2>5
  <2> QED BY <1>4, <2>1, <2>6
<1> QED BY <1>2, <1>3, <1>4, WhereFilesAre

THEOREM StreamSerialsFresh ==
  ASSUME NoPreemption
  PROVE  Spec => []SerialsAreFresh
BY StreamInvariant, FreshFromInv, PTL

(***************************************************************************)
(* state.json never leads what the server accepted (ResumeIsAccepted):     *)
(* recovery may skip the rows up to its resume_offset.                     *)
(***************************************************************************)
LEMMA AcceptedFromInv == StreamInv => ResumeIsAccepted
<1> SUFFICES ASSUME StreamInv, NEW i \in DOMAIN state, NEW o \in 0..state[i].resume_offset
             PROVE  Covers(accepted, o)
  BY DEF ResumeIsAccepted
<1>1. i \in 1..Len(state) /\ AllSure(state, accepted)
  BY InvParts, LenProperties DEF StoreType
<1> QED BY <1>1 DEF AllSure, Sure

THEOREM StreamResumeAccepted ==
  ASSUME NoPreemption
  PROVE  Spec => []ResumeIsAccepted
BY StreamInvariant, AcceptedFromInv, PTL

(***************************************************************************)
(* No rows are skipped (OffsetsAreOwned): what the holder of the lease     *)
(* takes to be staged is in a job of the server, or in a staged file the   *)
(* gate has not closed on.                                                 *)
(***************************************************************************)
LEMMA OwnedFromInv == StreamInv => OffsetsAreOwned
<1> SUFFICES ASSUME StreamInv, NEW s \in Sessions, session[s].pc = "run",
                    NEW o \in 0..session[s].staged
             PROVE  Covers(accepted \cup {f \in stored : Serial(f) > Watermark}, o)
  BY DEF OffsetsAreOwned, Running
<1>0. TypeInv /\ SafeInv /\ StoreType /\ stored \in SUBSET File /\ accepted \in SUBSET File
      /\ loaded \in SUBSET accepted /\ LogOK(stored, accepted, loaded)
  BY InvParts
<1>1. PICK f \in stored \cup accepted : f.start <= o /\ o <= f.end
  BY <1>0, SafeParts DEF RunOK, Covers
<1>2. ASSUME Serial(f) <= Watermark PROVE f \in accepted
  <2>1. Serial(f) \in Int /\ Serial(f) >= 0
    BY <1>0, FileFields
  <2>2. loaded # {}
    BY <1>0, <1>2, <2>1, WatermarkMax DEF NoSerial
  <2>3. PICK g \in loaded : Watermark = Serial(g)
    BY <1>0, <2>2, WatermarkMax
  <2> QED BY <1>0, <1>2, <2>3, UpToAccepted
<1>3. Serial(f) \in Int /\ Watermark \in Int
  BY <1>0, FileFields, WatermarkMax, TopType DEF NoSerial
<1>4. f \in accepted \/ (f \in stored /\ Serial(f) > Watermark)
  BY <1>2, <1>3
<1> QED BY <1>1, <1>4 DEF Covers

THEOREM StreamOffsetsOwned ==
  ASSUME NoPreemption
  PROVE  Spec => []OffsetsAreOwned
BY StreamInvariant, OwnedFromInv, PTL

(***************************************************************************)
(* A session opened now would not resume behind what is staged             *)
(* (ResumeCoversStaged), whatever the GC has deleted.                      *)
(***************************************************************************)
LEMMA CoversFromInv == StreamInv => ResumeCoversStaged
<1> SUFFICES ASSUME StreamInv, NEW s \in Sessions, session[s].pc = "run"
             PROVE  PlanResume([state |-> state, mark |-> Watermark, staged |-> stored])
                      > session[s].staged
  BY DEF ResumeCoversStaged, Running
<1>0. TypeInv /\ SafeInv /\ StoreType /\ stored \in SUBSET File /\ accepted \in SUBSET File
      /\ loaded \in SUBSET accepted /\ LogOK(stored, accepted, loaded)
  BY InvParts
<1> DEFINE seen == [state |-> state, mark |-> Watermark, staged |-> stored]
           n == session[s].staged
           m == PlanResume(seen)
<1>1. seen \in Seen /\ Len(seen.state) <= 1 /\ seen.mark \in NoSerial..Top /\ seen.staged = stored
  <2>1. Watermark \in NoSerial..Top /\ Watermark \in Int
    BY <1>0, WatermarkMax, TopType DEF NoSerial
  <2> QED BY <1>0, <2>1 DEF Seen, StoreType
<1> HIDE DEF seen
<1>2. m \in 0..MaxOffset + 1 /\ \A f \in stored : f.end < m
  BY <1>1, PlanTypes
<1>3. n \in -1..MaxOffset /\ MaxOffset \in Nat
  BY <1>0, FieldTypes, OffsetRange, ConstantFacts
<1>4. ASSUME n >= 0 PROVE n < m
  <2>1. n \in 0..n
    BY <1>3, <1>4
  <2>2. PICK f \in stored \cup accepted : f.start <= n /\ n <= f.end
    <3>1. Covers(stored \cup accepted, n)
      BY <1>0, <2>1, SafeParts DEF RunOK
    <3> QED BY <3>1 DEF Covers
  <2>3. PICK g \in stored : Serial(f) <= Serial(g)
    BY <1>0 DEF LogOK
  <2>4. f.end <= g.end /\ f.end \in Int /\ g.end \in Int
    BY <1>0, <2>3, EndsGrow, FileFields
  <2>5. g.end < m
    BY <1>2
  <2> HIDE DEF n, m
  <2> QED BY <1>2, <1>3, <2>2, <2>4, <2>5
<1> HIDE DEF n, m
<1>5. m > n
  BY <1>2, <1>3, <1>4
<1> QED BY <1>5 DEF m, n, seen

THEOREM StreamResumeCovers ==
  ASSUME NoPreemption
  PROVE  Spec => []ResumeCoversStaged
BY StreamInvariant, CoversFromInv, PTL

-----------------------------------------------------------------------------
(***************************************************************************)
(* The sessions implement LoadedStream.                                    *)
(***************************************************************************)
\* Durable is where the log ends.
LEMMA DurableEndsLog ==
  ASSUME TypeInv, SafeInv
  PROVE  /\ Durable \in -1..MaxOffset
         /\ \A f \in Known : f.end <= Durable
         /\ Durable = -1 \/ \E f \in Known : f.end = Durable
<1>0. StoreType /\ stored \in SUBSET File /\ accepted \in SUBSET File /\ loaded \in SUBSET accepted
      /\ LogOK(stored, accepted, loaded) /\ AllSure(state, accepted)
  BY TypeParts DEF SafeInv, LogInv, SureInv, StoreType
<1> DEFINE S == {f.end : f \in stored} \cup {state[i].resume_offset : i \in DOMAIN state}
                  \cup {NoOffset}
           d == Durable
<1>1. DOMAIN state = 1..Len(state) /\ \A i \in 1..Len(state) : state[i] \in StateFile
  BY <1>0, LenProperties, ElementOfSeq DEF StoreType
<1>2. S \in SUBSET (-1..MaxOffset) /\ S # {} /\ MaxOffset \in Int
  <2>1. \A f \in stored : f.end \in -1..MaxOffset
    BY <1>0, FileFields, ConstantFacts
  <2>2. \A i \in DOMAIN state : state[i].resume_offset \in -1..MaxOffset
    BY <1>1, OffsetRange DEF StateFile
  <2>3. NoOffset \in -1..MaxOffset
    BY OffsetRange
  <2> QED BY <2>1, <2>2, <2>3, ConstantFacts
<1>3. d = Max(S)
  BY DEF Durable
<1> HIDE DEF S, d
<1>4. d \in S /\ \A n \in S : n <= d
  BY <1>2, <1>3, MaxUpTo
<1>5. d \in -1..MaxOffset /\ d \in Int
  BY <1>2, <1>4
<1>6. ASSUME NEW f \in Known PROVE f.end <= d
  <2>1. PICK g \in stored : Serial(f) <= Serial(g)
    BY <1>0 DEF LogOK, Known
  <2>2. f.end <= g.end /\ f.end \in Int /\ g.end \in Int
    BY <1>0, <2>1, EndsGrow, FileFields DEF Known
  <2>3. g.end <= d
    BY <1>4 DEF S
  <2> QED BY <1>5, <2>2, <2>3
<1>7. d = -1 \/ \E f \in Known : f.end = d
  <2>1. CASE \E f \in stored : d = f.end
    BY <2>1 DEF Known
  <2>2. ASSUME NEW i \in DOMAIN state, d = state[i].resume_offset, d # -1
        PROVE  \E f \in Known : f.end = d
    <3>1. d \in 0..d
      BY <1>5, <2>2
    <3>2. Covers(accepted, d)
      BY <1>0, <1>1, <2>2, <3>1 DEF AllSure, Sure
    <3>3. PICK f \in accepted : d <= f.end
      BY <3>2 DEF Covers
    <3>4. f \in Known /\ f.end <= d /\ f.end \in Int
      BY <1>0, <1>6, FileFields DEF Known
    <3> QED BY <1>5, <3>3, <3>4
  <2>3. CASE d = NoOffset
    BY <2>3 DEF NoOffset
  <2> QED BY <1>4, <2>1, <2>2, <2>3 DEF S
<1> QED BY <1>5, <1>6, <1>7 DEF d

LogEnds ==
  /\ Durable \in -1..MaxOffset
  /\ \A f \in Known : f.end <= Durable
  /\ Durable = -1 \/ \E f \in Known : f.end = Durable

LEMMA DurableBoth ==
  /\ StreamInv => LogEnds
  /\ StreamInv' => LogEnds'
<1>1. StreamInv => LogEnds
  BY InvParts, DurableEndsLog DEF LogEnds
<1> QED BY <1>1, PTL

\* It stays where it is as long as no file is added to the log.
LEMMA DurableStays ==
  ASSUME StreamInv, StreamInv', Known' = Known
  PROVE  Durable' = Durable
<1> DEFINE d == Durable
           e == Durable'
           K == Known
<1>1. /\ d \in -1..MaxOffset /\ \A f \in K : f.end <= d
      /\ d = -1 \/ \E f \in K : f.end = d
  BY InvParts, DurableEndsLog
<1>2. /\ e \in -1..MaxOffset /\ \A f \in K : f.end <= e
      /\ e = -1 \/ \E f \in K : f.end = e
  <2>1. LogEnds'
    BY DurableBoth
  <2> QED BY <2>1 DEF LogEnds
<1> HIDE DEF d, e, K
<1>3. d \in Int /\ e \in Int /\ d >= -1 /\ e >= -1
  BY <1>1, <1>2, ConstantFacts
<1>4. d <= e
  BY <1>1, <1>2, <1>3
<1>5. e <= d
  BY <1>1, <1>2, <1>3
<1> QED BY <1>3, <1>4, <1>5 DEF d, e

\* What a step does to the log: nothing, unless a file lands.
LEMMA LogSteps ==
  ASSUME NoPreemption, StreamInv, TypeInv', Step
  PROVE  \/ Known' = Known /\ loaded' = loaded
         \/ Known' = Known /\ Load
         \/ \E s \in Sessions : Land(s)
<1>0. TypeInv /\ LeaseInv /\ SafeInv
  BY InvParts
<1>1. UNCHANGED <<stored, server>> => Known' = Known /\ loaded' = loaded
  BY DEF Known, server
<1>2. ASSUME NEW s \in Sessions, Collect(s) PROVE Known' = Known /\ loaded' = loaded
  <2>1. loaded' = loaded
    BY <1>2 DEF Collect, server
  <2> QED BY <1>0, <1>2, <2>1, CollectKeepsSafe
<1>3. ASSUME NEW p \in Sessions, NEW answered \in BOOLEAN, Submit(p, answered)
      PROVE  Known' = Known /\ loaded' = loaded
  <2>1. loaded' = loaded
    BY <1>3 DEF Submit
  <2> QED BY <1>0, <1>3, <2>1, SubmitKeepsSafe
<1>4. Load => Known' = Known
  BY DEF Load, Known, storage
<1>5. ASSUME NEW s \in Sessions
      PROVE  /\ \A p \in Sessions : Open(s, p) => UNCHANGED <<stored, server>>
             /\ ReadState(s) => UNCHANGED <<stored, server>>
             /\ \A known \in BOOLEAN : ReadWatermark(s, known) => UNCHANGED <<stored, server>>
             /\ List(s) => UNCHANGED <<stored, server>>
             /\ \A now \in Clock : WriteState(s, now) => UNCHANGED <<stored, server>>
             /\ Start(s) => UNCHANGED <<stored, server>>
             /\ OpenFails(s) => UNCHANGED <<stored, server>>
             /\ \A e \in Offset : Seal(s, e) => UNCHANGED <<stored, server>>
             /\ StartPut(s) => UNCHANGED <<stored, server>>
             /\ Record(s) => UNCHANGED <<stored, server>>
             /\ Abandon(s) => UNCHANGED <<stored, server>>
             /\ Fence(s) => UNCHANGED <<stored, server>>
  BY DEF Open, ReadState, ReadWatermark, List, WriteState, Start, OpenFails, Seal, StartPut,
         Record, Abandon, Fence, storage
<1>6. ASSUME NEW s \in Sessions
      PROVE  /\ PersistState(s) => UNCHANGED <<stored, server>>
             /\ StateWritten(s) => UNCHANGED <<stored, server>>
             /\ StateWriteFails(s) => UNCHANGED <<stored, server>>
             /\ \A written, released \in BOOLEAN :
                  Close(s, written, released) => UNCHANGED <<stored, server>>
             /\ Drop(s) => UNCHANGED <<stored, server>>
             /\ Crash(s) => UNCHANGED <<stored, server>>
  BY DEF PersistState, StateWritten, StateWriteFails, Close, Drop, Crash, storage
<1> QED BY <1>1, <1>2, <1>3, <1>4, <1>5, <1>6, Zenon DEF Step

\* A file that lands stages rows behind the log.
LEMMA LandStages ==
  ASSUME StreamInv, StreamInv', NEW s \in Sessions, Land(s)
  PROVE  Stream!Stage
<1>0. TypeInv /\ LeaseInv /\ SafeInv /\ TypeInv' /\ SafeInv'
  BY DEF StreamInv, SafeInv
<1>1. PICK f \in Known' : \A g \in Known : g.end < f.end
  BY <1>0, LandKeepsSafe
<1>2. /\ Durable \in -1..MaxOffset
      /\ Durable = -1 \/ \E g \in Known : g.end = Durable
  BY <1>0, DurableEndsLog
<1>3. Durable' \in -1..MaxOffset /\ f.end <= Durable'
  <2>1. LogEnds'
    BY DurableBoth
  <2> QED BY <2>1 DEF LogEnds
<1>4. f.end \in 0..MaxOffset
  <2>1. f \in File
    BY <1>0 DEF TypeInv, StreamTypeOK, Known
  <2> QED BY <2>1, FileFields
<1> DEFINE d == Durable
           e == Durable'
<1>5. d < f.end
  BY <1>1, <1>2, <1>4
<1> HIDE DEF d, e
<1>6. d \in -1..MaxOffset /\ e \in -1..MaxOffset /\ f.end <= e /\ MaxOffset \in Nat
  BY <1>2, <1>3, ConstantFacts DEF d, e
<1>7. e \in 0..MaxOffset /\ e > d
  BY <1>4, <1>5, <1>6
<1>8. loaded' = loaded
  BY DEF Land, server
<1> QED BY <1>7, <1>8 DEF Stream!Stage, d, e

\* The server loads right behind what it has loaded.
LEMMA LoadContinues ==
  ASSUME StreamInv, Load, Durable' = Durable
  PROVE  Stream!Load
<1>0. /\ TypeInv /\ SafeInv /\ stored \in SUBSET File /\ accepted \in SUBSET File
      /\ loaded \in SUBSET accepted /\ LogOK(stored, accepted, loaded)
  BY InvParts
<1>1. PICK f \in accepted \ loaded : /\ \A g \in accepted \ loaded : Serial(f) <= Serial(g)
                                     /\ loaded' = loaded \cup {f}
  BY DEF Load
<1>2. f \in File /\ f.start <= f.end /\ f.end <= Durable
  BY <1>0, DurableEndsLog DEF LogOK, Known
<1>3. f.start \in 0..MaxOffset /\ f.end \in Int /\ Serial(f) \in Int
  BY <1>2, FileFields
<1>4. ASSUME NEW g \in stored \cup accepted, Serial(g) < Serial(f) PROVE g \in loaded
  BY <1>0, <1>1, <1>4, LoadKeepsLog
<1>5. ASSUME NEW g \in loaded PROVE g.end < f.start
  <2>1. Serial(g) \in Int /\ g.end \in Int
    BY <1>0, FileFields
  <2>2. ~(Serial(f) < Serial(g)) /\ Serial(f) # Serial(g)
    BY <1>0, <1>1 DEF LogOK
  <2>3. Serial(g) < Serial(f)
    BY <1>3, <2>1, <2>2
  <2> QED BY <1>0, <2>3 DEF LogOK
<1>6. ASSUME f.start # 0 PROVE \E g \in loaded : g.end = f.start - 1
  <2> DEFINE o == f.start - 1
  <2>1. o \in 0..f.end /\ o \in Int
    BY <1>2, <1>3, <1>6
  <2>2. PICK g \in stored \cup accepted : g.start <= o /\ o <= g.end
    BY <1>0, <2>1 DEF LogOK, Covers
  <2>3. Serial(g) \in Int /\ g.start \in Int /\ g.end \in Int
    BY <1>0, FileFields
  <2>4. Serial(g) # Serial(f)
    <3>1. Serial(g) = Serial(f) => g = f
      BY <1>0 DEF LogOK
    <3> QED BY <1>3, <2>2, <3>1
  <2>5. ~(Serial(f) < Serial(g))
    <3>1. Serial(f) < Serial(g) => f.end < g.start
      BY <1>0 DEF LogOK
    <3> QED BY <1>2, <1>3, <2>2, <2>3, <3>1
  <2>6. g \in loaded
    BY <1>3, <1>4, <2>3, <2>4, <2>5
  <2>7. g.end < f.start
    BY <1>5, <2>6
  <2> QED BY <1>3, <2>2, <2>3, <2>6, <2>7
<1>7. Stream!Frontier(f.start)
  BY <1>5, <1>6 DEF Stream!Frontier
<1> QED BY <1>1, <1>2, <1>7 DEF Stream!Load

\* The initial state: nothing is durable.
LEMMA DurableInit == Init => Stream!Init
<1> SUFFICES ASSUME Init PROVE Stream!Init
  OBVIOUS
<1>1. TypeInv /\ SafeInv /\ Known = {}
  BY StreamInit DEF StreamInv, SafeInv, Init, Known
<1>2. Durable = -1
  BY <1>1, DurableEndsLog
<1> QED BY <1>2 DEF Stream!Init, Init

(***************************************************************************)
(* GUIDE: "the files of one writer are loaded strictly in order and        *)
(* exactly once".  Every step of the sessions stages rows behind the log,  *)
(* loads the next file, or changes nothing of it (LoadedInOrder).          *)
(***************************************************************************)
THEOREM StreamLoadedInOrder ==
  ASSUME NoPreemption
  PROVE  Spec => LoadedInOrder
<1>1. ASSUME StreamInv, StreamInv', [Next]_vars PROVE [Stream!Next]_(Stream!vars)
  <2>1. CASE UNCHANGED vars
    <3>1. Known' = Known /\ loaded' = loaded
      BY <2>1 DEF vars, Known
    <3> QED BY <1>1, <3>1, DurableStays DEF Stream!vars
  <2>2. CASE Next
    <3>1. \/ Known' = Known /\ loaded' = loaded
          \/ Known' = Known /\ Load
          \/ \E s \in Sessions : Land(s)
      BY <1>1, <2>2, NextIsStep, LogSteps DEF StreamInv
    <3>2. CASE Known' = Known /\ loaded' = loaded
      BY <1>1, <3>2, DurableStays DEF Stream!vars
    <3>3. CASE Known' = Known /\ Load
      BY <1>1, <3>3, DurableStays, LoadContinues DEF Stream!Next
    <3>4. CASE \E s \in Sessions : Land(s)
      BY <1>1, <3>4, LandStages DEF Stream!Next
    <3> QED BY <3>1, <3>2, <3>3, <3>4
  <2> QED BY <1>1, <2>1, <2>2
<1> QED BY <1>1, DurableInit, StreamInvariant, PTL DEF Spec, LoadedInOrder, Stream!Spec

(***************************************************************************)
(* What the sessions inherit from LoadedStream: through every crash,       *)
(* reopen and lost answer, no row is loaded twice, none before it is       *)
(* durable, and none is skipped.                                           *)
(***************************************************************************)
THEOREM RowsLoadExactlyOnce ==
  ASSUME NoPreemption
  PROVE  Spec => []Stream!ExactlyOnce
<1>1. Stream!BatchesAreRuns
  BY StreamAssumption DEF Stream!BatchesAreRuns, StreamAssumption, File, Offset
<1>2. Stream!Spec => []Stream!ExactlyOnce
  BY <1>1, Stream!LoadsExactlyOnce
<1> QED BY <1>2, StreamLoadedInOrder, PTL DEF LoadedInOrder
=============================================================================
