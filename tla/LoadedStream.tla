---------------------------- MODULE LoadedStream ----------------------------
(***************************************************************************)
(* What a stream promises (README.md and GUIDE.md of the repository): rows *)
(* become durable in offset order, and every durable row is loaded exactly *)
(* once, in order, none of them skipped.  StreamSessions implements it     *)
(* through crashes, reopens and lost answers.                              *)
(***************************************************************************)
EXTENDS Integers, TLAPS

CONSTANTS
  MaxOffset,
  Batch       \* the runs of rows that can be loaded as one job

BatchesAreRuns ==
  MaxOffset \in Nat /\ \A b \in Batch : b.start \in 0..MaxOffset /\ b.end \in 0..MaxOffset

VARIABLES
  durable,  \* the last offset that survives the process, -1 if there is none
  jobs      \* the batches that have been loaded

vars == <<durable, jobs>>

Init == durable = -1 /\ jobs = {}

\* Rows are staged: what was durable before stays so.
Stage ==
  /\ durable' \in 0..MaxOffset /\ durable' > durable
  /\ UNCHANGED jobs

\* The loaded rows end right before offset o.
Frontier(o) ==
  /\ \A b \in jobs : b.end < o
  /\ o = 0 \/ \E b \in jobs : b.end = o - 1

\* A batch of durable rows is loaded, from the first row that is not.
Load ==
  /\ UNCHANGED durable
  /\ \E b \in Batch :
       /\ jobs' = jobs \cup {b}
       /\ Frontier(b.start)
       /\ b.start <= b.end /\ b.end <= durable

Next == Stage \/ Load

Spec == Init /\ [][Next]_vars

-----------------------------------------------------------------------------
(***************************************************************************)
(* What it means: no row is loaded twice, none before it is durable, and   *)
(* none is skipped.                                                        *)
(***************************************************************************)
ExactlyOnce ==
  /\ \A b \in jobs : b.end <= durable
  /\ \A b, c \in jobs : b # c => b.end < c.start \/ c.end < b.start
  /\ \A b \in jobs, o \in 0..MaxOffset :
       o <= b.end => \E c \in jobs : c.start <= o /\ o <= c.end

-----------------------------------------------------------------------------
\* The strengthening: besides ExactlyOnce, the types the arithmetic needs.
StreamInv ==
  /\ durable \in Int
  /\ jobs \subseteq {b \in Batch : b.start <= b.end}
  /\ ExactlyOnce

LEMMA StreamInvInit == ASSUME BatchesAreRuns PROVE Init => StreamInv
  BY DEF Init, StreamInv, ExactlyOnce

\* Staging more rows only moves the bound of what may be loaded.
LEMMA StageKeepsInv == ASSUME BatchesAreRuns, StreamInv, Stage PROVE StreamInv'
  <1>1. durable' \in Int /\ durable' > durable /\ jobs' = jobs
    BY DEF Stage, BatchesAreRuns
  <1>2. \A b \in jobs : b.end \in Int
    BY DEF StreamInv, BatchesAreRuns
  <1>3. \A b \in jobs' : b.end <= durable'
    BY <1>1, <1>2 DEF StreamInv, ExactlyOnce
  <1> QED
    BY <1>1, <1>3 DEF StreamInv, ExactlyOnce

(***************************************************************************)
(* A job that starts at the frontier neither overlaps what is loaded nor   *)
(* leaves a gap below it.                                                  *)
(***************************************************************************)
LEMMA LoadKeepsInv == ASSUME BatchesAreRuns, StreamInv, Load PROVE StreamInv'
  <1>1. PICK b \in Batch :
          /\ Frontier(b.start) /\ b.start <= b.end /\ b.end <= durable
          /\ jobs' = jobs \cup {b} /\ durable' = durable
    BY DEF Load
  <1>2. \A c \in jobs \cup {b} : c \in Batch /\ c.start \in 0..MaxOffset /\ c.end \in 0..MaxOffset
                                   /\ c.start <= c.end
    BY <1>1 DEF StreamInv, BatchesAreRuns
  <1>3. \A c \in jobs : c.end < b.start
    BY <1>1 DEF Frontier
  <1>4. \A c \in jobs' : c.end <= durable'
    BY <1>1 DEF StreamInv, ExactlyOnce
  <1>5. \A c, d \in jobs' : c # d => c.end < d.start \/ d.end < c.start
    BY <1>1, <1>3 DEF StreamInv, ExactlyOnce
  <1>6. ASSUME NEW c \in jobs', NEW o \in 0..MaxOffset, o <= c.end
        PROVE  \E d \in jobs' : d.start <= o /\ o <= d.end
    <2>1. CASE c \in jobs
      BY <1>1, <1>6, <2>1 DEF StreamInv, ExactlyOnce
    <2>2. CASE c = b /\ b.start <= o
      BY <1>1, <1>6, <2>2
    <2>3. CASE c = b /\ o < b.start
      <3>1. PICK d \in jobs : d.end = b.start - 1
        BY <1>1, <1>2, <2>3 DEF Frontier
      <3>2. o <= d.end
        BY <1>2, <2>3, <3>1
      <3> QED
        BY <1>1, <3>1, <3>2 DEF StreamInv, ExactlyOnce
    <2> QED
      BY <1>1, <1>2, <2>1, <2>2, <2>3
  <1> QED
    BY <1>1, <1>2, <1>4, <1>5, <1>6 DEF StreamInv, ExactlyOnce

(***************************************************************************)
(* A stream that implements LoadedStream loads every row at most once,     *)
(* none before it is durable, and none after a later one.                  *)
(***************************************************************************)
THEOREM LoadsExactlyOnce == ASSUME BatchesAreRuns PROVE Spec => []ExactlyOnce
  <1>1. Init => StreamInv
    BY StreamInvInit
  <1>2. StreamInv /\ [Next]_vars => StreamInv'
    BY StageKeepsInv, LoadKeepsInv DEF Next, vars, StreamInv, ExactlyOnce
  <1>3. StreamInv => ExactlyOnce
    BY DEF StreamInv
  <1> QED
    BY <1>1, <1>2, <1>3, PTL DEF Spec

=============================================================================
