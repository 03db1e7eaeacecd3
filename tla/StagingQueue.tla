---------------------------- MODULE StagingQueue ----------------------------
(***************************************************************************)
(* What a writer promises of the files it rotates (the head comment of     *)
(* src/table.rs: "files reach the put stage, and therefore the notify      *)
(* queue, in increasing seq"): rotation is one queue.  A file joins it at  *)
(* the back with a number above all earlier ones and an end offset above   *)
(* those of the files in front of it; the front file alone leaves it,      *)
(* once, and with that is announced to the notifier and raises             *)
(* staged_offset() to its own end.  Only a replay of what the recovery     *)
(* already found staged leaves staged_offset() where it is.  A writer that *)
(* stops leaves the rest where it is.  RotationPipeline implements it with *)
(* three stages, their channels, retries, and callers that give up.        *)
(***************************************************************************)
EXTENDS Integers, Sequences

CONSTANTS
  MaxOffset,
  Recovered   \* the staged_offset() the writer is born with, -1 for none

VARIABLES
  queue,      \* the files sealed and not yet announced: [serial, end] each
  last,       \* the serial_seq of the last file sealed, -1 before the first
  staged,     \* staged_offset()
  announced   \* the serial_seqs handed to the notifier, in order

vars == <<queue, last, staged, announced>>

Init == queue = <<>> /\ last = -1 /\ staged = Recovered /\ announced = <<>>

\* Rows are cut into a file that ends at e; it ends at or below staged only as
\* long as that is what the recovery found.
Seal(e) ==
  /\ last' \in Nat /\ last' > last
  /\ e > staged \/ staged = Recovered
  /\ \A i \in 1..Len(queue) : e > queue[i].end
  /\ queue' = Append(queue, [serial |-> last', end |-> e])
  /\ UNCHANGED <<staged, announced>>

\* The front file is durable and the notifier is told.
Announce ==
  /\ queue # <<>>
  /\ announced' = Append(announced, Head(queue).serial)
  /\ staged' = IF Head(queue).end > staged THEN Head(queue).end ELSE staged
  /\ queue' = Tail(queue)
  /\ UNCHANGED last

Next == (\E e \in 0..MaxOffset : Seal(e)) \/ Announce

Spec == Init /\ [][Next]_vars

-----------------------------------------------------------------------------
(***************************************************************************)
(* What it means for the notifier, whose submissions "must stay strictly   *)
(* ordered" (notify.rs): each number comes once, above all before it, and  *)
(* nothing that is still to come is below one it has seen.                 *)
(***************************************************************************)
StrictlyOrdered ==
  /\ \A i, j \in 1..Len(announced) : i < j => announced[i] < announced[j]
  /\ \A i \in 1..Len(announced), j \in 1..Len(queue) : announced[i] < queue[j].serial

\* The strengthening: the numbers ascend inside the queue too, and last tops them all.
NumberedInv ==
  /\ announced \in Seq(Nat) /\ last \in Nat \cup {-1}
  /\ queue \in Seq([serial : Nat, end : 0..MaxOffset])
  /\ StrictlyOrdered
  /\ \A i, j \in 1..Len(queue) : i < j => queue[i].serial < queue[j].serial
  /\ \A i \in 1..Len(queue) : queue[i].serial <= last
  /\ \A i \in 1..Len(announced) : announced[i] <= last

=============================================================================
