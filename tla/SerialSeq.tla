----------------------------- MODULE SerialSeq -----------------------------
(***************************************************************************)
(* The serial_seq a staged file is announced under (src/naming.rs): the    *)
(* session's epoch in the high bits, the file's number within the epoch in *)
(* the low bits.  The code has SEQ_BITS = 20 and 43 bits of epoch; here    *)
(* the two widths are the constants MaxSeq and MaxEpoch, so that a small   *)
(* instance meets the end of both ranges.                                  *)
(***************************************************************************)
EXTENDS Integers

CONSTANTS
  MaxSeq,      \* MAX_SEQ, the last file number of an epoch
  MaxEpoch     \* MAX_EPOCH_MS, the last epoch

ASSUME SeqAssumption == MaxSeq \in Nat

ASSUME EpochAssumption == MaxEpoch \in Nat

(***************************************************************************)
(* encode_serial_seq.  Shifting left by SEQ_BITS is multiplying by         *)
(* MAX_SEQ + 1, and the OR of two disjoint bit ranges is their sum.        *)
(***************************************************************************)
Encodable(epoch, seq) == epoch <= MaxEpoch /\ seq <= MaxSeq

Encode(epoch, seq) == epoch * (MaxSeq + 1) + seq

(***************************************************************************)
(* seal() rolls to a fresh epoch when the numbers of this one are spent.   *)
(* A slot is the <<epoch, seq>> the next file gets.                        *)
(***************************************************************************)
Rolled(epoch, seq) ==
  IF seq > MaxSeq THEN <<epoch + 1, 0>> ELSE <<epoch, seq>>

=============================================================================
