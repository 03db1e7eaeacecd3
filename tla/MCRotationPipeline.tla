------------------------ MODULE MCRotationPipeline ------------------------
(***************************************************************************)
(* Instances of RotationPipeline for TLC.                                  *)
(***************************************************************************)
EXTENDS RotationPipeline

\* One-offset batches, the shape of a partition read record by record.
OneOffsetBatches == {[start |-> o, end |-> o] : o \in 0..MaxOffset}

=============================================================================
