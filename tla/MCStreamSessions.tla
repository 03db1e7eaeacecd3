------------------------- MODULE MCStreamSessions -------------------------
(***************************************************************************)
(* Instances of StreamSessions for TLC: the Sessions* configurations.      *)
(***************************************************************************)
EXTENDS StreamSessions

=============================================================================
