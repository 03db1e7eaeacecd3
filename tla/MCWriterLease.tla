--------------------------- MODULE MCWriterLease ---------------------------
(***************************************************************************)
(* Instances of WriterLease for TLC: the LeaseExclusion configuration.     *)
(***************************************************************************)
EXTENDS WriterLease, TLC

CONSTANTS a, b, h1, h2

\* The second machine's clock is a unit ahead.
OneAhead == (h1 :> 0) @@ (h2 :> 1)

Apart == (a :> h1) @@ (b :> h2)

Swapped == (a :> h2) @@ (b :> h1)

Together == (a :> h1) @@ (b :> h1)

Usual ==
  [faults |-> {"crash"}, failing |-> {}, paused |-> {}, opTime |-> 1, host |-> Together]

(***************************************************************************)
(* One machine, two machines, requests too slow for the settle delay, an   *)
(* operator who deletes the lock, one process whose storage fails, one     *)
(* that may be paused.  The set is closed under exchanging the writers.    *)
(***************************************************************************)
AllSettings ==
  {Usual, [Usual EXCEPT !.opTime = 2]} \cup
  {[Usual EXCEPT !.host = h] : h \in {Apart, Swapped}} \cup
  {[Usual EXCEPT !.host = h, !.faults = {"crash", "force"}] : h \in {Apart, Swapped}} \cup
  {[Usual EXCEPT !.faults = {}, !.failing = {w}] : w \in Writer} \cup
  {[Usual EXCEPT !.faults = {}, !.paused = {w}] : w \in Writer}

Exchange == Permutations(Writer)

=============================================================================
