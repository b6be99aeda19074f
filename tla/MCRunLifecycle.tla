--------------------------- MODULE MCRunLifecycle ---------------------------
(* Instances of RunLifecycle for TLC. *)
EXTENDS RunLifecycle, TLC

\* Run ids, shards and invocations are interchangeable in safety checks.
Symmetry == Permutations(Runs) \cup Permutations(Shards) \cup Permutations(Cycles)
=============================================================================
