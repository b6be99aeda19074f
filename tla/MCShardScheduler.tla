-------------------------- MODULE MCShardScheduler --------------------------
(* Instances of ShardScheduler for TLC. *)
EXTENDS ShardScheduler, TLC

\* Shards and slots are interchangeable in safety checks.
Symmetry == Permutations(Tasks) \cup Permutations(Slots)
=============================================================================
