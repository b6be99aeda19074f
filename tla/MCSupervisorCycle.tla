--------------------------- MODULE MCSupervisorCycle ------------------------
(* Instances of SupervisorCycle for TLC: the second experiment needs the    *)
(* first.                                                                   *)
EXTENDS SupervisorCycle, TLC

Chain == [i \in Items |-> {j \in Items : j = i - 1}]
AllOld == [i \in Items |-> "old"]

Symmetry == Permutations(Shards) \cup Permutations(Supervisors)
=============================================================================
