-------------------------- MODULE MCOpponentMemory ---------------------------
(* An instance of OpponentMemory for TLC: three hands, of which one tells     *)
(* nothing and two may wait, two opponents with a long history and one known *)
(* for a match only.                                                         *)
EXTENDS OpponentMemory

Told == [h \in {1, 2, 3} |->
           CASE h = 1 -> [t \in {"btn_open", "shove"} |-> TRUE]
             [] h = 2 -> <<>>
             [] h = 3 -> [t \in {"bb_3bet", "shove"} |-> FALSE]]
OnFile == [i \in {"a", "c"} |-> [t \in Tendencies |-> 
             IF t = "bb_3bet" THEN [s |-> 300, n |-> 400] ELSE [s |-> 1, n |-> 4]]]
=============================================================================
