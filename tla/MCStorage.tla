------------------------------ MODULE MCStorage ------------------------------
(* An instance of Storage for TLC: an old and two new programs on the index, *)
(* two savers and a publisher of two events on the files.                    *)
EXTENDS Storage

TwoEvents == <<"event1", "event2">>

TwoCodes == [p \in Openers |-> IF p = "old" THEN 1 ELSE 2]
=============================================================================
