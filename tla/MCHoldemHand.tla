---------------------------- MODULE MCHoldemHand ----------------------------
(* Instances of HoldemHand for TLC: chip counts are small but unequal after *)
(* one hand, so that blinds, short all-ins and uncalled chips all occur.    *)
EXTENDS HoldemHand
=============================================================================
