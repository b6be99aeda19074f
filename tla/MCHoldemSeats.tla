---------------------------- MODULE MCHoldemSeats ----------------------------
(* An instance of HoldemMeasure for TLC: one hand from splits of 84 chips    *)
(* that reach from a stack the blinds commit to a deep one, against every    *)
(* opponent.                                                                 *)
EXTENDS HoldemMeasure
=============================================================================
