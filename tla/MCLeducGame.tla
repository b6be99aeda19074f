----------------------------- MODULE MCLeducGame -----------------------------
(* The Leduc deck and stakes, as the engine fixes them, and six opponents:   *)
(* the default one and some near it, one that never raises and one that      *)
(* raises or folds.                                                          *)
EXTENDS LeducSearch

LeducBets == <<2, 4>>

SomePolicies ==
  [value : {5}, call : {4}, bluff : {0, 1}, aggression : {3, 4}]
    \cup {[value |-> 9, call |-> 0, bluff |-> 0, aggression |-> 0],
          [value |-> 0, call |-> 9, bluff |-> 4, aggression |-> 4]}
=============================================================================
