--------------------------- MODULE CampaignRecord ---------------------------
(***************************************************************************)
(* What a reader of one campaign's history may rely on: vectors are paid   *)
(* for before they are tried and stay within the budget, one batch is open *)
(* at a time, the search is closed before its outcome is confirmed on      *)
(* fresh seeds, once, and nothing follows a classification.                *)
(***************************************************************************)
EXTENDS Integers

CONSTANTS MaxRounds, VectorBudget

VARIABLES
  stage,  \* searching, confirming or classified
  spent,  \* vectors paid for
  open,   \* arms of the open batch, or 0
  rounds, \* batches of the search decided
  confirmed

record == <<stage, spent, open, rounds, confirmed>>

RecordInit == stage = "searching" /\ spent = 0 /\ open = 0 /\ rounds = 0 /\ ~confirmed

\* A search keeps the two arms of its confirmation in reserve.
OpenBatch ==
  /\ open = 0 /\ open' \in 2..VectorBudget
  /\ \/ stage = "searching" /\ rounds < MaxRounds /\ spent + open' + 2 <= VectorBudget
     \/ stage = "confirming" /\ ~confirmed /\ open' = 2 /\ spent + 2 <= VectorBudget
  /\ spent' = spent + open'
  /\ UNCHANGED <<stage, rounds, confirmed>>

Decide ==
  /\ open > 0 /\ open' = 0
  /\ IF stage = "searching" THEN rounds' = rounds + 1 /\ UNCHANGED confirmed
                            ELSE confirmed' = TRUE /\ UNCHANGED rounds
  /\ UNCHANGED <<stage, spent>>

EndSearch ==
  /\ stage = "searching" /\ open = 0
  /\ stage' = "confirming"
  /\ UNCHANGED <<spent, open, rounds, confirmed>>

\* An outcome needs a closed search; a halt does not.
Classify ==
  /\ stage # "classified"
  /\ stage' = "classified"
  /\ UNCHANGED <<spent, open, rounds, confirmed>>

RecordNext ==
  OpenBatch \/ Decide \/ EndSearch \/ Classify

RecordSpec == RecordInit /\ [][RecordNext]_record
=============================================================================
