--------------------------- MODULE MCCampaignLoop ---------------------------
(* A pattern search in one parameter, and a screen that waits for it to find *)
(* no improvement.                                                           *)
EXTENDS CampaignLoop

FiveParameters == 1..5
Centre    == [p \in 1..5 |-> 2]
OneTuned  == {1}
AtLeast   == [p \in {1} |-> 2]
AtMost    == [p \in {1} |-> 6]
TwoUnits  == [p \in {1} |-> 2]
OneUnit   == [p \in {1} |-> 1]
Levels    == [p \in 1..5 |-> 1]
LossOrGain == {-1, 0, 1, 2}
SearchThenScreen  == <<"pattern", "screening">>
AfterNoImprovement == <<{}, {[id |-> 1, classification |-> "NO_IMPROVEMENT_DETECTED"]}>>
=============================================================================
