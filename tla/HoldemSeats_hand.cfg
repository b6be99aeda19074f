SPECIFICATION MeasureSpec
CONSTANTS
  SmallBlind = 1
  BigBlind = 2
  StartingStack = 42
  HandsPerMatch = 1
  Opponents = {"station", "random", "tag", "archetype", "probe", "soh"}
  Splits = {2, 6, 16, 42, 72}
  Aggression = 80
CHECK_DEADLOCK FALSE
INVARIANTS PolicyFitsDealer EvidenceAgrees ProbeMeasures
