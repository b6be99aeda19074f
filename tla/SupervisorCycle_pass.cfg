SPECIFICATION FairSpec
CONSTANTS
  N = 2
  DependsOn <- Chain
  Recorded <- AllOld
  Revisions = {"old", "new"}
  Shards = {s1, s2}
  Workers = 1
  Supervisors = {p, q}
  MaxBreaks = 1
  MaxTrouble = 1
  None = None
INVARIANTS NoEarlyAnalysis DependenciesAreDone CompleteMeansDone
PROPERTIES NoAutomaticRetry CycleEnds
