SPECIFICATION Spec
CONSTANTS
  Runs = {r1, r2}
  Shards = {s1, s2}
  Cycles = {c1, c2}
  MatchesPerShard = 1
  MaxWorkers = 2
  EvalInterval = 2
  Overlap = "none"
  SlowOwners = TRUE
  StopOnFailure = TRUE
  NoShard = NoShard
  NoCycle = NoCycle
  NoRun = NoRun
SYMMETRY Symmetry
CHECK_DEADLOCK FALSE
INVARIANTS IndexAgreesWithManifest CountedOnce
