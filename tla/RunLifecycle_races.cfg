SPECIFICATION FairSpec
CONSTANTS
  Runs = {r1}
  Shards = {s1}
  Cycles = {c1, c2}
  MatchesPerShard = 2
  MaxWorkers = 1
  EvalInterval = 1
  Overlap = "any"
  SlowOwners = TRUE
  StopOnFailure = FALSE
  NoShard = NoShard
  NoCycle = NoCycle
  NoRun = NoRun
CHECK_DEADLOCK FALSE
INVARIANTS CompletedIsSealed ProgressIsDurable ReturnLeavesNothingRunning
PROPERTIES EverythingEnds SweepTakesOnlyTheDead ImplementsLedger
