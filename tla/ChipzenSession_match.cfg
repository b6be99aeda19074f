SPECIFICATION ReaderSpec
CONSTANTS
  Hands = {"h1", "h2"}
  None = None
  MaxEvents = 5
  MaxBytes = 8
  ResultReserve = 2
  Sizes = {1, 3}
  Lengths = {2021, 2022, 66560, 66561}
  MaxDecisions = 2
  MaxAlias = 2
  MaxDropped = 1
  Workers = {"soh", "probe"}
  MatchIds = {"m1", "m2"}
  Settings <- AllSettings
  Sinks <- AllSinks
CHECK_DEADLOCK FALSE
INVARIANTS ExportIsWhole AcceptedIsUnrated EvidenceArrives
