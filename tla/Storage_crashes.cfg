SPECIFICATION Spec
CONSTANTS
  Openers = {"old", "new", "newer"}
  None = None
  Code <- TwoCodes
  Budget = 6
  DelayCap = 2
  Savers = {"s1", "s2"}
  Publisher = "supervisor"
  EventFiles <- TwoEvents
  MaxInodes = 4
INVARIANTS IndexIsSound FilesAreSound
PROPERTY EveryOpenEnds
