SPECIFICATION FairSpec
CONSTANTS
  Tasks = {t1, t2, t3}
  Slots = {w1, w2}
  NoSlot = NoSlot
CHECK_DEADLOCK FALSE
INVARIANTS SlotsAreSound NothingIsForgotten
PROPERTIES LoopEnds
