SPECIFICATION FairSpec
CONSTANTS
  SmallBlind = 1
  BigBlind = 2
  StartingStack = 7
  HandsPerMatch = 3
CHECK_DEADLOCK FALSE
INVARIANTS ChipsConserved ShowdownIsMatched BettingIsSound
PROPERTIES MatchEnds
