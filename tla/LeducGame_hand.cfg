SPECIFICATION SearchSpec
CONSTANTS
  Ante = 1
  BetSize <- LeducBets
  MaxRaises = 2
  Ranks = {0, 1, 2}
  Copies = 2
  Policies <- SomePolicies
CHECK_DEADLOCK FALSE
INVARIANTS ShowdownIsLevel BeliefIsPosterior SearchIsSound
