SPECIFICATION Spec
CONSTANTS
  Matches = {m}
  Hands = {1, 2, 3}
  Evidence <- Told
  Stacks = {100, 200}
  Proven = {"a", "c"}
  Scoped = {"b"}
  Profiles <- OnFile
  Unknown = "unknown"
  None = None
  MaxPending = 2
  MaxAnonymous = 1
INVARIANTS HandsAreKept BeliefIsTheirs HistoryBarelyMoves
PROPERTIES MatchOnlyGrows
