SPECIFICATION Spec
CONSTANTS
  Parameters <- FiveParameters
  Start <- Centre
  Tuned <- OneTuned
  Lowest <- AtLeast
  Highest <- AtMost
  FirstStep <- TwoUnits
  LeastStep <- OneUnit
  Half <- Levels
  MaxGenerations = 2
  MaxVectors = 6
  Gains <- LossOrGain
  None = None
  N = 2
  Kind <- SearchThenScreen
  Needs <- AfterNoImprovement
  MaxFaults = 1
INVARIANTS JournalReplays OutcomesAreEarned EffectsAreSeparable
PROPERTIES ImplementsRecord
