SPECIFICATION Spec
CONSTANTS
  Inputs <- TwoInputs
  MaxSteps = 1
  MaxPasses = 2
  MaxTries = 2
  OutboxLimit = 2
  MaxEpochs = 2
INVARIANTS
  ThisEpochsDependencies
PROPERTIES
  AcceptedWorkIsSummarised
CHECK_DEADLOCK FALSE
