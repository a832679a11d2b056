SPECIFICATION FairSpec
CONSTANTS
  a1 = a1
  a2 = a2
  m1 = m1
  m2 = m2
  Agents <- TwoAgents
  Measurements <- TwoMeasurements
  MaxAttempts = 2
  MaxFaults = 2
INVARIANTS
  OwnEvidence
  OneAccount
  SealedAsGraded
PROPERTIES
  GradingCompletes
CHECK_DEADLOCK FALSE
