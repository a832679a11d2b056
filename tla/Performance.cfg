SPECIFICATION FairSpec
CONSTANTS
  o1 = o1
  o2 = o2
  Organisms <- TwoOrganisms
  MaxTries = 2
  MaxAttempts = 2
INVARIANTS
  OwnResult
  RestartedWhileItCould
  NothingOutlivesTheEpoch
PROPERTIES
  PerformanceEnds
CHECK_DEADLOCK FALSE
