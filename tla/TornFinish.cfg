SPECIFICATION FairSpec
CONSTANTS
  TotalEpochs = 2
  MaxFaults = 1
  CrashPoints <- AnyPoint
  FailPoints <- OutsideFinishFailure
PROPERTY
  EventuallyTerminal
