SPECIFICATION Spec
CONSTANTS
  TotalEpochs = 2
  MaxFaults = 1
  CrashPoints <- AnyPoint
  FailPoints <- OutsideClosedSelection
PROPERTY
  NoReExecution
