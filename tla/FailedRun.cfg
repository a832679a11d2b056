SPECIFICATION Spec
CONSTANTS
  TotalEpochs = 3
  MaxFaults = 1
  CrashPoints <- OutsideAdvance
  FailPoints <- OutsideClosedSelection
INVARIANT
  FailedRunStops
