SPECIFICATION Spec
CONSTANTS
  TotalEpochs = 3
  MaxFaults = 2
  CrashPoints <- OutsideAdvance
  FailPoints <- AnyPoint
INVARIANT
  SoundPopulation
