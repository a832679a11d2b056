SPECIFICATION Spec
CONSTANTS
  TotalEpochs = 3
  MaxFaults = 1
  CrashPoints <- OutsideFinish
  FailPoints <- OutsideFinishFailure
INVARIANT
  PauseIsPrompt
