SPECIFICATION FairSpec
CONSTANTS
  TotalEpochs = 3
  MaxFaults = 3
  CrashPoints <- OutsideFinish
  FailPoints <- OutsideFinishFailure
INVARIANTS
  SoundPopulation
  CleanAttempt
  WholeLeaderboard
  VerifiedParents
  RecoverySnapshotExists
  CompletedRun
  PauseTakesEffect
PROPERTIES
  NoReExecution
  VerdictIsFinal
  EventuallyTerminal
