SPECIFICATION Spec
CONSTANTS
  Executor = "command"
  PopulationSize = 4
  Archived = 1
  n1 = n1
  n2 = n2
  n3 = n3
  Novel <- NewTrees
  CrashPoints <- NoPoint
  MaxFaults = 0
INVARIANTS
  ReadyToPerform
CHECK_DEADLOCK FALSE
