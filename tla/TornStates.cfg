SPECIFICATION Spec
CONSTANTS
  Executor = "docker"
  PopulationSize = 4
  Archived = 1
  n1 = n1
  n2 = n2
  n3 = n3
  Novel <- NewTrees
  CrashPoints <- AnyPoint
  MaxFaults = 2
PROPERTIES
  AllOrNothing
CHECK_DEADLOCK FALSE
