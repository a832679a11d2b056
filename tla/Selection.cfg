SPECIFICATION Spec
CONSTANTS
  Executor = "docker"
  PopulationSize = 6
  Archived = 1
  n1 = n1
  n2 = n2
  n3 = n3
  Novel <- NewTrees
  CrashPoints <- OutsideDropping
  MaxFaults = 2
SYMMETRY AlikeTrees
INVARIANTS
  NothingDangles
  ElitePreserved
  ReadyToPerform
PROPERTIES
  AllOrNothing
CHECK_DEADLOCK FALSE
