SPECIFICATION Spec
CONSTANTS
  p1 = p1
  p2 = p2
  first = first
  second = second
  Process <- TwoProcesses
  Pages <- TwoPages
  Failing = {"list"}
  MaxCommands = 5
  MaxCrashes = 2
SYMMETRY Commands
INVARIANTS
  WholeUnlessAway
  ExportIsWhole
  RemovedIsGone
  FoundersOnce
CHECK_DEADLOCK FALSE
