SPECIFICATION Spec
CONSTANTS
  p1 = p1
  p2 = p2
  first = first
  second = second
  Process <- TwoProcesses
  Pages <- TwoPages
  Failing = {"rows"}
  MaxCommands = 1
  MaxCrashes = 0
SYMMETRY Commands
INVARIANTS
  NotHalfDeleted
CHECK_DEADLOCK FALSE
