SPECIFICATION FairSpec
CONSTANTS
  p1 = p1
  p2 = p2
  r1 = r1
  r2 = r2
  Parents <- TwoParents
  Requests <- TwoRequests
  Limit = 1
  Threads = 1
  MaxSerial = 2
  RecordLimit = 1
  GlobalPermits = 2
  AgentPermits = 1
  Attempts = 2
  NoHandle = NoHandle
INVARIANT
  WorkersLeaveNothing
CHECK_DEADLOCK FALSE
