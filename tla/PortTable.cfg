SPECIFICATION FairSpec
CONSTANTS
  ListenCount = 2
  FreeCount = 2
  Roles = {r1, r2}
  None = None
  Depth = 2
  SessionIds = 2
  MaxInputs = 4
CHECK_DEADLOCK FALSE
INVARIANTS ChecksInOrder PortsOwned
PROPERTY RequestsAnswered
