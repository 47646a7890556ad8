SPECIFICATION Spec
CONSTANTS
  Payloads = {17}
  MaxSegments = 1
  Depth = 1
  WordDepth = 3
INVARIANT CompletePacket
CHECK_DEADLOCK FALSE
