SPECIFICATION FairSpec
CONSTANTS
  Payloads = {6, 9, 11, 12, 17, 22, 23}
  MaxSegments = 2
  Depth = 2
  WordDepth = 3
CONSTRAINT UpToDeviation
CHECK_DEADLOCK FALSE
INVARIANTS PacketExact ChecksumCovers
PROPERTY AllLeave
