CONSTANTS
  MaxSegments = 2  MaxWords = 3  None = None  Depth = 1  PayloadDepth = 3
SPECIFICATION FairSpec
CONSTRAINT UpToDeviation
CHECK_DEADLOCK FALSE
INVARIANTS StreamsInStep NotifiedIsStored
PROPERTY PayloadsHandled
