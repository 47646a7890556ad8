CONSTANTS
  SeqMod = 32  BufMod = 8  LenMod = 8  MSS = 2  InitCong = 6  CongMax = 3
  MaxRtSegs = 1  Isn = 30  Windows = {0, 3}  Writes = {3}  MaxWritten = 3  Depth = 1
SPECIFICATION FairSpec
CHECK_DEADLOCK FALSE
INVARIANTS SegmentsLegal 
PROPERTIES WindowInOrder AllAcked
