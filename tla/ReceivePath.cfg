CONSTANTS
  Sessions = {s1}
  SeqMod = 16  BufMod = 8  WordBytes = 2  WinMod = 4  Scales = {1, 2}  Isn = 15  SegLengths = {3, 4}
  Depth = 2  EchoRoom = 5  MaxBeyond = 1  MaxBytes = 9  MaxConns = 2
SPECIFICATION FairSpec
CONSTRAINT UpToDeviation
CHECK_DEADLOCK FALSE
PROPERTIES ImplementsRing EchoExact WindowKept AllEchoed
