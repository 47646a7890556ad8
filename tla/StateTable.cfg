SPECIFICATION FairSpec
CONSTANTS
  Sessions = {s1, s2}
  NoReq = NoReq
  Depth = 2
  MaxInputs = 4
CHECK_DEADLOCK FALSE
INVARIANTS TypeOK LockExclusion ReadsStayFresh NoMutualWait
PROPERTIES StepsFollowDiagram ClientsAnswered
