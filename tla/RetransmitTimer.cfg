CONSTANTS
  NumSessions = 8  Used = {2, 7}  NoReq = NoReq  RetransTime <- MCRetransTime
  MaxRetx = 2  Skip = 5  RetransDepth = 1  MaxInputs = 3
SPECIFICATION RetransFairSpec
PROPERTIES RetriesExact OutstandingResolved SetsTaken
