CONSTANTS
  Sessions = {s1}
  BufMod = 4  Isn = 1  Lengths = {1, 3}  Depth = 2  CacheDepth = 2  MaxReqs = 4  MaxFails = 1
SPECIFICATION FairSpec
CHECK_DEADLOCK FALSE
PROPERTIES ImplementsRing EventsExact FinAfterData AcceptedPublished
