SPECIFICATION FairSpec
CONSTANTS
  NumSessions = 3
  IdMod = 8
  Interval = 2
  Depth = 1
  MaxInputs = 5
PROPERTIES ExpiryExact ReleasesItsOwn WaitsEnd
