SPECIFICATION FairSpec
CONSTANTS
  MaxSessions = 2
  Tuples = {t1, t2, t3}
  Roles = {r1}
  None = None
  Depth = 1
  MaxInputs = 4
CHECK_DEADLOCK FALSE
INVARIANTS IdsAccounted MappingConsistent
PROPERTIES TdestKnown LookupsAnswered
