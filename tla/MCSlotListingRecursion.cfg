SPECIFICATION FairSpec
CONSTANTS
  c1 = c1
  c2 = c2
  c3 = c3
  tomorrow = tomorrow
  later = later
  Calls = {c1}
  Dates = {tomorrow, later}
  Tomorrow = tomorrow
  OpensAt <- MCOpensAt
  TTL = 1
  MaxTime = 1
  MaxDepth = 4
  Faults = {"cancel"}
  Nobody = Nobody
  Null = Null
CHECK_DEADLOCK FALSE
PROPERTY DegradesToTemplate
