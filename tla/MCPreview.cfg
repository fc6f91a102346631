SPECIFICATION PreviewFairSpec
CONSTANTS
  N = 3
  Closed = {1}
  Limit = 1
  Calls = {1, 2, 3, o}
  MaxLogins = 2
  MaxHops = 1
  Faults = {"net", "cancel"}
  Nobody = Nobody
CHECK_DEADLOCK FALSE
INVARIANT OneLogin
INVARIANT SignedIn
INVARIANT NoDeadlock
INVARIANT AtMostLimit
INVARIANT ReturnsAll
PROPERTY CallEnds
PROPERTY Returns
