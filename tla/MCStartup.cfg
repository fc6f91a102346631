SPECIFICATION FairSpec
CONSTANTS
  Instances = {i1, i2}
  N = 2
  Rows = {"a", "b"}
  TableOf <- MCTableOf
  Growing = {2}
  Settings = {"HTTP_PORT", "DB_MAX_IDLE_CONNS"}
  Fallback <- MCFallback
  Least <- MCLeast
  Envs <- MCEnvs
  MaxFaults = 2
CHECK_DEADLOCK FALSE
INVARIANT ServesSound
INVARIANT KnownIdsStay
PROPERTY StartableStays
PROPERTY ComesUp
