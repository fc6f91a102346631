SPECIFICATION FairSpec
CONSTANTS
  c1 = c1
  c2 = c2
  s1 = s1
  Calls = {c1, c2}
  SlotOf <- MCSlotOf
  MaxRetries = 5
  Faults = {"lost", "cancel"}
CHECK_DEADLOCK FALSE
INVARIANT TypeOK
INVARIANT SubmitsVerified
INVARIANT NoBlindRetry
PROPERTY KeepsPromise
PROPERTY Returns
