SPECIFICATION Spec
CONSTANTS
  s1 = s1
  s2 = s2
  NoSlot = NoSlot
  Null = Null
  Requests = {q1}
  Batches = {b1, b2}
  Triggers = {}
  Legacy = {}
  Slots <- MCSlots
  OpenAt <- MCOpenAt
  Tokenless = {}
  DayAfter = 3
  MaxTime = 2
  Faults = {"db"}
CHECK_DEADLOCK FALSE
INVARIANT SuccessBacked
INVARIANT OrderWasAsked
INVARIANT NoEarlyOrder
INVARIANT ReplyMatchesOrders
