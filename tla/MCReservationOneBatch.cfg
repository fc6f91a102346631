SPECIFICATION FairSpec
CONSTANTS
  s1 = s1
  s2 = s2
  NoSlot = NoSlot
  Null = Null
  Requests = {q1}
  Batches = {b1}
  Triggers = {t1}
  Legacy = {l1}
  Slots <- MCSlots
  OpenAt <- MCOpenAt
  Tokenless = {}
  DayAfter = 3
  MaxTime = 3
  Faults = {}
CHECK_DEADLOCK FALSE
INVARIANT NoRowForgotten
INVARIANT OneOrderPerRow
INVARIANT OrderWrittenBack
PROPERTY NoRowStuck
PROPERTY PlanSettles
PROPERTY SubmitAnswered
