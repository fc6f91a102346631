SPECIFICATION Spec
CONSTANTS
  s1 = s1
  s2 = s2
  NoSlot = NoSlot
  Null = Null
  Requests = {q1}
  Batches = {b1}
  Triggers = {t1}
  Legacy = {l1}
  Slots <- MCSlots
  OpenAt <- MCOpenAt
  Tokenless = {s2}
  DayAfter = 3
  MaxTime = 3
  Faults = {"db", "cancel", "crash"}
CHECK_DEADLOCK FALSE
INVARIANT OneWorkerPerRow
PROPERTY KeepsLife
INVARIANT SubmitBooksOnce
INVARIANT PlansKept
