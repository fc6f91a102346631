SPECIFICATION Spec
CONSTANTS
  Rooms = {r1, r2, r3}
  Times = {1, 2, 3}
  MaxMembers = 1
  Sizes = {0, 1}
  DefaultSize = 2
  MaxWrites = 2
SYMMETRY Symmetry
INVARIANT AnswerTrue
INVARIANT SteadySeenOnce
