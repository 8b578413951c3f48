SPECIFICATION FairRequestSpec
CONSTANTS
  r1 = r1
  r2 = r2
  r3 = r3
  None = None
  Request = {r1, r2, r3}
  Interrupting = {r1, r2}
  Launches = {r1, r2}
  Slow = {r1}
  Capacity = 2
INVARIANTS
  CancelledHasNoEffect
  NewerSupersedes
PROPERTIES
  EveryoneAnswered
CHECK_DEADLOCK FALSE
