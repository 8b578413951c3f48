SPECIFICATION Spec
CONSTANTS
  MaxFence = 5
  Freezes = TRUE
INVARIANTS
  ParkedHasSaved
  AwakeInForeground
CHECK_DEADLOCK FALSE
