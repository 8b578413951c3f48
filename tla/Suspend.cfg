SPECIFICATION Spec
CONSTANTS
  MaxPresses = 1
  MaxRequests = 1
  MaxCover = 2
  MaxNoise = 1
  MaxActs = 4
  MaxFaults = 1
INVARIANTS
  SuspendBehindLock
  OwnersAgree
  LeaseKeepsAwake
PROPERTIES
  UnlockBeatsTimer
CHECK_DEADLOCK FALSE
