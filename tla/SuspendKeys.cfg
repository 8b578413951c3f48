SPECIFICATION FairSpec
CONSTANTS
  MaxPresses = 3
  MaxRequests = 0
  MaxCover = 0
  MaxNoise = 1
  MaxActs = 4
  MaxFaults = 0
PROPERTIES
  OnlyUserRestores
  RetryIsServed
  PressUnlocks
CHECK_DEADLOCK FALSE
