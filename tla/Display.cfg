SPECIFICATION FairSpec
CONSTANTS
  Keys = {home, app}
  Home = home
  Contacts = {finger}
  Strokes = {pen1}
  MaxFence = 2
  MaxLives = 2
  Depth = 2
  MaxSleep = 1
  MaxCommits = 1
  MaxInputs = 1
  MaxOps = 3
  Hardware = FALSE
INVARIANTS
  ContactsBalanced
  LockHolds
PROPERTIES
  PressedIsVisible
  DamageShown
CHECK_DEADLOCK FALSE
