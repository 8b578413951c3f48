SPECIFICATION FairSpec
CONSTANTS
  App = {a1, a2}
  NoApp = NoApp
  MaxEpoch = 3
  MaxRequests = 2
INVARIANTS
  InkAsPromised
PROPERTIES
  StartupAnswered
CHECK_DEADLOCK FALSE
