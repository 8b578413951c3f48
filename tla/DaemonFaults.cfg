SPECIFICATION FairSpec
CONSTANTS
  a1 = a1
  a2 = a2
  App = {a1}
  NoApp = NoApp
  Faults = {"refused", "store", "lost", "bridge", "restart"}
INVARIANTS
  ScreenAgrees
  FrozenNeverAwaited
PROPERTIES
  ImplementsDevice
  CancelledNeverCommits
  AlwaysSettles
