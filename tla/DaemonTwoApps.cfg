SPECIFICATION Spec
CONSTANTS
  a1 = a1
  a2 = a2
  App = {a1, a2}
  NoApp = NoApp
  Faults = {}
SYMMETRY Symmetric
INVARIANTS
  BackgroundFrozen
  LiveIsTracked
PROPERTIES
  CapturedPolicyHolds
