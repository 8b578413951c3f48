SPECIFICATION Spec
CONSTANTS
  a1 = a1
  a2 = a2
  App = {a1}
  NoApp = NoApp
  Faults = {"refused", "package"}
INVARIANTS
  StockRunsNothing
