SPECIFICATION Spec
CONSTANTS
  a1 = a1
  a2 = a2
  App = {a1, a2}
  NoApp = NoApp
  NoLease = NoLease
  Generations <- MCGenerations
  Epochs <- MCEpochs
  Leases <- MCLeases
  MaxRevision = 13
SYMMETRY Symmetric
INVARIANTS
  Valid
  ConversionsAgree
PROPERTIES
  FencesRise
CHECK_DEADLOCK FALSE
