SPECIFICATION FairSpec
CONSTANTS
  a = a
  b = b
  s = s
  i = i
  j = j
  Conns = {a, b}
  Who <- MCWho
  Gen <- MCGen
  Requests = {s, i, j}
  Lane <- MCLane
  Wants <- MCWants
  Principals = {"foreground"}
  Profiles = {"deepseek", "openai"}
  MaxWorkers = 2
  MaxOps = 1
INVARIANTS WorkIsOwned DisconnectCancels
PROPERTIES ImplementsService CancelFrees
