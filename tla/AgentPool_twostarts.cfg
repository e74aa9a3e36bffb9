SPECIFICATION Spec
CONSTANTS
  a1 = a1
  a2 = a2
  c1 = c1
  c2 = c2
  Agent = {a1}
  Client = {c1, c2}
  Ops = {"Start"}
  MaxConcurrent = 1
  Probed = {}
  MaxSup = 3
  MaxCalls = 3
INVARIANTS
  OneSupervisor
CHECK_DEADLOCK FALSE
