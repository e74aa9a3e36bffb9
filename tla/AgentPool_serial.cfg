SPECIFICATION Spec
CONSTANTS
  a1 = a1
  a2 = a2
  c1 = c1
  c2 = c2
  Agent = {a1}
  Client = {c1}
  Ops = {"Start", "Stop", "Remove"}
  MaxConcurrent = 1
  Probed = {a1}
  MaxSup = 3
  MaxCalls = 4
INVARIANTS
  OneSupervisor
  Cancellable
CHECK_DEADLOCK FALSE
