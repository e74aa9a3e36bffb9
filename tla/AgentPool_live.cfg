SPECIFICATION FairSpec
CONSTANTS
  a1 = a1
  a2 = a2
  c1 = c1
  c2 = c2
  Agent = {a1, a2}
  Client = {c1}
  Ops = {"Start", "Stop", "Remove"}
  MaxConcurrent = 1
  Probed = {}
  MaxSup = 3
  MaxCalls = 1
INVARIANTS
  TypeOK
  SlotsAccounted
PROPERTIES
  ShutdownDrains
  CancelEnds
CHECK_DEADLOCK FALSE
