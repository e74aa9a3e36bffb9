SPECIFICATION Spec
CONSTANTS
  j1 = j1
  j2 = j2
  j3 = j3
  a1 = a1
  Job = {j1, j2, j3}
  Agent = {a1}
  AgentOf <- ThreeJobs
  MaxConcurrent = 2
  ReplayLimit = 3
  ForeignKeys = TRUE
  MaxBoots = 2
SYMMETRY JobSymmetry
INVARIANTS
  TypeOK
  ExecBound
  AtMostOnce
  RunningIsOwned
  PendingIsOwned
  CancelCoherent
  JobsHaveAgent
PROPERTIES
  TerminalIsFinal
  ImplementsLifecycle
CHECK_DEADLOCK FALSE
