SPECIFICATION Spec
CONSTANTS
  j1 = j1
  j2 = j2
  j3 = j3
  a1 = a1
  Job = {j1, j2}
  Agent = {a1}
  AgentOf <- TwoJobs
  MaxConcurrent = 1
  ReplayLimit = 2
  ForeignKeys = TRUE
  MaxBoots = 2
PROPERTIES
  ReplayFindsAgents
CHECK_DEADLOCK FALSE
