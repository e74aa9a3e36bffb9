SPECIFICATION Spec
CONSTANTS
  Tools = {"agent_exec"}
  WordLooks = {"plain"}
  UserOps = {"reload"}
  Limit = 2
  MaxPrompts = 2
  MaxEvents = 1
  MaxOps = 2
CHECK_DEADLOCK FALSE
PROPERTY ResumesThread
