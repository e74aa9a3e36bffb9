SPECIFICATION Spec
CONSTANTS
  Tools = {"agent_exec"}
  WordLooks = {"plain","call","result"}
  UserOps = {"regenerate","retry","edit","switch","stop","leave","reload","compact","fail"}
  Limit = 50
  MaxPrompts = 2
  MaxEvents = 3
  MaxOps = 2
CHECK_DEADLOCK FALSE
INVARIANTS TypeOK StreamIsShown ReloadKeepsConversation
PROPERTY OnlyTheUserDropsTurns
