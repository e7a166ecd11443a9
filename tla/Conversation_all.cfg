SPECIFICATION Spec
CONSTANTS
  m1 = m1
  m2 = m2
  m3 = m3
  u1 = u1
  u2 = u2
  Msg <- Messages3
  Words <- Script
  User <- OneUser
  Owner <- OneUser
  Builtin <- FewTools
  BuiltinRisk <- FewLevels
  AgentRisk <- NoAgents
  MaxStrikes = 1
  MAX_TOOL_ROUNDS = 1
  MaxCalls = 1
  DeflectionTools = {"create_reminder"}
INVARIANTS TypeOK OneSession ConfirmedIsServed
PROPERTIES Approvals RejectionSticks
CHECK_DEADLOCK FALSE
