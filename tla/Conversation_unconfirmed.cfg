SPECIFICATION Spec
CONSTANTS
  m1 = m1
  m2 = m2
  m3 = m3
  u1 = u1
  u2 = u2
  Msg <- Messages2
  Words <- Requests
  User <- TwoUsers
  Owner <- TwoUsers
  Builtin <- FewTools
  BuiltinRisk <- FewLevels
  AgentRisk <- SameSlug
  MaxStrikes = 0
  MAX_TOOL_ROUNDS = 1
  MaxCalls = 1
  DeflectionTools = {"create_reminder"}
INVARIANT RiskyIsConfirmed
CHECK_DEADLOCK FALSE
