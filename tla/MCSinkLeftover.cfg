SPECIFICATION Spec
CONSTANTS
  p1 = p1
  p2 = p2
  None = None
  Policies <- MCPolicies
  EngineMajor = 1
  LogOnlyValues <- Switch
  MaxStatements = 2
  SinkMayFail = TRUE
  MissedHooks = FALSE
INVARIANTS NothingOutlives
