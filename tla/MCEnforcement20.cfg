SPECIFICATION FairSpec
CONSTANTS
  p1 = p1
  p2 = p2
  None = None
  Policies <- MCPolicies
  EngineMajor = 2
  LogOnlyValues <- MCLogOnlyValues
  MaxStatements = 3
  SinkMayFail = TRUE
  MissedHooks = FALSE
INVARIANTS IInv
PROPERTIES StaysLocal KeepsPromise LogOnlyRecorded
