SPECIFICATION EitherSpec
CONSTANTS
  p1 = p1
  p2 = p2
  None = None
  Policies <- MCPolicies
  EngineMajor = 1
  LogOnlyValues <- MCLogOnlyValues
  MaxStatements = 3
  SinkMayFail = FALSE
  MissedHooks = FALSE
INVARIANTS EnforcedExecution RecordedOnce SnapshotGoverns LogOnlyNeverRefuses LogOnlyTrail NothingOutlives
PROPERTIES LogOnlyRecorded
