SPECIFICATION FairSpec
CONSTANTS
  c1 = c1
  c2 = c2
  Null = Null
  Conns = {c1, c2}
  Fold <- MCFold
  Requests <- MCRequests
  RawPolicies <- MCRawPolicies
  RawSwitches <- MCRawSwitches
  Exempt = {"log_only"}
  SinkMayFail = TRUE
INVARIANTS SettingCanonical ChangesRecorded IInv
PROPERTIES Frozen HashTraceable LockSettles
