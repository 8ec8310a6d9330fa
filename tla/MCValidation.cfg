SPECIFICATION Spec
CONSTANTS
  c1 = c1
  c2 = c2
  None = None
  Conns <- MCConns
  Texts <- MCTexts
SYMMETRY Symmetry
INVARIANTS FirstFailureDecides CodesMatchViolations ScopeIsInnermost LookupsMeetTheirScope
