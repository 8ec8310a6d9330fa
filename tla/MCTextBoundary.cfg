SPECIFICATION Spec
CONSTANTS
  Json <- MCJson
  Texts <- MCTexts
  Layers <- MCLayers
  MaxBytes = 12
  MaxNodes = 41
  MaxDepth = 13
  MaxLogged = 7
  Dispatch <- MCDispatch
  ExpressionTypes <- MCExpressionTypes
  Rules <- MCRules
  Elements <- MCElements
  Folded <- MCFolded
  SqlValues <- MCSqlValues
INVARIANTS
  WalkAgrees
  NamesCaught
  BindTimeInert
  LoggedTextSound
CHECK_DEADLOCK FALSE
