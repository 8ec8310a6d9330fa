SPECIFICATION Spec
CONSTANTS
  Fold <- MCFold
  NeverBindNames <- MCNeverBind
  Defaults <- MCDefaults
  PolicyChoices <- MCPolicyChoices
  Functions <- MCFunctions
  Objects <- MCObjects
INVARIANTS ScreenSound InternalNeedsExact IndexAgrees
