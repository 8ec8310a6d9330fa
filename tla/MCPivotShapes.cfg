SPECIFICATION Spec
CONSTANTS
  Width = 3
  MaxColumns = 2
  MaxValues = 4
CHECK_DEADLOCK FALSE
INVARIANTS ShapesCover LargeIsLegal
