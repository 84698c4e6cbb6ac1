SPECIFICATION Spec
CONSTANTS
  RowSize <- T9Rows
  RowWidth = 6
  Typed = {0, 1}
  MaxText = 3
  ExitText <- TypedExit
INVARIANTS TypeOK CycleHasTarget
PROPERTY ImplementsEditor

