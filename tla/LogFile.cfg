CONSTANTS
  Base = 16
  Width = 2
  Inputs <- OneOfEach
  MaxFrames = 3
SPECIFICATION Spec
INVARIANTS
  ReadsGoodPrefix
  InventsNothing
  RefusesOnlyZeros
  CutBodyRejected
CHECK_DEADLOCK FALSE
