CONSTANTS
  Programs <- MCDividing
  Vectors <- MCVectors
  STACK = 9
  SEGMENT = 16
  MaxCalls = 1
  MaxDepth = 4
SPECIFICATION Spec
CHECK_DEADLOCK FALSE
INVARIANT HandledOnce
