CONSTANTS
  Programs <- MCPrograms
  Vectors <- MCVectors
  STACK = 9
  SEGMENT = 15
  MaxCalls = 2
  MaxDepth = 4
SPECIFICATION Spec
CHECK_DEADLOCK FALSE
INVARIANTS StackHoldsFrames CleanReturn
PROPERTY Terminates
