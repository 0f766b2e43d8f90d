CONSTANTS
  HALF = 16
  SIZE = 32
  lbuf <- MClbuf
  Blocks <- MCBlocks
SPECIFICATION Spec
CHECK_DEADLOCK FALSE
INVARIANTS RoomEnds ModesDelivered StringsDelivered BehindUntouched
