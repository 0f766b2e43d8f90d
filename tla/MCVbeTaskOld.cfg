CONSTANTS
  HALF = 16
  SIZE = 32
  lbuf <- MClbuf
  Blocks <- MCOldBlocks
SPECIFICATION Spec
CHECK_DEADLOCK FALSE
INVARIANTS InBufferIsInBuffer
