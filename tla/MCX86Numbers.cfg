CONSTANTS
  BYTE = 4
  RADIX = 3
  Limbs = 2
  Binary <- MCBinary
  Packed <- MCPacked
  Unpacked <- MCUnpacked
  Widths <- MCWidths
  MaxCount = 20
  Factors <- MCFactors
SPECIFICATION Spec
INVARIANTS
  LongNumbers
  DecimalNumbers
  CountIsSteps
  DivisionUndoesProduct
CHECK_DEADLOCK FALSE
