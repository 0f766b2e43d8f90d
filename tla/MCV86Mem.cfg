CONSTANTS
  PageSize = 4096
  BdaWords <- MCBdaWords
  EbdaBytes <- MCEbdaBytes
  Headers <- MCHeaders
  Garbage <- MCGarbage
SPECIFICATION Spec
CHECK_DEADLOCK FALSE
INVARIANTS Balanced Resolves WindowsApart
