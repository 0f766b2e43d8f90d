CONSTANTS
  REAL_MEM_BASE = 65536
  REAL_MEM_SIZE = 262144
  REAL_MEM_BLOCKS = 4
  Requests = {1024}
  Strays = {0}
  Vector <- MCVector
  Ports = {200, 960, 1064}
  LEN = 1
  DEPTH = 2
SPECIFICATION Spec
INVARIANTS
  AllOrNothing
  StackKept
  StackHoldsFrames
  FailsOnlyOfHlt
PROPERTIES
  OkIsReturned
  CallEnds
CHECK_DEADLOCK FALSE
