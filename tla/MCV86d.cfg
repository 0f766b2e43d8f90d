CONSTANTS
  REAL_MEM_BASE = 65536
  REAL_MEM_SIZE = 131072
  REAL_MEM_BLOCKS = 5
  Messages <- MCMessages
  SocketSize = 2
  MaxPosts = 3
  MaxStarts = 2
SPECIFICATION Spec
CHECK_DEADLOCK FALSE
INVARIANTS HeapAtRest ListensWhenForked
PROPERTIES TaskGetsBuffer ServiceSpec KeepsReading DropEnds Leaves
