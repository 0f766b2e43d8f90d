CONSTANTS
  REAL_MEM_BASE = 65536
  REAL_MEM_SIZE = 131072
  REAL_MEM_BLOCKS = 5
  Requests <- MCRequests
  Strays <- MCStrays
SPECIFICATION Spec
INVARIANTS TypeOK Tiles Coalesced SpareTail NoLeak
PROPERTY HeapSpec
