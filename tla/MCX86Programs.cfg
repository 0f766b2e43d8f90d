CONSTANTS
  BYTE = 6
  RADIX = 5
  PARA = 16
  AlwaysOn = 1
  FlagBit <- MCFlagBit
  In <- MCIn
  HwCpuid <- MCHwCpuid
  JobKinds = {"data", "calls", "jumps", "strings", "addresses", "idioms", "trapped"}
  Jobs <- MCJobs
SPECIFICATION Spec
INVARIANTS
  StringsDone
  FlowFollowed
  StoresArrive
  IdiomsHold
  PortsEmulated
PROPERTIES
  IsaSpec
  LifoSpec
