CONSTANTS
  BYTE = 6
  RADIX = 5
  PARA = 16
  AlwaysOn = 1
  FlagBit <- MCFlagBit
  In <- MCIn
  HwCpuid <- MCHwCpuid
  JobKinds = {"long_ports"}
  Jobs <- MCJobs
SPECIFICATION Spec
INVARIANT PortsUntilZero
