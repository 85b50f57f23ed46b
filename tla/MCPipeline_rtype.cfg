SPECIFICATION Spec
CONSTANTS
  Instr <- AllClasses
  Addr <- MCAddr
  IMissLatency = 2
  DMissLatency = 3
  CycleModulus = 64
  MaxInstr = 4
PROPERTIES
  BranchAfterRType
