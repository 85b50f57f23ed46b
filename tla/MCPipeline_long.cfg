SPECIFICATION Spec
CONSTANTS
  Instr <- Disturbing
  Addr <- MCAddr
  IMissLatency = 1
  DMissLatency = 1
  CycleModulus = 64
  MaxInstr = 6
INVARIANTS
  NoneLost
  PreciseExceptions
  StallsCounted
  CycleBound
PROPERTIES
  BranchOperandsReady
