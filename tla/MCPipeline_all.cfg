SPECIFICATION FairSpec
CONSTANTS
  Instr <- AllClasses
  Addr <- MCAddr
  IMissLatency = 2
  DMissLatency = 3
  CycleModulus = 64
  MaxInstr = 4
INVARIANTS
  TypeOK
  ProgramOrder
  RetiredInOrder
  NoneLost
  PreciseExceptions
  AccessedInOrder
  EveryAccessMade
  CycleBound
  StallsCounted
PROPERTIES
  LoadInterlock
  BranchOperandsReady
  Terminates
