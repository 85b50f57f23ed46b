SPECIFICATION Spec
CONSTANTS
  ByteModulus = 4
  startAddr = 0
  MEMORY_SIZE = 40
  Register <- MCRegister
  RA = 3
  Decode <- MCDecode
  JumpRegion = 64
  ExceptionAddress = 24
  Programs <- MCPrograms
  iCacheConfig <- MCICache
  dCacheConfig <- MCDCache
  Quanta = {0, 1, 2}
  MaxInstr = 10
INVARIANTS
  TraceShowsExecution
  DataAccesses
  CyclesExplained
PROPERTIES
  SameExecution
