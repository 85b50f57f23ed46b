SPECIFICATION Spec
CONSTANTS
  ByteModulus = 4
  startAddr = 0
  MEMORY_SIZE = 28
  Register <- MCRegister
  RA = 3
  Decode <- MCDecode
  JumpRegion = 64
  ExceptionAddress = 20
  Programs <- MCPrograms
  MaxInstr = 7
INVARIANTS
  TypeOK
  DelaySlots
  CallsReturn
PROPERTIES
  ArithmeticIsExact
  ExceptionsHaveNoEffect
