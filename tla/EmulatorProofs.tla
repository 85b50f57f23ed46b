--------------------------- MODULE EmulatorProofs ---------------------------
(***************************************************************************)
(* One call of executeInstruction: what it leaves of registers, memory and *)
(* PC, and what it records, for every instruction.                         *)
(***************************************************************************)
EXTENDS Emulator, MemoryProofs

-----------------------------------------------------------------------------
(***************************************************************************)
(* The instruction that is executed next.                                  *)
(***************************************************************************)
Registers == [Register -> Word]

\* The part of the state an instruction is executed from.
MachineOK ==
  /\ registers \in Registers
  /\ memArr \in MemArr
  /\ PC \in Word
  /\ savedBranch \in Word

LEMMA InstructionTypes ==
  ASSUME MachineOK
  PROVE  /\ word \in Word /\ instruction \in Instruction
         /\ a \in Word /\ b \in Word /\ signExtImm \in Word
         /\ nextPC \in Word /\ dataAddress \in Word
<1>1. word \in Word
  BY GetValueType DEF MachineOK, word, MemEntrySize, WORD_SIZE
<1>2. instruction \in Instruction
  BY <1>1, EmulatorAssumption DEF instruction
<1>3. /\ instruction.rs \in Register /\ instruction.rt \in Register
      /\ instruction.imm \in Half
  BY <1>2 DEF Instruction
<1>4. 0 \in Word /\ 4 \in Word
  <2>1. WordModulus > 4
    BY WordExceedsFour
  <2> QED
    BY <2>1, ModuliTypes DEF Word
<1>5. a \in Word /\ b \in Word
  BY <1>3, <1>4 DEF a, b, reg, MachineOK, Registers
<1>6. signExtImm \in Word
  BY <1>3, SignExtType DEF signExtImm
<1>7. nextPC \in Word
  BY <1>4, AddType DEF nextPC, MachineOK
<1>8. dataAddress \in Word
  BY <1>5, <1>6, AddType DEF dataAddress
<1> QED
  BY <1>1, <1>2, <1>5, <1>6, <1>7, <1>8

LEMMA ResultType ==
  ASSUME MachineOK
  PROVE  result \in Word
<1>1. /\ a \in Word /\ b \in Word /\ signExtImm \in Word
      /\ instruction.imm \in Half /\ instruction.shamt \in 0 .. WordBits
  <2>1. instruction.shamt \in 0 .. WordBits - 1 /\ instruction.imm \in Half
    BY InstructionTypes DEF Instruction
  <2> QED
    BY <2>1, InstructionTypes, WordBitsType
<1>2. \A t \in BOOLEAN : If1(t) \in Word
  BY WordExceedsFour, ModuliTypes DEF If1, Word
<1>3. /\ Add(a, b) \in Word /\ Difference(a, b) \in Word /\ Add(a, signExtImm) \in Word
  BY <1>1, AddType
<1>4. /\ And(a, b) \in Word /\ Or(a, b) \in Word /\ Nor(a, b) \in Word
      /\ And(a, instruction.imm) \in Word /\ Or(a, instruction.imm) \in Word
  BY BitwiseType
<1>5. /\ (b * 2^instruction.shamt) % WordModulus \in Word
      /\ b \div 2^instruction.shamt \in Word
  BY <1>1, ShiftType
<1>6. instruction.imm * HalfModulus \in Word
  BY <1>1, SignExtType
<1>7. /\ If1(Signed(a) < Signed(b)) \in Word /\ If1(a < b) \in Word
      /\ If1(Signed(a) < Signed(signExtImm)) \in Word /\ If1(a < signExtImm) \in Word
  BY WordExceedsFour, ModuliTypes DEF If1, Word
<1> QED
  BY <1>3, <1>4, <1>5, <1>6, <1>7 DEF result

LEMMA TargetTypes ==
  ASSUME MachineOK
  PROVE  /\ branchTarget \in Word /\ jumpAddr \in Word /\ link \in Word
<1>1. nextPC \in Word /\ signExtImm \in Word /\ instruction.address \in Nat
  BY InstructionTypes DEF Instruction
<1>2. nextPC \in Int /\ signExtImm \in Int
  BY <1>1, ModuliTypes DEF Word
<1>3. branchTarget \in Word
  BY <1>2, Wraps DEF branchTarget
<1>4. nextPC % JumpRegion \in Int /\ (instruction.address * 4) % JumpRegion \in Int
  BY <1>1, <1>2, EmulatorAssumption
<1>5. jumpAddr \in Word
  BY <1>2, <1>4, Wraps DEF jumpAddr
<1>6. link \in Word
  <2>1. 4 \in Word
    BY WordExceedsFour, ModuliTypes DEF Word
  <2> QED
    BY <1>1, <2>1, AddType DEF link
<1> QED
  BY <1>3, <1>5, <1>6

LEMMA WrittenType ==
  ASSUME MachineOK, NEW r \in Register, NEW v \in Word
  PROVE  Written(r, v) \in Registers /\ Unwritten \in Registers
<1>1. 0 \in Word /\ 0 \in Register
  BY ModuliTypes, EmulatorAssumption DEF Word
<1> QED
  BY <1>1 DEF Written, Unwritten, MachineOK, Registers

-----------------------------------------------------------------------------
(***************************************************************************)
(* One call of executeInstruction, whatever the instruction.               *)
(***************************************************************************)
PathEntry == [pc : Word, word : Word, raised : BOOLEAN, inSlot : BOOLEAN,
              data : Word \cup {-1}, target : Word \cup {-1}, wroteRA : BOOLEAN]

\* The entry the instruction executed next leaves in path.
NewEntry(raises) ==
  [pc |-> PC, word |-> word, raised |-> raises, inSlot |-> encounteredBranch,
   data |-> IF op \in MemoryOps THEN dataAddress ELSE -1,
   target |-> IF encounteredBranch' THEN savedBranch' ELSE -1,
   wroteRA |-> registers'[RA] # registers[RA]]

StepRaises == op \notin Legal \/ (op \in Arithmetic /\ overflows)

\* The groups of instructions exclude each other.
LEMMA OpGroups ==
  /\ op \in Arithmetic => op \in Legal /\ op \notin Branches /\ op \notin {"jr", "jal", "halt"}
  /\ op \in Logical => op \in Legal \ Arithmetic /\ op \notin Branches
                         /\ op \notin {"jr", "jal", "halt"}
  /\ op \in Branches => op \in Legal \ Arithmetic /\ op \notin {"jr", "jal", "halt"}
  /\ op \in {"j", "jr", "jal", "halt"} => op \in Legal \ Arithmetic /\ op \notin Branches
  /\ op \in MemoryOps => op \in Legal \ Arithmetic /\ op \notin Branches
                         /\ op \notin {"jr", "jal", "halt"}
  /\ op \in DOMAIN LoadSize => op \in MemoryOps
  /\ op \in DOMAIN StoreSize => op \in MemoryOps
<1>1. DOMAIN LoadSize = {"lbu", "lhu", "lw"} /\ DOMAIN StoreSize = {"sb", "sh", "sw"}
  BY DEF LoadSize, StoreSize
<1>2. MemoryOps = {"lbu", "lhu", "lw", "sb", "sh", "sw"}
  BY <1>1 DEF MemoryOps
<1> QED
  BY <1>1, <1>2 DEF Arithmetic, Logical, Branches, Jumps, Legal

LEMMA SizeTypes ==
  /\ \A o \in DOMAIN LoadSize : LoadSize[o] \in MemEntrySize
  /\ \A o \in DOMAIN StoreSize : StoreSize[o] \in MemEntrySize
  BY DEF LoadSize, StoreSize, MemEntrySize, BYTE_SIZE, HALF_SIZE, WORD_SIZE

\* Where an instruction goes and what it records.
LEMMA StepControl ==
  ASSUME executeInstruction
  PROVE  /\ path' = Append(path, NewEntry(StepRaises))
         /\ din' = din + 1
         /\ PC' = IF StepRaises THEN ExceptionAddress ELSE nextPC
         /\ encounteredBranch' \in BOOLEAN
         /\ StepRaises => ~encounteredBranch'
         /\ op \in Branches /\ encounteredBranch' => savedBranch' = branchTarget
         /\ ~encounteredBranch' => savedBranch' = savedBranch
         /\ op = "jr" => encounteredBranch' /\ savedBranch' = a
         /\ op = "jal" => registers' = Written(RA, link)
         /\ encounteredBranch' => savedBranch' \in {branchTarget, a, jumpAddr}
         /\ info'.isOverflow <=> op \in Arithmetic /\ overflows
         /\ info'.isValid <=> op \in Legal
         /\ info'.isHalt <=> op = "halt"
         /\ info'.loadAddress = IF op \in DOMAIN LoadSize THEN dataAddress ELSE 0
         /\ info'.storeAddress = IF op \in DOMAIN StoreSize THEN dataAddress ELSE 0
<1>1. CASE Halt
  <2>1. StepRaises = FALSE
    BY <1>1, OpGroups DEF Halt, StepRaises
  <2> QED
    BY <1>1, <2>1, OpGroups DEF Halt, Proceeds, Returns, NewEntry
<1>2. CASE ComputesExactly
  <2>1. StepRaises = FALSE
    BY <1>2, OpGroups DEF ComputesExactly, StepRaises
  <2> QED
    BY <1>2, <2>1, OpGroups DEF ComputesExactly, Proceeds, Returns, NewEntry
<1>3. CASE Overflow
  <2>1. StepRaises = TRUE
    BY <1>3, OpGroups DEF Overflow, StepRaises
  <2> QED
    BY <1>3, <2>1, OpGroups DEF Overflow, Raises, Returns, NewEntry
<1>4. CASE Computes
  <2>1. StepRaises = FALSE
    BY <1>4, OpGroups DEF Computes, StepRaises
  <2> QED
    BY <1>4, <2>1, OpGroups DEF Computes, Proceeds, Returns, NewEntry
<1>5. CASE BranchTaken
  <2>1. StepRaises = FALSE
    BY <1>5, OpGroups DEF BranchTaken, StepRaises
  <2> QED
    BY <1>5, <2>1, OpGroups DEF BranchTaken, BranchesTo, Returns, NewEntry
<1>6. CASE BranchNotTaken
  <2>1. StepRaises = FALSE
    BY <1>6, OpGroups DEF BranchNotTaken, StepRaises
  <2> QED
    BY <1>6, <2>1, OpGroups DEF BranchNotTaken, Proceeds, Returns, NewEntry
<1>7. CASE Jump
  <2>1. StepRaises = FALSE
    BY <1>7, OpGroups DEF Jump, StepRaises
  <2> QED
    BY <1>7, <2>1, OpGroups DEF Jump, BranchesTo, Returns, NewEntry
<1>8. CASE JumpAndLink
  <2>1. StepRaises = FALSE
    BY <1>8, OpGroups DEF JumpAndLink, StepRaises
  <2> QED
    BY <1>8, <2>1, OpGroups DEF JumpAndLink, BranchesTo, Returns, NewEntry
<1>9. CASE Load
  <2>1. StepRaises = FALSE
    BY <1>9, OpGroups DEF Load, StepRaises
  <2> QED
    BY <1>9, <2>1, OpGroups DEF Load, Proceeds, Returns, NewEntry
<1>10. CASE Store
  <2>1. StepRaises = FALSE
    BY <1>10, OpGroups DEF Store, StepRaises
  <2> QED
    BY <1>10, <2>1, OpGroups DEF Store, Proceeds, Returns, NewEntry
<1>11. CASE Illegal
  <2>1. StepRaises = TRUE
    BY <1>11, OpGroups DEF Illegal, StepRaises
  <2> QED
    BY <1>11, <2>1, OpGroups DEF Illegal, Raises, Returns, NewEntry
<1> QED
  BY <1>1, <1>2, <1>3, <1>4, <1>5, <1>6, <1>7, <1>8, <1>9, <1>10, <1>11
     DEF executeInstruction

\* What an instruction does to registers and memory keeps their types.
LEMMA StepTypes ==
  ASSUME MachineOK, executeInstruction
  PROVE  MachineOK'
<1>1. /\ instruction.rt \in Register /\ instruction.rd \in Register
      /\ RegisterWritten \in Register /\ RA \in Register
  BY InstructionTypes, EmulatorAssumption DEF Instruction, RegisterWritten
<1>2. registers' \in Registers /\ memArr' \in MemArr
  <2>1. /\ Unwritten \in Registers /\ Written(RegisterWritten, result) \in Registers
        /\ Written(RA, link) \in Registers
    BY <1>1, WrittenType, ResultType, TargetTypes
  <2>2. ASSUME op \in DOMAIN LoadSize
        PROVE  Written(instruction.rt, getValue(memArr, dataAddress, LoadSize[op]))
                 \in Registers
    <3>1. getValue(memArr, dataAddress, LoadSize[op]) \in Word
      BY <2>2, SizeTypes, GetValueType DEF MachineOK
    <3> QED
      BY <1>1, <3>1, WrittenType
  <2>3. ASSUME op \in DOMAIN StoreSize
        PROVE  setValue(memArr, dataAddress, b, StoreSize[op]) \in MemArr
    BY <2>3, SizeTypes, SetValueType, InstructionTypes DEF MachineOK
  <2>4. memArr \in MemArr
    BY DEF MachineOK
  <2> QED
    BY <2>1, <2>2, <2>3, <2>4
       DEF executeInstruction, Halt, ComputesExactly, Overflow, Computes, BranchTaken,
           BranchNotTaken, Jump, JumpAndLink, Load, Store, Illegal
<1>3. PC' \in Word
  BY StepControl, InstructionTypes, EmulatorAssumption
<1>4. savedBranch' \in Word
  BY StepControl, InstructionTypes, TargetTypes DEF MachineOK
<1> QED
  BY <1>2, <1>3, <1>4 DEF MachineOK

LEMMA NewEntryType ==
  ASSUME MachineOK, executeInstruction, encounteredBranch \in BOOLEAN
  PROVE  NewEntry(StepRaises) \in PathEntry
<1>1. /\ PC \in Word /\ word \in Word /\ dataAddress \in Word
      /\ savedBranch' \in Word /\ encounteredBranch' \in BOOLEAN
  BY InstructionTypes, StepTypes, StepControl DEF MachineOK
<1>2. StepRaises \in BOOLEAN /\ (registers'[RA] # registers[RA]) \in BOOLEAN
  BY Zenon DEF StepRaises
<1> QED
  BY <1>1, <1>2 DEF NewEntry, PathEntry
=============================================================================
