--------------------------- MODULE CycleSimProofs ---------------------------
(***************************************************************************)
(* Theorems about the cycle-accurate simulator as a whole, for every       *)
(* instruction set, every program, every pair of caches and every argument *)
(* of runCycles.                                                           *)
(***************************************************************************)
EXTENDS CycleSim, EmulatorProofs, SequenceTheorems, FiniteSetTheorems

-----------------------------------------------------------------------------
(***************************************************************************)
(* A word as the pipeline sees it.                                         *)
(***************************************************************************)
LEMMA ClassOf ==
  ASSUME NEW o
  PROVE  /\ o # "halt" => Class(o) \in P!Op \ {"Halt"}
         /\ Class(o) = "Load" <=> o \in DOMAIN LoadSize
         /\ Class(o) = "Store" <=> o \in DOMAIN StoreSize
         /\ o \in {"add", "addu", "sub", "subu", "addi"} => Class(o) \in {"RType", "IType"}
         /\ Class(o) = "Illegal" <=> o \notin Legal
<1>1. DOMAIN LoadSize = {"lbu", "lhu", "lw"} /\ DOMAIN StoreSize = {"sb", "sh", "sw"}
  BY DEF LoadSize, StoreSize
<1>2. MemoryOps = {"lbu", "lhu", "lw", "sb", "sh", "sw"}
  BY <1>1 DEF MemoryOps
<1> QED
  BY <1>1, <1>2
     DEF Class, P!Op, RTypeOps, Legal, Arithmetic, Logical, Branches, Jumps

LEMMA PipeWordType ==
  ASSUME NEW w \in Word
  PROVE  /\ PipeWord(w) \in P!InstrWord
         /\ PipeWord(w).op = "Halt" <=> PipeWord(w) = P!HALT_INSTRUCTION
         /\ PipeWord(w) = P!HALT_INSTRUCTION <=> Decode[w].op = "halt"
         /\ P!isLoad(PipeWord(w)) <=> Decode[w].op \in DOMAIN LoadSize
         /\ P!isStore(PipeWord(w)) <=> Decode[w].op \in DOMAIN StoreSize
<1>1. /\ Decode[w].rs \in Nat /\ Decode[w].rt \in Nat /\ w \in Nat
  <2>1. Decode[w] \in Instruction /\ Register \subseteq Nat
    BY EmulatorAssumption
  <2>2. Decode[w].rs \in Register /\ Decode[w].rt \in Register
    BY <2>1 DEF Instruction
  <2>3. w \in Nat
    BY ModuliTypes DEF Word
  <2> QED
    BY <2>1, <2>2, <2>3
<1>2. CASE Decode[w].op = "halt"
  BY <1>2 DEF PipeWord, HALT_INSTRUCTION, P!HALT_INSTRUCTION, P!InstrWord, P!Op,
              P!isLoad, P!isStore, LoadSize, StoreSize
<1>3. CASE Decode[w].op # "halt"
  <2>1. PipeWord(w) = [op |-> Class(Decode[w].op), rs |-> Decode[w].rs,
                       rt |-> Decode[w].rt, dst |-> 0, imm |-> w]
    BY <1>3 DEF PipeWord
  <2>2. Class(Decode[w].op) \in P!Op \ {"Halt"}
    BY <1>3, ClassOf
  <2> QED
    BY <1>1, <1>3, <2>1, <2>2, ClassOf
       DEF P!HALT_INSTRUCTION, P!InstrWord, P!Op, P!isLoad, P!isStore
<1> QED
  BY <1>2, <1>3

-----------------------------------------------------------------------------
(***************************************************************************)
(* The invariant: the state of the emulator has its types, the static info *)
(* of the pipeline knows of the halt word what the emulator returned, and  *)
(* every load or store in a stage carries the address it was executed      *)
(* with.                                                                   *)
(***************************************************************************)
Stages == {pipe.ifInstr, pipe.idInstr, pipe.exInstr, pipe.memInstr, pipe.wbInstr}

FiveStages ==
  pipe = [ifInstr |-> pipe.ifInstr, idInstr |-> pipe.idInstr,
          exInstr |-> pipe.exInstr, memInstr |-> pipe.memInstr,
          wbInstr |-> pipe.wbInstr]

Carries(s) ==
  /\ s.addr \in Word
  /\ P!isLoad(s.instr) \/ P!isStore(s.instr) =>
       s.id \in 0 .. Len(path) - 1 /\ s.addr = path[s.id + 1].data

EmulatorOK ==
  /\ MachineOK
  /\ encounteredBranch \in BOOLEAN
  /\ path \in Seq(PathEntry)
  /\ din = Len(path)

FlagsOK ==
  /\ flags \in [isHalt : BOOLEAN, isValid : BOOLEAN, isOverflow : BOOLEAN,
                instructionID : Nat]
  /\ flags.isHalt <=> info.isHalt

Accesses ==
  /\ accessed \in Seq(Nat) /\ dPast \in Seq(Word) /\ Len(dPast) = Len(accessed)
  /\ \A k \in 1 .. Len(dPast) :
       accessed[k] < Len(path) /\ dPast[k] = path[accessed[k] + 1].data

SimInv ==
  EmulatorOK /\ FlagsOK /\ FiveStages /\ (\A s \in Stages : Carries(s)) /\ Accesses

LEMMA SimInit ==
  ASSUME Init
  PROVE  SimInv
<1>1. 0 \in Word
  BY ModuliTypes DEF Word
<1>2. EmulatorOK
  <2>1. registers \in Registers
    BY <1>1 DEF Init, EmulatorInit, Registers
  <2>2. memArr \in MemArr
    BY CycleSimAssumption DEF Init
  <2>3. path = <<>> /\ path \in Seq(PathEntry) /\ Len(path) = 0
    BY DEF Init, EmulatorInit
  <2> QED
    BY <1>1, <2>1, <2>2, <2>3 DEF Init, EmulatorInit, EmulatorOK, MachineOK
<1>3. FlagsOK
  BY DEF Init, P!Init, EmulatorInit, FlagsOK
<1>4. \A s \in Stages : Carries(s)
  BY <1>1 DEF Init, P!Init, Stages, Carries, P!EmptyPipe, P!Bubble, P!Nop, P!isLoad,
              P!isStore
<1>5. Accesses
  <2>1. accessed = <<>> /\ dPast = <<>>
    BY DEF Init, P!Init, D!Init
  <2> QED
    BY <2>1 DEF Accesses
<1>6. FiveStages
  BY DEF Init, P!Init, P!EmptyPipe, FiveStages
<1> QED
  BY <1>2, <1>3, <1>4, <1>5, <1>6 DEF SimInv

\* What the slots hold after a fetch and after any other cycle.
LEMMA FetchMoves ==
  ASSUME FiveStages, NEW i, NEW ovf, NEW x, P!FetchNew(i, ovf, x)
  PROVE  LET fetched == [instr |-> i, id |-> din,
                         addr |-> IF P!isLoad(i) \/ P!isStore(i) THEN x ELSE 0]
         IN  FiveStages' /\ Stages' \subseteq Stages \cup {fetched, P!Bubble}
  BY DEF P!FetchNew, P!Squashed, P!moveAllForward, Stages, FiveStages

LEMMA StallMoves ==
  ASSUME FiveStages, Stall
  PROVE  FiveStages' /\ Stages' \subseteq Stages \cup {P!Bubble}
<1>1. \/ pipe' = P!moveAllForward(pipe) \/ pipe' = P!insertNopException(pipe)
      \/ pipe' = P!stall_IF_stage(pipe) \/ pipe' = P!stall_IF_ID_EX_MEM_stage(pipe)
      \/ pipe' = P!BRANCH_stall(pipe) \/ pipe' = P!load_use_stall_stage(pipe)
  BY DEF Stall, P!BranchStallOnEx, P!LoadUseStall, P!BranchStallOnMem,
         P!BranchStallDelay, P!ArithmeticOverflow, P!IllegalInstruction,
         P!HaltInPipeline, P!ICacheMiss, P!DCacheMiss, P!HandleBranchStall
<1> QED
  BY <1>1 DEF P!moveAllForward, P!insertNopException, P!stall_IF_stage, Stages,
     FiveStages, P!stall_IF_ID_EX_MEM_stage, P!BRANCH_stall, P!load_use_stall_stage

-----------------------------------------------------------------------------
(***************************************************************************)
(* The invariant is kept.                                                  *)
(***************************************************************************)
LEMMA BubbleCarries ==
  Carries(P!Bubble)
<1>1. 0 \in Word
  BY ModuliTypes DEF Word
<1> QED
  BY <1>1 DEF Carries, P!Bubble, P!Nop, P!isLoad, P!isStore

\* The address a fetched word carries, and what the pipeline is told of it.
LEMMA Captured ==
  ASSUME EmulatorOK, executeInstruction
  PROVE  /\ CapturedAddress \in Word
         /\ op \in MemoryOps => CapturedAddress = dataAddress
         /\ info'.isOverflow \in BOOLEAN
<1>1. word \in Word /\ dataAddress \in Word /\ 0 \in Word
  BY InstructionTypes, ModuliTypes DEF EmulatorOK, Word
<1>2. P!isStore(PipeWord(word)) <=> op \in DOMAIN StoreSize
  BY <1>1, PipeWordType DEF op, instruction
<1>3. /\ info'.loadAddress = IF op \in DOMAIN LoadSize THEN dataAddress ELSE 0
      /\ info'.storeAddress = IF op \in DOMAIN StoreSize THEN dataAddress ELSE 0
  BY StepControl
<1>4. CapturedAddress = IF op \in DOMAIN StoreSize THEN info'.storeAddress
                        ELSE info'.loadAddress
  BY <1>2 DEF CapturedAddress
<1>5. info'.isOverflow \in BOOLEAN
  <2>1. \E r : Returns(r)
    BY Zenon DEF executeInstruction, Halt, ComputesExactly, Overflow, Computes,
       BranchTaken, BranchNotTaken, Jump, JumpAndLink, Load, Store, Illegal, Proceeds,
       BranchesTo, Raises
  <2> QED
    BY <2>1 DEF Returns
<1> QED
  BY <1>1, <1>3, <1>4, <1>5 DEF MemoryOps

LEMMA EmulatorStep ==
  ASSUME EmulatorOK, executeInstruction
  PROVE  /\ EmulatorOK'
         /\ Len(path') = Len(path) + 1
         /\ \A k \in 1 .. Len(path) : path'[k] = path[k]
         /\ path'[Len(path) + 1] = NewEntry(StepRaises)
<1>1. MachineOK' /\ encounteredBranch' \in BOOLEAN
  BY StepTypes, StepControl DEF EmulatorOK
<1>2. /\ path' = Append(path, NewEntry(StepRaises)) /\ din' = din + 1
      /\ NewEntry(StepRaises) \in PathEntry /\ path \in Seq(PathEntry)
  BY StepControl, NewEntryType DEF EmulatorOK
<1> QED
  BY <1>1, <1>2 DEF EmulatorOK

\* The D-cache is asked for the address of the slot that is now in MEM.
LEMMA AccessStep ==
  ASSUME SimInv, FiveStages', \A s \in Stages' : Carries(s)',
         EmulatorOK', Len(path) <= Len(path'),
         \A k \in 1 .. Len(path) : path'[k] = path[k],
         DCacheStep,
         \/ P!execute_DCACHE_write_Check
         \/ accessed' = accessed
  PROVE  Accesses'
<1>1. /\ accessed \in Seq(Nat) /\ dPast \in Seq(Word) /\ Len(dPast) = Len(accessed)
      /\ \A k \in 1 .. Len(dPast) :
           accessed[k] < Len(path) /\ dPast[k] = path[accessed[k] + 1].data
  BY DEF SimInv, Accesses
<1>2. Len(path) \in Nat /\ Len(path') \in Nat
  BY DEF SimInv, EmulatorOK
<1>3. ASSUME NEW k \in 1 .. Len(dPast)
      PROVE  accessed[k] < Len(path') /\ dPast[k] = path'[accessed[k] + 1].data
  <2>1. accessed[k] \in Nat /\ accessed[k] < Len(path)
    BY <1>1
  <2>2. accessed[k] + 1 \in 1 .. Len(path)
    BY <1>2, <2>1
  <2> QED
    BY <1>1, <1>2, <2>1, <2>2
<1>4. CASE accessed' = accessed
  <2>1. dPast' = dPast
    BY <1>4 DEF DCacheStep, dCacheVars
  <2> QED
    BY <1>1, <1>3, <1>4, <2>1 DEF Accesses
<1>5. CASE accessed' # accessed
  <2> DEFINE mem == pipe'.memInstr
  <2>1. /\ dPast' = Append(dPast, mem.addr)
        /\ accessed' = Append(accessed, mem.id)
        /\ P!isLoad(mem.instr) \/ P!isStore(mem.instr)
    BY <1>5 DEF DCacheStep, D!Hit, D!Miss, D!Accessed, P!execute_DCACHE_write_Check
  <2>2. /\ mem.addr \in Word
        /\ mem.id \in 0 .. Len(path') - 1 /\ mem.addr = path'[mem.id + 1].data
    BY <2>1 DEF Stages, Carries
  <2> HIDE DEF mem
  <2>3. mem.id \in Nat
    BY <2>2
  <2>4. accessed' \in Seq(Nat) /\ dPast' \in Seq(Word) /\ Len(dPast') = Len(accessed')
    BY <1>1, <2>1, <2>2, <2>3
  <2>5. ASSUME NEW k \in 1 .. Len(dPast')
        PROVE  accessed'[k] < Len(path') /\ dPast'[k] = path'[accessed'[k] + 1].data
    <3>1. CASE k \in 1 .. Len(dPast)
      <4>1. dPast'[k] = dPast[k] /\ accessed'[k] = accessed[k]
        BY <1>1, <2>1, <2>2, <2>3, <3>1
      <4> QED
        BY <1>3, <3>1, <4>1
    <3>2. CASE k = Len(dPast) + 1
      <4>1. dPast'[k] = mem.addr /\ accessed'[k] = mem.id
        BY <1>1, <2>1, <2>2, <2>3, <3>2
      <4> QED
        BY <1>2, <2>2, <4>1
    <3>3. Len(dPast') = Len(dPast) + 1 /\ Len(dPast) \in Nat
      BY <1>1, <2>1, <2>2
    <3> QED
      BY <3>1, <3>2, <3>3
  <2> QED
    BY <2>4, <2>5 DEF Accesses
<1> QED
  BY <1>4, <1>5

LEMMA FetchStep ==
  ASSUME SimInv, FetchNew
  PROVE  SimInv'
<1>1. EmulatorOK /\ executeInstruction
  BY DEF SimInv, FetchNew
<1>2. /\ EmulatorOK' /\ Len(path') = Len(path) + 1
      /\ \A k \in 1 .. Len(path) : path'[k] = path[k]
      /\ path'[Len(path) + 1] = NewEntry(StepRaises)
      /\ Len(path) \in Nat /\ din = Len(path)
  BY <1>1, EmulatorStep DEF EmulatorOK
<1>3. P!FetchNew(PipeWord(word), info'.isOverflow, CapturedAddress)
  BY DEF FetchNew
<1>4. /\ word \in Word /\ 0 \in Word /\ CapturedAddress \in Word
      /\ op \in MemoryOps => CapturedAddress = dataAddress
      /\ info'.isOverflow \in BOOLEAN
  BY <1>1, Captured, InstructionTypes, ModuliTypes DEF EmulatorOK, Word
<1>5. FlagsOK'
  <2>1. flags' = [isHalt |-> PipeWord(word) = P!HALT_INSTRUCTION,
                  isValid |-> PipeWord(word).op # "Illegal",
                  isOverflow |-> info'.isOverflow, instructionID |-> din]
    BY <1>3 DEF P!FetchNew, P!executeInstruction
  <2>2. info'.isHalt <=> op = "halt"
    BY <1>1, StepControl
  <2>3. PipeWord(word) = P!HALT_INSTRUCTION <=> op = "halt"
    BY <1>4, PipeWordType DEF op, instruction
  <2> QED
    BY <1>2, <1>4, <2>1, <2>2, <2>3 DEF FlagsOK
<1> DEFINE isAccess == P!isLoad(PipeWord(word)) \/ P!isStore(PipeWord(word))
           fetched == [instr |-> PipeWord(word), id |-> din,
                       addr |-> IF isAccess THEN CapturedAddress ELSE 0]
<1>6. FiveStages' /\ Stages' \subseteq Stages \cup {fetched, P!Bubble}
  BY <1>3, FetchMoves DEF SimInv
<1>7. isAccess <=> op \in MemoryOps
  BY <1>4, PipeWordType DEF op, instruction, MemoryOps
\* The history has grown: a slot that carried its address still does.
<1>8. ASSUME NEW s, Carries(s)
      PROVE  /\ s.addr \in Word
             /\ P!isLoad(s.instr) \/ P!isStore(s.instr) =>
                  s.id \in 0 .. Len(path') - 1 /\ s.addr = path'[s.id + 1].data
  <2>1. ASSUME P!isLoad(s.instr) \/ P!isStore(s.instr)
        PROVE  s.id \in 0 .. Len(path') - 1 /\ s.addr = path'[s.id + 1].data
    <3>1. s.id \in 0 .. Len(path) - 1 /\ s.addr = path[s.id + 1].data
      BY <1>8, <2>1 DEF Carries
    <3>2. s.id + 1 \in 1 .. Len(path)
      BY <1>2, <3>1
    <3> QED
      BY <1>2, <3>1, <3>2
  <2> QED
    BY <1>8, <2>1 DEF Carries
<1>9. /\ fetched.addr \in Word
      /\ P!isLoad(fetched.instr) \/ P!isStore(fetched.instr) =>
           /\ fetched.id \in 0 .. Len(path') - 1
           /\ fetched.addr = path'[fetched.id + 1].data
  <2>1. fetched.addr \in Word
    BY <1>4
  <2>2. ASSUME isAccess
        PROVE  path'[din + 1].data = dataAddress /\ fetched.addr = dataAddress
    <3>1. NewEntry(StepRaises).data = dataAddress
      BY <1>7, <2>2 DEF NewEntry
    <3> QED
      BY <1>2, <1>4, <1>7, <2>2, <3>1
  <2>3. fetched.instr = PipeWord(word) /\ fetched.id = din
        /\ din \in 0 .. Len(path') - 1
    BY <1>2
  <2> QED
    BY <2>1, <2>2, <2>3
<1> HIDE DEF fetched
<1>10. ASSUME NEW s \in Stages'
       PROVE  /\ s.addr \in Word
              /\ P!isLoad(s.instr) \/ P!isStore(s.instr) =>
                   s.id \in 0 .. Len(path') - 1 /\ s.addr = path'[s.id + 1].data
  BY <1>6, <1>8, <1>9, BubbleCarries DEF SimInv
<1>11. \A s \in Stages' : /\ s.addr \in Word
                          /\ P!isLoad(s.instr) \/ P!isStore(s.instr) =>
                               s.id \in 0 .. Len(path') - 1
                               /\ s.addr = path'[s.id + 1].data
  BY <1>10
<1>12. (\A s \in Stages : Carries(s))'
  BY <1>11 DEF Carries
<1>13. Accesses'
  <2>1. DCacheStep
    BY DEF FetchNew
  <2>2. P!execute_DCACHE_write_Check
    BY <1>3 DEF P!FetchNew
  <2>3. Len(path) <= Len(path')
    BY <1>2
  <2> QED
    BY <1>2, <1>6, <1>12, <2>1, <2>2, <2>3, AccessStep
<1> QED
  BY <1>2, <1>5, <1>6, <1>12, <1>13 DEF SimInv

LEMMA StallStep ==
  ASSUME SimInv, Stall
  PROVE  SimInv'
<1>1. UNCHANGED vars /\ DCacheStep
  BY DEF Stall
<1>2. EmulatorOK' /\ path' = path /\ info' = info
  BY <1>1 DEF vars, emulator, SimInv, EmulatorOK, MachineOK
<1>3. FlagsOK'
  <2>1. \/ flags' = flags
        \/ flags' = [flags EXCEPT !.isOverflow = FALSE]
        \/ flags' = [flags EXCEPT !.isValid = TRUE]
    BY DEF Stall, P!BranchStallOnEx, P!LoadUseStall, P!BranchStallOnMem,
           P!BranchStallDelay, P!ArithmeticOverflow, P!IllegalInstruction,
           P!HaltInPipeline, P!ICacheMiss, P!DCacheMiss, P!HandleBranchStall,
           P!OverflowTaken, P!IllegalTaken
  <2> QED
    BY <1>2, <2>1 DEF SimInv, FlagsOK
<1>4. FiveStages' /\ Stages' \subseteq Stages \cup {P!Bubble}
  BY StallMoves DEF SimInv
<1>5. (\A s \in Stages : Carries(s))'
  BY <1>2, <1>4, BubbleCarries DEF SimInv, Carries
<1>6. P!execute_DCACHE_write_Check \/ accessed' = accessed
  BY DEF Stall, P!BranchStallOnEx, P!LoadUseStall, P!BranchStallOnMem,
         P!BranchStallDelay, P!ArithmeticOverflow, P!IllegalInstruction,
         P!HaltInPipeline, P!ICacheMiss, P!DCacheMiss, P!HandleBranchStall
<1>7. Accesses'
  <2>1. Len(path) <= Len(path') /\ \A k \in 1 .. Len(path) : path'[k] = path[k]
    BY <1>2 DEF SimInv, EmulatorOK
  <2> QED
    BY <1>1, <1>2, <1>4, <1>5, <1>6, <2>1, AccessStep
<1> QED
  BY <1>2, <1>3, <1>4, <1>5, <1>7 DEF SimInv

LEMMA SimStep ==
  ASSUME SimInv, [Next]_cycleVars
  PROVE  SimInv'
<1>1. CASE UNCHANGED cycleVars
  BY <1>1 DEF cycleVars, vars, emulator, dCacheVars, SimInv, EmulatorOK, MachineOK,
              FlagsOK, FiveStages, Stages, Carries, Accesses
<1> QED
  BY <1>1, FetchStep, StallStep DEF Next, Finished

-----------------------------------------------------------------------------
(***************************************************************************)
(* The functional simulator.                                               *)
(***************************************************************************)
\* Its operators are those of the emulator.
LEMMA SameOperators ==
  ASSUME NEW x, NEW y, NEW z, NEW m
  PROVE  /\ F!Add(x, y) = Add(x, y) /\ F!Difference(x, y) = Difference(x, y)
         /\ F!Signed(x) = Signed(x) /\ F!signExt(x) = signExt(x)
         /\ F!checkOverflowUnsigned(x, y) = checkOverflowUnsigned(x, y)
         /\ F!checkOverflowSigned(x, y) = checkOverflowSigned(x, y)
         /\ F!checkUnderflowUnsigned(x, y) = checkUnderflowUnsigned(x, y)
         /\ F!checkUnderflowSigned(x, y) = checkUnderflowSigned(x, y)
         /\ F!And(x, y) = And(x, y) /\ F!Or(x, y) = Or(x, y) /\ F!Nor(x, y) = Nor(x, y)
         /\ F!getValue(m, x, y) = getValue(m, x, y)
         /\ F!setValue(m, x, y, z) = setValue(m, x, y, z)
<1>1. /\ F!Add(x, y) = Add(x, y) /\ F!Difference(x, y) = Difference(x, y)
      /\ F!Signed(x) = Signed(x) /\ F!signExt(x) = signExt(x)
  BY DEF F!HalfModulus, HalfModulus, F!WordModulus, WordModulus, F!SignBit, SignBit,
     F!INT32_MAX, INT32_MAX, F!INT32_MIN, INT32_MIN, F!UINT32_MAX, UINT32_MAX,
     F!Signed, Signed, F!signExt, signExt, F!Add, Add, F!Difference, Difference,
     F!checkOverflowUnsigned, checkOverflowUnsigned, F!checkOverflowSigned,
     checkOverflowSigned, F!checkUnderflowUnsigned, checkUnderflowUnsigned,
     F!checkUnderflowSigned, checkUnderflowSigned
<1>2. /\ F!checkOverflowUnsigned(x, y) = checkOverflowUnsigned(x, y)
      /\ F!checkOverflowSigned(x, y) = checkOverflowSigned(x, y)
      /\ F!checkUnderflowUnsigned(x, y) = checkUnderflowUnsigned(x, y)
      /\ F!checkUnderflowSigned(x, y) = checkUnderflowSigned(x, y)
  BY DEF F!HalfModulus, HalfModulus, F!WordModulus, WordModulus, F!SignBit, SignBit,
     F!INT32_MAX, INT32_MAX, F!INT32_MIN, INT32_MIN, F!UINT32_MAX, UINT32_MAX,
     F!Signed, Signed, F!signExt, signExt, F!Add, Add, F!Difference, Difference,
     F!checkOverflowUnsigned, checkOverflowUnsigned, F!checkOverflowSigned,
     checkOverflowSigned, F!checkUnderflowUnsigned, checkUnderflowUnsigned,
     F!checkUnderflowSigned, checkUnderflowSigned
<1>3. F!And(x, y) = And(x, y) /\ F!Or(x, y) = Or(x, y) /\ F!Nor(x, y) = Nor(x, y)
  BY DEF F!HalfModulus, HalfModulus, F!WordModulus, WordModulus, F!UINT32_MAX,
     UINT32_MAX, F!WordBits, WordBits, F!Bits, Bits, F!OfBits, OfBits, F!And, And,
     F!Or, Or, F!Nor, Nor
<1>4. /\ F!getValue(m, x, y) = getValue(m, x, y)
      /\ F!setValue(m, x, y, z) = setValue(m, x, y, z)
  BY DEF F!HalfModulus, HalfModulus, F!WordModulus, WordModulus, F!Byte, Byte,
     F!Cell, Cell, F!MemArr, MemArr, F!CellOf, CellOf, F!Reached, Reached,
     F!ByteWeight, ByteWeight, F!Weight, Weight, F!getValue, getValue, F!ByteAt,
     ByteAt, F!setValue, setValue
<1> QED
  BY <1>1, <1>2, <1>3, <1>4

LEMMA SameGroups ==
  /\ F!Arithmetic = Arithmetic /\ F!Logical = Logical /\ F!Branches = Branches
  /\ F!MemoryOps = MemoryOps /\ F!Legal = Legal /\ F!WORD_SIZE = WORD_SIZE
  /\ F!LoadSize = LoadSize /\ F!StoreSize = StoreSize /\ F!WordModulus = WordModulus
  /\ F!HalfModulus = HalfModulus
  BY DEF F!Arithmetic, Arithmetic, F!Logical, Logical, F!Branches, Branches,
     F!Jumps, Jumps, F!LoadSize, LoadSize, F!StoreSize, StoreSize, F!BYTE_SIZE,
     BYTE_SIZE, F!HALF_SIZE, HALF_SIZE, F!WORD_SIZE, WORD_SIZE, F!MemoryOps,
     MemoryOps, F!Legal, Legal, F!HalfModulus, HalfModulus, F!WordModulus,
     WordModulus

\* So are the operands and the result of the instruction it executes next.
LEMMA SameOperands ==
  /\ F!word = word /\ F!instruction = instruction /\ F!op = op /\ F!nextPC = nextPC
  /\ F!a = a /\ F!b = b /\ F!signExtImm = signExtImm /\ F!dataAddress = dataAddress
  /\ F!branchTarget = branchTarget /\ F!jumpAddr = jumpAddr /\ F!link = link
  /\ F!overflows = overflows /\ F!taken = taken /\ F!result = result
  /\ F!RegisterWritten = RegisterWritten
<1> USE SameOperators, SameGroups
<1>1. F!word = word /\ F!instruction = instruction /\ F!op = op /\ F!nextPC = nextPC
  BY DEF F!word, word, F!instruction, instruction, F!op, op, F!nextPC, nextPC
<1>2. F!a = a /\ F!b = b /\ F!signExtImm = signExtImm /\ F!dataAddress = dataAddress
  BY <1>1 DEF F!a, a, F!b, b, F!reg, reg, F!signExtImm, signExtImm, F!dataAddress,
     dataAddress
<1>3. F!branchTarget = branchTarget /\ F!jumpAddr = jumpAddr /\ F!link = link
  BY <1>1, <1>2 DEF F!branchTarget, branchTarget, F!jumpAddr, jumpAddr, F!link, link
<1>4. F!overflows = overflows
  BY <1>1, <1>2 DEF F!overflows, overflows
<1>5. F!taken = taken
  BY <1>1, <1>2 DEF F!taken, taken
<1>6. F!result = result
  <2>1. /\ F!Add(a, b) = Add(a, b) /\ F!Difference(a, b) = Difference(a, b)
        /\ F!Add(a, signExtImm) = Add(a, signExtImm)
        /\ F!And(a, b) = And(a, b) /\ F!Or(a, b) = Or(a, b) /\ F!Nor(a, b) = Nor(a, b)
        /\ F!And(a, instruction.imm) = And(a, instruction.imm)
        /\ F!Or(a, instruction.imm) = Or(a, instruction.imm)
        /\ F!Signed(a) = Signed(a) /\ F!Signed(b) = Signed(b)
        /\ F!Signed(signExtImm) = Signed(signExtImm)
        /\ F!WordModulus = WordModulus /\ F!HalfModulus = HalfModulus
    OBVIOUS
  <2>2. ASSUME NEW t
        PROVE  F!If1(t) = If1(t)
    BY DEF F!If1, If1
  <2> HIDE SameOperators, SameGroups
  <2> QED
    BY <1>1, <1>2, <2>1, <2>2 DEF F!result, result
<1>7. F!RegisterWritten = RegisterWritten
  BY <1>1 DEF F!RegisterWritten, RegisterWritten
<1> QED
  BY <1>1, <1>2, <1>3, <1>4, <1>5, <1>6, <1>7

\* It executes an instruction as the emulator of the pipeline does.
LEMMA SameInstruction ==
  F!executeInstruction <=> executeInstruction
  BY SameOperators, SameGroups, SameOperands DEF F!Written, Written, F!Unwritten,
     Unwritten, F!Returns, Returns, F!Proceeds, Proceeds, F!BranchesTo, BranchesTo,
     F!Raises, Raises, F!Halt, Halt, F!ComputesExactly, ComputesExactly, F!Overflow,
     Overflow, F!Computes, Computes, F!BranchTaken, BranchTaken, F!BranchNotTaken,
     BranchNotTaken, F!Jump, Jump, F!JumpAndLink, JumpAndLink, F!Load, Load,
     F!Store, Store, F!Illegal, Illegal, F!executeInstruction, executeInstruction

LEMMA FetchSignal ==
  ASSUME P!Control("FETCH_NEW")
  PROVE  ~flags.isHalt
  BY DEF P!Control, P!ControlSignal, P!HaltFetched

\* Timing changes nothing: what the cycle-accurate simulator executes, cycle by cycle
\* from src/src/cycle.cpp:384, is an execution of the functional one (src/src/funct.cpp),
\* and nothing is executed after the halt word.
THEOREM SameExecutionCorrect == Spec => SameExecution
<1>1. Init => F!Init
  BY CycleSimAssumption
     DEF Init, EmulatorInit, F!Init, F!EmulatorInit, F!MemArr, MemArr, F!Cell, Cell,
         F!Byte, Byte
<1>2. SimInv /\ [Next]_cycleVars => [F!Next]_(F!functVars)
  <2> SUFFICES ASSUME SimInv, [Next]_cycleVars
               PROVE  [F!Next]_(F!functVars)
    OBVIOUS
  <2>1. CASE FetchNew
    <3>1. F!executeInstruction /\ din < MaxInstr
      BY <2>1, SameInstruction DEF FetchNew
    <3>2. ~info.isHalt
      BY <2>1, FetchSignal DEF FetchNew, SimInv, FlagsOK
    <3> QED
      BY <3>1, <3>2 DEF F!Next, F!runInstructions
  <2>2. CASE UNCHANGED vars
    BY <2>2 DEF vars, emulator, F!functVars, F!vars, F!emulator
  <2> QED
    BY <2>1, <2>2 DEF Next, Stall, Finished, cycleVars
<1>3. Init => SimInv
  BY SimInit
<1>4. SimInv /\ [Next]_cycleVars => SimInv'
  BY SimStep
<1> QED
  BY <1>1, <1>2, <1>3, <1>4, PTL DEF Spec, SameExecution, F!Spec

-----------------------------------------------------------------------------
\* Every access of the D-cache is for the address its load or store was executed with
\* many cycles before, whatever stalls, squashes and exceptions there were in between
\* (src/src/cycle.cpp:361-381, :411-433).
THEOREM AddressesKeptCorrect == Spec => []AddressesKept
<1>1. SimInv => AddressesKept
  BY DEF SimInv, Accesses, AddressesKept
<1>2. Init => SimInv
  BY SimInit
<1>3. SimInv /\ [Next]_cycleVars => SimInv'
  BY SimStep
<1> QED
  BY <1>1, <1>2, <1>3, PTL DEF Spec

-----------------------------------------------------------------------------
(***************************************************************************)
(* The parts: the pipeline with a free environment and two caches.         *)
(***************************************************************************)
LEMMA FetchIsPipelineStep ==
  ASSUME SimInv, FetchNew
  PROVE  P!Next
<1>1. EmulatorOK /\ executeInstruction
  BY DEF SimInv, FetchNew
<1>2. word \in Word
  BY <1>1, InstructionTypes DEF EmulatorOK
<1>3. CapturedAddress \in Word /\ info'.isOverflow \in BOOLEAN
  BY <1>1, Captured
<1>4. P!FetchNew(PipeWord(word), info'.isOverflow, CapturedAddress)
  BY DEF FetchNew
<1>5. PipeWord(word) \in {PipeWord(w) : w \in Word}
  BY <1>2
<1>6. \E i \in {PipeWord(w) : w \in Word}, ovf \in BOOLEAN, x \in Word :
        P!FetchNew(i, ovf, x)
  BY <1>3, <1>4, <1>5, Zenon
<1> QED
  BY <1>6, Zenon DEF P!Next

\* The pipeline takes the steps of Pipeline, where every instruction, exception and
\* address that the emulator may deliver and every outcome of a cache is possible.
THEOREM PipelineImplemented == Spec => P!Spec
<1>1. Init => P!Init
  BY DEF Init
<1>2. SimInv /\ [Next]_cycleVars => [P!Next]_(P!vars)
  <2>1. ASSUME SimInv, FetchNew
        PROVE  P!Next
    BY <2>1, FetchIsPipelineStep
  <2>2. Stall => P!Next
    BY Zenon DEF Stall, P!Next
  <2>3. UNCHANGED cycleVars => UNCHANGED P!vars
    BY DEF cycleVars, vars, emulator, P!vars, P!delays, P!lastBranch, P!exceptions,
           P!history
  <2> QED
    BY <2>1, <2>2, <2>3 DEF Next, Finished
<1>3. Init => SimInv
  BY SimInit
<1>4. SimInv /\ [Next]_cycleVars => SimInv'
  BY SimStep
<1> QED
  BY <1>1, <1>2, <1>3, <1>4, PTL DEF Spec, P!Spec

\* The two caches take the steps of Cache: the I-cache is accessed once per instruction,
\* at PC, and the D-cache once per load or store that reaches MEM.
THEOREM CachesImplemented == Spec => I!Spec /\ D!Spec
<1>1. Init => I!Init /\ D!Init
  BY DEF Init
<1>2. SimInv /\ SimInv' /\ [Next]_cycleVars
        => [I!Next]_(I!vars) /\ [D!Next]_(D!vars)
  <2> SUFFICES ASSUME SimInv, SimInv', [Next]_cycleVars
               PROVE  [I!Next]_(I!vars) /\ [D!Next]_(D!vars)
    OBVIOUS
  <2>1. DCacheStep => [D!Next]_(D!vars)
    <3>1. pipe'.memInstr.addr \in Word
      BY DEF SimInv, Stages, Carries
    <3> QED
      BY <3>1 DEF DCacheStep, D!Next, D!vars, dCacheVars
  <2>2. CASE FetchNew
    <3>1. PC \in Word
      BY DEF SimInv, EmulatorOK, MachineOK
    <3> QED
      BY <2>1, <2>2, <3>1 DEF FetchNew, I!Next
  <2>3. CASE Stall
    BY <2>1, <2>3 DEF Stall, iCacheVars, I!vars
  <2>4. CASE UNCHANGED cycleVars
    BY <2>4 DEF cycleVars, iCacheVars, dCacheVars, I!vars, D!vars
  <2> QED
    BY <2>2, <2>3, <2>4 DEF Next, Finished
<1>3. Init => SimInv
  BY SimInit
<1>4. SimInv /\ [Next]_cycleVars => SimInv'
  BY SimStep
<1> QED
  BY <1>1, <1>2, <1>3, <1>4, PTL DEF Spec, I!Spec, D!Spec

-----------------------------------------------------------------------------
(***************************************************************************)
(* What is proved of Cache holds of the two caches of the simulator.       *)
(***************************************************************************)
IP == INSTANCE CacheProofs WITH
       cacheSize <- iCacheConfig.cacheSize, blockSize <- iCacheConfig.blockSize,
       ways <- iCacheConfig.ways,
       Addr <- Word, CounterModulus <- WordModulus, MaxAccess <- MaxInstr,
       cache <- iCache, lru <- iLru, hits <- iHits, misses <- iMisses, past <- iPast

DP == INSTANCE CacheProofs WITH
       cacheSize <- dCacheConfig.cacheSize, blockSize <- dCacheConfig.blockSize,
       ways <- dCacheConfig.ways,
       Addr <- Word, CounterModulus <- WordModulus, MaxAccess <- MaxInstr,
       cache <- dCache, lru <- dLru, hits <- dHits, misses <- dMisses, past <- dPast

LEMMA ICacheGeometry ==
  /\ iCacheConfig.cacheSize \in Nat /\ iCacheConfig.blockSize \in Nat
  /\ iCacheConfig.ways \in Nat \ {0}
  /\ iCacheConfig.blockSize >= 4
  /\ IP!numSets >= 1
  /\ Word \subseteq Nat
  /\ MaxInstr \in Nat
  /\ WordModulus \in Nat /\ MaxInstr < WordModulus
  /\ 2^0 = 1
  /\ \A n \in 0 .. iCacheConfig.blockSize + IP!numSets :
       2^n \in Nat /\ 2^(n + 1) = 2 * 2^n
<1>1. iCacheConfig \in CacheConfig /\ MaxInstr \in Nat /\ MaxInstr < WordModulus
  BY CycleSimAssumption
<1>2. /\ iCacheConfig.cacheSize \in Nat /\ iCacheConfig.blockSize \in Nat
      /\ iCacheConfig.ways \in Nat
  BY <1>1 DEF CacheConfig
<1>3. IP!numSets = I!numSets
  BY DEF I!numSets, IP!numSets
<1>4. Word \subseteq Nat /\ WordModulus \in Nat
  BY ModuliTypes DEF Word
<1> QED
  BY <1>1, <1>2, <1>3, <1>4, CachesAssumption

LEMMA SameICache ==
  /\ I!vars = IP!vars
  /\ I!Init <=> IP!Init
  /\ I!Next <=> IP!Next
  BY DEF I!numSets, IP!numSets, I!Log2, IP!Log2, I!blockOffset, IP!blockOffset,
     I!indexBits, IP!indexBits, I!byteOffset, IP!byteOffset, I!Set, IP!Set, I!Way,
     IP!Way, I!CacheEntry, IP!CacheEntry, I!getIndex, IP!getIndex, I!getTag,
     IP!getTag, I!vars, IP!vars, I!EmptyCache, IP!EmptyCache, I!NoAges, IP!NoAges,
     I!LRUincr, IP!LRUincr, I!FirstOf, IP!FirstOf, I!HitWays, IP!HitWays,
     I!findReplacementBlock, IP!findReplacementBlock, I!Accessed, IP!Accessed,
     I!Hit, IP!Hit, I!Miss, IP!Miss, I!Done, IP!Done, I!Init, IP!Init, I!Next,
     IP!Next

LEMMA DCacheGeometry ==
  /\ dCacheConfig.cacheSize \in Nat /\ dCacheConfig.blockSize \in Nat
  /\ dCacheConfig.ways \in Nat \ {0}
  /\ dCacheConfig.blockSize >= 4
  /\ DP!numSets >= 1
  /\ Word \subseteq Nat
  /\ MaxInstr \in Nat
  /\ WordModulus \in Nat /\ MaxInstr < WordModulus
  /\ 2^0 = 1
  /\ \A n \in 0 .. dCacheConfig.blockSize + DP!numSets :
       2^n \in Nat /\ 2^(n + 1) = 2 * 2^n
<1>1. dCacheConfig \in CacheConfig /\ MaxInstr \in Nat /\ MaxInstr < WordModulus
  BY CycleSimAssumption
<1>2. /\ dCacheConfig.cacheSize \in Nat /\ dCacheConfig.blockSize \in Nat
      /\ dCacheConfig.ways \in Nat
  BY <1>1 DEF CacheConfig
<1>3. DP!numSets = D!numSets
  BY DEF D!numSets, DP!numSets
<1>4. Word \subseteq Nat /\ WordModulus \in Nat
  BY ModuliTypes DEF Word
<1> QED
  BY <1>1, <1>2, <1>3, <1>4, CachesAssumption

LEMMA SameDCache ==
  /\ D!vars = DP!vars
  /\ D!Init <=> DP!Init
  /\ D!Next <=> DP!Next
  BY DEF D!numSets, DP!numSets, D!Log2, DP!Log2, D!blockOffset, DP!blockOffset,
     D!indexBits, DP!indexBits, D!byteOffset, DP!byteOffset, D!Set, DP!Set, D!Way,
     DP!Way, D!CacheEntry, DP!CacheEntry, D!getIndex, DP!getIndex, D!getTag,
     DP!getTag, D!vars, DP!vars, D!EmptyCache, DP!EmptyCache, D!NoAges, DP!NoAges,
     D!LRUincr, DP!LRUincr, D!FirstOf, DP!FirstOf, D!HitWays, DP!HitWays,
     D!findReplacementBlock, DP!findReplacementBlock, D!Accessed, DP!Accessed,
     D!Hit, DP!Hit, D!Miss, DP!Miss, D!Done, DP!Done, D!Init, DP!Init, D!Next,
     DP!Next

LEMMA ICacheRuns == I!Spec => IP!Spec
<1>1. I!Init => IP!Init
  BY SameICache
<1>2. [I!Next]_(I!vars) => [IP!Next]_(IP!vars)
  BY SameICache DEF I!vars, IP!vars
<1> QED
  BY <1>1, <1>2, PTL DEF I!Spec, IP!Spec

LEMMA DCacheRuns == D!Spec => DP!Spec
<1>1. D!Init => DP!Init
  BY SameDCache
<1>2. [D!Next]_(D!vars) => [DP!Next]_(DP!vars)
  BY SameDCache DEF D!vars, DP!vars
<1> QED
  BY <1>1, <1>2, PTL DEF D!Spec, DP!Spec

\* Both caches replace the least recently used block of a set, whatever the program
\* accesses and however the pipeline delays it (src/src/cache.cpp:45-103).
THEOREM CachesAreLRU == Spec => I!HitsAsLRU /\ D!HitsAsLRU
<1>1. IP!Spec => IP!HitsAsLRU
  BY ICacheGeometry, IP!HitsAsLRUCorrect
<1>2. IP!HitsAsLRU => I!HitsAsLRU
  <2>1. [iPast' # iPast =>
            LET block == IP!BlockOf(iPast'[Len(iPast')])
                before == {k \in 1 .. Len(iPast) : IP!BlockOf(iPast[k]) = block}
            IN  iHits' # iHits <=>
                  \E k \in before :
                    IP!Cardinality(IP!BlocksSince(k, IP!SetOf(block))) < iCacheConfig.ways]_(IP!vars)
      => [iPast' # iPast =>
            LET block == I!BlockOf(iPast'[Len(iPast')])
                before == {k \in 1 .. Len(iPast) : I!BlockOf(iPast[k]) = block}
            IN  iHits' # iHits <=>
                  \E k \in before :
                    I!Cardinality(I!BlocksSince(k, I!SetOf(block))) < iCacheConfig.ways]_(I!vars)
    BY DEF I!Cardinality, IP!Cardinality, I!numSets, IP!numSets, I!Log2,
       IP!Log2, I!blockOffset, IP!blockOffset,
       I!indexBits, IP!indexBits, I!byteOffset, IP!byteOffset, I!vars, IP!vars,
       I!BlockOf, IP!BlockOf, I!SetOf,
       IP!SetOf, I!BlocksSince, IP!BlocksSince
  <2> QED
    BY <2>1, PTL DEF I!HitsAsLRU, IP!HitsAsLRU
<1>3. DP!Spec => DP!HitsAsLRU
  BY DCacheGeometry, DP!HitsAsLRUCorrect
<1>4. DP!HitsAsLRU => D!HitsAsLRU
  <2>1. [dPast' # dPast =>
            LET block == DP!BlockOf(dPast'[Len(dPast')])
                before == {k \in 1 .. Len(dPast) : DP!BlockOf(dPast[k]) = block}
            IN  dHits' # dHits <=>
                  \E k \in before :
                    DP!Cardinality(DP!BlocksSince(k, DP!SetOf(block))) < dCacheConfig.ways]_(DP!vars)
      => [dPast' # dPast =>
            LET block == D!BlockOf(dPast'[Len(dPast')])
                before == {k \in 1 .. Len(dPast) : D!BlockOf(dPast[k]) = block}
            IN  dHits' # dHits <=>
                  \E k \in before :
                    D!Cardinality(D!BlocksSince(k, D!SetOf(block))) < dCacheConfig.ways]_(D!vars)
    BY DEF D!Cardinality, DP!Cardinality, D!numSets, DP!numSets, D!Log2,
       DP!Log2, D!blockOffset, DP!blockOffset,
       D!indexBits, DP!indexBits, D!byteOffset, DP!byteOffset, D!vars, DP!vars,
       D!BlockOf, DP!BlockOf, D!SetOf,
       DP!SetOf, D!BlocksSince, DP!BlocksSince
  <2> QED
    BY <2>1, PTL DEF D!HitsAsLRU, DP!HitsAsLRU
<1> QED
  BY <1>1, <1>2, <1>3, <1>4, ICacheRuns, DCacheRuns, CachesImplemented, PTL

\* Each of the two caches is a list of blocks per set in the order of their last use
\* (the refinement that CacheLRU states; src/src/cache.cpp:45-103).
THEOREM CachesAreLists == Spec => IP!ImplementsLRU /\ DP!ImplementsLRU
<1>1. IP!Spec => IP!ImplementsLRU
  BY ICacheGeometry, IP!ImplementsLRUCorrect
<1>2. DP!Spec => DP!ImplementsLRU
  BY DCacheGeometry, DP!ImplementsLRUCorrect
<1> QED
  BY <1>1, <1>2, ICacheRuns, DCacheRuns, CachesImplemented, PTL

-----------------------------------------------------------------------------
(***************************************************************************)
(* What is proved of Pipeline holds of the pipeline of the simulator.      *)
(***************************************************************************)
PP == INSTANCE HazardProofs WITH
        info <- flags,
        Instr <- {PipeWord(w) : w \in Word}, Addr <- Word,
        IMissLatency <- iCacheConfig.missLatency,
        DMissLatency <- dCacheConfig.missLatency,
        CycleModulus <- WordModulus, MaxInstr <- MaxInstr + 1

LEMMA PipelineConstants == PP!PipelineAssumption
<1>1. \A i \in {PipeWord(w) : w \in Word} :
        i \in P!InstrWord /\ (i.op = "Halt" <=> i = P!HALT_INSTRUCTION)
  BY PipeWordType
<1>2. P!InstrWord = PP!InstrWord /\ P!HALT_INSTRUCTION = PP!HALT_INSTRUCTION
  BY DEF P!InstrWord, PP!InstrWord, P!HALT_INSTRUCTION, PP!HALT_INSTRUCTION, P!Op, PP!Op
<1>3. Word \subseteq Nat /\ Word # {} /\ WordModulus \in Nat \ {0}
  BY ModuliTypes DEF Word
<1>4. /\ iCacheConfig.missLatency \in Nat /\ dCacheConfig.missLatency \in Nat
      /\ MaxInstr + 1 \in Nat \ {0}
  BY CycleSimAssumption DEF CacheConfig
<1> QED
  BY <1>1, <1>2, <1>3, <1>4 DEF PP!PipelineAssumption

\* The operators of the two instances are the same.
LEMMA SamePipeline ==
  /\ P!vars = PP!vars
  /\ P!Init <=> PP!Init
  /\ P!BranchStallOnEx <=> PP!BranchStallOnEx
  /\ P!LoadUseStall <=> PP!LoadUseStall
  /\ P!BranchStallOnMem <=> PP!BranchStallOnMem
  /\ P!BranchStallDelay <=> PP!BranchStallDelay
  /\ P!ArithmeticOverflow <=> PP!ArithmeticOverflow
  /\ P!IllegalInstruction <=> PP!IllegalInstruction
  /\ P!HaltInPipeline <=> PP!HaltInPipeline
  /\ P!ICacheMiss <=> PP!ICacheMiss
  /\ P!DCacheMiss <=> PP!DCacheMiss
  /\ \A i, ovf, x : P!FetchNew(i, ovf, x) <=> PP!FetchNew(i, ovf, x)
  /\ P!Next <=> PP!Next
<1>1. P!vars = PP!vars /\ (P!Init <=> PP!Init)
  BY DEF P!vars, PP!vars, P!delays, PP!delays, P!lastBranch, PP!lastBranch, P!exceptions,
     PP!exceptions, P!history, PP!history, P!Init, PP!Init, P!EmptyPipe, PP!EmptyPipe,
     P!Bubble, PP!Bubble, P!Nop, PP!Nop, P!NoId, PP!NoId
<1>2. /\ P!BranchStallOnEx <=> PP!BranchStallOnEx
      /\ P!LoadUseStall <=> PP!LoadUseStall
      /\ P!BranchStallOnMem <=> PP!BranchStallOnMem
      /\ P!BranchStallDelay <=> PP!BranchStallDelay
      /\ P!ArithmeticOverflow <=> PP!ArithmeticOverflow
      /\ P!IllegalInstruction <=> PP!IllegalInstruction
      /\ P!HaltInPipeline <=> PP!HaltInPipeline
      /\ P!ICacheMiss <=> PP!ICacheMiss
      /\ P!DCacheMiss <=> PP!DCacheMiss
  BY DEF P!Op, PP!Op, P!InstrWord, PP!InstrWord, P!Nop, PP!Nop, P!HALT_INSTRUCTION,
     PP!HALT_INSTRUCTION, P!lastBranch, PP!lastBranch, P!exceptions, PP!exceptions,
     P!NoId, PP!NoId, P!Bubble, PP!Bubble, P!isLoad, PP!isLoad, P!isStore, PP!isStore,
     P!isBranch, PP!isBranch, P!moveAllForward, PP!moveAllForward, P!insertNopException,
     PP!insertNopException, P!stall_IF_stage, PP!stall_IF_stage,
     P!stall_IF_ID_EX_MEM_stage, PP!stall_IF_ID_EX_MEM_stage, P!BRANCH_stall,
     PP!BRANCH_stall, P!load_use_stall_stage, PP!load_use_stall_stage, P!ID, PP!ID, P!EX,
     PP!EX, P!MEM, PP!MEM, P!Reg, PP!Reg, P!BranchOnEx, PP!BranchOnEx, P!LoadUse,
     PP!LoadUse, P!BranchOnMem, PP!BranchOnMem, P!HaltFetched, PP!HaltFetched,
     P!ControlSignal, PP!ControlSignal, P!BranchDelay, PP!BranchDelay, P!Less1, PP!Less1,
     P!execute_DCACHE_write_Check, PP!execute_DCACHE_write_Check, P!Uses, PP!Uses,
     P!LoadPairsNow, PP!LoadPairsNow, P!EndOfCycle, PP!EndOfCycle, P!Control, PP!Control,
     P!HandleBranchStall, PP!HandleBranchStall, P!BranchStallOnEx, PP!BranchStallOnEx,
     P!LoadUseStall, PP!LoadUseStall, P!BranchStallOnMem, PP!BranchStallOnMem,
     P!BranchStallDelay, PP!BranchStallDelay, P!OverflowNops, PP!OverflowNops,
     P!OverflowTaken, PP!OverflowTaken, P!ArithmeticOverflow, PP!ArithmeticOverflow,
     P!IllegalTaken, PP!IllegalTaken, P!IllegalInstruction, PP!IllegalInstruction,
     P!executeInstruction, PP!executeInstruction, P!Squashed, PP!Squashed, P!FetchNew,
     PP!FetchNew, P!HaltInPipeline, PP!HaltInPipeline, P!ICacheMiss, PP!ICacheMiss,
     P!DCacheMiss, PP!DCacheMiss
<1>3. ASSUME NEW i, NEW ovf, NEW x
      PROVE  P!FetchNew(i, ovf, x) <=> PP!FetchNew(i, ovf, x)
  BY DEF P!Op, PP!Op, P!InstrWord, PP!InstrWord, P!Nop, PP!Nop, P!HALT_INSTRUCTION,
     PP!HALT_INSTRUCTION, P!lastBranch, PP!lastBranch, P!exceptions, PP!exceptions,
     P!NoId, PP!NoId, P!Bubble, PP!Bubble, P!isLoad, PP!isLoad, P!isStore, PP!isStore,
     P!isBranch, PP!isBranch, P!moveAllForward, PP!moveAllForward, P!insertNopException,
     PP!insertNopException, P!stall_IF_stage, PP!stall_IF_stage,
     P!stall_IF_ID_EX_MEM_stage, PP!stall_IF_ID_EX_MEM_stage, P!BRANCH_stall,
     PP!BRANCH_stall, P!load_use_stall_stage, PP!load_use_stall_stage, P!ID, PP!ID, P!EX,
     PP!EX, P!MEM, PP!MEM, P!Reg, PP!Reg, P!BranchOnEx, PP!BranchOnEx, P!LoadUse,
     PP!LoadUse, P!BranchOnMem, PP!BranchOnMem, P!HaltFetched, PP!HaltFetched,
     P!ControlSignal, PP!ControlSignal, P!BranchDelay, PP!BranchDelay, P!Less1, PP!Less1,
     P!execute_DCACHE_write_Check, PP!execute_DCACHE_write_Check, P!Uses, PP!Uses,
     P!LoadPairsNow, PP!LoadPairsNow, P!EndOfCycle, PP!EndOfCycle, P!Control, PP!Control,
     P!HandleBranchStall, PP!HandleBranchStall, P!BranchStallOnEx, PP!BranchStallOnEx,
     P!LoadUseStall, PP!LoadUseStall, P!BranchStallOnMem, PP!BranchStallOnMem,
     P!BranchStallDelay, PP!BranchStallDelay, P!OverflowNops, PP!OverflowNops,
     P!OverflowTaken, PP!OverflowTaken, P!ArithmeticOverflow, PP!ArithmeticOverflow,
     P!IllegalTaken, PP!IllegalTaken, P!IllegalInstruction, PP!IllegalInstruction,
     P!executeInstruction, PP!executeInstruction, P!Squashed, PP!Squashed, P!FetchNew,
     PP!FetchNew, P!HaltInPipeline, PP!HaltInPipeline, P!ICacheMiss, PP!ICacheMiss,
     P!DCacheMiss, PP!DCacheMiss
<1>4. P!Halted <=> PP!Halted
  BY DEF P!Halted, PP!Halted, P!vars, PP!vars, P!delays, PP!delays, P!lastBranch,
     PP!lastBranch, P!exceptions, PP!exceptions, P!history, PP!history
<1> QED
  BY <1>1, <1>2, <1>3, <1>4 DEF P!Next, PP!Next

LEMMA SameSpec == P!Spec => PP!Spec
<1>1. P!Init => PP!Init
  BY SamePipeline
<1>2. [P!Next]_(P!vars) => [PP!Next]_(PP!vars)
  BY SamePipeline DEF P!vars, PP!vars, P!delays, PP!delays, P!lastBranch,
     PP!lastBranch, P!exceptions, PP!exceptions, P!history, PP!history
<1> QED
  BY <1>1, <1>2, PTL DEF P!Spec, PP!Spec

LEMMA PipelineTheorems ==
  Spec => /\ [](/\ PP!ProgramOrder /\ PP!RetiredInOrder /\ PP!AccessedInOrder
                /\ PP!NoneLost /\ PP!PreciseExceptions /\ PP!EveryAccessMade
                /\ PP!CycleBound)
          /\ PP!LoadInterlock /\ PP!BranchOperandsReady
<1>1. P!Spec => PP!Spec
  BY SameSpec
<1>2. /\ PP!Spec => []PP!ProgramOrder
      /\ PP!Spec => []PP!RetiredInOrder
      /\ PP!Spec => []PP!AccessedInOrder
  BY PipelineConstants, PP!ProgramOrderCorrect, PP!RetiredInOrderCorrect,
     PP!AccessedInOrderCorrect
<1>3. /\ PP!Spec => []PP!NoneLost
      /\ PP!Spec => []PP!PreciseExceptions
      /\ PP!Spec => []PP!EveryAccessMade
      /\ PP!Spec => []PP!CycleBound
  BY PipelineConstants, PP!NoneLostCorrect, PP!PreciseExceptionsCorrect,
     PP!EveryAccessMadeCorrect, PP!CycleBoundCorrect
<1>4. /\ PP!Spec => PP!LoadInterlock
      /\ PP!Spec => PP!BranchOperandsReady
  BY PipelineConstants, PP!LoadInterlockCorrect, PP!BranchOperandsReadyCorrect
<1> QED
  BY <1>1, <1>2, <1>3, <1>4, PipelineImplemented, PTL

\* Whatever program runs and whatever the caches do, the simulator retires and accesses
\* in program order, loses no instruction, lets none that raised an exception through,
\* makes every access and takes no more cycles than the instructions and their misses
\* account for (src/src/cycle.cpp:202-512).
THEOREM SimulatorPipelineCorrect ==
  Spec => [](/\ P!ProgramOrder /\ P!RetiredInOrder /\ P!AccessedInOrder
             /\ P!NoneLost /\ P!PreciseExceptions /\ P!EveryAccessMade
             /\ P!CycleBound)
<1>1. /\ PP!ProgramOrder => P!ProgramOrder
      /\ PP!RetiredInOrder => P!RetiredInOrder
      /\ PP!AccessedInOrder => P!AccessedInOrder
  BY DEF PP!ProgramOrder, P!ProgramOrder, PP!RetiredInOrder, P!RetiredInOrder,
     PP!AccessedInOrder, P!AccessedInOrder, PP!Increasing, P!Increasing, PP!Before,
     P!Before, PP!NoId, P!NoId
<1>2. /\ PP!NoneLost => P!NoneLost
      /\ PP!PreciseExceptions => P!PreciseExceptions
      /\ PP!EveryAccessMade => P!EveryAccessMade
  BY DEF PP!NoneLost, P!NoneLost, PP!PreciseExceptions, P!PreciseExceptions,
     PP!EveryAccessMade, P!EveryAccessMade, PP!InFlight, P!InFlight, PP!isLoad,
     P!isLoad, PP!isStore, P!isStore, PP!Range, P!Range
<1>3. PP!CycleBound => P!CycleBound
  BY DEF PP!CycleBound, P!CycleBound
<1> QED
  BY <1>1, <1>2, <1>3, PipelineTheorems, PTL

\* In every program, a consumer enters EX only after the load it waits for has left EX,
\* and a branch, while no exception interferes, after its operands are there
\* (src/src/cycle.cpp:202-306).
THEOREM SimulatorInterlocksCorrect == Spec => P!LoadInterlock /\ P!BranchOperandsReady
<1>1. PP!LoadInterlock => P!LoadInterlock
  <2>1. [/\ PP!isLoad(PP!EX) /\ PP!EX.rt \in PP!Uses(PP!ID)
         /\ pipe.idInstr.id # PP!NoId
         /\ PP!isBranch(PP!ID) => raised' = {}
         => pipe'.exInstr.id # pipe.idInstr.id]_(PP!vars)
      => [/\ P!isLoad(P!EX) /\ P!EX.rt \in P!Uses(P!ID)
          /\ pipe.idInstr.id # P!NoId
          /\ P!isBranch(P!ID) => raised' = {}
          => pipe'.exInstr.id # pipe.idInstr.id]_(P!vars)
    BY DEF P!vars, PP!vars, P!delays, PP!delays, P!lastBranch, PP!lastBranch,
       P!exceptions, PP!exceptions, P!history, PP!history, P!isLoad, PP!isLoad, P!ID, PP!ID,
       P!EX, PP!EX, P!Uses, PP!Uses, P!NoId, PP!NoId, P!isBranch, PP!isBranch
  <2> QED
    BY <2>1, PTL DEF PP!LoadInterlock, P!LoadInterlock
<1>2. PP!BranchOperandsReady => P!BranchOperandsReady
  <2>1. [/\ PP!isBranch(PP!ID) /\ pipe'.exInstr = pipe.idInstr
         /\ raised' = {}
         => /\ \A i \in {PP!EX, PP!MEM} : PP!isLoad(i) => i.rt \notin PP!Uses(PP!ID)
            /\ PP!EX.op = "IType" => PP!EX.rt \notin PP!Uses(PP!ID)]_(PP!vars)
      => [/\ P!isBranch(P!ID) /\ pipe'.exInstr = pipe.idInstr
          /\ raised' = {}
          => /\ \A i \in {P!EX, P!MEM} : P!isLoad(i) => i.rt \notin P!Uses(P!ID)
             /\ P!EX.op = "IType" => P!EX.rt \notin P!Uses(P!ID)]_(P!vars)
    BY DEF P!vars, PP!vars, P!delays, PP!delays, P!lastBranch, PP!lastBranch,
       P!exceptions, PP!exceptions, P!history, PP!history, P!isLoad, PP!isLoad, P!ID, PP!ID,
       P!EX, PP!EX, P!MEM, PP!MEM, P!Uses, PP!Uses, P!isBranch, PP!isBranch
  <2> QED
    BY <2>1, PTL DEF PP!BranchOperandsReady, P!BranchOperandsReady
<1> QED
  BY <1>1, <1>2, PipelineTheorems, PTL

-----------------------------------------------------------------------------
(***************************************************************************)
(* FlattenSeq, for the trace and the accesses: the lists are compared with *)
(* what the entries of path contribute to them, joined.                    *)
(***************************************************************************)
\* The function in the definition of FlattenSeq: its equation has a solution, and what it
\* joins up to some point depends on the sequence up to there only.
Flattened(q) ==
  CHOOSE f : f = [n \in 1 .. Len(q) |-> IF n = 1 THEN q[n] ELSE f[n - 1] \o q[n]]

LEMMA FlattenedUpTo ==
  ASSUME NEW q, Len(q) \in Nat \ {0}
  PROVE  /\ Flattened(q)[1] = q[1]
         /\ \A n \in 2 .. Len(q) : Flattened(q)[n] = Flattened(q)[n - 1] \o q[n]
<1> DEFINE Step(f, n) == IF n = 1 THEN q[n] ELSE f[n - 1] \o q[n]
           Rec(f, m) == /\ f = [n \in 1 .. m |-> f[n]]
                        /\ \A n \in 1 .. m : f[n] = Step(f, n)
           T == {m \in 0 .. Len(q) : \E f : Rec(f, m)}
<1>1. 0 \in T
  <2> DEFINE e == [n \in 1 .. 0 |-> q[1]]
  <2>1. e = [n \in 1 .. 0 |-> e[n]] /\ \A n \in 1 .. 0 : e[n] = Step(e, n)
    <3> HIDE DEF Step
    <3> QED
      OBVIOUS
  <2> HIDE DEF e
  <2>2. Rec(e, 0)
    BY <2>1
  <2> HIDE DEF Rec
  <2> QED
    BY <2>2
<1>2. ASSUME NEW m \in 0 .. Len(q) - 1, m \in T
      PROVE  m + 1 \in T
  <2>1. PICK f : Rec(f, m)
    BY <1>2
  <2> DEFINE g == [n \in 1 .. m + 1 |-> IF n = m + 1 THEN Step(f, n) ELSE f[n]]
  <2>2. ASSUME NEW n \in 1 .. m + 1
        PROVE  g[n] = Step(g, n)
    <3>1. n > 1 => g[n - 1] = f[n - 1]
      OBVIOUS
    <3>2. Step(g, n) = Step(f, n)
      BY <3>1
    <3>3. n \in 1 .. m => f[n] = Step(f, n)
      BY <2>1
    <3> QED
      BY <3>2, <3>3
  <2>3. g = [n \in 1 .. m + 1 |-> g[n]]
    OBVIOUS
  <2> HIDE DEF g
  <2>4. Rec(g, m + 1)
    BY <2>2, <2>3
  <2>5. m + 1 \in 0 .. Len(q)
    OBVIOUS
  <2> HIDE DEF Rec
  <2> QED
    BY <2>4, <2>5
<1>3. Len(q) \in T
  <2> DEFINE m == Len(q)
  <2>1. m \in Nat /\ m = Len(q)
    OBVIOUS
  <2> HIDE DEF T, m
  <2>2. \A k \in 0 .. m - 1 : k \in T => k + 1 \in T
    BY <1>2, <2>1
  <2>3. 0 .. m \subseteq T
    BY <1>1, <2>1, <2>2, UpTo
  <2> QED
    BY <2>1, <2>3
<1>4. PICK f : Rec(f, Len(q))
  BY <1>3
<1>5. f = [n \in 1 .. Len(q) |-> Step(f, n)]
  BY <1>4
<1>6. Flattened(q) = [n \in 1 .. Len(q) |-> Step(Flattened(q), n)]
  BY <1>5 DEF Flattened
<1>7. \A n \in 1 .. Len(q) : Flattened(q)[n] = Step(Flattened(q), n)
  <2> HIDE DEF Step
  <2> QED
    BY <1>6
<1>8. 1 \in 1 .. Len(q) /\ \A n \in 2 .. Len(q) : n \in 1 .. Len(q) /\ n # 1
  OBVIOUS
<1> QED
  BY <1>7, <1>8

LEMMA FlattenOf ==
  ASSUME NEW q, Len(q) \in Nat
  PROVE  FlattenSeq(q) = IF Len(q) = 0 THEN q ELSE Flattened(q)[Len(q)]
  BY DEF FlattenSeq, Flattened

\* What the last sequence adds.
LEMMA FlattenAppend ==
  ASSUME NEW S, NEW q \in Seq(Seq(S)), NEW s \in Seq(S)
  PROVE  /\ FlattenSeq(Append(q, s)) = FlattenSeq(q) \o s
         /\ FlattenSeq(q) \in Seq(S)
<1> DEFINE r == Append(q, s)
<1>1. /\ Len(q) \in Nat /\ Len(r) = Len(q) + 1
      /\ \A n \in 1 .. Len(q) : r[n] = q[n] /\ q[n] \in Seq(S)
      /\ r[Len(q) + 1] = s
  OBVIOUS
<1> HIDE DEF r
<1>2. /\ Flattened(r)[1] = r[1]
      /\ \A n \in 2 .. Len(r) : Flattened(r)[n] = Flattened(r)[n - 1] \o r[n]
  <2>1. Len(r) \in Nat \ {0}
    BY <1>1
  <2> QED
    BY <2>1, FlattenedUpTo
<1>3. CASE Len(q) = 0
  <2>1. q = <<>>
    BY <1>3
  <2>2. FlattenSeq(q) = <<>> /\ <<>> \o s = s /\ <<>> \in Seq(S)
    <3>1. FlattenSeq(q) = q
      BY <1>1, <1>3, FlattenOf
    <3> QED
      BY <2>1, <3>1, ConcatEmptySeq
  <2>3. FlattenSeq(r) = s
    <3>1. Len(r) = 1 /\ Len(r) \in Nat /\ Len(r) # 0 /\ r[1] = s
      BY <1>1, <1>3
    <3>2. FlattenSeq(r) = Flattened(r)[Len(r)]
      BY <3>1, FlattenOf
    <3> QED
      BY <1>2, <3>1, <3>2
  <2> QED
    BY <2>2, <2>3 DEF r
<1>4. CASE Len(q) # 0
  <2>1. /\ Flattened(q)[1] = q[1]
        /\ \A n \in 2 .. Len(q) : Flattened(q)[n] = Flattened(q)[n - 1] \o q[n]
    BY <1>1, <1>4, FlattenedUpTo
  <2> DEFINE T == {m \in 0 .. Len(q) - 1 :
                     /\ Flattened(r)[m + 1] = Flattened(q)[m + 1]
                     /\ Flattened(q)[m + 1] \in Seq(S)}
  <2>2. 0 \in T
    BY <1>1, <1>2, <1>4, <2>1
  <2>3. ASSUME NEW m \in 0 .. (Len(q) - 1) - 1, m \in T
        PROVE  m + 1 \in T
    <3>1. m + 2 \in 2 .. Len(q) /\ m + 2 \in 2 .. Len(r) /\ (m + 2) - 1 = m + 1
          /\ m + 1 \in 0 .. Len(q) - 1 /\ (m + 1) + 1 = m + 2
      BY <1>1
    <3>2. /\ Flattened(r)[m + 2] = Flattened(r)[m + 1] \o r[m + 2]
          /\ Flattened(q)[m + 2] = Flattened(q)[m + 1] \o q[m + 2]
      BY <1>2, <2>1, <3>1
    <3>3. r[m + 2] = q[m + 2] /\ q[m + 2] \in Seq(S)
      BY <1>1, <3>1
    <3>4. Flattened(q)[m + 1] \o q[m + 2] \in Seq(S)
      BY <2>3, <3>3, ConcatProperties
    <3> QED
      BY <2>3, <3>1, <3>2, <3>3, <3>4
  <2>4. Len(q) - 1 \in Nat
    BY <1>1, <1>4
  <2>5. Len(q) - 1 \in T
    <3> DEFINE last == Len(q) - 1
    <3>1. last \in Nat /\ \A m \in 0 .. last - 1 : m \in T => m + 1 \in T
      BY <2>3, <2>4
    <3> HIDE DEF T, last
    <3>2. 0 .. last \subseteq T
      BY <2>2, <3>1, UpTo
    <3> QED
      BY <3>1, <3>2 DEF last
  <2>6. (Len(q) - 1) + 1 = Len(q) /\ Len(r) \in 2 .. Len(r) /\ Len(r) - 1 = Len(q)
    BY <1>1, <1>4
  <2>7. Flattened(r)[Len(q)] = Flattened(q)[Len(q)] /\ Flattened(q)[Len(q)] \in Seq(S)
    BY <2>5, <2>6
  <2>8. Flattened(r)[Len(r)] = Flattened(r)[Len(q)] \o r[Len(r)]
    BY <1>2, <2>6
  <2>9. FlattenSeq(r) = Flattened(r)[Len(r)] /\ FlattenSeq(q) = Flattened(q)[Len(q)]
    BY <1>1, <1>4, FlattenOf
  <2> QED
    BY <1>1, <2>7, <2>8, <2>9 DEF r
<1> QED
  BY <1>3, <1>4

-----------------------------------------------------------------------------
(***************************************************************************)
(* What the exceptions and the order of the stages say of the slots.       *)
(***************************************************************************)
PipelineOK == PP!TypeOK /\ PP!OrderInv /\ PP!ExceptionInv

LEMMA PipelineAlwaysOK == Spec => []PipelineOK
<1>1. P!Spec => PP!Spec
  BY SameSpec
<1>2. /\ PP!Spec => []PP!TypeOK
      /\ PP!Spec => []PP!OrderInv
      /\ PP!Spec => []PP!ExceptionInv
  BY PipelineConstants, PP!TypeCorrect, PP!OrderInvariant, PP!ExceptionInvariant
<1> QED
  BY <1>1, <1>2, PipelineImplemented, PTL DEF PipelineOK

LEMMA SlotsOK ==
  ASSUME PipelineOK
  PROVE  /\ \A s \in Stages : /\ s.id \in Nat \cup {-1} /\ s.id < din
                              /\ s.id = -1 => s = P!Bubble
         /\ din \in Nat /\ -1 \notin raised /\ din \notin raised
         /\ pipe.memInstr.id \notin raised
         /\ squashEX => pipe.exInstr.id \in raised
         /\ squashID => pipe.idInstr.id \in raised
         /\ raised = {} => flags.isValid /\ ~squashID /\ ~squashEX
<1>1. /\ PP!TypeOK /\ pipe \in PP!PipeState /\ raised \subseteq Nat /\ din \in Nat
      /\ squashEX \in BOOLEAN /\ squashID \in BOOLEAN
  BY DEF PipelineOK, PP!TypeOK
<1>2. \A s \in Stages : s \in PP!Slot
  BY <1>1 DEF Stages, PP!PipeState
<1>3. \A s \in PP!Slot : s.id \in Nat \cup {-1} /\ (s.id = -1 => s = P!Bubble)
  BY DEF PP!Slot, PP!Bubble, P!Bubble, PP!NoId, P!NoId, PP!Nop, P!Nop
<1>4. \A s \in Stages : s.id < din
  BY DEF PipelineOK, PP!OrderInv, PP!StagesBelow, Stages
<1>5. /\ pipe.memInstr.id \notin raised /\ \A r \in raised : r < din
      /\ squashEX => pipe.exInstr.id \in raised
      /\ squashID => pipe.idInstr.id \in raised
      /\ ~flags.isValid => pipe.ifInstr.id \in raised
  BY DEF PipelineOK, PP!ExceptionInv, PP!NoOtherVictim, PP!VictimInPlace,
         PP!OverflowInEX, PP!IllegalInID, PP!IllegalInIF
<1>6. -1 \notin raised /\ din \notin raised
  BY <1>1, <1>5
<1>7. \A s \in Stages : /\ s.id \in Nat \cup {-1} /\ s.id < din
                        /\ s.id = -1 => s = P!Bubble
  BY <1>2, <1>3, <1>4
<1>8. raised = {} => flags.isValid /\ ~squashID /\ ~squashEX
  BY <1>5
<1> QED
  BY <1>1, <1>5, <1>6, <1>7, <1>8

-----------------------------------------------------------------------------
\* Where the instructions are after a cycle without a fetch, and whether the one that
\* is now in MEM has just come there.
LEMMA StallShape ==
  ASSUME FiveStages, Stall
  PROVE  \/ /\ accessed' = accessed
            /\ pipe'.wbInstr = P!Bubble
            /\ pipe'.memInstr = pipe.memInstr /\ pipe'.exInstr = pipe.exInstr
            /\ pipe'.idInstr = pipe.idInstr /\ pipe'.ifInstr = pipe.ifInstr
         \/ /\ P!execute_DCACHE_write_Check
            /\ pipe'.wbInstr = pipe.memInstr /\ pipe'.memInstr = pipe.exInstr
            /\ \/ /\ pipe'.exInstr = P!Bubble
                  /\ pipe'.idInstr = pipe.idInstr /\ pipe'.ifInstr = pipe.ifInstr
               \/ /\ pipe'.exInstr = pipe.idInstr
                  /\ pipe'.idInstr = P!Bubble /\ pipe'.ifInstr = pipe.ifInstr
               \/ /\ pipe'.exInstr = pipe.idInstr
                  /\ pipe'.idInstr = pipe.ifInstr /\ pipe'.ifInstr = P!Bubble
<1>1. \/ pipe' = P!stall_IF_ID_EX_MEM_stage(pipe) /\ accessed' = accessed
      \/ /\ P!execute_DCACHE_write_Check
         /\ \/ pipe' = P!moveAllForward(pipe) \/ pipe' = P!insertNopException(pipe)
            \/ pipe' = P!stall_IF_stage(pipe) \/ pipe' = P!BRANCH_stall(pipe)
            \/ pipe' = P!load_use_stall_stage(pipe)
  BY DEF Stall, P!BranchStallOnEx, P!LoadUseStall, P!BranchStallOnMem,
         P!BranchStallDelay, P!ArithmeticOverflow, P!IllegalInstruction,
         P!HaltInPipeline, P!ICacheMiss, P!DCacheMiss, P!HandleBranchStall
<1>2. pipe' = P!stall_IF_ID_EX_MEM_stage(pipe)
      => /\ pipe'.wbInstr = P!Bubble
         /\ pipe'.memInstr = pipe.memInstr /\ pipe'.exInstr = pipe.exInstr
         /\ pipe'.idInstr = pipe.idInstr /\ pipe'.ifInstr = pipe.ifInstr
  BY DEF P!stall_IF_ID_EX_MEM_stage, FiveStages
<1> QED
  BY <1>1, <1>2 DEF P!moveAllForward, P!insertNopException, P!stall_IF_stage,
     P!BRANCH_stall, P!load_use_stall_stage

LEMMA FetchShape ==
  ASSUME PipelineOK, NEW i, NEW ovf, NEW x, P!FetchNew(i, ovf, x)
  PROVE  /\ pipe'.wbInstr = pipe.memInstr
         /\ pipe'.memInstr = pipe.exInstr
            \/ (pipe'.memInstr = P!Bubble /\ pipe.exInstr.id \in raised)
         /\ pipe'.exInstr = pipe.idInstr
            \/ (pipe'.exInstr = P!Bubble /\ pipe.idInstr.id \in raised)
         /\ pipe'.idInstr = pipe.ifInstr
         /\ pipe'.ifInstr = [instr |-> i, id |-> din,
                             addr |-> IF P!isLoad(i) \/ P!isStore(i) THEN x ELSE 0]
<1> DEFINE fetched == [instr |-> i, id |-> din,
                       addr |-> IF P!isLoad(i) \/ P!isStore(i) THEN x ELSE 0]
<1>1. pipe' = [P!Squashed EXCEPT !.ifInstr = fetched]
  BY DEF P!FetchNew
<1>2. /\ squashEX => pipe.exInstr.id \in raised
      /\ squashID => pipe.idInstr.id \in raised
  BY SlotsOK
<1> HIDE DEF fetched
<1>3. P!Squashed = [ifInstr |-> P!Bubble, idInstr |-> pipe.ifInstr,
                    exInstr |-> IF squashID THEN P!Bubble ELSE pipe.idInstr,
                    memInstr |-> IF ~squashID /\ squashEX THEN P!Bubble
                                 ELSE pipe.exInstr,
                    wbInstr |-> pipe.memInstr]
  BY DEF P!Squashed, P!moveAllForward
<1>4. pipe' = [ifInstr |-> fetched, idInstr |-> pipe.ifInstr,
               exInstr |-> IF squashID THEN P!Bubble ELSE pipe.idInstr,
               memInstr |-> IF ~squashID /\ squashEX THEN P!Bubble
                            ELSE pipe.exInstr,
               wbInstr |-> pipe.memInstr]
  BY <1>1, <1>3
<1>5. /\ pipe'.ifInstr = fetched /\ pipe'.idInstr = pipe.ifInstr
      /\ pipe'.wbInstr = pipe.memInstr
      /\ pipe'.exInstr = IF squashID THEN P!Bubble ELSE pipe.idInstr
      /\ pipe'.memInstr = IF ~squashID /\ squashEX THEN P!Bubble ELSE pipe.exInstr
  BY <1>4
<1>6. /\ pipe'.exInstr = pipe.idInstr
         \/ (pipe'.exInstr = P!Bubble /\ pipe.idInstr.id \in raised)
      /\ pipe'.memInstr = pipe.exInstr
         \/ (pipe'.memInstr = P!Bubble /\ pipe.exInstr.id \in raised)
  BY <1>2, <1>5
<1> QED
  BY <1>5, <1>6 DEF fetched

-----------------------------------------------------------------------------
(***************************************************************************)
(* The trace.  Every instruction with an effect is in the file or still on *)
(* its way to WB, and the halt word is the last of them.                   *)
(***************************************************************************)
Names == OP_IDS \cup RTypeOps \cup {"HALT", "nop", "ILLEGAL"}
Lines == Seq(Names)
LineOf(s) == IF s.id \in raised THEN <<>> ELSE Entry(s.instr)
Then(s, t) == s \o t
Joined(w, m, e, d, f) == Then(w, Then(m, Then(e, Then(d, f))))
Dumped == IF fileInit THEN pipeOut ELSE <<>>
Reported ==
  Joined(Dumped, LineOf(pipe.memInstr), LineOf(pipe.exInstr), LineOf(pipe.idInstr),
         LineOf(pipe.ifInstr))

HaltLast ==
  \A s \in Stages : s.instr = P!HALT_INSTRUCTION => flags.isHalt /\ s.id = din - 1

TraceInv ==
  /\ HaltLast
  /\ Dumped \in Lines
  /\ cycles = 1 => count = 0 /\ Reported = Shown
  /\ status = "HALT" => /\ pipe.wbInstr.instr = P!HALT_INSTRUCTION
                        /\ fileInit
                        /\ Last(pipeOut) = "HALT"

LEMMA EntryType ==
  ASSUME NEW i
  PROVE  Entry(i) \in Lines /\ Entry(P!Nop) = <<>>
<1>1. printInstr(i) \in Names
  BY DEF printInstr, Names
<1>2. printInstr(P!Nop) = "nop"
  BY DEF printInstr, HALT_INSTRUCTION, P!Nop
<1> QED
  BY <1>1, <1>2 DEF Entry, Lines

LEMMA LineTypes ==
  ASSUME PipelineOK
  PROVE  /\ \A s : LineOf(s) \in Lines
         /\ \A s : s.id \in raised => LineOf(s) = <<>>
         /\ LineOf(P!Bubble) = <<>>
         /\ LineOf(pipe.memInstr) = Entry(pipe.memInstr.instr)
<1>1. <<>> \in Lines
  BY DEF Lines
<1>2. \A s : LineOf(s) \in Lines
  BY <1>1, EntryType DEF LineOf
<1> QED
  BY <1>2, EntryType, SlotsOK DEF LineOf, P!Bubble

LEMMA ThenProperties ==
  ASSUME NEW S, NEW s \in Seq(S), NEW t \in Seq(S), NEW u \in Seq(S)
  PROVE  /\ Then(Then(s, t), u) = Then(s, Then(t, u))
         /\ Then(s, t) \in Seq(S)
         /\ Then(s, <<>>) = s /\ Then(<<>>, s) = s
  BY ConcatAssociative, ConcatProperties, ConcatEmptySeq DEF Then

\* What leaves the pipeline at one end is what it had first, what enters comes last.
LEMMA Shift ==
  ASSUME NEW S, NEW w \in Seq(S), NEW m \in Seq(S), NEW e \in Seq(S), NEW d \in Seq(S),
         NEW f \in Seq(S)
  PROVE  /\ Joined(Then(w, m), e, <<>>, d, f) = Joined(w, m, e, d, f)
         /\ Joined(Then(w, m), e, d, <<>>, f) = Joined(w, m, e, d, f)
         /\ Joined(Then(w, m), e, d, f, <<>>) = Joined(w, m, e, d, f)
         /\ Joined(w, m, e, d, f) \in Seq(S)
         /\ \A n \in Seq(S) :
              Joined(Then(w, m), e, d, f, n) = Then(Joined(w, m, e, d, f), n)
<1>1. \A s, t, u \in Seq(S) : Then(Then(s, t), u) = Then(s, Then(t, u))
  BY ThenProperties
<1>2. \A s, t \in Seq(S) : Then(s, t) \in Seq(S)
  BY ThenProperties
<1>3. \A s \in Seq(S) : Then(s, <<>>) = s /\ Then(<<>>, s) = s
  BY ThenProperties
<1>4. Then(d, f) \in Seq(S) /\ Then(e, Then(d, f)) \in Seq(S)
      /\ Then(m, Then(e, Then(d, f))) \in Seq(S) /\ Then(w, m) \in Seq(S)
      /\ Then(w, Then(m, Then(e, Then(d, f)))) \in Seq(S)
  BY <1>2
<1>5. Then(Then(w, m), Then(e, Then(d, f))) = Then(w, Then(m, Then(e, Then(d, f))))
  BY <1>1, <1>4
<1>6. Then(<<>>, Then(d, f)) = Then(d, f) /\ Then(<<>>, f) = f /\ Then(f, <<>>) = f
  BY <1>3, <1>4
<1>7. ASSUME NEW n \in Seq(S)
      PROVE  Then(Then(w, m), Then(e, Then(d, Then(f, n))))
               = Then(Then(w, Then(m, Then(e, Then(d, f)))), n)
  <2>1. Then(d, Then(f, n)) = Then(Then(d, f), n)
    BY <1>1
  <2>2. Then(e, Then(Then(d, f), n)) = Then(Then(e, Then(d, f)), n)
    BY <1>1, <1>4
  <2>3. Then(Then(w, m), Then(Then(e, Then(d, f)), n))
          = Then(Then(Then(w, m), Then(e, Then(d, f))), n)
    BY <1>1, <1>4
  <2> QED
    BY <1>5, <2>1, <2>2, <2>3
<1> QED
  BY <1>4, <1>5, <1>6, <1>7 DEF Joined

LEMMA PrefixOfJoined ==
  ASSUME NEW S, NEW s \in Seq(S), NEW t \in Seq(S)
  PROVE  IsPrefix(s, s \o t)
<1>1. /\ s \o t \in Seq(S) /\ Len(s \o t) = Len(s) + Len(t)
      /\ \A k \in 1 .. Len(s) : (s \o t)[k] = s[k]
      /\ Len(s) \in Nat /\ Len(t) \in Nat
  OBVIOUS
<1> DEFINE u == s \o t
<1>2. \A k \in 1 .. Len(s) : u[k] = s[k]
  BY <1>1
<1>3. Len(s) <= Len(u) /\ u \in Seq(S) /\ Len(u) \in Nat
  BY <1>1
<1> HIDE DEF u
<1>4. SubSeq(s, 1, Len(s)) = SubSeq(u, 1, Len(s))
  BY <1>1, <1>2, <1>3
<1> QED
  BY <1>3, <1>4 DEF IsPrefix, u

-----------------------------------------------------------------------------
LEMMA ShownGrows ==
  ASSUME EmulatorOK, executeInstruction
  PROVE  /\ Shown' = Shown \o ShownBy(NewEntry(StepRaises))
         /\ Shown \in Lines
<1> DEFINE q == [k \in DOMAIN path |-> ShownBy(path[k])]
           r == [k \in DOMAIN path' |-> ShownBy(path'[k])]
           s == ShownBy(NewEntry(StepRaises))
<1>1. /\ Len(path') = Len(path) + 1 /\ Len(path) \in Nat
      /\ \A k \in 1 .. Len(path) : path'[k] = path[k]
      /\ path'[Len(path) + 1] = NewEntry(StepRaises)
      /\ DOMAIN path = 1 .. Len(path) /\ DOMAIN path' = 1 .. Len(path')
  BY EmulatorStep DEF EmulatorOK
<1>2. \A e : ShownBy(e) \in Lines
  BY EntryType DEF ShownBy, Lines
<1>3. q \in Seq(Lines) /\ s \in Lines
  BY <1>1, <1>2
<1>4. r = Append(q, s)
  BY <1>1
<1>5. FlattenSeq(Append(q, s)) = FlattenSeq(q) \o s /\ FlattenSeq(q) \in Lines
  <2> HIDE DEF q, r, s
  <2> QED
    BY <1>3, FlattenAppend DEF Lines
<1>6. Shown = FlattenSeq(q) /\ Shown' = FlattenSeq(r)
  BY DEF Shown, ShownBy, Entry, printInstr, PipeWord, Class
<1> QED
  BY <1>4, <1>5, <1>6

\* With an argument of 1 every call is one cycle, and ends with a dump.
LEMMA EveryCycleDumped ==
  ASSUME cycles = 1, count = 0, CallStep
  PROVE  count' = 0 /\ cycles' = 1
         /\ Dumped' = Then(Dumped, Entry(pipe'.wbInstr.instr))
<1>1. (count + 1) % WordModulus = 1
  BY ModuliTypes
<1>2. count' = 0 /\ dumpPipeState /\ cycles' = 1
  BY <1>1 DEF CallStep
<1> QED
  BY <1>2 DEF dumpPipeState, Dumped, Then

\* The halt word is written by the last call.
LEMMA HaltDumped ==
  ASSUME CallStep, P!EndOfCycle, status' = "HALT"
  PROVE  /\ pipe'.wbInstr.instr = P!HALT_INSTRUCTION
         /\ fileInit'
         /\ Dumped \in Lines => Last(pipeOut') = "HALT"
<1>1. pipe'.wbInstr.instr = P!HALT_INSTRUCTION
  BY DEF P!EndOfCycle
<1>2. Entry(P!HALT_INSTRUCTION) = <<"HALT">>
  <2>1. P!HALT_INSTRUCTION = HALT_INSTRUCTION /\ HALT_INSTRUCTION # P!Nop
    BY DEF HALT_INSTRUCTION, P!HALT_INSTRUCTION, P!Nop
  <2>2. printInstr(HALT_INSTRUCTION) = "HALT"
    BY <2>1 DEF printInstr
  <2> QED
    BY <2>1, <2>2 DEF Entry
<1>3. fileInit' /\ pipeOut' = Dumped \o <<"HALT">>
  BY <1>1, <1>2 DEF CallStep, dumpPipeState, Dumped
<1>4. ASSUME NEW q \in Lines
      PROVE  Last(q \o <<"HALT">>) = "HALT"
  <2>1. q \o <<"HALT">> = Append(q, "HALT")
    BY <1>4 DEF Lines
  <2> QED
    BY <1>4, <2>1 DEF Last, Lines
<1> QED
  BY <1>1, <1>3, <1>4

LEMMA StallEnds ==
  ASSUME SimInv, Stall
  PROVE  /\ P!EndOfCycle /\ CallStep /\ UNCHANGED <<din, raised, path>>
         /\ flags'.isHalt = flags.isHalt
<1>1. P!EndOfCycle /\ raised' = raised
  BY DEF Stall, P!BranchStallOnEx, P!LoadUseStall, P!BranchStallOnMem,
         P!BranchStallDelay, P!ArithmeticOverflow, P!IllegalInstruction,
         P!HaltInPipeline, P!ICacheMiss, P!DCacheMiss, P!HandleBranchStall
<1>2. \/ flags' = flags
      \/ flags' = [flags EXCEPT !.isOverflow = FALSE]
      \/ flags' = [flags EXCEPT !.isValid = TRUE]
  BY DEF Stall, P!BranchStallOnEx, P!LoadUseStall, P!BranchStallOnMem,
         P!BranchStallDelay, P!ArithmeticOverflow, P!IllegalInstruction,
         P!HaltInPipeline, P!ICacheMiss, P!DCacheMiss, P!HandleBranchStall,
         P!OverflowTaken, P!IllegalTaken
<1>3. flags'.isHalt = flags.isHalt
  BY <1>2 DEF SimInv, FlagsOK
<1>4. CallStep /\ UNCHANGED <<din, path>>
  BY DEF Stall, vars, emulator
<1> QED
  BY <1>1, <1>3, <1>4

LEMMA DumpedType ==
  ASSUME Dumped \in Lines, CallStep
  PROVE  Dumped' \in Lines
<1>1. CASE UNCHANGED <<fileInit, pipeOut>>
  BY <1>1 DEF Dumped
<1>2. CASE dumpPipeState
  <2>1. Dumped' = Then(Dumped, Entry(pipe'.wbInstr.instr))
    BY <1>2 DEF dumpPipeState, Dumped, Then
  <2> QED
    BY <2>1, EntryType, ThenProperties DEF Lines
<1> QED
  BY <1>1, <1>2 DEF CallStep

LEMMA TraceStallStep ==
  ASSUME SimInv, PipelineOK, TraceInv, Stall
  PROVE  TraceInv'
<1>1. /\ P!EndOfCycle /\ CallStep /\ UNCHANGED <<din, raised, path>>
      /\ flags'.isHalt = flags.isHalt
  BY StallEnds
<1>2. HaltLast'
  <2>1. Stages' \subseteq Stages \cup {P!Bubble}
    BY StallMoves DEF SimInv
  <2>2. P!Bubble.instr # P!HALT_INSTRUCTION
    BY DEF P!Bubble, P!Nop, P!HALT_INSTRUCTION
  <2> QED
    BY <1>1, <2>1, <2>2 DEF TraceInv, HaltLast
<1>3. Dumped \in Lines /\ Dumped' \in Lines
  BY <1>1, DumpedType DEF TraceInv
<1>4. ASSUME cycles' = 1
      PROVE  count' = 0 /\ Reported' = Shown'
  <2>1. cycles = 1
    BY <1>1, <1>4 DEF CallStep
  <2>2. count' = 0 /\ Dumped' = Then(Dumped, Entry(pipe'.wbInstr.instr))
    BY <1>1, <2>1, EveryCycleDumped DEF TraceInv
  <2>3. /\ \A s : LineOf(s) \in Seq(Names)
        /\ LineOf(pipe.memInstr) = Entry(pipe.memInstr.instr)
        /\ LineOf(P!Bubble) = <<>> /\ Entry(P!Bubble.instr) = <<>>
    BY LineTypes, EntryType DEF P!Bubble, Lines
  <2>4. Dumped \in Seq(Names)
    BY <1>3 DEF Lines
  <2>5. Joined(Dumped', LineOf(pipe'.memInstr), LineOf(pipe'.exInstr),
               LineOf(pipe'.idInstr), LineOf(pipe'.ifInstr)) = Reported
    <3>1. CASE /\ pipe'.wbInstr = P!Bubble
               /\ pipe'.memInstr = pipe.memInstr /\ pipe'.exInstr = pipe.exInstr
               /\ pipe'.idInstr = pipe.idInstr /\ pipe'.ifInstr = pipe.ifInstr
      <4>1. Dumped' = Dumped
        BY <2>2, <2>3, <2>4, <3>1, ThenProperties
      <4> QED
        BY <3>1, <4>1 DEF Reported
    <3>2. CASE /\ pipe'.wbInstr = pipe.memInstr /\ pipe'.memInstr = pipe.exInstr
               /\ \/ /\ pipe'.exInstr = P!Bubble
                     /\ pipe'.idInstr = pipe.idInstr /\ pipe'.ifInstr = pipe.ifInstr
                  \/ /\ pipe'.exInstr = pipe.idInstr
                     /\ pipe'.idInstr = P!Bubble /\ pipe'.ifInstr = pipe.ifInstr
                  \/ /\ pipe'.exInstr = pipe.idInstr
                     /\ pipe'.idInstr = pipe.ifInstr /\ pipe'.ifInstr = P!Bubble
      <4>1. Dumped' = Then(Dumped, LineOf(pipe.memInstr))
        BY <2>2, <2>3, <3>2
      <4>2. \A m, e, d, f \in Seq(Names) :
              /\ Joined(Then(Dumped, m), e, <<>>, d, f) = Joined(Dumped, m, e, d, f)
              /\ Joined(Then(Dumped, m), e, d, <<>>, f) = Joined(Dumped, m, e, d, f)
              /\ Joined(Then(Dumped, m), e, d, f, <<>>) = Joined(Dumped, m, e, d, f)
        BY <2>4, Shift
      <4>3. /\ Joined(Dumped', LineOf(pipe.exInstr), <<>>, LineOf(pipe.idInstr),
                      LineOf(pipe.ifInstr)) = Reported
            /\ Joined(Dumped', LineOf(pipe.exInstr), LineOf(pipe.idInstr), <<>>,
                      LineOf(pipe.ifInstr)) = Reported
            /\ Joined(Dumped', LineOf(pipe.exInstr), LineOf(pipe.idInstr),
                      LineOf(pipe.ifInstr), <<>>) = Reported
        BY <2>3, <4>1, <4>2 DEF Reported
      <4> QED
        BY <2>3, <3>2, <4>3
    <3> QED
      BY <3>1, <3>2, StallShape DEF SimInv
  <2>6. Reported = Shown
    BY <2>1 DEF TraceInv
  <2>7. Shown' = Shown
    BY <1>1 DEF Shown, ShownBy, Entry, printInstr
  <2>8. Reported' = Joined(Dumped', LineOf(pipe'.memInstr), LineOf(pipe'.exInstr),
                           LineOf(pipe'.idInstr), LineOf(pipe'.ifInstr))
    BY <1>1 DEF Reported, LineOf
  <2> QED
    BY <2>2, <2>5, <2>6, <2>7, <2>8
<1>5. status' = "HALT" => /\ pipe'.wbInstr.instr = P!HALT_INSTRUCTION
                          /\ fileInit' /\ Last(pipeOut') = "HALT"
  BY <1>1, <1>3, HaltDumped
<1> QED
  BY <1>2, <1>3, <1>4, <1>5 DEF TraceInv, Last

\* An overflow is one of an arithmetic instruction, so it is not illegal.
LEMMA RaisedWord ==
  ASSUME EmulatorOK, executeInstruction
  PROVE  /\ StepRaises <=> (info'.isOverflow \/ PipeWord(word).op = "Illegal")
         /\ info'.isOverflow => PipeWord(word).op # "Illegal"
<1>1. PipeWord(word).op = "Illegal" <=> op \notin Legal
  <2>1. CASE op = "halt"
    BY <2>1 DEF op, instruction, PipeWord, HALT_INSTRUCTION, Legal
  <2>2. CASE op # "halt"
    BY <2>2, ClassOf DEF op, instruction, PipeWord
  <2> QED
    BY <2>1, <2>2
<1>2. info'.isOverflow <=> (op \in Arithmetic /\ overflows)
  BY StepControl, Zenon
<1>3. Arithmetic \subseteq Legal
  BY DEF Arithmetic, Legal
<1> QED
  BY <1>1, <1>2, <1>3, Zenon DEF StepRaises

\* The instruction that is fetched: it raises an exception in the pipeline if it did
\* in the emulator, and its line is that of its entry in path.
LEMMA FetchedLine ==
  ASSUME SimInv, PipelineOK, FetchNew
  PROVE  /\ din \in raised' <=> StepRaises
         /\ \A k : k # din => (k \in raised' <=> k \in raised)
         /\ flags'.isHalt <=> PipeWord(word) = P!HALT_INSTRUCTION
         /\ din' = din + 1
<1>1. EmulatorOK /\ executeInstruction
  BY DEF SimInv, FetchNew
<1>2. word \in Word
  BY <1>1, InstructionTypes DEF EmulatorOK
<1>3. P!executeInstruction(PipeWord(word), info'.isOverflow)
  BY DEF FetchNew, P!FetchNew
<1>4. StepRaises <=> (info'.isOverflow \/ PipeWord(word).op = "Illegal")
  BY <1>1, RaisedWord
<1>5. raised' = IF info'.isOverflow \/ PipeWord(word).op = "Illegal"
                THEN raised \cup {din} ELSE raised
  BY <1>3 DEF P!executeInstruction
<1>6. din \notin raised
  BY SlotsOK
<1>7. flags'.isHalt <=> PipeWord(word) = P!HALT_INSTRUCTION
  BY <1>3 DEF P!executeInstruction
<1>8. din' = din + 1
  BY <1>1, StepControl
<1>9. CASE StepRaises
  BY <1>4, <1>5, <1>6, <1>7, <1>8, <1>9
<1>10. CASE ~StepRaises
  BY <1>4, <1>5, <1>6, <1>7, <1>8, <1>10
<1> QED
  BY <1>9, <1>10

LEMMA TraceFetchStep ==
  ASSUME SimInv, PipelineOK, TraceInv, FetchNew
  PROVE  TraceInv'
<1> DEFINE i == PipeWord(word)
           fetched == [instr |-> i, id |-> din,
                       addr |-> IF P!isLoad(i) \/ P!isStore(i) THEN CapturedAddress
                                ELSE 0]
<1>1. /\ P!FetchNew(i, info'.isOverflow, CapturedAddress) /\ CallStep
      /\ EmulatorOK /\ executeInstruction
  BY DEF FetchNew, SimInv
<1>2. /\ pipe'.wbInstr = pipe.memInstr
      /\ pipe'.memInstr = pipe.exInstr
         \/ (pipe'.memInstr = P!Bubble /\ pipe.exInstr.id \in raised)
      /\ pipe'.exInstr = pipe.idInstr
         \/ (pipe'.exInstr = P!Bubble /\ pipe.idInstr.id \in raised)
      /\ pipe'.idInstr = pipe.ifInstr
      /\ pipe'.ifInstr = fetched
  BY <1>1, FetchShape
<1>3. fetched.instr = i /\ fetched.id = din
  OBVIOUS
<1> HIDE DEF fetched
<1>4. HaltLast'
  <2>1. ~flags.isHalt
    BY <1>1, FetchSignal DEF P!FetchNew
  <2>2. Stages' \subseteq Stages \cup {fetched, P!Bubble}
    BY <1>2 DEF Stages
  <2>3. P!Bubble.instr # P!HALT_INSTRUCTION
    BY DEF P!Bubble, P!Nop, P!HALT_INSTRUCTION
  <2>4. \A s \in Stages : s.instr # P!HALT_INSTRUCTION
    BY <2>1 DEF TraceInv, HaltLast
  <2>5. (flags'.isHalt <=> i = P!HALT_INSTRUCTION) /\ din = din' - 1
    <3>1. din \in Nat
      BY SlotsOK
    <3> QED
      BY <3>1, FetchedLine
  <2>6. \A s \in Stages' : s.instr = P!HALT_INSTRUCTION
                           => flags'.isHalt /\ s.id = din' - 1
    BY <1>3, <2>2, <2>3, <2>4, <2>5
  <2> QED
    BY <2>6 DEF HaltLast
<1>5. P!EndOfCycle
  BY <1>1 DEF P!FetchNew
<1>6. Dumped \in Lines /\ Dumped' \in Lines
  BY <1>1, DumpedType DEF TraceInv
<1>7. ASSUME cycles' = 1
      PROVE  count' = 0 /\ Reported' = Shown'
  <2> DEFINE Line(s) == IF s.id \in raised' THEN <<>> ELSE Entry(s.instr)
  <2>1. cycles = 1
    BY <1>1, <1>7 DEF CallStep
  <2>2. count' = 0 /\ Dumped' = Then(Dumped, Entry(pipe'.wbInstr.instr))
    BY <1>1, <2>1, EveryCycleDumped DEF TraceInv
  <2>3. /\ \A s : LineOf(s) \in Seq(Names)
        /\ \A s : s.id \in raised => LineOf(s) = <<>>
        /\ LineOf(pipe.memInstr) = Entry(pipe.memInstr.instr)
    BY LineTypes DEF Lines
  <2>4. Dumped \in Seq(Names)
    BY <1>6 DEF Lines
  <2>5. ASSUME NEW s, s \in Stages \/ s = P!Bubble
        PROVE  Line(s) = LineOf(s)
    <3>1. s.id # din
      <4>1. din \in Nat /\ \A t \in Stages : t.id \in Nat \cup {-1} /\ t.id < din
        BY SlotsOK
      <4>2. P!Bubble.id = -1
        BY DEF P!Bubble, P!NoId
      <4> QED
        BY <2>5, <4>1, <4>2
    <3>2. s.id \in raised' <=> s.id \in raised
      BY <3>1, FetchedLine
    <3> QED
      BY <3>2 DEF LineOf
  <2>6. Line(fetched) = ShownBy(NewEntry(StepRaises))
    <3>1. NewEntry(StepRaises).word = word /\ NewEntry(StepRaises).raised = StepRaises
      BY DEF NewEntry
    <3>2. fetched.id \in raised' <=> StepRaises
      BY <1>3, FetchedLine
    <3> QED
      BY <1>3, <3>1, <3>2 DEF ShownBy
  <2>7. ShownBy(NewEntry(StepRaises)) \in Seq(Names)
    BY EntryType DEF ShownBy, Lines
  <2>8. Reported' = Joined(Dumped', Line(pipe'.memInstr), Line(pipe'.exInstr),
                           Line(pipe'.idInstr), Line(pipe'.ifInstr))
    BY DEF Reported, LineOf, Entry, printInstr
  <2> HIDE DEF Line
  <2>9. /\ LineOf(P!Bubble) = <<>>
        /\ Line(pipe'.memInstr) = LineOf(pipe.exInstr)
        /\ Line(pipe'.exInstr) = LineOf(pipe.idInstr)
        /\ Line(pipe'.idInstr) = LineOf(pipe.ifInstr)
    <3>1. LineOf(P!Bubble) = <<>>
      BY LineTypes
    <3>2. /\ Line(P!Bubble) = <<>> /\ Line(pipe.exInstr) = LineOf(pipe.exInstr)
          /\ Line(pipe.idInstr) = LineOf(pipe.idInstr)
          /\ Line(pipe.ifInstr) = LineOf(pipe.ifInstr)
      BY <2>5, <3>1 DEF Stages
    <3>3. /\ pipe.exInstr.id \in raised => LineOf(pipe.exInstr) = <<>>
          /\ pipe.idInstr.id \in raised => LineOf(pipe.idInstr) = <<>>
      BY <2>3
    <3> QED
      BY <1>2, <3>1, <3>2, <3>3
  <2>10. Dumped' = Then(Dumped, LineOf(pipe.memInstr))
    BY <1>2, <2>2, <2>3
  <2>11. \A m, e, d, f, n \in Seq(Names) :
           Joined(Then(Dumped, m), e, d, f, n) = Then(Joined(Dumped, m, e, d, f), n)
    BY <2>4, Shift
  <2>12. Joined(Dumped', LineOf(pipe.exInstr), LineOf(pipe.idInstr),
                LineOf(pipe.ifInstr), ShownBy(NewEntry(StepRaises)))
           = Then(Reported, ShownBy(NewEntry(StepRaises)))
    BY <2>3, <2>7, <2>10, <2>11 DEF Reported
  <2>13. Reported = Shown
    BY <2>1 DEF TraceInv
  <2>14. Shown' = Then(Shown, ShownBy(NewEntry(StepRaises)))
    BY <1>1, ShownGrows DEF Then
  <2> QED
    BY <1>2, <2>2, <2>6, <2>8, <2>9, <2>12, <2>13, <2>14
<1>8. status' = "HALT" => /\ pipe'.wbInstr.instr = P!HALT_INSTRUCTION
                          /\ fileInit' /\ Last(pipeOut') = "HALT"
  BY <1>1, <1>5, <1>6, HaltDumped
<1> QED
  BY <1>4, <1>6, <1>7, <1>8 DEF TraceInv, Last

LEMMA TraceInit ==
  ASSUME Init
  PROVE  TraceInv
<1>1. /\ fileInit = FALSE /\ count = 0 /\ path = <<>> /\ raised = {}
      /\ status = "SUCCESS" /\ pipe = P!EmptyPipe
  BY DEF Init, P!Init, EmulatorInit
<1>2. P!Bubble.instr = P!Nop /\ P!Nop # P!HALT_INSTRUCTION
  BY DEF P!Bubble, P!Nop, P!HALT_INSTRUCTION
<1>3. HaltLast
  BY <1>1, <1>2 DEF HaltLast, Stages, P!EmptyPipe
<1>4. Dumped = <<>> /\ <<>> \in Lines
  BY <1>1 DEF Dumped, Lines
<1>5. LineOf(P!Bubble) = <<>>
  BY <1>2, EntryType DEF LineOf
<1>6. Joined(<<>>, <<>>, <<>>, <<>>, <<>>) = <<>>
  <2>1. Then(<<>>, <<>>) = <<>>
    BY <1>4, ThenProperties DEF Lines
  <2> QED
    BY <2>1 DEF Joined
<1>7. Reported = <<>>
  BY <1>1, <1>4, <1>5, <1>6 DEF Reported, P!EmptyPipe
<1>8. Shown = <<>>
  <2>1. Shown = FlattenSeq(<<>>)
    BY <1>1 DEF Shown
  <2>2. Len(<<>>) = 0 /\ Len(<<>>) \in Nat
    OBVIOUS
  <2>3. FlattenSeq(<<>>) = <<>>
    BY <2>2, FlattenOf, Zenon
  <2> QED
    BY <2>1, <2>3
<1> QED
  BY <1>1, <1>3, <1>4, <1>7, <1>8 DEF TraceInv

LEMMA TraceStep ==
  ASSUME SimInv, PipelineOK, TraceInv, [Next]_cycleVars
  PROVE  TraceInv'
<1>1. CASE UNCHANGED cycleVars
  <2>1. /\ UNCHANGED <<pipe, flags, raised, status, cycles, count, fileInit, pipeOut>>
        /\ UNCHANGED <<din, path>>
    BY <1>1 DEF cycleVars, vars, emulator
  <2>2. Shown' = Shown
    BY <2>1 DEF Shown, ShownBy, Entry, printInstr
  <2>3. HaltLast' <=> HaltLast
    BY <2>1 DEF HaltLast, Stages
  <2>4. Dumped' = Dumped
    BY <2>1 DEF Dumped
  <2>5. Reported' = Reported
    BY <2>1, <2>4 DEF Reported, LineOf, Entry, printInstr
  <2> QED
    BY <2>1, <2>2, <2>3, <2>4, <2>5 DEF TraceInv, Last
<1> QED
  BY <1>1, TraceFetchStep, TraceStallStep DEF Next, Finished

\* When the halt word is in WB there is nothing behind it.
LEMMA NothingBehindHalt ==
  ASSUME SimInv, PipelineOK, HaltLast, pipe.wbInstr.instr = P!HALT_INSTRUCTION
  PROVE  \A s \in {pipe.memInstr, pipe.exInstr, pipe.idInstr, pipe.ifInstr} :
           s = P!Bubble
<1>1. pipe.wbInstr.id = din - 1 /\ pipe.wbInstr.id # -1
  <2>1. P!Bubble.instr # P!HALT_INSTRUCTION
    BY DEF P!Bubble, P!Nop, P!HALT_INSTRUCTION
  <2> QED
    BY <2>1, SlotsOK DEF HaltLast, Stages
<1>2. \A s \in {pipe.memInstr, pipe.exInstr, pipe.idInstr, pipe.ifInstr} :
        s.id = -1 \/ s.id > pipe.wbInstr.id
  BY <1>1 DEF PipelineOK, PP!OrderInv, PP!ProgramOrder, PP!Before, PP!NoId
<1> QED
  BY <1>1, <1>2, SlotsOK DEF Stages

LEMMA TraceShown ==
  ASSUME SimInv, PipelineOK, TraceInv
  PROVE  TraceShowsExecution
<1>1. ASSUME cycles = 1, fileInit
      PROVE  IsPrefix(pipeOut, Shown)
  <2> DEFINE rest == Then(LineOf(pipe.memInstr), Then(LineOf(pipe.exInstr),
                       Then(LineOf(pipe.idInstr), LineOf(pipe.ifInstr))))
  <2>1. Shown = Then(pipeOut, rest) /\ pipeOut \in Seq(Names)
    BY <1>1 DEF TraceInv, Dumped, Reported, Joined, Lines
  <2>2. \A s, t \in Seq(Names) : Then(s, t) \in Seq(Names)
    BY ThenProperties
  <2>3. \A s : LineOf(s) \in Seq(Names)
    BY LineTypes DEF Lines
  <2>4. rest \in Seq(Names)
    BY <2>2, <2>3
  <2> HIDE DEF rest
  <2> QED
    BY <2>1, <2>4, PrefixOfJoined DEF Then
<1>2. ASSUME status = "HALT", cycles = 1
      PROVE  pipeOut = Shown
  <2>1. /\ pipe.memInstr = P!Bubble /\ pipe.exInstr = P!Bubble
        /\ pipe.idInstr = P!Bubble /\ pipe.ifInstr = P!Bubble
    BY <1>2, NothingBehindHalt DEF TraceInv
  <2>2. Joined(pipeOut, <<>>, <<>>, <<>>, <<>>) = Shown /\ pipeOut \in Seq(Names)
    <3>1. Dumped = pipeOut /\ Dumped \in Lines /\ Reported = Shown
      BY <1>2 DEF TraceInv, Dumped
    <3>2. LineOf(P!Bubble) = <<>>
      BY LineTypes
    <3> QED
      BY <2>1, <3>1, <3>2 DEF Reported, Lines
  <2>3. Then(<<>>, <<>>) = <<>> /\ Then(pipeOut, <<>>) = pipeOut
    <3>1. <<>> \in Seq(Names) /\ pipeOut \in Seq(Names)
      BY <2>2
    <3> QED
      BY <3>1, ThenProperties, Zenon
  <2> QED
    BY <2>2, <2>3 DEF Joined
<1> QED
  BY <1>1, <1>2 DEF TraceShowsExecution, TraceInv

\* The pipe_state file.  With a dump after every cycle its WB column lists what the
\* functional simulator executes, in order, without the instructions that raise an
\* exception: no stall, squash or miss loses, repeats or swaps a line, and the file of
\* an earlier process is gone (src/src/Utilities.cpp:146-164, src/src/cycle.cpp:436-441).
THEOREM TraceShowsExecutionCorrect == Spec => []TraceShowsExecution
<1>1. Init => SimInv /\ TraceInv
  BY SimInit, TraceInit
<1>2. SimInv /\ PipelineOK /\ TraceInv /\ [Next]_cycleVars => SimInv' /\ TraceInv'
  BY SimStep, TraceStep
<1>3. SimInv /\ PipelineOK /\ TraceInv => TraceShowsExecution
  BY TraceShown
<1> QED
  BY <1>1, <1>2, <1>3, PipelineAlwaysOK, PTL DEF Spec

-----------------------------------------------------------------------------
(***************************************************************************)
(* The accesses of the D-cache.  As long as nothing has raised, those that *)
(* were made and those the stages before MEM have still to make are the    *)
(* loads and stores executed.                                              *)
(***************************************************************************)
Asks(s) == IF P!isLoad(s.instr) \/ P!isStore(s.instr) THEN <<s.addr>> ELSE <<>>
JoinedFour(w, e, d, f) == Then(w, Then(e, Then(d, f)))
Asked ==
  JoinedFour(dPast, Asks(pipe.exInstr), Asks(pipe.idInstr), Asks(pipe.ifInstr))

DataInv == raised = {} => Asked = Addresses

LEMMA ShiftFour ==
  ASSUME NEW S, NEW w \in Seq(S), NEW e \in Seq(S), NEW d \in Seq(S), NEW f \in Seq(S)
  PROVE  /\ JoinedFour(Then(w, e), <<>>, d, f) = JoinedFour(w, e, d, f)
         /\ JoinedFour(Then(w, e), d, <<>>, f) = JoinedFour(w, e, d, f)
         /\ JoinedFour(Then(w, e), d, f, <<>>) = JoinedFour(w, e, d, f)
         /\ \A n \in Seq(S) :
              JoinedFour(Then(w, e), d, f, n) = Then(JoinedFour(w, e, d, f), n)
<1>1. \A s, t, u \in Seq(S) : Then(Then(s, t), u) = Then(s, Then(t, u))
  BY ThenProperties
<1>2. \A s, t \in Seq(S) : Then(s, t) \in Seq(S)
  BY ThenProperties
<1>3. \A s \in Seq(S) : Then(s, <<>>) = s /\ Then(<<>>, s) = s
  BY ThenProperties
<1>4. Then(d, f) \in Seq(S) /\ Then(e, Then(d, f)) \in Seq(S) /\ Then(w, e) \in Seq(S)
  BY <1>2
<1>5. Then(Then(w, e), Then(d, f)) = Then(w, Then(e, Then(d, f)))
  BY <1>1, <1>4
<1>6. Then(<<>>, Then(d, f)) = Then(d, f) /\ Then(<<>>, f) = f /\ Then(f, <<>>) = f
  BY <1>3, <1>4
<1>7. ASSUME NEW n \in Seq(S)
      PROVE  Then(Then(w, e), Then(d, Then(f, n)))
               = Then(Then(w, Then(e, Then(d, f))), n)
  <2>1. Then(d, Then(f, n)) = Then(Then(d, f), n)
    BY <1>1
  <2>2. Then(Then(w, e), Then(Then(d, f), n)) = Then(Then(Then(w, e), Then(d, f)), n)
    BY <1>1, <1>4
  <2> QED
    BY <1>5, <2>1, <2>2
<1> QED
  BY <1>5, <1>6, <1>7 DEF JoinedFour

LEMMA AsksTypes ==
  ASSUME SimInv
  PROVE  /\ dPast \in Seq(Word) /\ Asks(P!Bubble) = <<>> /\ <<>> \in Seq(Word)
         /\ \A s \in Stages : Asks(s) \in Seq(Word)
<1>1. \A s \in Stages : s.addr \in Word
  BY DEF SimInv, Carries
<1> QED
  BY <1>1 DEF SimInv, Accesses, Asks, P!Bubble, P!Nop, P!isLoad, P!isStore

\* Nothing has raised: what has just come to MEM makes its access, if it has one.
LEMMA AccessMade ==
  ASSUME SimInv, SimInv', PipelineOK', raised' = {},
         DCacheStep, P!execute_DCACHE_write_Check
  PROVE  dPast' = Then(dPast, Asks(pipe'.memInstr))
<1> DEFINE mem == pipe'.memInstr
<1>1. flags'.isValid
  BY DEF PipelineOK, PP!ExceptionInv, PP!VictimInPlace, PP!IllegalInIF
<1>2. accessed \in Seq(Nat) /\ dPast \in Seq(Word)
  BY DEF SimInv, Accesses
<1>3. CASE P!isLoad(mem.instr) \/ P!isStore(mem.instr)
  <2>1. mem.id \in Nat /\ mem.addr \in Word
    <3>1. Carries(pipe.memInstr)'
      BY DEF SimInv, Stages
    <3> QED
      BY <1>3, <3>1 DEF Carries
  <2>2. accessed' = Append(accessed, mem.id)
    BY <1>1, <1>3 DEF P!execute_DCACHE_write_Check
  <2>3. dPast' = Append(dPast, mem.addr)
    <3>1. accessed' # accessed
      <4> HIDE DEF mem
      <4> QED
        BY <1>2, <2>1, <2>2
    <3> QED
      BY <3>1 DEF DCacheStep, D!Hit, D!Miss, D!Accessed
  <2>4. dPast' = dPast \o <<mem.addr>>
    <3> HIDE DEF mem
    <3> QED
      BY <1>2, <2>1, <2>3
  <2> QED
    BY <1>3, <2>4 DEF Then, Asks
<1>4. CASE ~(P!isLoad(mem.instr) \/ P!isStore(mem.instr))
  <2>1. accessed' = accessed
    BY <1>4 DEF P!execute_DCACHE_write_Check
  <2>2. dPast' = dPast
    BY <2>1 DEF DCacheStep, dCacheVars
  <2>3. Then(dPast, <<>>) = dPast
    BY <1>2, ThenProperties
  <2> QED
    BY <1>4, <2>2, <2>3 DEF Asks
<1> QED
  BY <1>3, <1>4

LEMMA AddressesGrow ==
  ASSUME EmulatorOK, executeInstruction
  PROVE  Addresses' = Then(Addresses, AddressOf(NewEntry(StepRaises)))
<1> DEFINE q == [k \in DOMAIN path |-> AddressOf(path[k])]
           r == [k \in DOMAIN path' |-> AddressOf(path'[k])]
           s == AddressOf(NewEntry(StepRaises))
<1>1. /\ Len(path') = Len(path) + 1 /\ Len(path) \in Nat
      /\ \A k \in 1 .. Len(path) : path'[k] = path[k]
      /\ path'[Len(path) + 1] = NewEntry(StepRaises)
      /\ DOMAIN path = 1 .. Len(path) /\ DOMAIN path' = 1 .. Len(path')
      /\ path \in Seq(PathEntry)
  BY EmulatorStep DEF EmulatorOK
<1>2. \A e \in PathEntry : AddressOf(e) \in Seq(Word)
  BY DEF AddressOf, PathEntry
<1>3. q \in Seq(Seq(Word)) /\ s \in Seq(Word)
  <2>1. NewEntry(StepRaises) \in PathEntry
    BY NewEntryType DEF EmulatorOK
  <2>2. \A k \in 1 .. Len(path) : path[k] \in PathEntry
    BY <1>1
  <2> QED
    BY <1>1, <1>2, <2>1, <2>2
<1>4. r = Append(q, s)
  BY <1>1
<1>5. FlattenSeq(Append(q, s)) = FlattenSeq(q) \o s
  <2> HIDE DEF q, r, s
  <2> QED
    BY <1>3, FlattenAppend
<1>6. Addresses = FlattenSeq(q) /\ Addresses' = FlattenSeq(r)
  BY DEF Addresses, AddressOf
<1> QED
  BY <1>4, <1>5, <1>6 DEF Then

LEMMA DataStallStep ==
  ASSUME SimInv, SimInv', PipelineOK', DataInv, Stall
  PROVE  DataInv'
<1> SUFFICES ASSUME raised' = {}
             PROVE  Asked' = Addresses'
  BY DEF DataInv
<1>1. Asked = Addresses /\ UNCHANGED path
  BY StallEnds DEF DataInv
<1>2. DCacheStep
  BY DEF Stall
<1>3. Asked' = JoinedFour(dPast', Asks(pipe'.exInstr), Asks(pipe'.idInstr),
                          Asks(pipe'.ifInstr))
  BY DEF Asked, Asks
<1>4. CASE /\ accessed' = accessed
           /\ pipe'.exInstr = pipe.exInstr /\ pipe'.idInstr = pipe.idInstr
           /\ pipe'.ifInstr = pipe.ifInstr
  <2>1. dPast' = dPast
    BY <1>2, <1>4 DEF DCacheStep, dCacheVars
  <2> QED
    BY <1>1, <1>3, <1>4, <2>1 DEF Asked, Addresses, AddressOf
<1>5. CASE /\ P!execute_DCACHE_write_Check
           /\ pipe'.memInstr = pipe.exInstr
           /\ \/ /\ pipe'.exInstr = P!Bubble
                 /\ pipe'.idInstr = pipe.idInstr /\ pipe'.ifInstr = pipe.ifInstr
              \/ /\ pipe'.exInstr = pipe.idInstr
                 /\ pipe'.idInstr = P!Bubble /\ pipe'.ifInstr = pipe.ifInstr
              \/ /\ pipe'.exInstr = pipe.idInstr
                 /\ pipe'.idInstr = pipe.ifInstr /\ pipe'.ifInstr = P!Bubble
  <2>1. dPast' = Then(dPast, Asks(pipe.exInstr))
    BY <1>2, <1>5, AccessMade
  <2>2. /\ dPast \in Seq(Word) /\ Asks(P!Bubble) = <<>>
        /\ Asks(pipe.exInstr) \in Seq(Word) /\ Asks(pipe.idInstr) \in Seq(Word)
        /\ Asks(pipe.ifInstr) \in Seq(Word)
    BY AsksTypes DEF Stages
  <2>3. \A e, d, f \in Seq(Word) :
          /\ JoinedFour(Then(dPast, e), <<>>, d, f) = JoinedFour(dPast, e, d, f)
          /\ JoinedFour(Then(dPast, e), d, <<>>, f) = JoinedFour(dPast, e, d, f)
          /\ JoinedFour(Then(dPast, e), d, f, <<>>) = JoinedFour(dPast, e, d, f)
    BY <2>2, ShiftFour
  <2>4. /\ JoinedFour(dPast', <<>>, Asks(pipe.idInstr), Asks(pipe.ifInstr)) = Asked
        /\ JoinedFour(dPast', Asks(pipe.idInstr), <<>>, Asks(pipe.ifInstr)) = Asked
        /\ JoinedFour(dPast', Asks(pipe.idInstr), Asks(pipe.ifInstr), <<>>) = Asked
    BY <2>1, <2>2, <2>3 DEF Asked
  <2>5. Asked' = Asked
    BY <1>3, <1>5, <2>2, <2>4
  <2> QED
    BY <1>1, <2>5 DEF Addresses, AddressOf
<1> QED
  BY <1>4, <1>5, StallShape DEF SimInv

LEMMA DataFetchStep ==
  ASSUME SimInv, SimInv', PipelineOK, PipelineOK', DataInv, FetchNew
  PROVE  DataInv'
<1> SUFFICES ASSUME raised' = {}
             PROVE  Asked' = Addresses'
  BY DEF DataInv
<1> DEFINE i == PipeWord(word)
           isAccess == P!isLoad(i) \/ P!isStore(i)
           fetched == [instr |-> i, id |-> din,
                       addr |-> IF isAccess THEN CapturedAddress ELSE 0]
<1>1. /\ P!FetchNew(i, info'.isOverflow, CapturedAddress) /\ DCacheStep
      /\ EmulatorOK /\ executeInstruction
  BY DEF FetchNew, SimInv
<1>2. raised = {}
  BY <1>1 DEF P!FetchNew, P!executeInstruction
<1>3. /\ pipe'.memInstr = pipe.exInstr /\ pipe'.exInstr = pipe.idInstr
      /\ pipe'.idInstr = pipe.ifInstr /\ pipe'.ifInstr = fetched
  BY <1>1, <1>2, FetchShape
<1>4. Asks(fetched) = AddressOf(NewEntry(StepRaises))
  <2>1. /\ word \in Word /\ dataAddress \in Word
        /\ op \in MemoryOps => CapturedAddress = dataAddress
    BY <1>1, Captured, InstructionTypes DEF EmulatorOK
  <2>2. isAccess <=> op \in MemoryOps
    BY <2>1, PipeWordType DEF op, instruction, MemoryOps
  <2>3. NewEntry(StepRaises).data = IF op \in MemoryOps THEN dataAddress ELSE -1
    BY DEF NewEntry
  <2>4. dataAddress # -1
    BY <2>1, ModuliTypes DEF Word
  <2>5. Asks(fetched) = IF isAccess THEN <<CapturedAddress>> ELSE <<>>
    BY DEF Asks
  <2> HIDE DEF isAccess, fetched
  <2> QED
    BY <2>1, <2>2, <2>3, <2>4, <2>5 DEF AddressOf
<1> HIDE DEF fetched
<1>5. dPast' = Then(dPast, Asks(pipe.exInstr))
  <2>1. P!execute_DCACHE_write_Check
    BY <1>1 DEF P!FetchNew
  <2> QED
    BY <1>1, <1>3, <2>1, AccessMade
<1>6. Asked' = JoinedFour(dPast', Asks(pipe.idInstr), Asks(pipe.ifInstr),
                          AddressOf(NewEntry(StepRaises)))
  <2>1. Asked' = JoinedFour(dPast', Asks(pipe'.exInstr), Asks(pipe'.idInstr),
                            Asks(pipe'.ifInstr))
    BY DEF Asked, Asks
  <2> QED
    BY <1>3, <1>4, <2>1
<1>7. /\ dPast \in Seq(Word) /\ Asks(pipe.exInstr) \in Seq(Word)
      /\ Asks(pipe.idInstr) \in Seq(Word) /\ Asks(pipe.ifInstr) \in Seq(Word)
      /\ AddressOf(NewEntry(StepRaises)) \in Seq(Word)
  <2>1. AddressOf(NewEntry(StepRaises)) \in Seq(Word)
    BY <1>1, NewEntryType DEF EmulatorOK, AddressOf, PathEntry
  <2> QED
    BY <2>1, AsksTypes DEF Stages
<1>8. JoinedFour(Then(dPast, Asks(pipe.exInstr)), Asks(pipe.idInstr),
                 Asks(pipe.ifInstr), AddressOf(NewEntry(StepRaises)))
        = Then(Asked, AddressOf(NewEntry(StepRaises)))
  BY <1>7, ShiftFour DEF Asked
<1>9. Addresses' = Then(Addresses, AddressOf(NewEntry(StepRaises)))
  BY <1>1, AddressesGrow
<1>10. Asked = Addresses
  BY <1>2 DEF DataInv
<1> QED
  BY <1>5, <1>6, <1>8, <1>9, <1>10

LEMMA DataInit ==
  ASSUME Init
  PROVE  DataInv
<1>1. dPast = <<>> /\ path = <<>> /\ pipe = P!EmptyPipe
  BY DEF Init, P!Init, D!Init, EmulatorInit
<1>2. Asks(P!Bubble) = <<>> /\ Then(<<>>, <<>>) = <<>>
  <2>1. <<>> \in Seq(Word)
    OBVIOUS
  <2> QED
    BY <2>1, ThenProperties, Zenon DEF Asks, P!Bubble, P!Nop, P!isLoad, P!isStore
<1>3. Asked = <<>>
  BY <1>1, <1>2 DEF Asked, JoinedFour, P!EmptyPipe
<1>4. Addresses = <<>>
  <2>1. Addresses = FlattenSeq(<<>>)
    BY <1>1 DEF Addresses
  <2>2. Len(<<>>) = 0 /\ Len(<<>>) \in Nat
    OBVIOUS
  <2>3. FlattenSeq(<<>>) = <<>>
    BY <2>2, FlattenOf, Zenon
  <2> QED
    BY <2>1, <2>3
<1> QED
  BY <1>3, <1>4 DEF DataInv

LEMMA DataStep ==
  ASSUME SimInv, SimInv', PipelineOK, PipelineOK', DataInv, [Next]_cycleVars
  PROVE  DataInv'
<1>1. CASE UNCHANGED cycleVars
  <2>1. UNCHANGED <<pipe, raised, dPast, path>>
    BY <1>1 DEF cycleVars, vars, emulator, dCacheVars
  <2> QED
    BY <2>1 DEF DataInv, Asked, Asks, Addresses, AddressOf
<1> QED
  BY <1>1, DataFetchStep, DataStallStep DEF Next, Finished

LEMMA DataKept ==
  ASSUME SimInv, PipelineOK, TraceInv, DataInv
  PROVE  DataAccesses
<1>1. AddressesKept
  BY DEF SimInv, Accesses, AddressesKept
<1>2. ASSUME status = "HALT", raised = {}
      PROVE  dPast = Addresses
  <2>1. pipe.exInstr = P!Bubble /\ pipe.idInstr = P!Bubble /\ pipe.ifInstr = P!Bubble
    BY <1>2, NothingBehindHalt DEF TraceInv
  <2>2. dPast \in Seq(Word) /\ Asks(P!Bubble) = <<>> /\ <<>> \in Seq(Word)
    BY AsksTypes
  <2>3. Then(<<>>, <<>>) = <<>> /\ Then(dPast, <<>>) = dPast
    BY <2>2, ThenProperties
  <2> QED
    BY <1>2, <2>1, <2>2, <2>3 DEF DataInv, Asked, JoinedFour
<1> QED
  BY <1>1, <1>2 DEF DataAccesses

\* The D-cache is asked for the addresses of the loads and stores executed, in order and
\* each once, unless an instruction raised an exception: the flag that decides about an
\* access is that of the instruction fetched last (src/src/cycle.cpp:361-381).
THEOREM DataAccessesCorrect == Spec => []DataAccesses
<1>1. Init => SimInv /\ TraceInv /\ DataInv
  BY SimInit, TraceInit, DataInit
<1>2. /\ SimInv /\ PipelineOK /\ PipelineOK' /\ TraceInv /\ DataInv /\ [Next]_cycleVars
      => SimInv' /\ TraceInv' /\ DataInv'
  BY SimStep, TraceStep, DataStep
<1>3. SimInv /\ PipelineOK /\ TraceInv /\ DataInv => DataAccesses
  BY DataKept
<1> QED
  BY <1>1, <1>2, <1>3, PipelineAlwaysOK, PTL DEF Spec

-----------------------------------------------------------------------------
(***************************************************************************)
(* The cycles.  What the pipeline owes for every instruction, see          *)
(* HazardProofs, is added up here against the numbers that are reported.   *)
(***************************************************************************)
CostOK == PP!InterlockInv /\ PP!CostInv /\ PP!StallInv

LEMMA CostAlwaysOK == Spec => []CostOK
<1>1. P!Spec => PP!Spec
  BY SameSpec
<1>2. /\ PP!Spec => []PP!InterlockInv
      /\ PP!Spec => []PP!CostInv
      /\ PP!Spec => []PP!StallInv
  BY PipelineConstants, PP!InterlockInvariant, PP!CostInvariant, PP!StallInvariant
<1> QED
  BY <1>1, <1>2, PipelineImplemented, PTL DEF CostOK

-----------------------------------------------------------------------------
(***************************************************************************)
(* The numbers that are counted.                                           *)
(***************************************************************************)
ILatency == iCacheConfig.missLatency
DLatency == dCacheConfig.missLatency

\* No cache is asked more often than instructions are executed: no counter wraps.
MissesOK ==
  /\ din \in 0 .. MaxInstr
  /\ iPast \in Seq(Word) /\ iMisses \in 0 .. Len(iPast) /\ Len(iPast) <= MaxInstr
  /\ dMisses \in 0 .. Len(dPast) /\ Len(dPast) <= MaxInstr

LEMMA NoWrap ==
  ASSUME NEW q, NEW S, q \in Seq(S), NEW x \in S, NEW m \in 0 .. Len(q), Len(q) < MaxInstr
  PROVE  /\ Append(q, x) \in Seq(S) /\ Len(Append(q, x)) = Len(q) + 1
         /\ (m + 1) % WordModulus = m + 1 /\ m + 1 \in 0 .. Len(Append(q, x))
         /\ m \in 0 .. Len(Append(q, x)) /\ Len(Append(q, x)) <= MaxInstr
<1>1. MaxInstr \in Nat /\ MaxInstr < WordModulus /\ WordModulus \in Nat
  BY CycleSimAssumption, ModuliTypes
<1>2. Len(q) \in Nat /\ Append(q, x) \in Seq(S) /\ Len(Append(q, x)) = Len(q) + 1
  OBVIOUS
<1>3. m + 1 \in Nat /\ m + 1 < WordModulus
  BY <1>1, <1>2
<1>4. (m + 1) % WordModulus = m + 1
  BY <1>1, <1>3
<1> QED
  BY <1>1, <1>2, <1>3, <1>4

\* The D-cache delay grows with the misses.
LEMMA DMissed ==
  ASSUME SimInv, SimInv', MissesOK, DCacheStep,
         \/ P!execute_DCACHE_write_Check
         \/ dcache_delay' = P!Less1(dcache_delay) /\ accessed' = accessed
  PROVE  /\ dMisses' \in 0 .. Len(dPast') /\ Len(dPast') <= MaxInstr
         /\ \/ dMisses' = dMisses /\ dcache_delay' = PP!Less1(dcache_delay)
            \/ /\ dMisses' = dMisses + 1
               /\ dcache_delay' = PP!Less1(dcache_delay) + DLatency
<1>1. P!Less1(dcache_delay) = PP!Less1(dcache_delay)
  BY DEF P!Less1, PP!Less1
<1>2. dPast \in Seq(Word) /\ accessed \in Seq(Nat)
  BY DEF SimInv, Accesses
<1>3. CASE accessed' = accessed
  <2>1. dMisses' = dMisses /\ dPast' = dPast
    BY <1>3 DEF DCacheStep, dCacheVars
  <2>2. dcache_delay' = P!Less1(dcache_delay)
    <3>1. ASSUME P!isLoad(pipe'.memInstr.instr) \/ P!isStore(pipe'.memInstr.instr)
          PROVE  Append(accessed, pipe'.memInstr.id) # accessed
      <4>1. Carries(pipe.memInstr)'
        BY DEF SimInv, Stages
      <4>2. pipe'.memInstr.id \in 0 .. Len(path') - 1
        BY <3>1, <4>1 DEF Carries
      <4> DEFINE id == pipe'.memInstr.id
      <4>3. id \in Nat
        BY <4>2
      <4> HIDE DEF id
      <4>4. Append(accessed, id) # accessed
        BY <1>2, <4>3
      <4> QED
        BY <4>4 DEF id
    <3> QED
      BY <1>3, <3>1 DEF P!execute_DCACHE_write_Check
  <2> QED
    BY <1>1, <2>1, <2>2 DEF MissesOK
<1>4. CASE accessed' # accessed
  <2> DEFINE x == pipe'.memInstr.addr
  <2>1. x \in Word
    <3>1. Carries(pipe.memInstr)'
      BY DEF SimInv, Stages
    <3> QED
      BY <3>1 DEF Carries
  <2>2. /\ Len(dPast) < MaxInstr /\ dPast' = Append(dPast, x)
        /\ \/ dMisses' = dMisses /\ dcache_delay' = P!Less1(dcache_delay)
           \/ /\ dMisses' = (dMisses + 1) % WordModulus
              /\ dcache_delay' = P!Less1(dcache_delay) + DLatency
    BY <1>4 DEF DCacheStep, D!Hit, D!Miss, D!Accessed, DLatency
  <2> HIDE DEF x
  <2>3. dMisses \in 0 .. Len(dPast)
    BY DEF MissesOK
  <2>4. /\ (dMisses + 1) % WordModulus = dMisses + 1
        /\ dMisses + 1 \in 0 .. Len(Append(dPast, x))
        /\ dMisses \in 0 .. Len(Append(dPast, x)) /\ Len(Append(dPast, x)) <= MaxInstr
    BY <1>2, <2>1, <2>2, <2>3, NoWrap
  <2> QED
    BY <1>1, <2>2, <2>4
<1> QED
  BY <1>3, <1>4

LEMMA IMissed ==
  ASSUME SimInv, MissesOK, FetchNew
  PROVE  /\ iPast' \in Seq(Word) /\ iMisses' \in 0 .. Len(iPast') /\ Len(iPast') <= MaxInstr
         /\ \/ iMisses' = iMisses /\ icache_delay' = 0
            \/ iMisses' = iMisses + 1 /\ icache_delay' = ILatency
<1>1. PC \in Word
  BY DEF SimInv, EmulatorOK, MachineOK
<1>2. /\ Len(iPast) < MaxInstr /\ iPast' = Append(iPast, PC)
      /\ \/ iMisses' = iMisses /\ icache_delay' = 0
         \/ iMisses' = (iMisses + 1) % WordModulus /\ icache_delay' = ILatency
  BY DEF FetchNew, I!Hit, I!Miss, I!Accessed, ILatency
<1>3. iPast \in Seq(Word) /\ iMisses \in 0 .. Len(iPast)
  BY DEF MissesOK
<1>4. /\ (iMisses + 1) % WordModulus = iMisses + 1
      /\ iMisses + 1 \in 0 .. Len(Append(iPast, PC))
      /\ iMisses \in 0 .. Len(Append(iPast, PC)) /\ Len(Append(iPast, PC)) <= MaxInstr
      /\ Append(iPast, PC) \in Seq(Word)
  BY <1>1, <1>2, <1>3, NoWrap
<1> QED
  BY <1>2, <1>4

\* One instruction more.
LEMMA ExecutedGrows ==
  ASSUME EmulatorOK, executeInstruction, NEW S
  PROVE  /\ Executed(S) \in Nat
         /\ Executed(S)' = Executed(S) + IF PipeWord(word).op \in S THEN 1 ELSE 0
<1> DEFINE A == {k \in DOMAIN path : PipeWord(path[k].word).op \in S}
           B == {k \in DOMAIN path' : PipeWord(path'[k].word).op \in S}
           n == Len(path) + 1
<1>1. /\ Len(path') = Len(path) + 1 /\ Len(path) \in Nat
      /\ \A k \in 1 .. Len(path) : path'[k] = path[k]
      /\ path'[Len(path) + 1] = NewEntry(StepRaises)
      /\ DOMAIN path = 1 .. Len(path) /\ DOMAIN path' = 1 .. Len(path')
  BY EmulatorStep DEF EmulatorOK
<1>2. NewEntry(StepRaises).word = word
  BY DEF NewEntry
<1>3. IsFiniteSet(A) /\ n \notin A
  <2>1. A \subseteq 1 .. Len(path) /\ IsFiniteSet(1 .. Len(path))
    BY <1>1, FS_Interval
  <2> QED
    BY <1>1, <2>1, FS_Subset
<1>4. B = IF PipeWord(word).op \in S THEN A \cup {n} ELSE A
  <2>1. \A k : k \in DOMAIN path' <=> (k \in DOMAIN path \/ k = n)
    BY <1>1
  <2>2. n \notin DOMAIN path /\ path'[n].word = word
    BY <1>1, <1>2
  <2>3. \A k \in DOMAIN path : path'[k].word = path[k].word
    BY <1>1
  <2> QED
    BY <2>1, <2>2, <2>3
<1>5. Executed(S) = Cardinality(A) /\ Executed(S)' = Cardinality(B)
  BY DEF Executed
<1>6. Cardinality(A) \in Nat /\ Cardinality(A \cup {n}) = Cardinality(A) + 1
  <2> HIDE DEF A, n
  <2> QED
    BY <1>3, FS_AddElement, FS_CardinalityType
<1> HIDE DEF A, B, n
<1> QED
  BY <1>4, <1>5, <1>6

-----------------------------------------------------------------------------
(***************************************************************************)
(* The two bounds.                                                         *)
(***************************************************************************)
BranchesRun == Executed({"Branch1", "Branch2"})
IllegalRun == Executed({"Illegal"})
NopsRun == 2 * Cardinality(raised) - IllegalRun
ICycles == iMisses * ILatency
DCycles == dMisses * DLatency

Busy == 4 + din

\* The cycles so far and those that are due are accounted for.
AtMost ==
  currentCycle + icache_delay + dcache_delay + PP!Due
    <= Busy + nrLoadUseStalls + BranchesRun + NopsRun + ICycles + DCycles

\* What a delay has left and the halt word has to go is still to be paid.
AtLeast ==
  /\ Busy + ICycles <= currentCycle + icache_delay + PP!ToDrain(pipe)
  /\ Busy + nrLoadUseStalls <= currentCycle + branch_delay + PP!ToDrain(pipe)
  /\ Busy + DCycles <= currentCycle + dcache_delay + PP!ToDrain(pipe)

CycleInv ==
  /\ MissesOK /\ IsFiniteSet(raised)
  /\ AtMost
  /\ CyclesFit /\ raised = {} => AtLeast

LEMMA LatencyTypes ==
  /\ ILatency \in Nat /\ DLatency \in Nat /\ MaxInstr \in Nat /\ WordModulus \in Nat \ {0}
  /\ \A n, m \in Nat : n * m \in Nat /\ (n + 1) * m = n * m + m
  BY CycleSimAssumption, ModuliTypes DEF ILatency, DLatency, CacheConfig

LEMMA ProductGrows ==
  /\ \A n, m, c \in Nat : n <= m => n * c <= m * c
  /\ \A n, c \in Nat : n * c \in Nat
  /\ \A n, c, d \in Nat : n * (3 + c + d) = n * (1 + 2 + c) + n * d
<1>1. ASSUME NEW n \in Nat, NEW m \in Nat, NEW c \in Nat, n <= m
      PROVE  n * c <= m * c
  <2>1. PICK d \in Nat : m = n + d
    BY <1>1
  <2>2. (n + d) * c = n * c + d * c /\ d * c \in Nat /\ n * c \in Nat
    OBVIOUS
  <2> QED
    BY <2>1, <2>2
<1>2. \A n, c \in Nat : n * c \in Nat
  OBVIOUS
<1>3. \A n, c, d \in Nat : n * (3 + c + d) = n * (1 + 2 + c) + n * d
  OBVIOUS
<1> QED
  BY <1>1, <1>2, <1>3

LEMMA CountTypes ==
  ASSUME SimInv, MissesOK, IsFiniteSet(raised)
  PROVE  /\ BranchesRun \in Nat /\ IllegalRun \in Nat /\ Cardinality(raised) \in Nat
         /\ NopsRun \in Int /\ ICycles \in Nat /\ DCycles \in Nat /\ Busy \in Nat
         /\ iMisses \in Nat /\ dMisses \in Nat
<1>1. DOMAIN path = 1 .. Len(path) /\ Len(path) \in Nat /\ din = Len(path)
  BY DEF SimInv, EmulatorOK
<1>2. ASSUME NEW S PROVE Executed(S) \in Nat
  <2>1. {k \in DOMAIN path : PipeWord(path[k].word).op \in S} \in SUBSET (1 .. Len(path))
    BY <1>1
  <2>2. IsFiniteSet(1 .. Len(path))
    BY <1>1, FS_Interval
  <2> QED
    BY <2>1, <2>2, FS_Subset, FS_CardinalityType DEF Executed
<1>3. Cardinality(raised) \in Nat
  BY FS_CardinalityType
<1>4. iMisses \in Nat /\ dMisses \in Nat
  <2>1. Len(iPast) \in Nat /\ Len(dPast) \in Nat
    BY DEF MissesOK, SimInv, Accesses
  <2> QED
    BY <2>1 DEF MissesOK
<1>5. BranchesRun \in Nat /\ IllegalRun \in Nat
  BY <1>2 DEF BranchesRun, IllegalRun
<1>6. NopsRun \in Int
  BY <1>3, <1>5 DEF NopsRun
<1>7. ICycles \in Nat /\ DCycles \in Nat
  BY <1>4, LatencyTypes DEF ICycles, DCycles
<1> QED
  BY <1>1, <1>3, <1>4, <1>5, <1>6, <1>7 DEF Busy

\* A cycle counts one, unless the counter wraps; as long as the cycles fit it does not.
LEMMA CycleCounts ==
  ASSUME SimInv, MissesOK, PipelineOK, CostOK, P!EndOfCycle, status # "HALT"
  PROVE  /\ currentCycle' <= currentCycle + 1
         /\ CyclesFit => currentCycle' = currentCycle + 1
<1>1. currentCycle' = (currentCycle + 1) % WordModulus
  BY DEF P!EndOfCycle
<1>2. currentCycle \in Nat /\ PP!TypeOK
  BY DEF PipelineOK, PP!TypeOK
<1>3. currentCycle' <= currentCycle + 1
  <2>1. currentCycle + 1 \in Nat
    BY <1>2
  <2> QED
    BY <1>1, <2>1, LatencyTypes, PipelineConstants, PP!WrappedBelow
<1>4. ASSUME CyclesFit
      PROVE  currentCycle' = currentCycle + 1
  <2>1. /\ PP!Owed \in Nat /\ icache_delay \in Nat /\ dcache_delay \in Nat
        /\ PP!Owed = icache_delay + dcache_delay + PP!Stages
        /\ PP!Stages = PP!Work + PP!ToDrain(pipe)
        /\ PP!Work \in Nat
    BY <1>2, PipelineConstants, PP!StallsType DEF PP!Owed, PP!Stages, PP!TypeOK
  <2>2. PP!ToDrain(pipe) \in 1 .. 4
    <3>1. pipe.wbInstr.instr # PP!HALT_INSTRUCTION
      BY DEF CostOK, PP!CostInv, PP!HaltOnItsWay
    <3> QED
      BY <3>1 DEF PP!ToDrain
  <2>3. PP!Owed >= 1
    BY <2>1, <2>2
  <2>4. currentCycle + PP!Owed <= 4 + din * (1 + 2 + ILatency) + Len(accessed) * DLatency
    BY DEF CostOK, PP!CostInv, PP!Budget, ILatency, DLatency
  <2>5. /\ din \in Nat /\ din <= MaxInstr
        /\ Len(accessed) \in Nat /\ Len(accessed) <= MaxInstr
    BY LatencyTypes DEF MissesOK, SimInv, Accesses
  <2>6. /\ din * (1 + 2 + ILatency) <= MaxInstr * (1 + 2 + ILatency)
        /\ Len(accessed) * DLatency <= MaxInstr * DLatency
        /\ din * (1 + 2 + ILatency) \in Nat /\ Len(accessed) * DLatency \in Nat
        /\ MaxInstr * (1 + 2 + ILatency) \in Nat /\ MaxInstr * DLatency \in Nat
    BY <2>5, LatencyTypes, ProductGrows
  <2>7. 4 + MaxInstr * (1 + 2 + ILatency) + MaxInstr * DLatency < WordModulus
    BY <1>4, LatencyTypes, ProductGrows DEF CyclesFit, ILatency, DLatency
  <2>8. currentCycle + 1 < WordModulus
    BY <1>2, <2>1, <2>3, <2>4, <2>5, <2>6, <2>7, LatencyTypes
  <2> QED
    BY <1>1, <1>2, <2>8, LatencyTypes
<1> QED
  BY <1>3, <1>4

\* The latencies of the misses are those that the delay has had.
LEMMA DPaid ==
  ASSUME SimInv, SimInv', PipelineOK, PipelineOK', MissesOK,
         IsFiniteSet(raised), DCacheStep,
         \/ P!execute_DCACHE_write_Check
         \/ dcache_delay' = P!Less1(dcache_delay) /\ accessed' = accessed
  PROVE  /\ dMisses' \in 0 .. Len(dPast') /\ Len(dPast') <= MaxInstr
         /\ DCycles' = DCycles + dcache_delay' - PP!Less1(dcache_delay)
         /\ PP!Less1(dcache_delay) \in Nat /\ dcache_delay' \in Nat
         /\ dcache_delay \in Nat /\ PP!Less1(dcache_delay) <= dcache_delay
<1>1. /\ dMisses' \in 0 .. Len(dPast') /\ Len(dPast') <= MaxInstr
      /\ \/ dMisses' = dMisses /\ dcache_delay' = PP!Less1(dcache_delay)
         \/ /\ dMisses' = dMisses + 1
            /\ dcache_delay' = PP!Less1(dcache_delay) + DLatency
  BY DMissed
<1>2. PP!TypeOK /\ PP!TypeOK'
  BY DEF PipelineOK
<1>3. /\ PP!Less1(dcache_delay) \in Nat /\ dcache_delay' \in Nat
      /\ dcache_delay \in Nat /\ PP!Less1(dcache_delay) <= dcache_delay
  BY <1>2 DEF PP!TypeOK, PP!Less1
<1>4. dMisses \in Nat /\ DCycles \in Nat /\ DLatency \in Nat
      /\ (dMisses + 1) * DLatency = dMisses * DLatency + DLatency
  BY CountTypes, LatencyTypes
<1>5. \/ DCycles' = DCycles /\ dcache_delay' = PP!Less1(dcache_delay)
      \/ DCycles' = DCycles + DLatency /\ dcache_delay' = PP!Less1(dcache_delay) + DLatency
  BY <1>1, <1>4 DEF DCycles
<1> QED
  BY <1>1, <1>3, <1>4, <1>5

LEMMA CycleStallStep ==
  ASSUME SimInv, SimInv', PipelineOK, PipelineOK', CostOK, CycleInv, Stall
  PROVE  CycleInv'
<1>1. /\ P!EndOfCycle /\ raised' = raised /\ din' = din /\ path' = path
      /\ UNCHANGED <<iMisses, iPast>>
  BY StallEnds DEF Stall, iCacheVars
<1>2. /\ dMisses' \in 0 .. Len(dPast') /\ Len(dPast') <= MaxInstr
      /\ DCycles' = DCycles + dcache_delay' - PP!Less1(dcache_delay)
      /\ PP!Less1(dcache_delay) \in Nat /\ dcache_delay' \in Nat
  <2>1. \/ P!execute_DCACHE_write_Check
        \/ dcache_delay' = P!Less1(dcache_delay) /\ accessed' = accessed
    BY DEF Stall, P!BranchStallOnEx, P!LoadUseStall, P!BranchStallOnMem,
           P!BranchStallDelay, P!ArithmeticOverflow, P!IllegalInstruction,
           P!HaltInPipeline, P!ICacheMiss, P!DCacheMiss, P!HandleBranchStall
  <2> QED
    BY <2>1, DPaid DEF CycleInv, Stall
<1>3. MissesOK' /\ IsFiniteSet(raised')
  BY <1>1, <1>2 DEF CycleInv, MissesOK
<1>4. /\ BranchesRun' = BranchesRun /\ NopsRun' = NopsRun /\ ICycles' = ICycles
      /\ Busy' = Busy
  BY <1>1 DEF BranchesRun, NopsRun, IllegalRun, Executed, ICycles, Busy
<1>5. status # "HALT"
  BY DEF Stall, P!Control, P!BranchStallOnEx, P!LoadUseStall, P!BranchStallOnMem,
         P!BranchStallDelay, P!ArithmeticOverflow, P!IllegalInstruction,
         P!HaltInPipeline, P!ICacheMiss, P!DCacheMiss
<1>6. /\ currentCycle' <= currentCycle + 1
      /\ CyclesFit => currentCycle' = currentCycle + 1
  BY <1>1, <1>5, CycleCounts DEF CycleInv
<1>7. /\ PP!Explained
      /\ raised = {} => PP!StallsInFull
  BY SamePipeline, PipelineConstants, PP!CycleExplained, PP!CycleInFull
     DEF Stall, PipelineOK, CostOK
<1> DEFINE c == currentCycle'
           i == icache_delay'
           d == dcache_delay'
           bd == branch_delay'
           u == PP!Due'
           r == nrLoadUseStalls'
           t == PP!ToDrain(pipe')
           l == PP!Less1(dcache_delay)
<1>8. /\ c \in Nat /\ i \in Nat /\ d \in Nat /\ bd \in Nat /\ u \in Nat /\ r \in Nat
      /\ t \in Nat /\ l \in Nat
      /\ currentCycle \in Nat /\ icache_delay \in Nat /\ dcache_delay \in Nat
      /\ branch_delay \in Nat /\ PP!Due \in Nat /\ nrLoadUseStalls \in Nat
      /\ PP!ToDrain(pipe) \in Nat
  <2>1. PP!TypeOK /\ PP!TypeOK'
    BY DEF PipelineOK
  <2>2. /\ c \in Nat /\ i \in Nat /\ d \in Nat /\ bd \in Nat /\ r \in Nat
        /\ currentCycle \in Nat /\ icache_delay \in Nat /\ dcache_delay \in Nat
        /\ branch_delay \in Nat /\ nrLoadUseStalls \in Nat
    BY <2>1 DEF PP!TypeOK
  <2>3. u \in Nat /\ PP!Due \in Nat
    BY <2>1, PipelineConstants, PP!ChargeTypes, PP!DueNext
  <2>4. t \in Nat /\ PP!ToDrain(pipe) \in Nat
    BY DEF PP!ToDrain
  <2> QED
    BY <1>2, <2>2, <2>3, <2>4
<1>9. /\ BranchesRun \in Nat /\ NopsRun \in Int /\ ICycles \in Nat /\ DCycles \in Nat
       /\ Busy \in Nat
  BY CountTypes DEF CycleInv
<1>10. 1 + l + i + u + nrLoadUseStalls <= icache_delay + dcache_delay + PP!Due + r
  BY <1>7 DEF PP!Explained
<1>11. DCycles' = DCycles + d - l
  BY <1>2
<1>12. currentCycle + icache_delay + dcache_delay + PP!Due
         <= Busy + nrLoadUseStalls + BranchesRun + NopsRun + ICycles + DCycles
  BY DEF CycleInv, AtMost
<1>13. AtMost'
  <2>1. c <= currentCycle + 1
    BY <1>6
  <2>2. c + i + d + u
          <= Busy + r + BranchesRun + NopsRun + ICycles + (DCycles + d - l)
    <3> HIDE DEF c, i, d, u, r, l
    <3> QED
      BY <1>8, <1>9, <1>10, <1>12, <2>1
  <2> QED
    BY <1>4, <1>11, <2>2 DEF AtMost
<1>14. ASSUME CyclesFit, raised = {}
       PROVE  AtLeast'
  <2>1. /\ PP!ToDrain(pipe) + icache_delay <= t + i + 1
        /\ PP!ToDrain(pipe) + branch_delay + r <= t + bd + 1 + nrLoadUseStalls
        /\ PP!ToDrain(pipe) + dcache_delay <= t + l + 1
    BY <1>7, <1>14 DEF PP!StallsInFull
  <2>2. c = currentCycle + 1
    BY <1>6, <1>14
  <2>3. /\ Busy + ICycles <= currentCycle + icache_delay + PP!ToDrain(pipe)
        /\ Busy + nrLoadUseStalls <= currentCycle + branch_delay + PP!ToDrain(pipe)
        /\ Busy + DCycles <= currentCycle + dcache_delay + PP!ToDrain(pipe)
    BY <1>14 DEF CycleInv, AtLeast
  <2>4. /\ Busy + ICycles <= c + i + t
        /\ Busy + r <= c + bd + t
        /\ Busy + (DCycles + d - l) <= c + d + t
    <3> HIDE DEF c, i, d, bd, r, t, l
    <3> QED
      BY <1>8, <1>9, <2>1, <2>2, <2>3
  <2>5. PP!ToDrain(pipe)' = t
    BY DEF PP!ToDrain
  <2> QED
    BY <1>4, <1>11, <2>4, <2>5 DEF AtLeast
<1>15. CyclesFit' <=> CyclesFit
  BY DEF CyclesFit, ILatency, DLatency
<1> QED
  BY <1>1, <1>3, <1>13, <1>14, <1>15 DEF CycleInv

LEMMA CycleFetchStep ==
  ASSUME SimInv, SimInv', PipelineOK, PipelineOK', CostOK, CycleInv, FetchNew
  PROVE  CycleInv'
<1> DEFINE w == PipeWord(word)
           ovf == info'.isOverflow
           br == IF w.op \in {"Branch1", "Branch2"} THEN 1 ELSE 0
           ill == IF w.op = "Illegal" THEN 1 ELSE 0
           two == IF ovf THEN 2 ELSE IF w.op = "Illegal" THEN 1 ELSE 0
<1>1. EmulatorOK /\ executeInstruction /\ word \in Word
  BY InstructionTypes DEF SimInv, FetchNew, EmulatorOK
<1>2. /\ w \in {PipeWord(x) : x \in Word} /\ ovf \in BOOLEAN /\ CapturedAddress \in Word
      /\ PP!FetchNew(w, ovf, CapturedAddress)
      /\ P!FetchNew(w, ovf, CapturedAddress)
  BY <1>1, Captured, SamePipeline DEF FetchNew
<1>3. /\ nrLoadUseStalls' = nrLoadUseStalls
      /\ PP!Due' <= PP!Due + br + two
  <2>1. PP!isBranch(w) <=> w.op \in {"Branch1", "Branch2"}
    BY DEF PP!isBranch
  <2> HIDE DEF w, ovf
  <2> QED
    BY <1>2, <2>1, PipelineConstants, PP!FetchExplained DEF PipelineOK, CostOK
<1>4. raised' = {} =>
        /\ raised = {} /\ PP!ToDrain(pipe) = 4 /\ PP!ToDrain(pipe') = 4
        /\ icache_delay = 0 /\ dcache_delay = 0 /\ branch_delay' = 0 /\ branch_delay = 0
  <2> HIDE DEF w, ovf
  <2> QED
    BY <1>2, PipelineConstants, PP!FetchInFull DEF PipelineOK, CostOK
<1>5. /\ P!EndOfCycle /\ status # "HALT"
      /\ \/ P!execute_DCACHE_write_Check
         \/ dcache_delay' = P!Less1(dcache_delay) /\ accessed' = accessed
  BY <1>2 DEF P!FetchNew, P!Control
<1>6. /\ iPast' \in Seq(Word) /\ iMisses' \in 0 .. Len(iPast') /\ Len(iPast') <= MaxInstr
      /\ \/ iMisses' = iMisses /\ icache_delay' = 0
         \/ iMisses' = iMisses + 1 /\ icache_delay' = ILatency
  BY IMissed DEF CycleInv
<1>7. /\ dMisses' \in 0 .. Len(dPast') /\ Len(dPast') <= MaxInstr
      /\ DCycles' = DCycles + dcache_delay' - PP!Less1(dcache_delay)
      /\ PP!Less1(dcache_delay) \in Nat /\ dcache_delay' \in Nat
      /\ dcache_delay \in Nat /\ PP!Less1(dcache_delay) <= dcache_delay
  BY <1>5, DPaid DEF CycleInv, FetchNew
<1>8. din' = din + 1 /\ din \in Nat /\ din < MaxInstr /\ MaxInstr \in Nat
  BY FetchedLine, SlotsOK, LatencyTypes DEF FetchNew
<1>9. MissesOK'
  BY <1>6, <1>7, <1>8 DEF MissesOK
<1>10. /\ IsFiniteSet(raised') /\ Cardinality(raised) \in Nat
       /\ Cardinality(raised') = Cardinality(raised) + IF StepRaises THEN 1 ELSE 0
  <2>1. din \notin raised /\ IsFiniteSet(raised)
    BY SlotsOK DEF CycleInv
  <2>2. CASE StepRaises
    <3>1. raised' = raised \cup {din}
      BY <2>2, FetchedLine
    <3> QED
      BY <2>1, <2>2, <3>1, FS_AddElement, FS_CardinalityType
  <2>3. CASE ~StepRaises
    <3>1. raised' = raised
      BY <2>1, <2>3, FetchedLine
    <3> QED
      BY <2>1, <2>3, <3>1, FS_CardinalityType
  <2> QED
    BY <2>2, <2>3
<1>11. /\ StepRaises <=> (ovf \/ w.op = "Illegal")
       /\ ovf => w.op # "Illegal"
  BY <1>1, RaisedWord
<1>12. /\ BranchesRun \in Nat /\ BranchesRun' = BranchesRun + br
       /\ IllegalRun \in Nat /\ IllegalRun' = IllegalRun + ill
  BY <1>1, ExecutedGrows DEF BranchesRun, IllegalRun
<1>13. NopsRun \in Int /\ NopsRun' = NopsRun + two
  <2> DEFINE n == Cardinality(raised)
             k == Cardinality(raised')
             g == IllegalRun'
  <2>1. NopsRun' = 2 * k - g /\ NopsRun = 2 * n - IllegalRun
    BY DEF NopsRun
  <2>2. n \in Nat /\ k = n + (IF StepRaises THEN 1 ELSE 0) /\ g = IllegalRun + ill
    BY <1>10, <1>12
  <2>3. two = 2 * (IF StepRaises THEN 1 ELSE 0) - ill
    BY <1>11
  <2>4. ill \in Int
    OBVIOUS
  <2> HIDE DEF n, k, g, ill, two
  <2> QED
    BY <1>12, <2>1, <2>2, <2>3, <2>4
<1>14. /\ ICycles \in Nat /\ DCycles \in Nat /\ icache_delay' \in Nat
       /\ ICycles' = ICycles + icache_delay'
  <2>1. iMisses \in Nat /\ ICycles \in Nat /\ ILatency \in Nat /\ DCycles \in Nat
        /\ (iMisses + 1) * ILatency = iMisses * ILatency + ILatency
    BY CountTypes, LatencyTypes DEF CycleInv
  <2> QED
    BY <1>6, <2>1 DEF ICycles
<1>15. Busy \in Nat /\ Busy' = Busy + 1
  BY <1>8 DEF Busy
<1>16. /\ currentCycle' <= currentCycle + 1
       /\ CyclesFit => currentCycle' = currentCycle + 1
  BY <1>5, CycleCounts DEF CycleInv
<1> DEFINE c == currentCycle'
           i == icache_delay'
           d == dcache_delay'
           bd == branch_delay'
           u == PP!Due'
           t == PP!ToDrain(pipe')
           l == PP!Less1(dcache_delay)
<1>17. /\ c \in Nat /\ u \in Nat /\ bd \in Nat
       /\ currentCycle \in Nat /\ icache_delay \in Nat /\ branch_delay \in Nat
       /\ nrLoadUseStalls \in Nat /\ PP!Due \in Nat
  <2>1. PP!TypeOK /\ PP!TypeOK'
    BY DEF PipelineOK
  <2>2. /\ c \in Nat /\ bd \in Nat /\ currentCycle \in Nat /\ icache_delay \in Nat
        /\ branch_delay \in Nat /\ nrLoadUseStalls \in Nat
    BY <2>1 DEF PP!TypeOK
  <2>3. u \in Nat /\ PP!Due \in Nat
    BY <2>1, PipelineConstants, PP!ChargeTypes, PP!DueNext
  <2> QED
    BY <2>2, <2>3
<1>18. br \in Nat /\ two \in Nat
  OBVIOUS
<1>19. currentCycle + icache_delay + dcache_delay + PP!Due
         <= Busy + nrLoadUseStalls + BranchesRun + NopsRun + ICycles + DCycles
  BY DEF CycleInv, AtMost
<1> HIDE DEF br, two, ill, w, ovf
<1>20. AtMost'
  <2>1. c <= currentCycle + 1 /\ u <= PP!Due + br + two
    BY <1>3, <1>16
  <2>2. c + i + d + u
          <= (Busy + 1) + nrLoadUseStalls + (BranchesRun + br) + (NopsRun + two)
             + (ICycles + i) + (DCycles + d - l)
    <3>1. i \in Nat /\ d \in Nat /\ l \in Nat /\ dcache_delay \in Nat /\ l <= dcache_delay
      BY <1>7, <1>14
    <3> HIDE DEF c, i, d, u, l
    <3> QED
      BY <1>12, <1>13, <1>14, <1>15, <1>17, <1>18, <1>19, <2>1, <3>1
  <2> QED
    BY <1>3, <1>7, <1>12, <1>13, <1>14, <1>15, <2>2 DEF AtMost
<1>21. ASSUME CyclesFit, raised' = {}
       PROVE  AtLeast'
  <2>1. /\ raised = {} /\ PP!ToDrain(pipe) = 4 /\ t = 4 /\ bd = 0
        /\ icache_delay = 0 /\ dcache_delay = 0 /\ branch_delay = 0
    BY <1>4, <1>21
  <2>2. c = currentCycle + 1 /\ l = 0
    BY <1>16, <1>21, <2>1 DEF PP!Less1
  <2>3. /\ Busy + ICycles <= currentCycle + 0 + 4
        /\ Busy + nrLoadUseStalls <= currentCycle + 0 + 4
        /\ Busy + DCycles <= currentCycle + 0 + 4
    BY <1>21, <2>1 DEF CycleInv, AtLeast
  <2>4. /\ (Busy + 1) + (ICycles + i) <= c + i + t
        /\ (Busy + 1) + nrLoadUseStalls <= c + bd + t
        /\ (Busy + 1) + (DCycles + d - l) <= c + d + t
    <3>1. i \in Nat /\ d \in Nat
      BY <1>7, <1>14
    <3> HIDE DEF c, i, d, bd, t, l
    <3> QED
      BY <1>14, <1>15, <1>17, <2>1, <2>2, <2>3, <3>1
  <2>5. PP!ToDrain(pipe)' = t
    BY DEF PP!ToDrain
  <2> QED
    BY <1>3, <1>7, <1>14, <1>15, <2>4, <2>5 DEF AtLeast
<1>22. CyclesFit' <=> CyclesFit
  BY DEF CyclesFit, ILatency, DLatency
<1> QED
  BY <1>9, <1>10, <1>20, <1>21, <1>22 DEF CycleInv

LEMMA CycleInit ==
  ASSUME Init
  PROVE  CycleInv
<1>1. /\ din = 0 /\ path = <<>> /\ pipe = P!EmptyPipe /\ raised = {} /\ currentCycle = 0
      /\ icache_delay = 0 /\ dcache_delay = 0 /\ branch_delay = 0 /\ nrLoadUseStalls = 0
      /\ nopArithmeticExcept = 0 /\ nopIllegalInstruct = 0
      /\ iMisses = 0 /\ dMisses = 0 /\ iPast = <<>> /\ dPast = <<>>
      /\ flags.isOverflow = FALSE /\ flags.isValid = TRUE
  BY DEF Init, P!Init, I!Init, D!Init, EmulatorInit
<1>2. MissesOK
  <2>1. Len(iPast) = 0 /\ Len(dPast) = 0 /\ iPast \in Seq(Word)
    BY <1>1
  <2> QED
    BY <1>1, <2>1, LatencyTypes DEF MissesOK
<1>3. IsFiniteSet(raised) /\ Cardinality(raised) = 0
  BY <1>1, FS_EmptySet
<1>4. BranchesRun = 0 /\ IllegalRun = 0
  <2>1. DOMAIN path = {}
    BY <1>1
  <2> QED
    BY <2>1, FS_EmptySet DEF BranchesRun, IllegalRun, Executed
<1>5. /\ pipe.ifInstr = P!Bubble /\ pipe.idInstr = P!Bubble /\ pipe.exInstr = P!Bubble
      /\ pipe.memInstr = P!Bubble /\ pipe.wbInstr = P!Bubble
      /\ P!Bubble.instr = PP!Nop /\ PP!Nop # PP!HALT_INSTRUCTION
      /\ ~ PP!isBranch(PP!Nop)
  BY <1>1 DEF P!EmptyPipe, P!Bubble, P!Nop, PP!Nop, PP!HALT_INSTRUCTION, PP!isBranch
<1>6. PP!ToDrain(pipe) = 4
  BY <1>5 DEF PP!ToDrain
<1>7. PP!Due = 4
  <2>1. PP!BranchInIF = 0 /\ PP!NopsDue = 0
    BY <1>1, <1>5 DEF PP!BranchInIF, PP!NopsDue
  <2>2. PP!Uncounted = 0
    BY <1>1, <1>5 DEF PP!Uncounted, PP!ID
  <2> QED
    BY <1>6, <2>1, <2>2 DEF PP!Due, PP!Charge
<1>8. 0 * ILatency = 0 /\ 0 * DLatency = 0
  BY LatencyTypes
<1>9. ICycles = 0 /\ DCycles = 0 /\ NopsRun = 0 /\ Busy = 4
  BY <1>1, <1>3, <1>4, <1>8 DEF ICycles, DCycles, NopsRun, Busy
<1> QED
  BY <1>1, <1>2, <1>3, <1>4, <1>6, <1>7, <1>9 DEF CycleInv, AtMost, AtLeast

LEMMA CycleStep ==
  ASSUME SimInv, SimInv', PipelineOK, PipelineOK', CostOK, CycleInv, [Next]_cycleVars
  PROVE  CycleInv'
<1>1. CASE UNCHANGED cycleVars
  <2>1. /\ UNCHANGED <<din, path, pipe, raised, flags, currentCycle, icache_delay,
                       dcache_delay, branch_delay, nrLoadUseStalls, nopArithmeticExcept,
                       nopIllegalInstruct, lastBranchInstruction, lastBranchCycleCount>>
        /\ UNCHANGED <<iMisses, dMisses, iPast, dPast>>
    BY <1>1 DEF cycleVars, vars, emulator, iCacheVars, dCacheVars
  <2>2. PP!Due' = PP!Due
    BY <2>1 DEF PP!Due, PP!Charge, PP!BranchInIF, PP!Uncounted, PP!NopsDue, PP!ToDrain,
           PP!ID, PP!EX, PP!BranchOnEx
  <2>3. PP!ToDrain(pipe)' = PP!ToDrain(pipe)
    BY <2>1 DEF PP!ToDrain
  <2>4. /\ BranchesRun' = BranchesRun /\ NopsRun' = NopsRun /\ ICycles' = ICycles
        /\ DCycles' = DCycles /\ Busy' = Busy
    BY <2>1 DEF BranchesRun, NopsRun, IllegalRun, Executed, ICycles, DCycles, Busy
  <2>5. (MissesOK' <=> MissesOK) /\ (CyclesFit' <=> CyclesFit)
    BY <2>1 DEF MissesOK, CyclesFit, ILatency, DLatency
  <2> QED
    BY <2>1, <2>2, <2>3, <2>4, <2>5 DEF CycleInv, AtMost, AtLeast
<1> QED
  BY <1>1, CycleFetchStep, CycleStallStep DEF Next, Finished

LEMMA CyclesCounted ==
  ASSUME SimInv, PipelineOK, CostOK, CycleInv, CyclesFit
  PROVE  CyclesExplained
<1> DEFINE ic == iMisses * ILatency
           dc == dMisses * DLatency
           n == nrLoadUseStalls
           most == Max({n, ic, dc})
<1>1. /\ BranchesRun \in Nat /\ NopsRun \in Int /\ ICycles \in Nat /\ DCycles \in Nat
      /\ Busy \in Nat
  BY CountTypes DEF CycleInv
<1>2. /\ PP!Due \in Nat /\ icache_delay \in Nat /\ dcache_delay \in Nat
      /\ branch_delay \in Nat /\ currentCycle \in Nat /\ nrLoadUseStalls \in Nat
  BY PipelineConstants, PP!ChargeTypes DEF PipelineOK, PP!TypeOK
<1>3. currentCycle <= Busy + n + BranchesRun + NopsRun + ICycles + DCycles
  BY <1>1, <1>2 DEF CycleInv, AtMost
<1>4. ASSUME status = "HALT", raised = {}
      PROVE  currentCycle >= Busy + most
  <2>1. PP!ToDrain(pipe) = 0 /\ PP!HaltBehind(pipe)
    BY <1>4 DEF CostOK, PP!StallInv, PP!HaltOrder, PP!ToDrain
  <2>2. icache_delay = 0 /\ dcache_delay = 0 /\ branch_delay = 0
    <3>1. PP!DelaysKept /\ pipe.wbInstr.instr = PP!HALT_INSTRUCTION
      BY <1>4 DEF CostOK, PP!StallInv, PP!HaltOrder
    <3>2. ~ PP!isBranch(PP!ID)
      BY <2>1, <3>1 DEF PP!HaltBehind, PP!ID, PP!Bubble, PP!Nop, PP!isBranch,
             PP!HALT_INSTRUCTION
    <3> QED
      BY <1>2, <1>4, <2>1, <3>1, <3>2 DEF PP!DelaysKept
  <2>3. AtLeast
    BY <1>4 DEF CycleInv
  <2>4. /\ Busy + ic <= currentCycle /\ Busy + n <= currentCycle
        /\ Busy + dc <= currentCycle
    BY <1>1, <1>2, <2>1, <2>2, <2>3 DEF AtLeast, ICycles, DCycles
  <2>5. most \in {n, ic, dc}
    <3>1. ic \in Nat /\ dc \in Nat /\ n \in Nat
      BY <1>1, <1>2 DEF ICycles, DCycles
    <3> HIDE DEF ic, dc, n
    <3>2. \E x \in {n, ic, dc} : \A y \in {n, ic, dc} : x >= y
      BY <3>1
    <3> QED
      BY <3>2 DEF Max
  <2> HIDE DEF most, ic, dc, n
  <2> QED
    BY <2>4, <2>5
<1> QED
  BY <1>3, <1>4 DEF CyclesExplained, SimulationStats, BranchesRun, NopsRun, IllegalRun,
     ICycles, DCycles, Busy, ILatency, DLatency

\* Whatever program runs, the cycles that finalizeSimulator reports are accounted for by
\* its other numbers, from above and, without exceptions, from below: no stall is charged
\* twice and none is forgotten (src/src/cycle.cpp:202-512 and :543-551).  The bound from
\* below needs a counter of cycles that does not wrap.
THEOREM CyclesExplainedCorrect ==
  ASSUME CyclesFit
  PROVE  Spec => []CyclesExplained
<1>1. Init => SimInv /\ CycleInv
  BY SimInit, CycleInit
<1>2. /\ SimInv /\ PipelineOK /\ PipelineOK' /\ CostOK /\ CycleInv /\ [Next]_cycleVars
      => SimInv' /\ CycleInv'
  BY SimStep, CycleStep
<1>3. SimInv /\ PipelineOK /\ CostOK /\ CycleInv => CyclesExplained
  BY CyclesCounted
<1> QED
  BY <1>1, <1>2, <1>3, PipelineAlwaysOK, CostAlwaysOK, PTL DEF Spec

-----------------------------------------------------------------------------
(***************************************************************************)
(* The stalls reported.                                                    *)
(***************************************************************************)
\* No instruction executed is a BLEZ or BGTZ with a second register, which MIPS reserves.
PlainPath == \A k \in DOMAIN path : PP!Plain(PipeWord(path[k].word))

StallCountInv == PlainPath => PP!CountInv

LEMMA StallCountStep ==
  ASSUME SimInv, PipelineOK, CostOK, CostOK', StallCountInv, [Next]_cycleVars
  PROVE  StallCountInv'
<1> SUFFICES ASSUME PlainPath'
             PROVE  PP!CountInv'
  BY DEF StallCountInv
<1>1. EmulatorOK /\ din \in Nat /\ DOMAIN path = 1 .. Len(path)
  BY SlotsOK DEF SimInv, EmulatorOK
<1>2. ASSUME NEW i, NEW ovf, NEW x, PP!FetchNew(i, ovf, x)
      PROVE  din' = din + 1 /\ pipe'.ifInstr.instr = i
  BY <1>2 DEF PP!FetchNew, PP!executeInstruction, PP!moveAllForward
<1>3. CASE FetchNew
  <2>1. executeInstruction /\ P!FetchNew(PipeWord(word), info'.isOverflow, CapturedAddress)
    BY <1>3 DEF FetchNew
  <2>2. pipe'.ifInstr.instr = PipeWord(word)
    BY <1>2, <2>1, SamePipeline
  <2>3. /\ Len(path') = Len(path) + 1 /\ Len(path) \in Nat
        /\ \A k \in 1 .. Len(path) : path'[k] = path[k]
        /\ path'[Len(path) + 1].word = word
        /\ DOMAIN path' = 1 .. Len(path')
    BY <1>1, <2>1, EmulatorStep DEF EmulatorOK, NewEntry
  <2>4. PlainPath /\ PP!Plain(PipeWord(word))
    <3>1. \A k \in 1 .. Len(path) : k \in DOMAIN path'
      BY <2>3
    <3>2. Len(path) + 1 \in DOMAIN path'
      BY <2>3
    <3> QED
      BY <1>1, <2>3, <3>1, <3>2 DEF PlainPath
  <2>5. PP!FetchesPlain
    BY <1>2, <2>2, <2>4 DEF PP!FetchesPlain
  <2>6. PP!Next
    BY <1>3, FetchIsPipelineStep, SamePipeline
  <2> QED
    BY <2>4, <2>5, <2>6, PipelineConstants, PP!CountStep
       DEF StallCountInv, PipelineOK, CostOK
<1>4. CASE Stall \/ UNCHANGED cycleVars
  <2>1. path' = path /\ din' = din
    BY <1>4 DEF Stall, cycleVars, vars, emulator
  <2>2. PlainPath
    BY <2>1 DEF PlainPath
  <2>3. PP!FetchesPlain
    BY <1>1, <1>2, <2>1 DEF PP!FetchesPlain
  <2>4. [PP!Next]_(PP!vars)
    <3>1. Stall => P!Next
      BY Zenon DEF Stall, P!Next
    <3>2. UNCHANGED cycleVars => UNCHANGED P!vars
      BY DEF cycleVars, vars, emulator, P!vars, P!delays, P!lastBranch, P!exceptions,
             P!history
    <3>3. UNCHANGED P!vars => UNCHANGED PP!vars
      BY DEF P!vars, PP!vars, P!delays, PP!delays, P!lastBranch, PP!lastBranch,
             P!exceptions, PP!exceptions, P!history, PP!history
    <3> QED
      BY <1>4, <3>1, <3>2, <3>3, SamePipeline
  <2> QED
    BY <2>2, <2>3, <2>4, PipelineConstants, PP!CountStep
       DEF StallCountInv, PipelineOK, CostOK
<1> QED
  BY <1>3, <1>4 DEF Next, Finished

\* In every run the load-use stalls reported cover each use of a load that has to wait
\* and charge no instruction twice for a load, nor for a load further ahead, loads to
\* register 0 included (src/src/cycle.cpp:218-301); all that is asked of the instructions
\* executed is that none has an encoding that MIPS reserves.
THEOREM SimulatorStallsCorrect == Spec => [](PlainPath => P!StallsCounted)
<1>1. Init => SimInv /\ StallCountInv
  <2>1. P!Init => PP!CountInv
    BY SamePipeline, PipelineConstants, PP!CountAtFirst
  <2> QED
    BY <2>1, SimInit DEF Init, StallCountInv
<1>2. /\ SimInv /\ PipelineOK /\ CostOK /\ CostOK' /\ StallCountInv /\ [Next]_cycleVars
      => SimInv' /\ StallCountInv'
  BY SimStep, StallCountStep
<1>3. StallCountInv => (PlainPath => P!StallsCounted)
  BY DEF StallCountInv, PP!CountInv, PP!Counted, PP!LoadUses, P!StallsCounted, P!LoadUses,
         P!Cardinality, PP!Cardinality
<1> QED
  BY <1>1, <1>2, <1>3, PipelineAlwaysOK, CostAlwaysOK, PTL DEF Spec
=============================================================================
