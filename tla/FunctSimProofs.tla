--------------------------- MODULE FunctSimProofs ---------------------------
(***************************************************************************)
(* Theorems about the functional simulator, for every instruction set that *)
(* Decode may describe, every program and words of any width.              *)
(***************************************************************************)
EXTENDS FunctSim, EmulatorProofs

-----------------------------------------------------------------------------
(***************************************************************************)
(* Types.                                                                  *)
(***************************************************************************)
TypeInv == TypeOK /\ path \in Seq(PathEntry)

LEMMA TypeMachine ==
  ASSUME TypeInv
  PROVE  MachineOK
  BY DEF TypeInv, TypeOK, MachineOK, Registers

LEMMA TypeInit ==
  ASSUME Init
  PROVE  TypeInv
<1>1. 0 \in Word
  BY ModuliTypes DEF Word
<1>2. registers \in [Register -> Word]
  BY <1>1 DEF Init, EmulatorInit
<1>3. path = <<>> /\ path \in Seq(PathEntry) /\ Len(path) = 0
  BY DEF Init, EmulatorInit
<1> QED
  BY <1>1, <1>2, <1>3, FunctSimAssumption DEF Init, EmulatorInit, TypeInv, TypeOK

LEMMA TypeStep ==
  ASSUME TypeInv, [Next]_functVars
  PROVE  TypeInv'
<1>1. CASE runInstructions
  <2>1. executeInstruction /\ MachineOK
    BY <1>1, TypeMachine DEF runInstructions
  <2>2. MachineOK'
    BY <2>1, StepTypes
  <2>3. NewEntry(StepRaises) \in PathEntry
    BY <2>1, NewEntryType DEF TypeInv, TypeOK
  <2>4. path' \in Seq(PathEntry) /\ din' = Len(path')
    BY <2>1, <2>3, StepControl DEF TypeInv, TypeOK
  <2>5. encounteredBranch' \in BOOLEAN
    BY <2>1, StepControl
  <2>6. status' \in {"SUCCESS", "HALT"}
    BY <1>1 DEF runInstructions
  <2> QED
    BY <2>2, <2>4, <2>5, <2>6 DEF TypeInv, TypeOK, MachineOK, Registers
<1>2. CASE UNCHANGED functVars
  BY <1>2 DEF functVars, vars, emulator, TypeInv, TypeOK
<1> QED
  BY <1>1, <1>2 DEF Next, Finished

\* Registers and memory hold words and bytes in every run of every program: no
\* operation of the emulator leaves a value of more than 32 bits behind
\* (src/src/emulator.cpp:103-375).
THEOREM FunctTypeCorrect == Spec => []TypeOK
<1>1. Init => TypeInv
  BY TypeInit
<1>2. TypeInv /\ [Next]_functVars => TypeInv'
  BY TypeStep
<1>3. TypeInv => TypeOK
  BY DEF TypeInv
<1> QED
  BY <1>1, <1>2, <1>3, PTL DEF Spec

-----------------------------------------------------------------------------
(***************************************************************************)
(* Exceptions and arithmetic.                                              *)
(***************************************************************************)
\* An instruction that raises leaves nothing behind but PC at the exception address
\* (src/src/emulator.cpp:122, :370-373).
THEOREM ExceptionsHaveNoEffectCorrect == Spec => ExceptionsHaveNoEffect
<1> DEFINE Action == [path' # path /\ (info'.isOverflow \/ ~info'.isValid) =>
                        /\ \A r \in Register \ {0} : registers'[r] = registers[r]
                        /\ memArr' = memArr
                        /\ PC' = ExceptionAddress
                        /\ ~encounteredBranch']_functVars
<1>1. TypeInv /\ [Next]_functVars => Action
  <2> SUFFICES ASSUME TypeInv, executeInstruction, info'.isOverflow \/ ~info'.isValid
               PROVE  /\ \A r \in Register \ {0} : registers'[r] = registers[r]
                      /\ memArr' = memArr
                      /\ PC' = ExceptionAddress
                      /\ ~encounteredBranch'
    BY DEF Next, runInstructions, Finished, functVars, vars
  <2>1. StepRaises
    BY StepControl DEF StepRaises
  <2>2. PC' = ExceptionAddress /\ ~encounteredBranch'
    BY <2>1, StepControl
  <2>3. Overflow \/ Illegal
    BY <2>1, OpGroups
       DEF executeInstruction, Halt, ComputesExactly, Computes, BranchTaken,
           BranchNotTaken, Jump, JumpAndLink, Load, Store, StepRaises
  <2>4. registers' = Unwritten /\ memArr' = memArr
    BY <2>3 DEF Overflow, Illegal
  <2>5. registers \in [Register -> Word]
    BY DEF TypeInv, TypeOK
  <2> QED
    BY <2>2, <2>4, <2>5 DEF Unwritten
<1>2. Init => TypeInv
  BY TypeInit
<1>3. TypeInv /\ [Next]_functVars => TypeInv'
  BY TypeStep
<1> QED
  BY <1>1, <1>2, <1>3, PTL DEF Spec, ExceptionsHaveNoEffect

\* add, sub, addi, addu and subu: the overflow is reported exactly if the result
\* without a width has no representation, and is written if it has one
\* (src/src/emulator.cpp:15-58, :173-196, :229-284).
LEMMA ExactResult ==
  ASSUME MachineOK, op \in Arithmetic
  PROVE  /\ overflows <=> ~Representable(Exact)
         /\ result = Exact % WordModulus
<1> DEFINE x == Operand(instruction.rs)
           y == Operand(instruction.rt)
<1>1. x = a /\ y = b
  BY DEF a, b, reg, Operand
<1>2. a \in Word /\ b \in Word /\ signExtImm \in Word
  BY InstructionTypes
<1>3. ASSUME NEW v \in Word
      PROVE  /\ Signed(v) \in Int /\ v \in Int
             /\ Signed(v) = v \/ Signed(v) = v - WordModulus
  BY <1>3, ModuliTypes DEF Signed, Word
<1>4. ASSUME NEW v \in Word, NEW w \in Word
      PROVE  (Signed(v) + Signed(w)) % WordModulus = Add(v, w)
  <2>1. v + w \in Int /\ v + w - WordModulus \in Int /\ WordModulus \in Int
        /\ v \in Int /\ w \in Int
    BY <1>3, ModuliTypes
  <2>2. \/ Signed(v) + Signed(w) = v + w
        \/ Signed(v) + Signed(w) = (v + w) - WordModulus
        \/ Signed(v) + Signed(w) = ((v + w) - WordModulus) - WordModulus
    BY <2>1, <1>3
  <2>3. ASSUME NEW k \in Int
        PROVE  /\ (k - WordModulus) % WordModulus = k % WordModulus
               /\ ((k - WordModulus) - WordModulus) % WordModulus = k % WordModulus
    <3>1. (k - WordModulus) % WordModulus = k % WordModulus
      BY ModulusShift
    <3>2. ASSUME NEW l \in Int, l = k - WordModulus
          PROVE  (l - WordModulus) % WordModulus = k % WordModulus
      BY <3>1, <3>2, ModulusShift
    <3>3. k - WordModulus \in Int
      BY <2>1
    <3> QED
      BY <3>1, <3>2, <3>3
  <2> QED
    BY <2>1, <2>2, <2>3 DEF Add
<1>5. ASSUME NEW v \in Word, NEW w \in Word
      PROVE  (Signed(v) - Signed(w)) % WordModulus = Difference(v, w)
  <2>1. v - w \in Int /\ (v - w) + WordModulus \in Int /\ WordModulus \in Int
        /\ v \in Int /\ w \in Int
    BY <1>3, ModuliTypes
  <2>2. \/ Signed(v) - Signed(w) = v - w
        \/ Signed(v) - Signed(w) = (v - w) - WordModulus
        \/ Signed(v) - Signed(w) = (v - w) + WordModulus
    BY <2>1, <1>3
  <2>3. ((v - w) + WordModulus) - WordModulus = v - w
    BY <2>1
  <2> QED
    BY <2>1, <2>2, <2>3, ModulusShift DEF Difference
<1>6. /\ Signed(a) \in Int /\ Signed(b) \in Int /\ Signed(signExtImm) \in Int
      /\ a \in Int /\ b \in Int /\ INT32_MIN \in Int /\ INT32_MAX \in Int
  BY <1>2, <1>3, SignBitHalves DEF INT32_MIN, INT32_MAX
<1>7. CASE op = "add"
  <2>1. Exact = Signed(a) + Signed(b)
    BY <1>1, <1>7 DEF Exact
  <2>2. overflows <=> checkOverflowSigned(a, b)
    BY <1>7 DEF overflows
  <2>3. result = Add(a, b)
    BY <1>7 DEF result
  <2> QED
    BY <1>2, <1>4, <1>6, <1>7, <2>1, <2>2, <2>3 DEF checkOverflowSigned, Representable
<1>8. CASE op = "sub"
  <2>1. Exact = Signed(a) - Signed(b)
    BY <1>1, <1>8 DEF Exact
  <2>2. overflows <=> checkUnderflowSigned(a, b)
    BY <1>8 DEF overflows
  <2>3. result = Difference(a, b)
    BY <1>8 DEF result
  <2> QED
    BY <1>2, <1>5, <1>6, <1>8, <2>1, <2>2, <2>3 DEF checkUnderflowSigned, Representable
<1>9. CASE op = "addi"
  <2>1. Exact = Signed(a) + Signed(signExtImm)
    BY <1>1, <1>9 DEF Exact
  <2>2. overflows <=> checkOverflowSigned(a, signExtImm)
    BY <1>9 DEF overflows
  <2>3. result = Add(a, signExtImm)
    BY <1>9 DEF result
  <2> QED
    BY <1>2, <1>4, <1>6, <1>9, <2>1, <2>2, <2>3 DEF checkOverflowSigned, Representable
<1>10. CASE op = "addu"
  <2>1. Exact = a + b
    BY <1>1, <1>10 DEF Exact
  <2>2. overflows <=> checkOverflowUnsigned(a, b)
    BY <1>10 DEF overflows
  <2>3. result = Add(a, b)
    BY <1>10 DEF result
  <2> QED
    BY <1>2, <1>10, <2>1, <2>2, <2>3, ModuliTypes
       DEF checkOverflowUnsigned, Representable, Add, Word, UINT32_MAX
<1>11. CASE op = "subu"
  <2>1. Exact = a - b
    BY <1>1, <1>11 DEF Exact
  <2>2. overflows <=> checkUnderflowUnsigned(a, b)
    BY <1>11 DEF overflows
  <2>3. result = Difference(a, b)
    BY <1>11 DEF result
  <2> QED
    BY <1>2, <1>11, <2>1, <2>2, <2>3, ModuliTypes
       DEF checkUnderflowUnsigned, Representable, Difference, Word
<1> QED
  BY <1>7, <1>8, <1>9, <1>10, <1>11 DEF Arithmetic

\* For words of every width and every program, add, addi, addu, sub and subu raise an
\* overflow exactly if the result has no representation and write it otherwise
\* (src/src/emulator.cpp:15-58, :173-196, :229-284).
THEOREM ArithmeticIsExactCorrect == Spec => ArithmeticIsExact
<1> DEFINE Action == [path' # path /\ op \in Arithmetic =>
                        /\ info'.isOverflow <=> ~Representable(Exact)
                        /\ ~info'.isOverflow =>
                             registers'[RegisterWritten] = Exact % WordModulus
                     ]_functVars
<1>1. TypeInv /\ [Next]_functVars => Action
  <2> SUFFICES ASSUME TypeInv, executeInstruction, op \in Arithmetic
               PROVE  /\ info'.isOverflow <=> ~Representable(Exact)
                      /\ ~info'.isOverflow =>
                           registers'[RegisterWritten] = Exact % WordModulus
    BY DEF Next, runInstructions, Finished, functVars, vars
  <2>1. /\ overflows <=> ~Representable(Exact)
        /\ result = Exact % WordModulus
    BY TypeMachine, ExactResult
  <2>2. info'.isOverflow <=> overflows
    BY StepControl
  <2>3. ASSUME ~overflows
        PROVE  registers' = Written(RegisterWritten, result)
    BY <2>3, OpGroups
       DEF executeInstruction, Halt, ComputesExactly, Overflow, Computes, BranchTaken,
           BranchNotTaken, Jump, JumpAndLink, Load, Store, Illegal
  <2>4. RegisterWritten \in Register /\ registers \in [Register -> Word]
    BY TypeMachine, InstructionTypes
       DEF RegisterWritten, Instruction, TypeInv, TypeOK
  <2>5. ASSUME NEW r \in Register, NEW v
        PROVE  Written(r, v)[r] = v
    BY <2>4 DEF Written
  <2> QED
    BY <2>1, <2>2, <2>3, <2>4, <2>5
<1>2. Init => TypeInv
  BY TypeInit
<1>3. TypeInv /\ [Next]_functVars => TypeInv'
  BY TypeStep
<1> QED
  BY <1>1, <1>2, <1>3, PTL DEF Spec, ArithmeticIsExact

-----------------------------------------------------------------------------
(***************************************************************************)
(* Delay slots and calls.                                                  *)
(***************************************************************************)
\* The branch that is pending is that of the last instruction.
PendingBranch ==
  /\ encounteredBranch <=> Len(path) > 0 /\ path[Len(path)].target # NoTarget
  /\ encounteredBranch => savedBranch = path[Len(path)].target

\* An instruction is in a delay slot if and only if the one before it branched.
SlotsMarked ==
  \A k \in 1 .. Len(path) :
    path[k].inSlot <=> k > 1 /\ path[k - 1].target # NoTarget

BranchesGoToTarget ==
  \A k \in 1 .. Len(path) :
    path[k].target # NoTarget => path[k].target = Target(k)

Linked(j) == Executed(j).op = "jal" /\ ~path[j].inSlot

ReturnAddress(j) == (path[j].pc + 8) % WordModulus

\* The link register holds the return address of a call until it is written.
LinkKept ==
  \A j \in 1 .. Len(path) :
    Linked(j) /\ (\A m \in j + 1 .. Len(path) : ~path[m].wroteRA)
      => registers[RA] = ReturnAddress(j)

ControlInv ==
  /\ TypeInv
  /\ PendingBranch
  /\ SlotsMarked
  /\ BranchesGoToTarget
  /\ DelaySlots
  /\ LinkKept
  /\ CallsReturn

LEMMA ControlInit ==
  ASSUME Init
  PROVE  ControlInv
<1>1. TypeInv
  BY TypeInit
<1>2. path = <<>> /\ Len(path) = 0 /\ ~encounteredBranch
  BY DEF Init, EmulatorInit
<1> QED
  BY <1>1, <1>2
     DEF ControlInv, PendingBranch, SlotsMarked, BranchesGoToTarget, DelaySlots,
         LinkKept, CallsReturn

\* The history grows by one entry.
LEMMA PathGrows ==
  ASSUME TypeInv, executeInstruction
  PROVE  LET n == Len(path) IN
         /\ n \in Nat /\ Len(path') = n + 1
         /\ \A k \in 1 .. n : path'[k] = path[k]
         /\ path'[n + 1] = NewEntry(StepRaises)
<1>1. /\ path \in Seq(PathEntry) /\ NewEntry(StepRaises) \in PathEntry
      /\ path' = Append(path, NewEntry(StepRaises))
  BY TypeMachine, NewEntryType, StepControl DEF TypeInv, TypeOK
<1> QED
  BY <1>1

LEMMA NewEntryFields ==
  /\ NewEntry(StepRaises).pc = PC
  /\ NewEntry(StepRaises).word = word
  /\ NewEntry(StepRaises).inSlot = encounteredBranch
  /\ NewEntry(StepRaises).target = IF encounteredBranch' THEN savedBranch' ELSE NoTarget
  /\ NewEntry(StepRaises).wroteRA = (registers'[RA] # registers[RA])
  /\ NewEntry(StepRaises).raised = StepRaises
  BY DEF NewEntry, NoTarget

LEMMA ControlStep ==
  ASSUME ControlInv, executeInstruction, NEW n, n = Len(path)
  PROVE  /\ PendingBranch' /\ SlotsMarked' /\ BranchesGoToTarget' /\ DelaySlots'
         /\ LinkKept' /\ CallsReturn'
<1>1. MachineOK /\ MachineOK' /\ TypeInv
  BY TypeMachine, StepTypes DEF ControlInv
<1>2. /\ n \in Nat /\ Len(path') = n + 1
      /\ \A k \in 1 .. n : path'[k] = path[k]
      /\ path'[n + 1] = NewEntry(StepRaises)
  BY <1>1, PathGrows
<1>3. /\ path'[n + 1].pc = PC
      /\ path'[n + 1].word = word
      /\ path'[n + 1].inSlot = encounteredBranch
      /\ path'[n + 1].target = IF encounteredBranch' THEN savedBranch' ELSE NoTarget
      /\ path'[n + 1].wroteRA = (registers'[RA] # registers[RA])
      /\ path'[n + 1].raised = StepRaises
  BY <1>2, NewEntryFields, Zenon
<1>4. /\ savedBranch' # NoTarget /\ encounteredBranch' \in BOOLEAN
      /\ encounteredBranch \in BOOLEAN
  BY <1>1, StepControl, ModuliTypes DEF MachineOK, NoTarget, Word, TypeInv, TypeOK
<1>5. PendingBranch'
  BY <1>2, <1>3, <1>4 DEF PendingBranch
<1>6. /\ encounteredBranch <=> n > 0 /\ path[n].target # NoTarget
      /\ encounteredBranch => savedBranch = path[n].target
  BY DEF ControlInv, PendingBranch
<1>7. SlotsMarked'
  <2> SUFFICES ASSUME NEW k \in 1 .. n + 1
               PROVE  path'[k].inSlot <=> k > 1 /\ path'[k - 1].target # NoTarget
    BY <1>2 DEF SlotsMarked
  <2>1. CASE k \in 1 .. n
    <3>1. path'[k] = path[k] /\ (k > 1 => path'[k - 1] = path[k - 1])
      BY <1>2, <2>1
    <3>2. path[k].inSlot <=> k > 1 /\ path[k - 1].target # NoTarget
      BY <2>1 DEF ControlInv, SlotsMarked
    <3> QED
      BY <3>1, <3>2
  <2>2. CASE k = n + 1
    <3>1. path'[k].inSlot = encounteredBranch
      BY <1>3, <2>2
    <3>2. n > 0 => path'[k - 1] = path[n]
      BY <1>2, <2>2
    <3> QED
      BY <1>2, <1>4, <1>6, <2>2, <3>1, <3>2
  <2> QED
    BY <1>2, <2>1, <2>2
\* What the properties say of an entry says the same in the longer history.
<1>8. ASSUME NEW k \in 1 .. n
      PROVE  /\ path'[k] = path[k] /\ Executed(k)' = Executed(k)
             /\ Target(k)' = Target(k) /\ Linked(k)' = Linked(k)
             /\ ReturnAddress(k)' = ReturnAddress(k)
  BY <1>2 DEF Executed, Target, Linked, ReturnAddress
<1>9. /\ Decode[path'[n + 1].word] = instruction
  BY <1>3 DEF instruction
<1>10. /\ nextPC \in Word /\ signExtImm \in Word /\ PC \in Word /\ 4 \in Word
       /\ 4 \in Int
  BY <1>1, InstructionTypes, WordExceedsFour, ModuliTypes DEF MachineOK, Word
<1>11. BranchesGoToTarget'
  <2> SUFFICES ASSUME NEW k \in 1 .. n + 1, path'[k].target # NoTarget
               PROVE  path'[k].target = Target(k)'
    BY <1>2 DEF BranchesGoToTarget
  <2>1. CASE k \in 1 .. n
    BY <1>8, <2>1 DEF ControlInv, BranchesGoToTarget
  <2>2. CASE k = n + 1
    <3>1. encounteredBranch' /\ path'[k].target = savedBranch'
      BY <1>3, <2>2
    <3>2. CASE op \in Branches /\ ~encounteredBranch
      <4>1. savedBranch' = branchTarget /\ nextPC = Add(PC, 4)
        BY <3>1, <3>2, StepControl DEF nextPC
      <4>2. signExtImm * 4 \in Int
        BY <1>10, ModuliTypes DEF Word
      <4>3. branchTarget = (PC + 4 + signExtImm * 4) % WordModulus
        BY <1>10, <4>1, <4>2, AddThenWrap DEF branchTarget
      <4>4. Target(k)' = (PC + 4 + signExtImm * 4) % WordModulus
        BY <1>3, <1>9, <2>2, <3>2 DEF Target, Executed, op, signExtImm
      <4> QED
        BY <3>1, <4>1, <4>3, <4>4
    <3>3. CASE ~ (op \in Branches /\ ~encounteredBranch)
      <4>1. Target(k)' = path'[k].target
        BY <1>3, <1>9, <2>2, <3>3 DEF Target, Executed, op
      <4> QED
        BY <4>1
    <3> QED
      BY <3>2, <3>3
  <2> QED
    BY <1>2, <2>1, <2>2
<1>12. DelaySlots'
  <2>1. CASE StepRaises
    <3>1. PC' = ExceptionAddress
      BY <2>1, StepControl
    <3> QED
      BY <1>2, <1>3, <2>1, <3>1 DEF DelaySlots
  <2>2. CASE ~StepRaises /\ encounteredBranch
    <3>1. PC' = savedBranch /\ savedBranch = path[n].target
      BY <1>6, <2>2, StepControl DEF nextPC
    <3>2. n \in 1 .. n /\ path[n].target # NoTarget
      BY <1>2, <1>6, <2>2
    <3>3. Target(n)' = path[n].target /\ path'[n].target # NoTarget
      BY <1>8, <3>2 DEF ControlInv, BranchesGoToTarget
    <3>4. (n + 1) - 1 = n /\ n + 1 > 1 /\ n + 1 > 0
      BY <1>2, <3>2
    <3>5. ~path'[n + 1].raised
      BY <1>3, <2>2
    <3> QED
      BY <1>2, <3>1, <3>3, <3>4, <3>5 DEF DelaySlots, Target, Executed
  <2>3. CASE ~StepRaises /\ ~encounteredBranch
    <3>1. PC' = (PC + 4) % WordModulus
      BY <2>3, StepControl DEF nextPC, Add
    <3>2. ~ (n + 1 > 1 /\ path'[(n + 1) - 1].target # NoTarget)
      BY <1>2, <1>6, <2>3
    <3>3. ~path'[n + 1].raised /\ path'[n + 1].pc = PC
      BY <1>3, <2>3
    <3> QED
      BY <1>2, <3>1, <3>2, <3>3 DEF DelaySlots
  <2> QED
    BY <2>1, <2>2, <2>3
<1>13. /\ registers \in [Register -> Word] /\ RA \in Register \ {0}
       /\ (encounteredBranch = FALSE \/ encounteredBranch = TRUE)
  BY <1>1, <1>4, EmulatorAssumption DEF MachineOK, Registers
<1>14. LinkKept'
  <2> SUFFICES ASSUME NEW j \in 1 .. n + 1, Linked(j)',
                      \A m \in j + 1 .. n + 1 : ~path'[m].wroteRA
               PROVE  registers'[RA] = ReturnAddress(j)'
    BY <1>2 DEF LinkKept
  <2>1. CASE j \in 1 .. n
    <3>1. Linked(j) /\ \A m \in j + 1 .. n : ~path[m].wroteRA
      BY <1>2, <1>8, <2>1
    <3>2. registers[RA] = ReturnAddress(j)
      BY <2>1, <3>1 DEF ControlInv, LinkKept
    <3>3. n + 1 \in j + 1 .. n + 1
      BY <1>2, <2>1
    <3>4. registers'[RA] = registers[RA]
      BY <1>3, <3>3
    <3> QED
      BY <1>8, <2>1, <3>2, <3>4
  <2>2. CASE j = n + 1
    <3>1. op = "jal" /\ ~encounteredBranch
      BY <1>3, <1>9, <2>2 DEF Linked, Executed, op
    <3>2. registers' = Written(RA, link)
      BY <3>1, StepControl
    <3>3. registers'[RA] = link
      BY <1>13, <3>2 DEF Written
    <3>4. link = (PC + 4 + 4) % WordModulus
      BY <1>10, <3>1, AddThenWrap DEF link, nextPC, Add
    <3>5. PC + 4 + 4 = PC + 8
      BY <1>10, ModuliTypes DEF Word
    <3>6. ReturnAddress(j)' = (PC + 8) % WordModulus
      BY <1>3, <2>2 DEF ReturnAddress
    <3> QED
      BY <3>3, <3>4, <3>5, <3>6
  <2> QED
    BY <1>2, <2>1, <2>2
<1>15. CallsReturn'
  <2> SUFFICES ASSUME NEW j \in 1 .. n + 1, NEW k \in 1 .. n + 1,
                      Decode[path'[j].word].op = "jal", ~path'[j].inSlot,
                      Decode[path'[k].word].op = "jr", Decode[path'[k].word].rs = RA,
                      \A m \in j + 1 .. k - 1 : ~path'[m].wroteRA,
                      j < k
               PROVE  path'[k].target = (path'[j].pc + 8) % WordModulus
    BY <1>2 DEF CallsReturn, Executed
  <2>1. j \in 1 .. n /\ path'[j] = path[j]
    BY <1>2
  <2>2. CASE k \in 1 .. n
    <3>1. path'[k] = path[k] /\ \A m \in j + 1 .. k - 1 : path'[m] = path[m]
      BY <1>2, <2>1, <2>2
    <3> QED
      BY <2>1, <2>2, <3>1 DEF ControlInv, CallsReturn, Executed
  <2>3. CASE k = n + 1
    <3>1. op = "jr" /\ instruction.rs = RA
      BY <1>9, <2>3 DEF op
    <3>2. path'[k].target = a
      BY <1>3, <2>3, <3>1, StepControl
    <3>3. a = registers[RA]
      BY <1>13, <3>1 DEF a, reg
    <3>4. Linked(j)
      BY <2>1 DEF Linked, Executed
    <3>5. \A m \in j + 1 .. n : ~path[m].wroteRA
      BY <1>2, <2>1, <2>3
    <3>6. registers[RA] = ReturnAddress(j)
      BY <2>1, <3>4, <3>5 DEF ControlInv, LinkKept
    <3> QED
      BY <2>1, <3>2, <3>3, <3>6 DEF ReturnAddress
  <2> QED
    BY <1>2, <2>2, <2>3
<1> QED
  BY <1>5, <1>7, <1>11, <1>12, <1>14, <1>15

LEMMA ControlNext ==
  ASSUME ControlInv, [Next]_functVars
  PROVE  ControlInv'
<1>1. TypeInv'
  BY TypeStep DEF ControlInv
<1>2. CASE executeInstruction
  BY <1>1, <1>2, ControlStep DEF ControlInv
<1>3. CASE UNCHANGED functVars
  BY <1>1, <1>3
     DEF functVars, vars, emulator, ControlInv, PendingBranch, SlotsMarked,
         BranchesGoToTarget, DelaySlots, LinkKept, CallsReturn, Linked, ReturnAddress,
         Target, Executed
<1> QED
  BY <1>2, <1>3 DEF Next, runInstructions, Finished

\* Every taken branch or jump executes exactly the instruction after it before its
\* target, and an exception cancels it (src/src/emulator.cpp:114-121, :286-322, :370-373).
THEOREM DelaySlotsCorrect == Spec => []DelaySlots
<1>1. Init => ControlInv
  BY ControlInit
<1>2. ControlInv /\ [Next]_functVars => ControlInv'
  BY ControlNext
<1>3. ControlInv => DelaySlots
  BY DEF ControlInv
<1> QED
  BY <1>1, <1>2, <1>3, PTL DEF Spec

\* A jr through the register a jal has linked comes back behind its delay slot, if
\* no instruction in between has written it (src/src/emulator.cpp:114-121, :318-322).
THEOREM CallsReturnCorrect == Spec => []CallsReturn
<1>1. Init => ControlInv
  BY ControlInit
<1>2. ControlInv /\ [Next]_functVars => ControlInv'
  BY ControlNext
<1>3. ControlInv => CallsReturn
  BY DEF ControlInv
<1> QED
  BY <1>1, <1>2, <1>3, PTL DEF Spec
=============================================================================
