------------------------------ MODULE FunctSim ------------------------------
(***************************************************************************)
(* The functional simulator, src/src/funct.cpp: it executes instruction    *)
(* after instruction until one returns isHalt.                             *)
(***************************************************************************)
EXTENDS Emulator

CONSTANTS
  Programs,  \* the memory images it may be started with
  MaxInstr   \* bound: the instructions executed in one run

ASSUME FunctSimAssumption ==
  /\ Programs \subseteq MemArr
  /\ MaxInstr \in Nat

VARIABLE status

functVars == <<vars, status>>

Init ==
  /\ EmulatorInit
  /\ memArr \in Programs
  /\ status = "SUCCESS"

\* One call of runInstructions(1).
runInstructions ==
  /\ status # "HALT"
  /\ din < MaxInstr
  /\ executeInstruction
  /\ status' = IF info'.isHalt THEN "HALT" ELSE "SUCCESS"

\* runTillHalt has left its loop, or the bound is reached.
Finished == (status = "HALT" \/ din = MaxInstr) /\ UNCHANGED functVars

Next == runInstructions \/ Finished

Spec == Init /\ [][Next]_functVars

-----------------------------------------------------------------------------
(***************************************************************************)
(* Properties.                                                             *)
(***************************************************************************)
TypeOK ==
  /\ registers \in [Register -> Word]
  /\ memArr \in MemArr
  /\ PC \in Word
  /\ encounteredBranch \in BOOLEAN
  /\ savedBranch \in Word
  /\ din = Len(path)
  /\ status \in {"SUCCESS", "HALT"}

NoTarget == -1
Executed(k) == Decode[path[k].word]

\* Where the k-th instruction executed branches to: from the instruction after
\* it, unless it is in the delay slot of another branch itself.
Target(k) ==
  IF Executed(k).op \in Branches /\ ~path[k].inSlot
  THEN (path[k].pc + 4 + signExt(Executed(k).imm) * 4) % WordModulus
  ELSE path[k].target

\* Every taken branch or jump executes exactly one instruction, the one after
\* it, before its target, whatever that instruction is; one that raises goes to
\* the exception address, from a delay slot too, and leaves no branch pending.
DelaySlots ==
  LET last == Len(path)
      next == IF path[last].raised THEN ExceptionAddress
              ELSE IF last > 1 /\ path[last - 1].target # NoTarget
              THEN Target(last - 1)
              ELSE (path[last].pc + 4) % WordModulus
  IN  last > 0 => PC = next

\* A jal that is not in a delay slot itself and a jr through the register it
\* linked come back to the instruction after the delay slot of the jal.
CallsReturn ==
  \A j, k \in 1 .. Len(path) :
    /\ Executed(j).op = "jal" /\ ~path[j].inSlot
    /\ Executed(k).op = "jr" /\ Executed(k).rs = RA
    /\ \A m \in j + 1 .. k - 1 : ~path[m].wroteRA
    /\ j < k
    => path[k].target = (path[j].pc + 8) % WordModulus

\* The value a register is read as.
Operand(r) == IF r = 0 THEN 0 ELSE registers[r]

\* What the arithmetic instructions compute, without a width: signed for add,
\* sub and addi, unsigned for addu and subu.
Exact ==
  LET x == Operand(instruction.rs)
      y == Operand(instruction.rt)
  IN  CASE op = "add"  -> Signed(x) + Signed(y)
        [] op = "sub"  -> Signed(x) - Signed(y)
        [] op = "addi" -> Signed(x) + Signed(signExtImm)
        [] op = "addu" -> x + y
        [] op = "subu" -> x - y

Representable(v) ==
  IF op \in {"addu", "subu"} THEN v \in Word ELSE v \in INT32_MIN .. INT32_MAX

\* An arithmetic instruction raises an overflow if and only if its exact result
\* has no representation; if it has one, that is what the register then holds.
ArithmeticIsExact ==
  [][path' # path /\ op \in Arithmetic =>
       /\ info'.isOverflow <=> ~Representable(Exact)
       /\ ~info'.isOverflow => registers'[RegisterWritten] = Exact % WordModulus
    ]_functVars

\* An instruction that raises has no effect but on PC: no register, no byte of
\* memory and no pending branch is left of it.
ExceptionsHaveNoEffect ==
  [][path' # path /\ (info'.isOverflow \/ ~info'.isValid) =>
       /\ \A r \in Register \ {0} : registers'[r] = registers[r]
       /\ memArr' = memArr
       /\ PC' = ExceptionAddress
       /\ ~encounteredBranch']_functVars

=============================================================================
