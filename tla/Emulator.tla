------------------------------ MODULE Emulator ------------------------------
(***************************************************************************)
(* The functional emulator of src/src/emulator.cpp: executeInstruction     *)
(* fetches the word at PC, executes it to the end and moves PC on.  A      *)
(* taken branch or a jump takes effect one instruction later (the delay    *)
(* slot); an instruction that overflows or is illegal moves PC to the      *)
(* exception address.  There is one action per group of cases of the       *)
(* switch; each is a whole call of executeInstruction.                     *)
(***************************************************************************)
EXTENDS Memory, Sequences

CONSTANTS
  Decode,           \* Decode[w]: the fields extractBits cuts out of word w
  Register, RA,     \* the register numbers and the link register: 0..31, 31
  JumpRegion,       \* 2^28: the part of an address a jump replaces
  ExceptionAddress  \* 0x8000

\* The mnemonic stands for opcode and funct; imm is the half-word immediate and
\* address the field of a jump.
Instruction == [op : STRING, rs : Register, rt : Register, rd : Register,
                shamt : 0 .. WordBits - 1, imm : Half, address : Nat]

ASSUME EmulatorAssumption ==
  /\ 0 \in Register /\ RA \in Register \ {0} /\ Register \subseteq Nat
  /\ \A w \in Word : Decode[w] \in Instruction
  /\ JumpRegion \in Nat \ {0}
  /\ ExceptionAddress \in Word

VARIABLES
  registers,
  memArr,
  PC,
  encounteredBranch,  \* the next instruction is in a delay slot
  savedBranch,        \* where PC goes after it
  din,
  info,               \* the InstructionInfo returned last
  path                \* history: one record per instruction executed

emulator == <<registers, memArr, PC, encounteredBranch, savedBranch, din>>
vars == <<emulator, info, path>>

-----------------------------------------------------------------------------
word == getValue(memArr, PC, WORD_SIZE)
instruction == Decode[word]
op == instruction.op

nextPC == IF encounteredBranch THEN savedBranch ELSE Add(PC, 4)

\* Register 0 is reset before the operands are read.
reg_stale(r) == registers[r]                     \* mutant: it is not
reg(r) == IF r = 0 THEN 0 ELSE registers[r]

a == reg(instruction.rs)
b == reg(instruction.rt)
signExtImm == signExt(instruction.imm)
dataAddress == Add(a, signExtImm)

branchTarget_slot == (PC + signExtImm * 4) % WordModulus
                                                 \* mutant: PC not moved on yet
branchTarget == (nextPC + signExtImm * 4) % WordModulus

\* PC & 0xf0000000, and the address field below it.
jumpAddr ==
  LET region == nextPC - (nextPC % JumpRegion)
  IN  (region + ((instruction.address * 4) % JumpRegion)) % WordModulus

\* The operations that may overflow, and when.
Arithmetic == {"add", "addu", "sub", "subu", "addi"}

overflows ==
  \/ op = "add" /\ checkOverflowSigned(a, b)
  \/ op = "addu" /\ checkOverflowUnsigned(a, b)
  \/ op = "sub" /\ checkUnderflowSigned(a, b)
  \/ op = "subu" /\ checkUnderflowUnsigned(a, b)
  \/ op = "addi" /\ checkOverflowSigned(a, signExtImm)

Logical == {"and", "or", "nor", "slt", "sltu", "sll", "srl",
            "addiu", "andi", "ori", "lui", "slti", "sltiu"}

If1(test) == IF test THEN 1 ELSE 0

result ==
  CASE op \in {"add", "addu"}  -> Add(a, b)
    [] op \in {"sub", "subu"}  -> Difference(a, b)
    [] op \in {"addi", "addiu"} -> Add(a, signExtImm)
    [] op = "and"   -> And(a, b)
    [] op = "or"    -> Or(a, b)
    [] op = "nor"   -> Nor(a, b)
    [] op = "slt"   -> If1(Signed(a) < Signed(b))
    [] op = "sltu"  -> If1(a < b)
    [] op = "sll"   -> (b * 2^instruction.shamt) % WordModulus
    [] op = "srl"   -> b \div 2^instruction.shamt
    [] op = "andi"  -> And(a, instruction.imm)
    [] op = "ori"   -> Or(a, instruction.imm)
    [] op = "lui"   -> instruction.imm * HalfModulus
    [] op = "slti"  -> If1(Signed(a) < Signed(signExtImm))
    [] OTHER        -> If1(a < signExtImm)  \* sltiu

RegisterWritten ==
  IF op \in {"add", "addu", "sub", "subu", "and", "or", "nor", "slt", "sltu",
             "sll", "srl"}
  THEN instruction.rd ELSE instruction.rt

Branches == {"beq", "bne", "blez", "bgtz"}

taken ==
  \/ op = "beq" /\ a = b
  \/ op = "bne" /\ a # b
  \/ op = "blez" /\ (a = 0 \/ Signed(a) < 0)
  \/ op = "bgtz" /\ ~ Signed(a) < 0 /\ a # 0

Jumps == {"j", "jal", "jr"}

LoadSize == [lbu |-> BYTE_SIZE, lhu |-> HALF_SIZE, lw |-> WORD_SIZE]
StoreSize == [sb |-> BYTE_SIZE, sh |-> HALF_SIZE, sw |-> WORD_SIZE]

MemoryOps == DOMAIN LoadSize \cup DOMAIN StoreSize

Legal == Arithmetic \cup Logical \cup Branches \cup Jumps \cup MemoryOps
           \cup {"halt"}

-----------------------------------------------------------------------------
\* The registers after the reset of register 0 and the write of v to r.
Written(r, v) == [registers EXCEPT ![0] = 0, ![r] = v]
Unwritten == [registers EXCEPT ![0] = 0]

\* What every call returns and counts.
Returns(raises) ==
  /\ info' = [pc |-> PC, nextPC |-> nextPC, instructionID |-> din,
              isHalt |-> op = "halt", isValid |-> op \in Legal,
              isOverflow |-> op \in Arithmetic /\ overflows,
              loadAddress |-> IF op \in DOMAIN LoadSize THEN dataAddress ELSE 0,
              storeAddress |-> IF op \in DOMAIN StoreSize THEN dataAddress ELSE 0]
  /\ din' = din + 1
  /\ path' = Append(path,
       [pc |-> PC, word |-> word, raised |-> raises, inSlot |-> encounteredBranch,
        data |-> IF op \in MemoryOps THEN dataAddress ELSE -1,
        target |-> IF encounteredBranch' THEN savedBranch' ELSE -1,
        wroteRA |-> registers'[RA] # registers[RA]])

\* The instruction completes and leaves no branch behind.
Proceeds ==
  /\ PC' = nextPC
  /\ encounteredBranch' = FALSE
  /\ UNCHANGED savedBranch
  /\ Returns(FALSE)

BranchesTo(target) ==
  /\ PC' = nextPC
  /\ encounteredBranch' = TRUE
  /\ savedBranch' = target
  /\ Returns(FALSE)

Raises_inSlot ==                                 \* mutant: the branch is kept
  /\ PC' = ExceptionAddress
  /\ UNCHANGED <<encounteredBranch, savedBranch>>
  /\ Returns(TRUE)

Raises ==
  /\ PC' = ExceptionAddress
  /\ encounteredBranch' = FALSE
  /\ UNCHANGED savedBranch
  /\ Returns(TRUE)

-----------------------------------------------------------------------------
EmulatorInit ==
  /\ registers = [r \in Register |-> 0]
  /\ PC = 0
  /\ encounteredBranch = FALSE
  /\ savedBranch = 0
  /\ din = 0
  /\ info = [pc |-> 0, nextPC |-> 0, instructionID |-> 0, isHalt |-> FALSE,
             isValid |-> TRUE, isOverflow |-> FALSE, loadAddress |-> 0,
             storeAddress |-> 0]
  /\ path = <<>>

Halt ==
  /\ op = "halt"
  /\ registers' = Unwritten
  /\ UNCHANGED memArr
  /\ Proceeds

ComputesExactly ==
  /\ op \in Arithmetic /\ ~overflows
  /\ registers' = Written(RegisterWritten, result)
  /\ UNCHANGED memArr
  /\ Proceeds

Overflow ==
  /\ op \in Arithmetic /\ overflows
  /\ registers' = Unwritten
  /\ UNCHANGED memArr
  /\ Raises

Computes ==
  /\ op \in Logical
  /\ registers' = Written(RegisterWritten, result)
  /\ UNCHANGED memArr
  /\ Proceeds

BranchTaken ==
  /\ op \in Branches /\ taken
  /\ registers' = Unwritten
  /\ UNCHANGED memArr
  /\ BranchesTo(branchTarget)

BranchNotTaken ==
  /\ op \in Branches /\ ~taken
  /\ registers' = Unwritten
  /\ UNCHANGED memArr
  /\ Proceeds

Jump ==
  /\ op \in {"j", "jr"}
  /\ registers' = Unwritten
  /\ UNCHANGED memArr
  /\ BranchesTo(IF op = "jr" THEN a ELSE jumpAddr)

link_slot == nextPC                              \* mutant: links the delay slot
link == Add(nextPC, 4)

JumpAndLink ==
  /\ op = "jal"
  /\ registers' = Written(RA, link)
  /\ UNCHANGED memArr
  /\ BranchesTo(jumpAddr)

\* The register is the buffer of the access: if that fails, what was read before
\* it failed stays there.
Load ==
  /\ op \in DOMAIN LoadSize
  /\ registers' = Written(instruction.rt,
                          getValue(memArr, dataAddress, LoadSize[op]))
  /\ UNCHANGED memArr
  /\ Proceeds

Store ==
  /\ op \in DOMAIN StoreSize
  /\ memArr' = setValue(memArr, dataAddress, b, StoreSize[op])
  /\ registers' = Unwritten
  /\ Proceeds

Illegal ==
  /\ op \notin Legal
  /\ registers' = Unwritten
  /\ UNCHANGED memArr
  /\ Raises

executeInstruction ==
  \/ Halt \/ ComputesExactly \/ Overflow \/ Computes
  \/ BranchTaken \/ BranchNotTaken \/ Jump \/ JumpAndLink
  \/ Load \/ Store \/ Illegal
=============================================================================
