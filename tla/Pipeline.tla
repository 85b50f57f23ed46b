------------------------------ MODULE Pipeline ------------------------------
(***************************************************************************)
(* The five-stage pipeline of src/src/cycle.cpp: the pipeline registers,   *)
(* the control unit that picks one signal per cycle, and the handler that  *)
(* runCycles attaches to each signal.  One step of this specification is   *)
(* one iteration of the loop in runCycles, the call to Control included.   *)
(*                                                                         *)
(* The simulator executes an instruction functionally when it fetches it;  *)
(* the pipeline only decides when that happens.  The emulator and the two  *)
(* caches are therefore the environment here: which instruction a fetch    *)
(* returns, whether it overflows and which address it touches, and whether *)
(* a cache access hits, are chosen freely, so that the behaviours cover    *)
(* every program and every cache at once.                                  *)
(***************************************************************************)
EXTENDS Integers, Sequences, FiniteSets, Functions

CONSTANTS
  Instr,         \* the instruction words a program may contain
  Addr,          \* the addresses a load or a store may touch
  IMissLatency,  \* config.missLatency of iCache
  DMissLatency,  \* config.missLatency of dCache
  CycleModulus,  \* 2^32: currentCycle is a uint32_t
  MaxInstr       \* bound: the MaxInstr-th instruction fetched is the halt word

(***************************************************************************)
(* An instruction word, reduced to what Control reads of it: the class of  *)
(* its opcode and its bits 25..21 (rs) and 20..16 (rt), whatever these     *)
(* bits mean in that format.  dst is the register the instruction writes   *)
(* (0 for none) and imm tells words apart that agree on everything else;   *)
(* Control never looks at dst.                                             *)
(***************************************************************************)
Op == {"RType", "IType", "Load", "Store", "Branch1", "Branch2", "Jump",
       "Illegal", "Halt"}

InstrWord == [op : Op, rs : Nat, rt : Nat, dst : Nat, imm : Nat]

\* The word 0: sll $zero, $zero, 0.  It fills an empty stage.
Nop == [op |-> "RType", rs |-> 0, rt |-> 0, dst |-> 0, imm |-> 0]

\* The word 0xfeedfeed, with the bits of it that Control reads.
HALT_INSTRUCTION == [op |-> "Halt", rs |-> 23, rt |-> 13, dst |-> 0, imm |-> 0]

ASSUME PipelineAssumption ==
  /\ Instr \subseteq InstrWord
  /\ \A i \in Instr : i.op = "Halt" <=> i = HALT_INSTRUCTION
  /\ Addr \subseteq Nat /\ Addr # {}
  /\ IMissLatency \in Nat
  /\ DMissLatency \in Nat
  /\ CycleModulus \in Nat \ {0}
  /\ MaxInstr \in Nat \ {0}

VARIABLES
  pipe,                  \* pipeState and pipeStateAddr, one slot per stage
  info,                  \* what the last executeInstruction() returned
  icache_delay,
  dcache_delay,
  branch_delay,
  lastBranchCycleCount,
  lastBranchInstruction,
  nopArithmeticExcept,
  nopIllegalInstruct,
  squashID,
  squashEX,
  nrLoadUseStalls,
  currentCycle,
  din,                   \* the emulator's count of executed instructions
  status                 \* what runCycles(1) returned last

VARIABLES                \* history, read by the properties only
  raised,                \* ids of the instructions that raised an exception
  retired,               \* ids of the instructions in WB, cycle after cycle
  accessed,              \* ids of the instructions that accessed the D-cache
  loadPairs              \* the loads that Control has seen right ahead of ID

delays == <<icache_delay, dcache_delay, branch_delay>>
lastBranch == <<lastBranchCycleCount, lastBranchInstruction>>
exceptions == <<nopArithmeticExcept, nopIllegalInstruct, squashID, squashEX>>
history == <<raised, retired, accessed, loadPairs>>
vars == <<pipe, info, delays, lastBranch, exceptions, nrLoadUseStalls,
          currentCycle, din, status, history>>

-----------------------------------------------------------------------------
(***************************************************************************)
(* The pipeline registers.  A slot holds the word of a stage (pipeState),  *)
(* the data address that travels with it (pipeStateAddr) and, as history,  *)
(* the instructionID of the fetch it came from (NoId for an empty stage).  *)
(***************************************************************************)
NoId == -1
Bubble == [instr |-> Nop, addr |-> 0, id |-> NoId]
Slot == [instr : InstrWord, addr : Nat, id : Nat] \cup {Bubble}
PipeState == [ifInstr : Slot, idInstr : Slot, exInstr : Slot,
              memInstr : Slot, wbInstr : Slot]

EmptyPipe == [ifInstr |-> Bubble, idInstr |-> Bubble, exInstr |-> Bubble,
              memInstr |-> Bubble, wbInstr |-> Bubble]

isLoad(i) == i.op = "Load"
isStore(i) == i.op = "Store"
isBranch(i) == i.op \in {"Branch1", "Branch2"}   \* BLEZ, BGTZ / BEQ, BNE

moveAllForward(p) ==
  [ifInstr |-> Bubble, idInstr |-> p.ifInstr, exInstr |-> p.idInstr,
   memInstr |-> p.exInstr, wbInstr |-> p.memInstr]

insertNopException(p) == moveAllForward(p)

\* Mutant: the ID stage is not cleared.
stall_IF_stage_keepsID(p) ==
  [p EXCEPT !.exInstr = p.idInstr, !.memInstr = p.exInstr, !.wbInstr = p.memInstr]

stall_IF_stage(p) ==
  [ifInstr |-> p.ifInstr, idInstr |-> Bubble, exInstr |-> p.idInstr,
   memInstr |-> p.exInstr, wbInstr |-> p.memInstr]

\* Mutant: the WB stage is not cleared.
stall_all_stages(p) == p

stall_IF_ID_EX_MEM_stage(p) == [p EXCEPT !.wbInstr = Bubble]

\* Mutant: the EX stage is not cleared.
BRANCH_stall_keepsEX(p) ==
  [p EXCEPT !.memInstr = p.exInstr, !.wbInstr = p.memInstr]

BRANCH_stall(p) ==
  [ifInstr |-> p.ifInstr, idInstr |-> p.idInstr, exInstr |-> Bubble,
   memInstr |-> p.exInstr, wbInstr |-> p.memInstr]

load_use_stall_stage(p) == BRANCH_stall(p)

-----------------------------------------------------------------------------
(***************************************************************************)
(* Control: the conditions, in the order in which they are tested.         *)
(***************************************************************************)
ID == pipe.idInstr.instr
EX == pipe.exInstr.instr
MEM == pipe.memInstr.instr

Reg(r, i) == r = i.rs \/ r = i.rt

BranchOnEx ==
  /\ isBranch(ID)
  /\ Reg(EX.rt, ID)
  /\ EX.rt # 0
  /\ EX # Nop
  /\ lastBranchCycleCount # info.instructionID

\* Mutant: only rs is compared.
LoadUseOnRs ==
  /\ isLoad(EX)
  /\ EX.rt = ID.rs
  /\ EX.rt # 0
  /\ lastBranchCycleCount # info.instructionID

LoadUse ==
  /\ isLoad(EX)
  /\ Reg(EX.rt, ID)
  /\ EX.rt # 0
  /\ lastBranchCycleCount # info.instructionID

\* Mutant: a branch that already waits for this load is noticed again.
BranchOnMemAgain ==
  /\ isLoad(MEM)
  /\ isBranch(ID)
  /\ Reg(MEM.rt, ID)
  /\ MEM.rt # 0

BranchOnMem ==
  /\ isLoad(MEM)
  /\ isBranch(ID)
  /\ Reg(MEM.rt, ID)
  /\ MEM.rt # 0
  /\ \/ lastBranchCycleCount # info.instructionID
     \/ lastBranchInstruction # ID

HaltFetched_late == pipe.wbInstr.instr = HALT_INSTRUCTION
                                                 \* mutant: once it is in WB only
HaltFetched == info.isHalt

ControlSignal ==
  IF BranchOnEx THEN "BRANCH_STALL_EX"
  ELSE IF LoadUse THEN "LOAD_USE_STALL"
  ELSE IF BranchOnMem THEN "BRANCH_STALL_MEM"
  ELSE IF info.isOverflow \/ nopArithmeticExcept > 0 THEN "ARITHMETIC_OVERFLOW"
  ELSE IF ~info.isValid \/ nopIllegalInstruct > 0 THEN "ILLEGAL_INSTRUCTION"
  ELSE IF dcache_delay = 0 /\ branch_delay > 0 THEN "BRANCH_STALL_DELAY"
  ELSE IF (dcache_delay = 0 /\ icache_delay = 0 /\ branch_delay = 0) \/ squashID
       THEN IF HaltFetched THEN "HALT_INSTRUCT_IN_PIPELINE" ELSE "FETCH_NEW"
  ELSE IF dcache_delay = 0 /\ icache_delay > 0 THEN "I_CACHE_MISS"
  ELSE IF dcache_delay > 0 THEN "D_CACHE_MISS"
  ELSE "throw"

\* The cycles for which a branch waits for the instruction in EX.
BranchDelay_alwaysOne == 1                       \* mutant
BranchDelay == IF isLoad(EX) THEN 2 ELSE 1

\* Control ends by taking one off every delay, with a floor of 0.
Less1_noFloor(delay) == delay - 1                \* mutant
Less1(delay) == IF delay = 0 THEN 0 ELSE delay - 1

-----------------------------------------------------------------------------
(***************************************************************************)
(* Parts that the handlers share.                                          *)
(***************************************************************************)

(***************************************************************************)
(* The access of the instruction that is now in MEM.  The flag tested is   *)
(* that of the last instruction fetched.  A miss adds its latency to what  *)
(* is left of dcache_delay.                                                *)
(***************************************************************************)
execute_DCACHE_read_Check ==                     \* mutant: stores are left out
  LET mem == pipe'.memInstr
      left == Less1(dcache_delay)
  IN  \/ /\ info'.isValid
         /\ isLoad(mem.instr)
         /\ dcache_delay' \in {left, left + DMissLatency}
         /\ accessed' = Append(accessed, mem.id)
      \/ /\ ~ (info'.isValid /\ isLoad(mem.instr))
         /\ dcache_delay' = left
         /\ UNCHANGED accessed

execute_DCACHE_write_Check ==
  LET mem == pipe'.memInstr
      left == Less1(dcache_delay)
  IN  \/ /\ info'.isValid
         /\ isLoad(mem.instr) \/ isStore(mem.instr)
         /\ dcache_delay' \in {left, left + DMissLatency}
         /\ accessed' = Append(accessed, mem.id)
      \/ /\ ~ (info'.isValid /\ (isLoad(mem.instr) \/ isStore(mem.instr)))
         /\ dcache_delay' = left
         /\ UNCHANGED accessed

\* The registers whose values an instruction needs when it leaves ID: not those it
\* writes, nor the data of a store, which MEM needs; register 0 is never waited for.
Uses(i) ==
  (IF i.op \in {"RType", "Branch2"} THEN {i.rs, i.rt}
   ELSE IF i.op \in {"IType", "Load", "Store", "Branch1"} THEN {i.rs}
   ELSE {}) \ {0}

\* The word in ID with a load that is close enough ahead for it to wait: one word
\* ahead, or up to two for a branch, which needs its operands in ID already.
LoadPairsNow ==
  LET id == pipe.idInstr IN
  {[load |-> s.id, user |-> id.id, uses |-> s.instr.rt \in Uses(ID)] : s \in
     {t \in {pipe.exInstr, pipe.memInstr} :
        /\ isLoad(t.instr)
        /\ id.id # NoId
        /\ t = pipe.memInstr => isBranch(ID)}}

\* The end of an iteration of the loop in runCycles.
EndOfCycle ==
  /\ currentCycle' = (currentCycle + 1) % CycleModulus
  /\ status' = IF pipe'.wbInstr.instr = HALT_INSTRUCTION THEN "HALT" ELSE "SUCCESS"
  /\ retired' = IF pipe'.wbInstr.id = NoId THEN retired
                 ELSE Append(retired, pipe'.wbInstr.id)
  /\ loadPairs' = loadPairs \cup LoadPairsNow

Control(signal) ==
  /\ status # "HALT"
  /\ ControlSignal = signal

\* The handler of BRANCH_STALL; delay is branch_delay as Control leaves it.
HandleBranchStall(delay) ==
  /\ icache_delay' = Less1(icache_delay)
  /\ UNCHANGED <<info, exceptions, din, raised>>
  /\ \/ /\ Less1(dcache_delay) = 0
        /\ pipe' = BRANCH_stall(pipe)
        /\ branch_delay' = delay
        /\ execute_DCACHE_write_Check
     \/ /\ Less1(dcache_delay) # 0
        /\ pipe' = stall_IF_ID_EX_MEM_stage(pipe)
        /\ branch_delay' = delay + 1
        /\ dcache_delay' = Less1(dcache_delay)
        /\ UNCHANGED accessed

-----------------------------------------------------------------------------
Init ==
  /\ pipe = EmptyPipe
  /\ info = [isHalt |-> FALSE, isValid |-> TRUE, isOverflow |-> FALSE,
             instructionID |-> 0]
  /\ icache_delay = 0
  /\ dcache_delay = 0
  /\ branch_delay = 0
  /\ lastBranchCycleCount = 0
  /\ lastBranchInstruction = Nop
  /\ nopArithmeticExcept = 0
  /\ nopIllegalInstruct = 0
  /\ squashID = FALSE
  /\ squashEX = FALSE
  /\ nrLoadUseStalls = 0
  /\ currentCycle = 0
  /\ din = 0
  /\ status = "SUCCESS"
  /\ raised = {}
  /\ retired = <<>>
  /\ accessed = <<>>
  /\ loadPairs = {}

(***************************************************************************)
(* A branch in ID whose register bits match rt of the instruction in EX.   *)
(* For BLEZ and BGTZ a match on the rt bits alone stalls for this cycle    *)
(* but sets nothing.                                                       *)
(***************************************************************************)
BranchStallOnEx ==
  LET noted == ID.op = "Branch2" \/ ID.rs = EX.rt
      onMem == ID.op = "Branch2" /\ isLoad(MEM) /\ Reg(MEM.rt, ID)
      delay == IF ~noted THEN branch_delay ELSE BranchDelay
      load(b) == IF noted /\ b THEN 1 ELSE 0
  IN  /\ Control("BRANCH_STALL_EX")
      /\ nrLoadUseStalls' = nrLoadUseStalls + load(isLoad(EX)) + load(onMem)
      /\ lastBranchCycleCount' =
           IF noted THEN info.instructionID ELSE lastBranchCycleCount
      /\ lastBranchInstruction' = IF noted THEN ID ELSE lastBranchInstruction
      /\ HandleBranchStall(Less1(delay))
      /\ EndOfCycle

LoadUseStall ==
  /\ Control("LOAD_USE_STALL")
  /\ nrLoadUseStalls' = nrLoadUseStalls + 1
  /\ lastBranchInstruction' = ID
  /\ pipe' = load_use_stall_stage(pipe)
  /\ icache_delay' = Less1(icache_delay)
  /\ branch_delay' = Less1(branch_delay)
  /\ UNCHANGED <<info, lastBranchCycleCount, exceptions, din, raised>>
  /\ execute_DCACHE_write_Check
  /\ EndOfCycle

BranchStallOnMem ==
  /\ Control("BRANCH_STALL_MEM")
  /\ nrLoadUseStalls' = nrLoadUseStalls + 1
  /\ lastBranchCycleCount' = info.instructionID
  /\ lastBranchInstruction' = ID
  /\ HandleBranchStall(Less1(1))
  /\ EndOfCycle

\* A branch stall that an earlier cycle asked for.
BranchStallDelay ==
  /\ Control("BRANCH_STALL_DELAY")
  /\ HandleBranchStall(Less1(branch_delay))
  /\ UNCHANGED <<lastBranch, nrLoadUseStalls>>
  /\ EndOfCycle

\* The nops an overflow inserts; Control starts the count.
OverflowNops_one ==                              \* mutant: one too few
  IF nopArithmeticExcept = 0 THEN 1 ELSE nopArithmeticExcept
OverflowNops == IF nopArithmeticExcept = 0 THEN 2 ELSE nopArithmeticExcept

OverflowTaken_notCleared == info                 \* mutant
OverflowTaken == [info EXCEPT !.isOverflow = FALSE]

ArithmeticOverflow ==
  LET nops == OverflowNops
  IN  /\ Control("ARITHMETIC_OVERFLOW")
      /\ \/ /\ Less1(icache_delay) > 0
            /\ pipe' = stall_IF_stage(pipe)
            /\ nopArithmeticExcept' = nops
            /\ UNCHANGED <<squashEX, info>>
         \/ /\ Less1(icache_delay) = 0
            /\ pipe' = insertNopException(pipe)
            /\ nopArithmeticExcept' = nops - 1
            /\ squashEX' = (squashEX \/ nops = 1)
            /\ info' = OverflowTaken
      /\ icache_delay' = Less1(icache_delay)
      /\ branch_delay' = Less1(branch_delay)
      /\ UNCHANGED <<lastBranch, nopIllegalInstruct, squashID, nrLoadUseStalls,
                     din, raised>>
      /\ execute_DCACHE_write_Check
      /\ EndOfCycle

IllegalTaken_notCleared == info                  \* mutant
IllegalTaken == [info EXCEPT !.isValid = TRUE]

IllegalInstruction ==
  LET nops == IF nopIllegalInstruct = 0 THEN 1 ELSE nopIllegalInstruct
  IN  /\ Control("ILLEGAL_INSTRUCTION")
      /\ \/ /\ Less1(icache_delay) > 0
            /\ pipe' = stall_IF_stage(pipe)
            /\ nopIllegalInstruct' = nops
            /\ UNCHANGED <<squashID, info>>
         \/ /\ Less1(icache_delay) = 0
            /\ pipe' = insertNopException(pipe)
            /\ nopIllegalInstruct' = nops - 1
            /\ squashID' = (squashID \/ nops = 1)
            /\ info' = IllegalTaken
      /\ icache_delay' = Less1(icache_delay)
      /\ branch_delay' = Less1(branch_delay)
      /\ UNCHANGED <<lastBranch, nopArithmeticExcept, squashEX, nrLoadUseStalls,
                     din, raised>>
      /\ execute_DCACHE_write_Check
      /\ EndOfCycle

(***************************************************************************)
(* The emulator executes instruction i, which touches address a if it is a *)
(* load or a store, and overflows if ovf: only add, addu, sub, subu and    *)
(* addi can.  The bound MaxInstr makes every program reach a halt word.    *)
(***************************************************************************)
executeInstruction(i, ovf) ==
  /\ ovf => i.op \in {"RType", "IType"}
  /\ din = MaxInstr - 1 => i = HALT_INSTRUCTION
  /\ info' = [isHalt |-> i = HALT_INSTRUCTION, isValid |-> i.op # "Illegal",
              isOverflow |-> ovf, instructionID |-> din]
  /\ din' = din + 1
  /\ raised' = IF ovf \/ i.op = "Illegal" THEN raised \cup {din} ELSE raised

\* The stages when everything has moved and a squash has taken its victim.
Squashed_swapped ==                              \* mutant: each takes the other's
  LET moved == moveAllForward(pipe) IN
  IF squashID THEN [moved EXCEPT !.memInstr = Bubble]
  ELSE IF squashEX THEN [moved EXCEPT !.exInstr = Bubble]
  ELSE moved

Squashed ==
  LET moved == moveAllForward(pipe) IN
  IF squashID THEN [moved EXCEPT !.exInstr = Bubble]
  ELSE IF squashEX THEN [moved EXCEPT !.memInstr = Bubble]
  ELSE moved

FetchNew(i, ovf, a) ==
  /\ Control("FETCH_NEW")
  /\ executeInstruction(i, ovf)
  /\ pipe' = [Squashed EXCEPT !.ifInstr =
                [instr |-> i, addr |-> IF isLoad(i) \/ isStore(i) THEN a ELSE 0,
                 id |-> din]]
  /\ squashID' = FALSE
  /\ squashEX' = (squashEX /\ squashID)
  /\ icache_delay' \in {0, IMissLatency}
  /\ branch_delay' = Less1(branch_delay)
  /\ UNCHANGED <<lastBranch, nopArithmeticExcept, nopIllegalInstruct,
                 nrLoadUseStalls>>
  /\ execute_DCACHE_write_Check
  /\ EndOfCycle

HaltInPipeline ==
  /\ Control("HALT_INSTRUCT_IN_PIPELINE")
  /\ pipe' = moveAllForward(pipe)
  /\ icache_delay' = Less1(icache_delay)
  /\ branch_delay' = Less1(branch_delay)
  /\ UNCHANGED <<info, lastBranch, exceptions, nrLoadUseStalls, din, raised>>
  /\ execute_DCACHE_write_Check
  /\ EndOfCycle

ICacheMiss ==
  /\ Control("I_CACHE_MISS")
  /\ pipe' = stall_IF_stage(pipe)
  /\ icache_delay' = Less1(icache_delay)
  /\ branch_delay' = Less1(branch_delay)
  /\ UNCHANGED <<info, lastBranch, exceptions, nrLoadUseStalls, din, raised>>
  /\ execute_DCACHE_write_Check
  /\ EndOfCycle

\* branch_delay is held: Control adds back the one it is about to take off.
DCacheMiss ==
  /\ Control("D_CACHE_MISS")
  /\ pipe' = stall_IF_ID_EX_MEM_stage(pipe)
  /\ icache_delay' = Less1(icache_delay)
  /\ dcache_delay' = Less1(dcache_delay)
  /\ branch_delay' = Less1(IF branch_delay > 0 THEN branch_delay + 1 ELSE 0)
  /\ UNCHANGED <<info, lastBranch, exceptions, nrLoadUseStalls, din, raised,
                 accessed>>
  /\ EndOfCycle

\* runTillHalt has left its loop.
Halted == status = "HALT" /\ UNCHANGED vars

Next ==
  \/ BranchStallOnEx
  \/ LoadUseStall
  \/ BranchStallOnMem
  \/ BranchStallDelay
  \/ ArithmeticOverflow
  \/ IllegalInstruction
  \/ \E i \in Instr, ovf \in BOOLEAN, a \in Addr : FetchNew(i, ovf, a)
  \/ HaltInPipeline
  \/ ICacheMiss
  \/ DCacheMiss
  \/ Halted

Spec == Init /\ [][Next]_vars

\* runTillHalt calls runCycles(1) again and again: a single thread that is never
\* kept from its next iteration.
FairSpec == Spec /\ WF_vars(Next)

-----------------------------------------------------------------------------
(***************************************************************************)
(* Properties.                                                             *)
(***************************************************************************)

\* Every variable keeps its type; no unsigned counter of the code wraps below 0.
TypeOK ==
  /\ pipe \in PipeState
  /\ info \in [isHalt : BOOLEAN, isValid : BOOLEAN, isOverflow : BOOLEAN,
               instructionID : Nat]
  /\ icache_delay \in Nat
  /\ dcache_delay \in Nat
  /\ branch_delay \in Nat
  /\ lastBranchCycleCount \in Nat
  /\ lastBranchInstruction \in InstrWord
  /\ nopArithmeticExcept \in 0..2
  /\ nopIllegalInstruct \in 0..1
  /\ squashID \in BOOLEAN
  /\ squashEX \in BOOLEAN
  /\ nrLoadUseStalls \in Nat
  /\ currentCycle \in Nat
  /\ din \in Nat
  /\ status \in {"SUCCESS", "HALT"}
  /\ raised \subseteq Nat
  /\ retired \in Seq(Nat)
  /\ accessed \in Seq(Nat)
  /\ loadPairs \subseteq [load : Nat, user : Nat, uses : BOOLEAN]

Before(s, t) == s.id # NoId /\ t.id # NoId => s.id < t.id
Increasing(q) == \A j, k \in 1 .. Len(q) : j < k => q[j] < q[k]
InFlight == {pipe.ifInstr.id, pipe.idInstr.id, pipe.exInstr.id, pipe.memInstr.id}

\* The stages hold instructions of the program in its order and none of them
\* twice, whatever mix of stalls and bubbles the cycles before have inserted.
ProgramOrder ==
  /\ \A t \in {pipe.idInstr, pipe.exInstr, pipe.memInstr, pipe.wbInstr} :
       Before(t, pipe.ifInstr)
  /\ \A t \in {pipe.exInstr, pipe.memInstr, pipe.wbInstr} : Before(t, pipe.idInstr)
  /\ \A t \in {pipe.memInstr, pipe.wbInstr} : Before(t, pipe.exInstr)
  /\ Before(pipe.wbInstr, pipe.memInstr)

\* Instructions are in WB in program order, each of them in one cycle only.
RetiredInOrder == Increasing(retired)

\* No stall, squash or inserted nop loses an instruction: one that raised no
\* exception is in the pipeline until it has retired.
NoneLost == (0 .. din - 1) \ raised \subseteq InFlight \cup Range(retired)

\* An instruction that raised an exception is squashed in time: one that
\* overflows never reaches MEM, an illegal one never reaches EX.
PreciseExceptions ==
  /\ pipe.exInstr.instr.op # "Illegal"
  /\ pipe.memInstr.id \notin raised
  /\ Range(retired) \cap raised = {}

\* Loads and stores access the D-cache in program order and none of them twice,
\* although a miss holds them in MEM for many cycles.
AccessedInOrder == Increasing(accessed)

\* Without an exception, no load or store passes MEM without its access.
EveryAccessMade ==
  /\ isLoad(pipe.wbInstr.instr) \/ isStore(pipe.wbInstr.instr)
  /\ raised = {}
  => pipe.wbInstr.id \in Range(accessed)

\* Before an instruction that uses what a load reads enters EX, the load has left EX for
\* MEM at least one cycle earlier: the one-cycle load-use stall is never skipped, exceptions
\* or not.  A branch is the exception: one raised behind it cuts its stall short (see
\* LoadBranchStall), and under a D-cache miss it leaves nothing of it.
LoadInterlock ==
  [][/\ isLoad(EX) /\ EX.rt \in Uses(ID)
     /\ pipe.idInstr.id # NoId
     /\ isBranch(ID) => raised' = {}
     => pipe'.exInstr.id # pipe.idInstr.id]_vars

\* While no exception interferes, a branch leaves ID only when the load it
\* depends on has left MEM and the immediate instruction it depends on has left EX.
BranchOperandsReady ==
  [][/\ isBranch(ID) /\ pipe'.exInstr = pipe.idInstr
     /\ raised' = {}
     => /\ \A i \in {EX, MEM} : isLoad(i) => i.rt \notin Uses(ID)
        /\ EX.op = "IType" => EX.rt \notin Uses(ID)]_vars

\* The pairs of a load and an instruction that uses what it reads.
LoadUses == {p \in loadPairs : p.uses}

\* The load-use stalls reported at the end, added up in four places of Control, count every
\* use of a load that has to wait, and charge no instruction twice for the same load nor
\* for a load further ahead, whatever stalls, misses and exceptions come between.
StallsCounted ==
  /\ Cardinality(LoadUses) <= nrLoadUseStalls
  /\ nrLoadUseStalls <= Cardinality(loadPairs)

\* An instruction costs one cycle, two stall cycles, its I-cache miss and its
\* D-cache miss at most; stalls that overlap are not added up without end.
CycleBound ==
  currentCycle <= 4 + din * (1 + 2 + IMissLatency) + Len(accessed) * DMissLatency

\* Every program that reaches its halt word ends: no stall repeats for ever.
Terminates == <>(status = "HALT")

-----------------------------------------------------------------------------
(***************************************************************************)
(* What comments and tests of the repository say and the code does not do. *)
(***************************************************************************)

\* src/src/cache.h:16 calls missLatency the additional latency of a miss: an
\* instruction whose access missed stays in MEM as long as dcache_delay runs.
MissHoldsMem ==
  [][dcache_delay > 1 /\ raised' = {} => pipe'.memInstr = pipe.memInstr]_vars

\* src/src/cycle.cpp:431 "checks if current MEM stage misses or hits": every
\* load and store accesses the D-cache, exceptions or not.
EveryAccessMadeAlways ==
  isLoad(pipe.wbInstr.instr) \/ isStore(pipe.wbInstr.instr)
  => pipe.wbInstr.id \in Range(accessed)

\* src/test/loaduse_cycle_pipe_state.ref holds the branch in ID in cycle 18,
\* while the R-type instruction that writes its operand is in EX.
BranchAfterRType ==
  [][/\ isBranch(ID) /\ pipe'.exInstr = pipe.idInstr
     /\ raised' = {}
     /\ EX.op = "RType"
     => EX.dst \notin Uses(ID)]_vars

\* src/TODO.txt:12 "two-cycle load-branch stall", exceptions or not.
LoadBranchStall ==
  [][isBranch(ID) /\ pipe'.exInstr = pipe.idInstr
     => \A i \in {EX, MEM} : isLoad(i) => i.rt \notin Uses(ID)]_vars

\* src/test/zero_reg1.asm:2 "dependencies on the $zero register do not cause stalls":
\* a cycle in which the loads ahead of ID are loads to $0 counts no load-use stall.
NoStallForZero ==
  [][(\A i \in {EX, MEM} : isLoad(i) => i.rt = 0)
     => nrLoadUseStalls' = nrLoadUseStalls]_vars

=============================================================================
