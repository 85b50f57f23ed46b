------------------------------ MODULE CycleSim ------------------------------
(***************************************************************************)
(* The cycle-accurate simulator as a whole, src/src/cycle.cpp with its     *)
(* emulator and its two caches: Pipeline, in which the words fetched, the  *)
(* exceptions, the addresses and the hits are no longer free but those of  *)
(* a program in memory.  One step is one iteration of the loop in          *)
(* runCycles, the return from it and the dump included.                    *)
(***************************************************************************)
EXTENDS Emulator, SequencesExt

CONSTANTS
  Programs,      \* the memory images a simulation may be started with
  iCacheConfig,  \* CacheConfig: cacheSize, blockSize, ways, missLatency
  dCacheConfig,
  Quanta,        \* the arguments runCycles is called with
  MaxInstr       \* bound: the instructions executed in one simulation

CacheConfig == [cacheSize : Nat, blockSize : Nat, ways : Nat, missLatency : Nat]

ASSUME CycleSimAssumption ==
  /\ Programs \subseteq MemArr
  /\ Quanta \subseteq Nat
  /\ iCacheConfig \in CacheConfig /\ dCacheConfig \in CacheConfig
  /\ MaxInstr \in Nat /\ MaxInstr < WordModulus
  /\ Decode[0] = [op |-> "sll", rs |-> 0, rt |-> 0, rd |-> 0, shamt |-> 0,
                  imm |-> 0, address |-> 0]

VARIABLES                \* of the pipeline, see Pipeline; flags is the static
  pipe, flags, icache_delay, dcache_delay, branch_delay,      \* info there
  lastBranchCycleCount, lastBranchInstruction, nopArithmeticExcept,
  nopIllegalInstruct, squashID, squashEX, nrLoadUseStalls, currentCycle, status,
  raised, retired, accessed, loadPairs

VARIABLES                \* of the two caches, see Cache
  iCache, iLru, iHits, iMisses, iPast,
  dCache, dLru, dHits, dMisses, dPast

VARIABLES
  cycles,    \* the argument of runCycles; the same for all calls
  count,     \* the cycles run in this call
  fileInit,  \* the static of dumpPipeState: this process has opened the file
  pipeOut    \* the WB column of the pipe_state file, without its nops

iCacheVars == <<iCache, iLru, iHits, iMisses, iPast>>
dCacheVars == <<dCache, dLru, dHits, dMisses, dPast>>
cycleVars == <<vars, pipe, flags, icache_delay, dcache_delay, branch_delay,
  lastBranchCycleCount, lastBranchInstruction, nopArithmeticExcept,
  nopIllegalInstruct, squashID, squashEX, nrLoadUseStalls, currentCycle, status,
  raised, retired, accessed, loadPairs, iCacheVars, dCacheVars,
  cycles, count, fileInit, pipeOut>>

-----------------------------------------------------------------------------
(***************************************************************************)
(* A word as the pipeline sees it: its class, bits 25..21 and 20..16, and  *)
(* the word itself in imm.  The opcodes are decoded a second time here, by *)
(* the functions of cycle.cpp and not by the switch of the emulator.       *)
(***************************************************************************)
RTypeOps == {"add", "addu", "and", "jr", "nor", "or", "slt", "sltu", "sll", "srl",
             "sub", "subu"}

Class(o) ==
  CASE o \in RTypeOps -> "RType"
    [] o \in DOMAIN LoadSize -> "Load"
    [] o \in DOMAIN StoreSize -> "Store"
    [] o \in {"blez", "bgtz"} -> "Branch1"
    [] o \in {"beq", "bne"} -> "Branch2"
    [] o \in {"j", "jal"} -> "Jump"
    [] o \notin Legal -> "Illegal"
    [] OTHER -> "IType"

HALT_INSTRUCTION == [op |-> "Halt", rs |-> 23, rt |-> 13, dst |-> 0, imm |-> 0]

PipeWord(w) ==
  LET i == Decode[w] IN
  IF i.op = "halt" THEN HALT_INSTRUCTION
  ELSE [op |-> Class(i.op), rs |-> i.rs, rt |-> i.rt, dst |-> 0, imm |-> w]

P == INSTANCE Pipeline WITH
       info <- flags,
       Instr <- {PipeWord(w) : w \in Word}, Addr <- Word,
       IMissLatency <- iCacheConfig.missLatency,
       DMissLatency <- dCacheConfig.missLatency,
       CycleModulus <- WordModulus, MaxInstr <- MaxInstr + 1

I == INSTANCE Cache WITH
       cacheSize <- iCacheConfig.cacheSize, blockSize <- iCacheConfig.blockSize,
       ways <- iCacheConfig.ways,
       Addr <- Word, CounterModulus <- WordModulus, MaxAccess <- MaxInstr,
       cache <- iCache, lru <- iLru, hits <- iHits, misses <- iMisses, past <- iPast

D == INSTANCE Cache WITH
       cacheSize <- dCacheConfig.cacheSize, blockSize <- dCacheConfig.blockSize,
       ways <- dCacheConfig.ways,
       Addr <- Word, CounterModulus <- WordModulus, MaxAccess <- MaxInstr,
       cache <- dCache, lru <- dLru, hits <- dHits, misses <- dMisses, past <- dPast

\* Geometries the constructor of a cache works with, and what the provers are not
\* told of the powers of two in them, see Cache.
ASSUME CachesAssumption ==
  /\ iCacheConfig.blockSize >= 4 /\ iCacheConfig.ways > 0 /\ I!numSets >= 1
  /\ dCacheConfig.blockSize >= 4 /\ dCacheConfig.ways > 0 /\ D!numSets >= 1
  /\ 2^0 = 1
  /\ \A n \in (0 .. iCacheConfig.blockSize + I!numSets)
              \cup (0 .. dCacheConfig.blockSize + D!numSets) :
       2^n \in Nat /\ 2^(n + 1) = 2 * 2^n

-----------------------------------------------------------------------------
(***************************************************************************)
(* printInstr and dumpPipeState of Utilities.cpp, which decode the opcode  *)
(* a third time: a word has a name there if it has one in their tables,    *)
(* whether the emulator executes it or not.                                *)
(***************************************************************************)
OP_IDS == {"addi", "addiu", "andi", "beq", "bne", "lbu", "lhu", "ll", "lui", "lw",
           "ori", "slti", "sltiu", "sb", "sc", "sh", "sw", "blez", "bgtz", "j", "jal"}

printInstr(instr) ==
  LET o == Decode[instr.imm].op IN
  CASE instr = HALT_INSTRUCTION -> "HALT"
    [] instr = P!Nop -> "nop"
    [] instr \notin {HALT_INSTRUCTION, P!Nop} /\ o \in OP_IDS \cup RTypeOps -> o
    [] OTHER -> "ILLEGAL"

\* What an instruction in WB adds to the column.
Entry(instr) == IF printInstr(instr) = "nop" THEN <<>> ELSE <<printInstr(instr)>>

\* The first dump of a process truncates the file, whatever it held before.
dumpPipeState_append ==                          \* mutant: it never does
  /\ pipeOut' = pipeOut \o Entry(pipe'.wbInstr.instr)
  /\ fileInit' = TRUE

dumpPipeState ==
  /\ pipeOut' = (IF fileInit THEN pipeOut ELSE <<>>) \o Entry(pipe'.wbInstr.instr)
  /\ fileInit' = TRUE

-----------------------------------------------------------------------------
\* Every call of runCycles has the same argument; the file is an old one.
Init ==
  /\ P!Init
  /\ I!Init
  /\ D!Init
  /\ EmulatorInit
  /\ memArr \in Programs
  /\ cycles \in Quanta
  /\ count = 0
  /\ fileInit = FALSE
  /\ pipeOut = <<"add">>

\* dCache->access for the word that is now in MEM, if it is called.
DCacheStep ==
  LET address == pipe'.memInstr.addr
      left == P!Less1(dcache_delay)
  IN  \/ accessed' = accessed /\ UNCHANGED dCacheVars
      \/ /\ accessed' # accessed
         /\ D!Hit(address) /\ dcache_delay' = left
      \/ /\ accessed' # accessed
         /\ D!Miss(address) /\ dcache_delay' = left + dCacheConfig.missLatency

\* The end of an iteration: the call returns, or goes on with the next.
CallStep ==
  LET n == (count + 1) % WordModulus IN
  /\ UNCHANGED cycles
  /\ IF status' = "HALT" \/ (cycles # 0 /\ n >= cycles)
     THEN count' = 0 /\ dumpPipeState
     ELSE count' = n /\ UNCHANGED <<fileInit, pipeOut>>

\* The address that travels with a load or a store.
CapturedAddress_load == info'.loadAddress        \* mutant: not that of a store
CapturedAddress ==
  IF P!isStore(PipeWord(word)) THEN info'.storeAddress ELSE info'.loadAddress

\* FETCH_NEW: the emulator executes the word at PC, which the I-cache is asked for.
FetchNew ==
  /\ P!Control("FETCH_NEW")
  /\ din < MaxInstr
  /\ executeInstruction
  /\ P!FetchNew(PipeWord(word), info'.isOverflow, CapturedAddress)
  /\ \/ I!Hit(PC) /\ icache_delay' = 0
     \/ I!Miss(PC) /\ icache_delay' = iCacheConfig.missLatency
  /\ DCacheStep
  /\ CallStep

\* Any other signal: the emulator and the I-cache are not called.
Stall ==
  /\ \/ P!BranchStallOnEx
     \/ P!LoadUseStall
     \/ P!BranchStallOnMem
     \/ P!BranchStallDelay
     \/ P!ArithmeticOverflow
     \/ P!IllegalInstruction
     \/ P!HaltInPipeline
     \/ P!ICacheMiss
     \/ P!DCacheMiss
  /\ UNCHANGED <<vars, iCacheVars>>
  /\ DCacheStep
  /\ CallStep

\* runTillHalt has left its loop, or the bound is reached.
OutOfInstructions == P!Control("FETCH_NEW") /\ din = MaxInstr
Finished == (status = "HALT" \/ OutOfInstructions) /\ UNCHANGED cycleVars

Next == FetchNew \/ Stall \/ Finished

Spec == Init /\ [][Next]_cycleVars

-----------------------------------------------------------------------------
(***************************************************************************)
(* Properties.                                                             *)
(***************************************************************************)
F == INSTANCE FunctSim WITH
       Programs <- MemArr,
       status <- IF info.isHalt THEN "HALT" ELSE "SUCCESS"

\* Timing changes nothing: the instructions executed, the registers and the memory
\* are at every step those of the functional simulator on the same program, and
\* nothing is executed after the halt word.
SameExecution == F!Spec

\* The names of the instructions that have an effect, in the order of execution.
ShownBy(e) == IF e.raised THEN <<>> ELSE Entry(PipeWord(e.word))
Shown == FlattenSeq([k \in DOMAIN path |-> ShownBy(path[k])])

\* With a dump after every cycle, the WB column of the trace lists exactly the
\* instructions executed, in order, each once, exceptions left out; for any number
\* of cycles between dumps the last line of a simulation shows the halt word.
TraceShowsExecution ==
  /\ cycles = 1 /\ fileInit => IsPrefix(pipeOut, Shown)
  /\ status = "HALT" => /\ cycles = 1 => pipeOut = Shown
                        /\ Last(pipeOut) = "HALT"

\* The addresses of the loads and stores, in the order of execution.
AddressOf(e) == IF e.data = -1 THEN <<>> ELSE <<e.data>>
Addresses == FlattenSeq([k \in DOMAIN path |-> AddressOf(path[k])])

\* The D-cache is asked for the address that the load or store in MEM was executed
\* with, many cycles before.
AddressesKept == \A k \in DOMAIN dPast : dPast[k] = path[accessed[k] + 1].data

\* Without exceptions it is asked for all of them, in order.
DataAccesses ==
  /\ AddressesKept
  /\ status = "HALT" /\ raised = {} => dPast = Addresses

\* What finalizeSimulator reports.
SimulationStats ==
  [dynamicInstructions |-> din, totalCycles |-> currentCycle,
   icHits |-> iHits, icMisses |-> iMisses, dcHits |-> dHits, dcMisses |-> dMisses,
   loadStalls |-> nrLoadUseStalls]

\* The number of instructions executed whose pipeline class is in S.
Executed(S) == Cardinality({k \in DOMAIN path : PipeWord(path[k].word).op \in S})

\* The cycles reported are accounted for by the other numbers reported.  At most: a
\* cycle per instruction and four to drain the pipeline, the load-use stalls, one
\* stall more per branch, the nops of the exceptions (two for an overflow, one for
\* an illegal word) and both latencies of the misses.  At least, without exceptions:
\* every kind of stall in full, if only at the same time as the others.
CyclesExplained ==
  LET s == SimulationStats
      ic == s.icMisses * iCacheConfig.missLatency
      dc == s.dcMisses * dCacheConfig.missLatency
      nops == 2 * Cardinality(raised) - Executed({"Illegal"})
      busy == 4 + s.dynamicInstructions
  IN  /\ s.totalCycles <=
           busy + s.loadStalls + Executed({"Branch1", "Branch2"}) + nops + ic + dc
      /\ status = "HALT" /\ raised = {}
         => s.totalCycles >= busy + Max({s.loadStalls, ic, dc})

\* As many cycles as the instructions can take fit into their counter.
CyclesFit ==
  4 + MaxInstr * (3 + iCacheConfig.missLatency + dCacheConfig.missLatency) < WordModulus

-----------------------------------------------------------------------------
(***************************************************************************)
(* A process that simulates program after program.                         *)
(***************************************************************************)
\* initSimulator with another program: flags and the three delays are not reset.
initSimulator ==
  /\ status = "HALT"
  /\ pipe' = P!EmptyPipe
  /\ currentCycle' = 0
  /\ lastBranchCycleCount' = 0
  /\ lastBranchInstruction' = P!Nop
  /\ nopArithmeticExcept' = 0
  /\ nopIllegalInstruct' = 0
  /\ squashID' = FALSE
  /\ squashEX' = FALSE
  /\ nrLoadUseStalls' = 0
  /\ iCache' = I!EmptyCache /\ iLru' = I!NoAges /\ iHits' = 0 /\ iMisses' = 0
  /\ dCache' = D!EmptyCache /\ dLru' = D!NoAges /\ dHits' = 0 /\ dMisses' = 0
  /\ memArr' \in Programs
  /\ registers' = [r \in Register |-> 0]
  /\ PC' = 0 /\ encounteredBranch' = FALSE /\ savedBranch' = 0 /\ din' = 0
  /\ status' = "SUCCESS" /\ count' = 0
  /\ raised' = {} /\ retired' = <<>> /\ accessed' = <<>> /\ loadPairs' = {}
  /\ path' = <<>> /\ iPast' = <<>> /\ dPast' = <<>>
  /\ UNCHANGED <<info, flags, icache_delay, dcache_delay, branch_delay, cycles,
                 fileInit, pipeOut>>

ProcessNext == Next \/ initSimulator

\* A single thread that calls runCycles again and again.
ProcessSpec == Init /\ [][ProcessNext]_cycleVars /\ WF_cycleVars(ProcessNext)

Ended == status = "HALT" \/ din = MaxInstr

\* src/src/cycle.h:8 "init the emulator and all info" and :15 "run till halt": every
\* simulation a process starts comes to its end (or to the bound).
EverySimulationEnds == []<>Ended
=============================================================================
