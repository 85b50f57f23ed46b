--------------------------- MODULE PipelineProofs ---------------------------
(***************************************************************************)
(* Theorems about Pipeline, for every set of instruction words, every      *)
(* address, every pair of miss latencies and programs of any length.       *)
(***************************************************************************)
EXTENDS Pipeline, TLAPS

-----------------------------------------------------------------------------
(***************************************************************************)
(* The data: words, slots and the register moves.                          *)
(***************************************************************************)
LEMMA NopType == Nop \in InstrWord
  BY DEF Nop, InstrWord, Op

LEMMA BubbleType == Bubble \in Slot
  BY DEF Slot

LEMMA SlotFields ==
  ASSUME NEW s \in Slot
  PROVE  /\ s.instr \in InstrWord
         /\ s.id \in Nat \cup {NoId}
         /\ s.id = NoId => s = Bubble
  BY NopType DEF Slot, Bubble, NoId

LEMMA StageTypes ==
  ASSUME NEW p \in PipeState
  PROVE  /\ p.ifInstr \in Slot /\ p.idInstr \in Slot /\ p.exInstr \in Slot
         /\ p.memInstr \in Slot /\ p.wbInstr \in Slot
  BY DEF PipeState

LEMMA MoveTypes ==
  ASSUME NEW p \in PipeState
  PROVE  /\ moveAllForward(p) \in PipeState
         /\ insertNopException(p) \in PipeState
         /\ stall_IF_stage(p) \in PipeState
         /\ stall_IF_ID_EX_MEM_stage(p) \in PipeState
         /\ BRANCH_stall(p) \in PipeState
         /\ load_use_stall_stage(p) \in PipeState
  BY BubbleType DEF PipeState, moveAllForward, insertNopException, stall_IF_stage,
     stall_IF_ID_EX_MEM_stage, BRANCH_stall, load_use_stall_stage

LEMMA Less1Type ==
  ASSUME NEW d \in Nat
  PROVE  Less1(d) \in Nat
  BY DEF Less1

\* A load or a store is never a bubble.
LEMMA AccessorId ==
  ASSUME NEW s \in Slot, isLoad(s.instr) \/ isStore(s.instr)
  PROVE  s.id \in Nat
  BY DEF Slot, Bubble, Nop, isLoad, isStore

LEMMA AppendType ==
  ASSUME NEW q \in Seq(Nat), NEW n \in Nat
  PROVE  Append(q, n) \in Seq(Nat)
  OBVIOUS

LEMMA DCacheTypes ==
  ASSUME TypeOK, pipe' \in PipeState, execute_DCACHE_write_Check
  PROVE  dcache_delay' \in Nat /\ accessed' \in Seq(Nat)
<1>1. Less1(dcache_delay) \in Nat
  BY Less1Type DEF TypeOK
<1>2. pipe'.memInstr \in Slot
  BY StageTypes
<1>3. isLoad(pipe'.memInstr.instr) \/ isStore(pipe'.memInstr.instr)
      => pipe'.memInstr.id \in Nat
  BY <1>2, AccessorId
<1>4. dcache_delay' \in Nat
  BY <1>1, PipelineAssumption DEF execute_DCACHE_write_Check
<1>5. accessed \in Seq(Nat)
  BY DEF TypeOK
<1>6. CASE accessed' = accessed
  BY <1>4, <1>5, <1>6
<1>7. CASE accessed' # accessed
  <2>1. /\ isLoad(pipe'.memInstr.instr) \/ isStore(pipe'.memInstr.instr)
        /\ accessed' = Append(accessed, pipe'.memInstr.id)
    BY <1>7 DEF execute_DCACHE_write_Check
  <2>2. QED
    BY <1>3, <1>4, <1>5, <2>1, AppendType
<1>8. QED
  BY <1>6, <1>7

LEMMA EndOfCycleTypes ==
  ASSUME TypeOK, pipe' \in PipeState, EndOfCycle
  PROVE  /\ currentCycle' \in Nat
         /\ status' \in {"SUCCESS", "HALT"}
         /\ retired' \in Seq(Nat)
         /\ loadPairs' \subseteq [load : Nat, user : Nat, uses : BOOLEAN]
<1>1. currentCycle' \in Nat /\ status' \in {"SUCCESS", "HALT"}
  BY PipelineAssumption DEF EndOfCycle, TypeOK
<1>2. retired' \in Seq(Nat)
  <2>1. pipe'.wbInstr \in Slot
    BY StageTypes
  <2>2. retired \in Seq(Nat)
    BY DEF TypeOK
  <2>3. pipe'.wbInstr.id \in Nat \cup {NoId}
    BY <2>1, SlotFields
  <2>4. \/ retired' = retired
        \/ /\ pipe'.wbInstr.id # NoId
           /\ retired' = Append(retired, pipe'.wbInstr.id)
    BY DEF EndOfCycle
  <2>5. QED
    BY <2>2, <2>3, <2>4, AppendType
<1>3. LoadPairsNow \subseteq [load : Nat, user : Nat, uses : BOOLEAN]
  <2>1. SUFFICES ASSUME NEW t \in {pipe.exInstr, pipe.memInstr},
                        isLoad(t.instr), pipe.idInstr.id # NoId
                 PROVE  [load |-> t.id, user |-> pipe.idInstr.id,
                         uses |-> t.instr.rt \in Uses(ID)]
                        \in [load : Nat, user : Nat, uses : BOOLEAN]
    BY DEF LoadPairsNow
  <2>2. t.id \in Nat
    <3>1. t \in Slot
      BY StageTypes DEF TypeOK
    <3>2. QED
      BY <2>1, <3>1, AccessorId
  <2>3. pipe.idInstr.id \in Nat
    BY <2>1, StageTypes, SlotFields DEF TypeOK
  <2>4. QED
    BY <2>2, <2>3
<1>4. QED
  BY <1>1, <1>2, <1>3 DEF EndOfCycle, TypeOK

-----------------------------------------------------------------------------
(***************************************************************************)
(* Type correctness, one lemma per handler.                                *)
(***************************************************************************)
LEMMA HandleBranchStallTypes ==
  ASSUME TypeOK, NEW delay \in Nat, HandleBranchStall(delay)
  PROVE  /\ pipe' \in PipeState
         /\ icache_delay' \in Nat /\ dcache_delay' \in Nat /\ branch_delay' \in Nat
         /\ accessed' \in Seq(Nat)
<1>1. icache_delay' \in Nat /\ Less1(dcache_delay) \in Nat
  BY Less1Type DEF HandleBranchStall, TypeOK
<1>2. branch_delay' \in Nat
  BY DEF HandleBranchStall
<1>3. pipe' \in PipeState
  BY MoveTypes DEF HandleBranchStall, TypeOK
<1>4. CASE execute_DCACHE_write_Check
  BY <1>1, <1>2, <1>3, <1>4, DCacheTypes
<1>5. CASE dcache_delay' = Less1(dcache_delay) /\ UNCHANGED accessed
  BY <1>1, <1>2, <1>3, <1>5 DEF TypeOK
<1>6. QED
  BY <1>4, <1>5 DEF HandleBranchStall

LEMMA BranchStallOnExTypes ==
  ASSUME TypeOK, BranchStallOnEx
  PROVE  TypeOK'
<1>1. BranchDelay \in Nat
  BY DEF BranchDelay
<1>2. PICK delay \in Nat : HandleBranchStall(delay)
  <2>1. ASSUME NEW b \in BOOLEAN, NEW d \in Nat
        PROVE  (IF ~b THEN branch_delay ELSE d) \in Nat
    BY DEF TypeOK
  <2>2. QED
    BY <1>1, Less1Type DEF BranchStallOnEx, TypeOK
<1>3. nrLoadUseStalls' \in Nat
  BY DEF BranchStallOnEx, TypeOK
<1>4. lastBranchCycleCount' \in Nat /\ lastBranchInstruction' \in InstrWord
  BY StageTypes, SlotFields DEF BranchStallOnEx, TypeOK, ID
<1>5. EndOfCycle
  BY DEF BranchStallOnEx
<1>6. UNCHANGED <<info, exceptions, din, raised>>
  BY <1>2 DEF HandleBranchStall
<1>7. QED
  BY <1>2, <1>3, <1>4, <1>5, <1>6, HandleBranchStallTypes, EndOfCycleTypes
     DEF TypeOK, exceptions

LEMMA LoadUseStallTypes ==
  ASSUME TypeOK, LoadUseStall
  PROVE  TypeOK'
<1>1. pipe' \in PipeState
  BY MoveTypes DEF LoadUseStall, TypeOK
<1>2. icache_delay' \in Nat /\ branch_delay' \in Nat
  BY Less1Type DEF LoadUseStall, TypeOK
<1>3. lastBranchInstruction' \in InstrWord
  BY StageTypes, SlotFields DEF LoadUseStall, TypeOK, ID
<1>4. execute_DCACHE_write_Check /\ EndOfCycle
  BY DEF LoadUseStall
<1>5. QED
  BY <1>1, <1>2, <1>3, <1>4, DCacheTypes, EndOfCycleTypes
     DEF LoadUseStall, TypeOK, exceptions

LEMMA BranchStallOnMemTypes ==
  ASSUME TypeOK, BranchStallOnMem
  PROVE  TypeOK'
<1>1. PICK delay \in Nat : HandleBranchStall(delay)
  BY Less1Type DEF BranchStallOnMem
<1>2. lastBranchCycleCount' \in Nat /\ lastBranchInstruction' \in InstrWord
  BY StageTypes, SlotFields DEF BranchStallOnMem, TypeOK, ID
<1>3. EndOfCycle
  BY DEF BranchStallOnMem
<1>4. UNCHANGED <<info, exceptions, din, raised>>
  BY <1>1 DEF HandleBranchStall
<1>5. nrLoadUseStalls' \in Nat
  BY DEF BranchStallOnMem, TypeOK
<1>6. QED
  BY <1>1, <1>2, <1>3, <1>4, <1>5, HandleBranchStallTypes, EndOfCycleTypes
     DEF TypeOK, exceptions

LEMMA BranchStallDelayTypes ==
  ASSUME TypeOK, BranchStallDelay
  PROVE  TypeOK'
<1>1. PICK delay \in Nat : HandleBranchStall(delay)
  BY Less1Type DEF BranchStallDelay, TypeOK
<1>2. EndOfCycle /\ UNCHANGED <<lastBranch, nrLoadUseStalls>>
  BY DEF BranchStallDelay
<1>3. UNCHANGED <<info, exceptions, din, raised>>
  BY <1>1 DEF HandleBranchStall
<1>4. QED
  BY <1>1, <1>2, <1>3, HandleBranchStallTypes, EndOfCycleTypes
     DEF TypeOK, exceptions, lastBranch

LEMMA ArithmeticOverflowTypes ==
  ASSUME TypeOK, ArithmeticOverflow
  PROVE  TypeOK'
<1>1. pipe' \in PipeState
  BY MoveTypes DEF ArithmeticOverflow, TypeOK
<1>2. icache_delay' \in Nat /\ branch_delay' \in Nat
  BY Less1Type DEF ArithmeticOverflow, TypeOK
<1>3. OverflowNops \in 1 .. 2
  BY DEF OverflowNops, TypeOK
<1>4. nopArithmeticExcept' \in 0 .. 2
  BY <1>3 DEF ArithmeticOverflow
<1>8. squashEX' \in BOOLEAN
  BY ZenonT(30) DEF ArithmeticOverflow, TypeOK
<1>5. info' \in [isHalt : BOOLEAN, isValid : BOOLEAN, isOverflow : BOOLEAN,
                 instructionID : Nat]
  BY DEF ArithmeticOverflow, OverflowTaken, TypeOK
<1>6. execute_DCACHE_write_Check /\ EndOfCycle
  BY DEF ArithmeticOverflow
<1>7. QED
  BY <1>1, <1>2, <1>4, <1>5, <1>6, <1>8, DCacheTypes, EndOfCycleTypes
     DEF ArithmeticOverflow, TypeOK, lastBranch

LEMMA IllegalInstructionTypes ==
  ASSUME TypeOK, IllegalInstruction
  PROVE  TypeOK'
<1>1. pipe' \in PipeState
  BY MoveTypes DEF IllegalInstruction, TypeOK
<1>2. icache_delay' \in Nat /\ branch_delay' \in Nat
  BY Less1Type DEF IllegalInstruction, TypeOK
<1>3. nopIllegalInstruct' \in 0 .. 1
  BY DEF IllegalInstruction, TypeOK
<1>7. squashID' \in BOOLEAN
  BY ZenonT(30) DEF IllegalInstruction, TypeOK
<1>4. info' \in [isHalt : BOOLEAN, isValid : BOOLEAN, isOverflow : BOOLEAN,
                 instructionID : Nat]
  BY DEF IllegalInstruction, IllegalTaken, TypeOK
<1>5. execute_DCACHE_write_Check /\ EndOfCycle
  BY DEF IllegalInstruction
<1>6. QED
  BY <1>1, <1>2, <1>3, <1>4, <1>5, <1>7, DCacheTypes, EndOfCycleTypes
     DEF IllegalInstruction, TypeOK, lastBranch

LEMMA SquashedType ==
  ASSUME TypeOK
  PROVE  Squashed \in PipeState
  BY MoveTypes, BubbleType DEF Squashed, TypeOK, PipeState

LEMMA FetchNewTypes ==
  ASSUME TypeOK, NEW i \in Instr, NEW ovf \in BOOLEAN, NEW a \in Addr,
         FetchNew(i, ovf, a)
  PROVE  TypeOK'
<1>1. i \in InstrWord /\ a \in Nat
  BY PipelineAssumption
<1>2. pipe' \in PipeState
  <2>1. [instr |-> i, addr |-> IF isLoad(i) \/ isStore(i) THEN a ELSE 0, id |-> din]
        \in Slot
    BY <1>1 DEF Slot, TypeOK
  <2>2. QED
    BY <2>1, SquashedType DEF FetchNew, PipeState
<1>3. icache_delay' \in Nat /\ branch_delay' \in Nat
  BY Less1Type, PipelineAssumption DEF FetchNew, TypeOK
<1>4. squashID' \in BOOLEAN /\ squashEX' \in BOOLEAN
  BY DEF FetchNew, TypeOK
<1>5. /\ info' \in [isHalt : BOOLEAN, isValid : BOOLEAN, isOverflow : BOOLEAN,
                    instructionID : Nat]
      /\ din' \in Nat
      /\ raised' \subseteq Nat
  BY DEF FetchNew, executeInstruction, TypeOK
<1>6. execute_DCACHE_write_Check /\ EndOfCycle
  BY DEF FetchNew
<1>7. QED
  BY <1>2, <1>3, <1>4, <1>5, <1>6, DCacheTypes, EndOfCycleTypes
     DEF FetchNew, TypeOK, lastBranch

LEMMA HaltInPipelineTypes ==
  ASSUME TypeOK, HaltInPipeline
  PROVE  TypeOK'
<1>1. pipe' \in PipeState
  BY MoveTypes DEF HaltInPipeline, TypeOK
<1>2. icache_delay' \in Nat /\ branch_delay' \in Nat
  BY Less1Type DEF HaltInPipeline, TypeOK
<1>3. execute_DCACHE_write_Check /\ EndOfCycle
  BY DEF HaltInPipeline
<1>4. QED
  BY <1>1, <1>2, <1>3, DCacheTypes, EndOfCycleTypes
     DEF HaltInPipeline, TypeOK, lastBranch, exceptions

LEMMA ICacheMissTypes ==
  ASSUME TypeOK, ICacheMiss
  PROVE  TypeOK'
<1>1. pipe' \in PipeState
  BY MoveTypes DEF ICacheMiss, TypeOK
<1>2. icache_delay' \in Nat /\ branch_delay' \in Nat
  BY Less1Type DEF ICacheMiss, TypeOK
<1>3. execute_DCACHE_write_Check /\ EndOfCycle
  BY DEF ICacheMiss
<1>4. QED
  BY <1>1, <1>2, <1>3, DCacheTypes, EndOfCycleTypes
     DEF ICacheMiss, TypeOK, lastBranch, exceptions

LEMMA DCacheMissTypes ==
  ASSUME TypeOK, DCacheMiss
  PROVE  TypeOK'
<1>1. pipe' \in PipeState
  BY MoveTypes DEF DCacheMiss, TypeOK
<1>2. icache_delay' \in Nat /\ dcache_delay' \in Nat /\ branch_delay' \in Nat
  <2>1. (IF branch_delay > 0 THEN branch_delay + 1 ELSE 0) \in Nat
    BY DEF TypeOK
  <2>2. QED
    BY <2>1, Less1Type DEF DCacheMiss, TypeOK
<1>3. EndOfCycle
  BY DEF DCacheMiss
<1>4. QED
  BY <1>1, <1>2, <1>3, EndOfCycleTypes
     DEF DCacheMiss, TypeOK, lastBranch, exceptions

\* Every variable keeps its type; in particular no delay or nop counter of the
\* control unit, all of them unsigned, is ever taken below 0.
THEOREM TypeCorrect == Spec => []TypeOK
<1>1. Init => TypeOK
  <2>1. SUFFICES ASSUME Init PROVE TypeOK
    OBVIOUS
  <2>2. pipe \in PipeState
    BY <2>1, BubbleType DEF Init, EmptyPipe, PipeState
  <2>3. /\ raised \subseteq Nat
        /\ loadPairs \subseteq [load : Nat, user : Nat, uses : BOOLEAN]
        /\ retired \in Seq(Nat) /\ accessed \in Seq(Nat)
    BY <2>1 DEF Init
  <2>4. info \in [isHalt : BOOLEAN, isValid : BOOLEAN, isOverflow : BOOLEAN,
                  instructionID : Nat]
    BY <2>1 DEF Init
  <2>5. /\ icache_delay \in Nat /\ dcache_delay \in Nat /\ branch_delay \in Nat
        /\ lastBranchCycleCount \in Nat /\ lastBranchInstruction \in InstrWord
        /\ nopArithmeticExcept \in 0 .. 2 /\ nopIllegalInstruct \in 0 .. 1
        /\ nrLoadUseStalls \in Nat /\ currentCycle \in Nat /\ din \in Nat
    BY <2>1, NopType DEF Init
  <2>6. squashID \in BOOLEAN /\ squashEX \in BOOLEAN /\ status \in {"SUCCESS", "HALT"}
    BY <2>1 DEF Init
  <2>7. QED
    BY <2>2, <2>3, <2>4, <2>5, <2>6 DEF TypeOK
<1>2. TypeOK /\ [Next]_vars => TypeOK'
  <2>1. SUFFICES ASSUME TypeOK, [Next]_vars
                 PROVE  TypeOK'
    OBVIOUS
  <2>2. CASE BranchStallOnEx
    BY <2>1, <2>2, BranchStallOnExTypes
  <2>3. CASE LoadUseStall
    BY <2>1, <2>3, LoadUseStallTypes
  <2>4. CASE BranchStallOnMem
    BY <2>1, <2>4, BranchStallOnMemTypes
  <2>5. CASE BranchStallDelay
    BY <2>1, <2>5, BranchStallDelayTypes
  <2>6. CASE ArithmeticOverflow
    BY <2>1, <2>6, ArithmeticOverflowTypes
  <2>7. CASE IllegalInstruction
    BY <2>1, <2>7, IllegalInstructionTypes
  <2>8. ASSUME NEW i \in Instr, NEW ovf \in BOOLEAN, NEW a \in Addr,
               FetchNew(i, ovf, a)
        PROVE  TypeOK'
    BY <2>1, <2>8, FetchNewTypes
  <2>9. CASE HaltInPipeline
    BY <2>1, <2>9, HaltInPipelineTypes
  <2>10. CASE ICacheMiss
    BY <2>1, <2>10, ICacheMissTypes
  <2>11. CASE DCacheMiss
    BY <2>1, <2>11, DCacheMissTypes
  <2>12. CASE Halted \/ UNCHANGED vars
    BY <2>1, <2>12 DEF Halted, TypeOK, vars, delays, lastBranch, exceptions, history
  <2>13. QED
    BY <2>1, <2>2, <2>3, <2>4, <2>5, <2>6, <2>7, <2>8, <2>9, <2>10, <2>11, <2>12
       DEF Next
<1>3. QED
  BY <1>1, <1>2, PTL DEF Spec

-----------------------------------------------------------------------------
(***************************************************************************)
(* What a cycle does to the stages: it holds all but WB, it moves the      *)
(* instructions that are in them, or it moves them and fetches another.    *)
(***************************************************************************)
Holding ==
  /\ pipe' = stall_IF_ID_EX_MEM_stage(pipe)
  /\ UNCHANGED <<din, raised, accessed>>
  /\ EndOfCycle

Moving ==
  /\ pipe' \in {moveAllForward(pipe), stall_IF_stage(pipe), BRANCH_stall(pipe)}
  /\ UNCHANGED <<din, raised>>
  /\ execute_DCACHE_write_Check
  /\ EndOfCycle

Fetching == \E i \in Instr, ovf \in BOOLEAN, a \in Addr : FetchNew(i, ovf, a)

LEMMA HandleBranchStallShape ==
  ASSUME NEW delay, HandleBranchStall(delay), EndOfCycle
  PROVE  Holding \/ Moving
  BY DEF HandleBranchStall, Holding, Moving

LEMMA CycleShape ==
  ASSUME Next
  PROVE  Holding \/ Moving \/ Fetching \/ UNCHANGED vars
<1>1. CASE BranchStallOnEx
  BY <1>1, HandleBranchStallShape DEF BranchStallOnEx
<1>2. CASE LoadUseStall
  BY <1>2 DEF LoadUseStall, Moving, load_use_stall_stage
<1>3. CASE BranchStallOnMem
  BY <1>3, HandleBranchStallShape DEF BranchStallOnMem
<1>4. CASE BranchStallDelay
  BY <1>4, HandleBranchStallShape DEF BranchStallDelay
<1>5. CASE ArithmeticOverflow
  BY <1>5 DEF ArithmeticOverflow, Moving, insertNopException
<1>6. CASE IllegalInstruction
  BY <1>6 DEF IllegalInstruction, Moving, insertNopException
<1>7. CASE HaltInPipeline
  BY <1>7 DEF HaltInPipeline, Moving
<1>8. CASE ICacheMiss
  BY <1>8 DEF ICacheMiss, Moving
<1>9. CASE DCacheMiss
  BY <1>9 DEF DCacheMiss, Holding
<1>10. CASE Halted
  BY <1>10 DEF Halted
<1>11. QED
  BY <1>1, <1>2, <1>3, <1>4, <1>5, <1>6, <1>7, <1>8, <1>9, <1>10 DEF Next, Fetching

-----------------------------------------------------------------------------
(***************************************************************************)
(* Program order.  The invariant says of every pair of stages, and of the  *)
(* instructions that have left, that the one nearer to IF is younger, and  *)
(* that the emulator's count is above them all.                            *)
(***************************************************************************)
AllBefore(q, s) == s.id # NoId => \A k \in 1 .. Len(q) : q[k] < s.id
AllBelow(q, n) == \A k \in 1 .. Len(q) : q[k] < n

StagesBelow(n) ==
  /\ pipe.ifInstr.id < n /\ pipe.idInstr.id < n /\ pipe.exInstr.id < n
  /\ pipe.memInstr.id < n /\ pipe.wbInstr.id < n

RetiredFirst ==
  /\ Increasing(retired) /\ AllBelow(retired, din)
  /\ AllBefore(retired, pipe.ifInstr) /\ AllBefore(retired, pipe.idInstr)
  /\ AllBefore(retired, pipe.exInstr) /\ AllBefore(retired, pipe.memInstr)

AccessedFirst ==
  /\ Increasing(accessed) /\ AllBelow(accessed, din)
  /\ AllBefore(accessed, pipe.ifInstr) /\ AllBefore(accessed, pipe.idInstr)
  /\ AllBefore(accessed, pipe.exInstr)

OrderInv == ProgramOrder /\ StagesBelow(din) /\ RetiredFirst /\ AccessedFirst

LEMMA IncreasingAppend ==
  ASSUME NEW q \in Seq(Nat), NEW n \in Nat, Increasing(q), AllBelow(q, n)
  PROVE  Increasing(Append(q, n))
  BY DEF Increasing, AllBelow

LEMMA BelowAppend ==
  ASSUME NEW q \in Seq(Nat), NEW n \in Nat, NEW m \in Int, AllBelow(q, m), n < m
  PROVE  AllBelow(Append(q, n), m)
  BY DEF AllBelow

LEMMA BeforeAppend ==
  ASSUME NEW q \in Seq(Nat), NEW n \in Nat, NEW s \in Slot,
         AllBefore(q, s), s.id # NoId => n < s.id
  PROVE  AllBefore(Append(q, n), s)
  BY SlotFields DEF AllBefore

\* Where the instructions are after a cycle that is not a hold.
Forward ==
  /\ pipe'.wbInstr = pipe.memInstr
  /\ pipe'.memInstr \in {pipe.exInstr, Bubble}
  /\ \/ /\ pipe'.ifInstr = Bubble \/ pipe'.ifInstr.id = din
        /\ pipe'.idInstr = pipe.ifInstr
        /\ pipe'.exInstr \in {pipe.idInstr, Bubble}
     \/ /\ pipe'.ifInstr = pipe.ifInstr
        /\ pipe'.idInstr = Bubble
        /\ pipe'.exInstr = pipe.idInstr
     \/ /\ pipe'.ifInstr = pipe.ifInstr
        /\ pipe'.idInstr = pipe.idInstr
        /\ pipe'.exInstr = Bubble

LEMMA MovingForward ==
  ASSUME Moving
  PROVE  Forward
  BY DEF Moving, Forward, moveAllForward, stall_IF_stage, BRANCH_stall

LEMMA FetchingForward ==
  ASSUME TypeOK, NEW i \in Instr, NEW ovf \in BOOLEAN, NEW a \in Addr,
         FetchNew(i, ovf, a)
  PROVE  /\ Forward
         /\ pipe'.ifInstr.id = din /\ din' = din + 1
         /\ execute_DCACHE_write_Check /\ EndOfCycle
<1>1. /\ pipe'.wbInstr = Squashed.wbInstr /\ pipe'.memInstr = Squashed.memInstr
      /\ pipe'.exInstr = Squashed.exInstr /\ pipe'.idInstr = Squashed.idInstr
      /\ pipe'.ifInstr.id = din
  BY SquashedType DEF FetchNew, PipeState
<1>2. /\ Squashed.wbInstr = pipe.memInstr
      /\ Squashed.memInstr \in {pipe.exInstr, Bubble}
      /\ Squashed.exInstr \in {pipe.idInstr, Bubble}
      /\ Squashed.idInstr = pipe.ifInstr
  BY DEF Squashed, moveAllForward
<1>3. QED
  BY <1>1, <1>2 DEF Forward, FetchNew, executeInstruction

LEMMA RetiredStep ==
  ASSUME TypeOK, TypeOK', OrderInv, Forward, EndOfCycle
  PROVE  /\ Increasing(retired') /\ AllBelow(retired', din)
         /\ AllBefore(retired', pipe.ifInstr) /\ AllBefore(retired', pipe.idInstr)
         /\ AllBefore(retired', pipe.exInstr)
<1>1. retired \in Seq(Nat) /\ din \in Nat /\ pipe \in PipeState
  BY DEF TypeOK
<1>2. CASE retired' = retired
  BY <1>2 DEF OrderInv, RetiredFirst
<1>3. CASE retired' # retired
  <2>1. /\ pipe.memInstr.id # NoId
        /\ retired' = Append(retired, pipe.memInstr.id)
    BY <1>3 DEF EndOfCycle, Forward
  <2>2. pipe.memInstr.id \in Nat
    BY <1>1, <2>1, StageTypes, SlotFields
  <2>3. pipe.ifInstr \in Slot /\ pipe.idInstr \in Slot /\ pipe.exInstr \in Slot
    BY <1>1, StageTypes
  <2>4. AllBelow(retired, pipe.memInstr.id)
    BY <2>1 DEF OrderInv, RetiredFirst, AllBefore, AllBelow
  <2>5. /\ pipe.memInstr.id < din
        /\ pipe.ifInstr.id # NoId => pipe.memInstr.id < pipe.ifInstr.id
        /\ pipe.idInstr.id # NoId => pipe.memInstr.id < pipe.idInstr.id
        /\ pipe.exInstr.id # NoId => pipe.memInstr.id < pipe.exInstr.id
    BY <2>1 DEF OrderInv, StagesBelow, ProgramOrder, Before
  <2>6. Increasing(retired')
    BY <1>1, <2>1, <2>2, <2>4, IncreasingAppend DEF OrderInv, RetiredFirst
  <2>7. AllBelow(retired', din)
    BY <1>1, <2>1, <2>2, <2>5, BelowAppend DEF OrderInv, RetiredFirst
  <2>8. /\ AllBefore(retired', pipe.ifInstr) /\ AllBefore(retired', pipe.idInstr)
        /\ AllBefore(retired', pipe.exInstr)
    BY <1>1, <2>1, <2>2, <2>3, <2>5, BeforeAppend DEF OrderInv, RetiredFirst
  <2>9. QED
    BY <2>6, <2>7, <2>8
<1>4. QED
  BY <1>2, <1>3

LEMMA AccessedStep ==
  ASSUME TypeOK, TypeOK', OrderInv, Forward, execute_DCACHE_write_Check
  PROVE  /\ Increasing(accessed') /\ AllBelow(accessed', din)
         /\ AllBefore(accessed', pipe.ifInstr) /\ AllBefore(accessed', pipe.idInstr)
<1>1. accessed \in Seq(Nat) /\ din \in Nat /\ pipe \in PipeState /\ pipe' \in PipeState
  BY DEF TypeOK
<1>2. CASE accessed' = accessed
  BY <1>2 DEF OrderInv, AccessedFirst
<1>3. CASE accessed' # accessed
  <2>1. /\ isLoad(pipe'.memInstr.instr) \/ isStore(pipe'.memInstr.instr)
        /\ accessed' = Append(accessed, pipe'.memInstr.id)
    BY <1>3 DEF execute_DCACHE_write_Check
  <2>2. pipe'.memInstr = pipe.exInstr
    BY <2>1 DEF Forward, Bubble, Nop, isLoad, isStore
  <2>3. pipe.exInstr.id \in Nat
    <3>1. pipe.exInstr \in Slot
      BY <1>1, StageTypes
    <3>2. QED
      BY <2>1, <2>2, <3>1, AccessorId
  <2>4. pipe.ifInstr \in Slot /\ pipe.idInstr \in Slot /\ pipe.exInstr.id # NoId
    BY <1>1, <2>3, StageTypes DEF NoId
  <2>5. AllBelow(accessed, pipe.exInstr.id)
    BY <2>4 DEF OrderInv, AccessedFirst, AllBefore, AllBelow
  <2>6. /\ pipe.exInstr.id < din
        /\ pipe.ifInstr.id # NoId => pipe.exInstr.id < pipe.ifInstr.id
        /\ pipe.idInstr.id # NoId => pipe.exInstr.id < pipe.idInstr.id
    BY <2>4 DEF OrderInv, StagesBelow, ProgramOrder, Before
  <2>7. Increasing(accessed')
    BY <1>1, <2>1, <2>2, <2>3, <2>5, IncreasingAppend DEF OrderInv, AccessedFirst
  <2>8. AllBelow(accessed', din)
    BY <1>1, <2>1, <2>2, <2>3, <2>6, BelowAppend DEF OrderInv, AccessedFirst
  <2>9. AllBefore(accessed', pipe.ifInstr) /\ AllBefore(accessed', pipe.idInstr)
    BY <1>1, <2>1, <2>2, <2>3, <2>4, <2>6, BeforeAppend DEF OrderInv, AccessedFirst
  <2>10. QED
    BY <2>7, <2>8, <2>9
<1>4. QED
  BY <1>2, <1>3

LEMMA BubbleBefore ==
  ASSUME NEW q
  PROVE  AllBefore(q, Bubble) /\ Bubble.id = NoId
  BY DEF AllBefore, Bubble

LEMMA ForwardStep ==
  ASSUME TypeOK, TypeOK', OrderInv, Forward,
         execute_DCACHE_write_Check, EndOfCycle,
         \/ din' = din /\ pipe'.ifInstr.id # din
         \/ din' = din + 1
  PROVE  OrderInv'
<1>1. din \in Nat /\ din' \in Nat /\ pipe \in PipeState
  BY DEF TypeOK
<1>2. /\ Increasing(retired') /\ AllBelow(retired', din)
      /\ AllBefore(retired', pipe.ifInstr) /\ AllBefore(retired', pipe.idInstr)
      /\ AllBefore(retired', pipe.exInstr)
  BY RetiredStep
<1>3. /\ Increasing(accessed') /\ AllBelow(accessed', din)
      /\ AllBefore(accessed', pipe.ifInstr) /\ AllBefore(accessed', pipe.idInstr)
  BY AccessedStep
<1>4. retired' \in Seq(Nat) /\ accessed' \in Seq(Nat)
  BY DEF TypeOK
<1>5. pipe'.ifInstr \in {Bubble, pipe.ifInstr} \/ pipe'.ifInstr.id = din
  BY DEF Forward
<1>6. pipe'.idInstr \in {Bubble, pipe.ifInstr, pipe.idInstr}
  BY DEF Forward
<1>7. pipe'.exInstr \in {Bubble, pipe.idInstr}
  BY DEF Forward
<1>8. pipe'.memInstr \in {Bubble, pipe.exInstr} /\ pipe'.wbInstr = pipe.memInstr
  BY DEF Forward
<1>9. RetiredFirst'
  <2>1. AllBelow(retired', din')
    BY <1>1, <1>2, <1>4 DEF AllBelow
  <2>2. AllBefore(retired', pipe'.ifInstr)
    BY <1>2, <1>5, BubbleBefore DEF AllBefore, AllBelow
  <2>3. AllBefore(retired', pipe'.idInstr) /\ AllBefore(retired', pipe'.exInstr)
    BY <1>2, <1>6, <1>7, BubbleBefore
  <2>4. AllBefore(retired', pipe'.memInstr)
    BY <1>2, <1>8, BubbleBefore
  <2>5. QED
    BY <1>2, <2>1, <2>2, <2>3, <2>4 DEF RetiredFirst
<1>10. AccessedFirst'
  <2>1. AllBelow(accessed', din')
    BY <1>1, <1>3, <1>4 DEF AllBelow
  <2>2. AllBefore(accessed', pipe'.ifInstr)
    BY <1>3, <1>5, BubbleBefore DEF AllBefore, AllBelow
  <2>3. AllBefore(accessed', pipe'.idInstr) /\ AllBefore(accessed', pipe'.exInstr)
    BY <1>3, <1>6, <1>7, BubbleBefore
  <2>4. QED
    BY <1>3, <2>1, <2>2, <2>3 DEF AccessedFirst
<1>11. StagesBelow(din)'
  <2>1. NoId < din /\ din <= din'
    BY <1>1 DEF NoId
  <2>2. pipe'.ifInstr.id < din'
    BY <1>1, <1>5, <2>1, BubbleBefore, StageTypes, SlotFields
       DEF OrderInv, StagesBelow, NoId
  <2>3. /\ pipe'.idInstr.id < din' /\ pipe'.exInstr.id < din'
        /\ pipe'.memInstr.id < din' /\ pipe'.wbInstr.id < din'
    BY <1>1, <1>6, <1>7, <1>8, <2>1, BubbleBefore, StageTypes, SlotFields
       DEF OrderInv, StagesBelow, NoId
  <2>4. QED
    BY <2>2, <2>3 DEF StagesBelow
<1>12. ProgramOrder'
  <2>1. /\ Before(pipe.idInstr, pipe.ifInstr) /\ Before(pipe.exInstr, pipe.ifInstr)
        /\ Before(pipe.memInstr, pipe.ifInstr)
        /\ Before(pipe.exInstr, pipe.idInstr) /\ Before(pipe.memInstr, pipe.idInstr)
        /\ Before(pipe.memInstr, pipe.exInstr)
    BY DEF OrderInv, ProgramOrder
  <2>2. /\ pipe.ifInstr.id < din /\ pipe.idInstr.id < din /\ pipe.exInstr.id < din
        /\ pipe.memInstr.id < din
    BY DEF OrderInv, StagesBelow
  <2>3. \A t : Before(Bubble, t) /\ Before(t, Bubble)
    BY BubbleBefore DEF Before
  <2>4. /\ Before(pipe'.idInstr, pipe'.ifInstr) /\ Before(pipe'.exInstr, pipe'.ifInstr)
        /\ Before(pipe'.exInstr, pipe'.idInstr)
    BY <2>1, <2>2, <2>3 DEF Forward, Before
  <2>5. /\ Before(pipe'.memInstr, pipe'.ifInstr) /\ Before(pipe'.wbInstr, pipe'.ifInstr)
    BY <1>5, <1>8, <2>1, <2>2, <2>3 DEF Before
  <2>6. /\ Before(pipe'.memInstr, pipe'.idInstr) /\ Before(pipe'.wbInstr, pipe'.idInstr)
        /\ Before(pipe'.memInstr, pipe'.exInstr) /\ Before(pipe'.wbInstr, pipe'.exInstr)
        /\ Before(pipe'.wbInstr, pipe'.memInstr)
    BY <1>6, <1>7, <1>8, <2>1, <2>3 DEF Before
  <2>7. QED
    BY <2>4, <2>5, <2>6 DEF ProgramOrder
<1>13. QED
  BY <1>9, <1>10, <1>11, <1>12 DEF OrderInv

LEMMA HoldingStep ==
  ASSUME TypeOK, OrderInv, Holding
  PROVE  OrderInv'
<1>1. /\ pipe'.ifInstr = pipe.ifInstr /\ pipe'.idInstr = pipe.idInstr
      /\ pipe'.exInstr = pipe.exInstr /\ pipe'.memInstr = pipe.memInstr
      /\ pipe'.wbInstr = Bubble
  BY DEF Holding, stall_IF_ID_EX_MEM_stage, TypeOK, PipeState
<1>2. din' = din /\ accessed' = accessed /\ retired' = retired
  BY <1>1, BubbleBefore DEF Holding, EndOfCycle
<1>3. RetiredFirst' /\ AccessedFirst'
  BY <1>1, <1>2 DEF OrderInv, RetiredFirst, AccessedFirst
<1>4. StagesBelow(din)'
  <2>1. din \in Nat /\ Bubble.id < din
    BY DEF TypeOK, Bubble, NoId
  <2>2. QED
    BY <1>1, <1>2, <2>1 DEF OrderInv, StagesBelow
<1>5. ProgramOrder'
  BY <1>1, BubbleBefore DEF OrderInv, ProgramOrder, Before
<1>6. QED
  BY <1>3, <1>4, <1>5 DEF OrderInv

LEMMA OrderInvariant == Spec => []OrderInv
<1>1. Init => OrderInv
  BY BubbleBefore DEF Init, EmptyPipe, OrderInv, ProgramOrder, StagesBelow, RetiredFirst,
     AccessedFirst, Increasing, AllBelow, AllBefore, Before, NoId
<1>2. TypeOK /\ TypeOK' /\ OrderInv /\ [Next]_vars => OrderInv'
  <2>1. SUFFICES ASSUME TypeOK, TypeOK', OrderInv, [Next]_vars
                 PROVE  OrderInv'
    OBVIOUS
  <2>2. CASE Holding
    BY <2>1, <2>2, HoldingStep
  <2>3. CASE Moving
    <3>1. Forward /\ din' = din /\ execute_DCACHE_write_Check /\ EndOfCycle
      BY <2>3, MovingForward DEF Moving
    <3>2. pipe'.ifInstr.id # din
      <4>1. pipe'.ifInstr \in {Bubble, pipe.ifInstr}
        BY <2>3 DEF Moving, moveAllForward, stall_IF_stage, BRANCH_stall
      <4>2. din \in Nat /\ Bubble.id < din
        BY <2>1 DEF TypeOK, Bubble, NoId
      <4>3. Bubble \in Slot /\ pipe.ifInstr \in Slot
        BY <2>1, BubbleType, StageTypes DEF TypeOK
      <4>4. QED
        BY <2>1, <4>1, <4>2, <4>3, SlotFields DEF OrderInv, StagesBelow, NoId
    <3>3. QED
      BY <2>1, <3>1, <3>2, ForwardStep
  <2>4. CASE Fetching
    BY <2>1, <2>4, FetchingForward, ForwardStep DEF Fetching
  <2>5. CASE UNCHANGED vars
    BY <2>1, <2>5 DEF vars, history, OrderInv, ProgramOrder, StagesBelow, RetiredFirst,
       AccessedFirst
  <2>6. QED
    BY <2>1, <2>2, <2>3, <2>4, <2>5, CycleShape
<1>3. QED
  BY <1>1, <1>2, TypeCorrect, PTL DEF Spec

\* The stages hold instructions in program order, none of them twice.
THEOREM ProgramOrderCorrect == Spec => []ProgramOrder
  BY OrderInvariant, PTL DEF OrderInv

\* Every instruction is in WB in one cycle only, and they are there in program order.
THEOREM RetiredInOrderCorrect == Spec => []RetiredInOrder
<1>1. OrderInv => RetiredInOrder
  BY DEF OrderInv, RetiredFirst, RetiredInOrder
<1>2. QED
  BY <1>1, OrderInvariant, PTL

\* Loads and stores access the D-cache in program order, none of them twice.
THEOREM AccessedInOrderCorrect == Spec => []AccessedInOrder
<1>1. OrderInv => AccessedInOrder
  BY DEF OrderInv, AccessedFirst, AccessedInOrder
<1>2. QED
  BY <1>1, OrderInvariant, PTL
=============================================================================
