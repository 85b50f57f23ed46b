---------------------------- MODULE HazardProofs ----------------------------
(***************************************************************************)
(* Theorems about exceptions and interlocks in Pipeline: an instruction    *)
(* that raised one is squashed in time and no other instruction is lost    *)
(* with it; an instruction enters EX only when what it depends on is far   *)
(* enough ahead of it; what all of this may cost, and how its stalls are   *)
(* counted.                                                                *)
(***************************************************************************)
EXTENDS PipelineProofs, FiniteSetTheorems

-----------------------------------------------------------------------------
(***************************************************************************)
(* The invariant.  squashID, squashEX and the nop counters name stages,    *)
(* not instructions; the invariant says who is in them.  An exception is   *)
(* always in one of five phases, each with its victim in a known stage.    *)
(***************************************************************************)
OverflowInIF == info.isOverflow
OverflowInID == nopArithmeticExcept = 1
OverflowInEX == squashEX
IllegalInIF == ~info.isValid
IllegalInID == squashID

AnyException ==
  OverflowInIF \/ OverflowInID \/ OverflowInEX \/ IllegalInIF \/ IllegalInID

\* There is one victim at a time: nothing is fetched before it is squashed.
OneException ==
  /\ OverflowInIF => ~OverflowInID /\ ~OverflowInEX /\ ~IllegalInIF /\ ~IllegalInID
  /\ OverflowInID => ~OverflowInEX /\ ~IllegalInIF /\ ~IllegalInID
  /\ OverflowInEX => ~IllegalInIF /\ ~IllegalInID
  /\ IllegalInIF => ~IllegalInID
  /\ nopArithmeticExcept = 2 => OverflowInIF
  /\ nopIllegalInstruct = 1 => IllegalInIF
  /\ AnyException => ~info.isHalt

\* The victim is where the phase says.  An overflow that has reached ID or EX is not
\* moved on by a branch stall that was pending before, since two nops outlast it.
VictimInPlace ==
  /\ OverflowInIF => /\ pipe.ifInstr.id \in raised
                     /\ pipe.ifInstr.instr.op \in {"RType", "IType"}
  /\ OverflowInID => /\ pipe.idInstr.id \in raised /\ ID.op \in {"RType", "IType"}
                     /\ pipe.ifInstr = Bubble
                     /\ icache_delay = 0 /\ branch_delay <= 1
  /\ OverflowInEX => /\ pipe.exInstr.id \in raised /\ EX.op \in {"RType", "IType"}
                     /\ pipe.ifInstr = Bubble /\ pipe.idInstr = Bubble
                     /\ icache_delay = 0 /\ branch_delay = 0
  /\ IllegalInIF => /\ pipe.ifInstr.id \in raised
                    /\ pipe.ifInstr.instr.op = "Illegal"
  /\ IllegalInID => /\ pipe.idInstr.id \in raised /\ ID.op = "Illegal"
                    /\ pipe.ifInstr = Bubble /\ icache_delay = 0

\* No other instruction in flight or retired has raised an exception.
NoOtherVictim ==
  /\ pipe.ifInstr.id \in raised => OverflowInIF \/ IllegalInIF
  /\ pipe.idInstr.id \in raised => OverflowInID \/ IllegalInID
  /\ pipe.exInstr.id \in raised => OverflowInEX
  /\ pipe.memInstr.id \notin raised
  /\ Range(retired) \cap raised = {}
  /\ \A r \in raised : r < din

NoOtherIllegal ==
  /\ pipe.ifInstr.instr.op = "Illegal" => IllegalInIF
  /\ ID.op = "Illegal" => IllegalInID
  /\ EX.op # "Illegal"

ExceptionInv ==
  /\ branch_delay <= 2
  /\ OneException /\ VictimInPlace /\ NoOtherVictim /\ NoOtherIllegal

-----------------------------------------------------------------------------
(***************************************************************************)
(* What the moves and the end of a cycle do to stages and to retired.      *)
(***************************************************************************)
LEMMA HoldStages ==
  ASSUME NEW p \in PipeState
  PROVE  LET q == stall_IF_ID_EX_MEM_stage(p) IN
         /\ q.ifInstr = p.ifInstr /\ q.idInstr = p.idInstr
         /\ q.exInstr = p.exInstr /\ q.memInstr = p.memInstr
         /\ q.wbInstr = Bubble
  BY DEF stall_IF_ID_EX_MEM_stage, PipeState

LEMMA AppendRange ==
  ASSUME NEW q \in Seq(Nat), NEW n \in Nat
  PROVE  Range(Append(q, n)) = Range(q) \cup {n}
<1>1. /\ DOMAIN q = 1 .. Len(q) /\ DOMAIN Append(q, n) = 1 .. Len(q) + 1
      /\ \A k \in 1 .. Len(q) : Append(q, n)[k] = q[k]
      /\ Append(q, n)[Len(q) + 1] = n
      /\ Len(q) \in Nat
  OBVIOUS
<1>2. ASSUME NEW x \in Range(Append(q, n))
      PROVE  x \in Range(q) \cup {n}
  BY <1>1, <1>2 DEF Range
<1>3. ASSUME NEW x \in Range(q) \cup {n}
      PROVE  x \in Range(Append(q, n))
  BY <1>1, <1>3 DEF Range
<1>4. QED
  BY <1>2, <1>3

LEMMA RetiredRange ==
  ASSUME TypeOK, pipe' \in PipeState, EndOfCycle
  PROVE  Range(retired') = Range(retired) \cup ({pipe'.wbInstr.id} \ {NoId})
<1>1. retired \in Seq(Nat) /\ pipe'.wbInstr.id \in Nat \cup {NoId}
  BY StageTypes, SlotFields DEF TypeOK
<1>2. CASE pipe'.wbInstr.id = NoId
  BY <1>2 DEF EndOfCycle
<1>3. CASE pipe'.wbInstr.id # NoId
  <2>1. retired' = Append(retired, pipe'.wbInstr.id) /\ pipe'.wbInstr.id \in Nat
    BY <1>1, <1>3 DEF EndOfCycle
  <2>2. QED
    BY <1>1, <1>3, <2>1, AppendRange
<1>4. QED
  BY <1>2, <1>3

\* The id of an empty stage is no id of an instruction.
LEMMA NoIdNotRaised ==
  ASSUME TypeOK
  PROVE  NoId \notin raised /\ Bubble.id = NoId /\ Bubble.instr = Nop
  BY DEF TypeOK, NoId, Bubble

\* A cycle that neither fetches nor changes what is known of exceptions.
Quiet == UNCHANGED <<info, exceptions, din, raised>> /\ icache_delay' = Less1(icache_delay)

LEMMA RetiredNotRaised ==
  ASSUME TypeOK, ExceptionInv, pipe' \in PipeState, EndOfCycle, UNCHANGED raised,
         pipe'.wbInstr \in {Bubble, pipe.memInstr}
  PROVE  Range(retired') \cap raised' = {}
  BY RetiredRange, NoIdNotRaised DEF ExceptionInv, NoOtherVictim

\* The victim stays where it is when its stage is held.
LEMMA QuietHold ==
  ASSUME TypeOK, ExceptionInv, Quiet, EndOfCycle,
         pipe' = stall_IF_ID_EX_MEM_stage(pipe),
         branch_delay' <= 2,
         OverflowInID => branch_delay' <= 1,
         OverflowInEX => branch_delay' = 0
  PROVE  ExceptionInv'
<1>1. /\ pipe'.ifInstr = pipe.ifInstr /\ pipe'.idInstr = pipe.idInstr
      /\ pipe'.exInstr = pipe.exInstr /\ pipe'.memInstr = pipe.memInstr
      /\ pipe'.wbInstr = Bubble
  BY HoldStages DEF TypeOK
<1>2. icache_delay = 0 => icache_delay' = 0
  BY DEF Quiet, Less1
<1>3. Range(retired') \cap raised' = {}
  BY <1>1, MoveTypes, RetiredNotRaised DEF Quiet, TypeOK
<1>4. OneException'
  BY DEF ExceptionInv, OneException, Quiet, exceptions, AnyException, OverflowInIF,
     OverflowInID, OverflowInEX, IllegalInIF, IllegalInID
<1>5. VictimInPlace'
  BY <1>1, <1>2 DEF ExceptionInv, VictimInPlace, Quiet, exceptions, OverflowInIF,
     OverflowInID, OverflowInEX, IllegalInIF, IllegalInID, ID, EX
<1>6. NoOtherVictim'
  BY <1>1, <1>3 DEF ExceptionInv, NoOtherVictim, Quiet, exceptions, OverflowInIF,
     OverflowInID, OverflowInEX, IllegalInIF, IllegalInID
<1>7. NoOtherIllegal'
  BY <1>1 DEF ExceptionInv, NoOtherIllegal, Quiet, exceptions, IllegalInIF, IllegalInID,
     ID, EX
<1>8. QED
  BY <1>4, <1>5, <1>6, <1>7 DEF ExceptionInv

LEMMA QuietBranchStall ==
  ASSUME TypeOK, ExceptionInv, Quiet, EndOfCycle,
         pipe' = BRANCH_stall(pipe), ~OverflowInEX,
         branch_delay' <= 2,
         OverflowInID => branch_delay' <= 1
  PROVE  ExceptionInv'
<1>1. /\ pipe'.ifInstr = pipe.ifInstr /\ pipe'.idInstr = pipe.idInstr
      /\ pipe'.exInstr = Bubble /\ pipe'.memInstr = pipe.exInstr
      /\ pipe'.wbInstr = pipe.memInstr
  BY DEF BRANCH_stall
<1>2. icache_delay = 0 => icache_delay' = 0
  BY DEF Quiet, Less1
<1>3. Range(retired') \cap raised' = {}
  BY <1>1, MoveTypes, RetiredNotRaised DEF Quiet, TypeOK
<1>4. OneException'
  BY DEF ExceptionInv, OneException, Quiet, exceptions, AnyException, OverflowInIF,
     OverflowInID, OverflowInEX, IllegalInIF, IllegalInID
<1>5. VictimInPlace'
  BY <1>1, <1>2 DEF ExceptionInv, VictimInPlace, Quiet, exceptions, OverflowInIF,
     OverflowInID, OverflowInEX, IllegalInIF, IllegalInID, ID, EX
<1>6. NoOtherVictim'
  BY <1>1, <1>3, NoIdNotRaised DEF ExceptionInv, NoOtherVictim, Quiet, exceptions,
     OverflowInIF, OverflowInID, OverflowInEX, IllegalInIF, IllegalInID
<1>7. NoOtherIllegal'
  BY <1>1, NoIdNotRaised DEF ExceptionInv, NoOtherIllegal, Quiet, exceptions,
     IllegalInIF, IllegalInID, ID, EX, Nop
<1>8. QED
  BY <1>4, <1>5, <1>6, <1>7 DEF ExceptionInv

LEMMA QuietMove ==
  ASSUME TypeOK, ExceptionInv, Quiet, EndOfCycle,
         pipe' \in {stall_IF_stage(pipe), moveAllForward(pipe)}, ~AnyException,
         branch_delay' <= 2
  PROVE  ExceptionInv'
<1>1. /\ pipe'.ifInstr \in {pipe.ifInstr, Bubble}
      /\ pipe'.idInstr \in {pipe.ifInstr, Bubble}
      /\ pipe'.exInstr = pipe.idInstr /\ pipe'.memInstr = pipe.exInstr
      /\ pipe'.wbInstr = pipe.memInstr
  BY DEF stall_IF_stage, moveAllForward
<1>2. ~AnyException'
  BY DEF Quiet, exceptions, AnyException, OverflowInIF,
     OverflowInID, OverflowInEX, IllegalInIF, IllegalInID
<1>3. Range(retired') \cap raised' = {}
  BY <1>1, MoveTypes, RetiredNotRaised DEF Quiet, TypeOK
<1>4. OneException'
  BY <1>2 DEF ExceptionInv, OneException, Quiet, exceptions, AnyException, OverflowInIF,
     OverflowInID, OverflowInEX, IllegalInIF, IllegalInID
<1>5. VictimInPlace'
  BY <1>2 DEF VictimInPlace, AnyException
<1>6. NoOtherVictim'
  BY <1>1, <1>3, NoIdNotRaised DEF ExceptionInv, NoOtherVictim, Quiet, AnyException
<1>7. NoOtherIllegal'
  BY <1>1, NoIdNotRaised DEF ExceptionInv, NoOtherIllegal, AnyException, ID, EX, Nop
<1>8. QED
  BY <1>4, <1>5, <1>6, <1>7 DEF ExceptionInv

-----------------------------------------------------------------------------
(***************************************************************************)
(* The quiet cycles, one lemma per signal.                                 *)
(***************************************************************************)
\* A branch in ID excludes the victims there and the empty stage behind EX.
LEMMA BranchInID ==
  ASSUME ExceptionInv, isBranch(ID)
  PROVE  ~OverflowInID /\ ~OverflowInEX /\ ~IllegalInID
  BY NoIdNotRaised DEF ExceptionInv, VictimInPlace, isBranch, ID, Bubble, Nop

LEMMA HandleBranchStallStep ==
  ASSUME TypeOK, ExceptionInv, NEW delay \in 0 .. 1, HandleBranchStall(delay),
         EndOfCycle, ~OverflowInID, ~OverflowInEX
  PROVE  ExceptionInv'
<1>1. Quiet
  BY DEF Quiet, HandleBranchStall
<1>2. branch_delay' <= 2
  BY DEF HandleBranchStall
<1>3. CASE pipe' = BRANCH_stall(pipe)
  BY <1>1, <1>2, <1>3, QuietBranchStall
<1>4. CASE pipe' = stall_IF_ID_EX_MEM_stage(pipe)
  BY <1>1, <1>2, <1>4, QuietHold
<1>5. QED
  BY <1>3, <1>4 DEF HandleBranchStall

LEMMA BranchStallOnExStep ==
  ASSUME TypeOK, ExceptionInv, BranchStallOnEx
  PROVE  ExceptionInv'
<1>1. isBranch(ID)
  BY DEF BranchStallOnEx, Control, ControlSignal, BranchOnEx
<1>2. PICK delay \in 0 .. 1 : HandleBranchStall(delay)
  <2>1. \A b \in BOOLEAN :
          Less1(IF ~b THEN branch_delay ELSE BranchDelay) \in 0 .. 1
    BY DEF ExceptionInv, TypeOK, Less1, BranchDelay
  <2>2. QED
    BY <2>1 DEF BranchStallOnEx
<1>3. QED
  BY <1>1, <1>2, BranchInID, HandleBranchStallStep DEF BranchStallOnEx

LEMMA BranchStallOnMemStep ==
  ASSUME TypeOK, ExceptionInv, BranchStallOnMem
  PROVE  ExceptionInv'
<1>1. isBranch(ID)
  BY DEF BranchStallOnMem, Control, ControlSignal, BranchOnMem
<1>2. Less1(1) \in 0 .. 1
  BY DEF Less1
<1>3. QED
  BY <1>1, <1>2, BranchInID, HandleBranchStallStep DEF BranchStallOnMem

LEMMA BranchStallDelayStep ==
  ASSUME TypeOK, ExceptionInv, BranchStallDelay
  PROVE  ExceptionInv'
<1>1. ~OverflowInID /\ branch_delay > 0
  BY DEF BranchStallDelay, Control, ControlSignal, OverflowInID
<1>2. ~OverflowInEX
  BY <1>1 DEF ExceptionInv, VictimInPlace
<1>3. Less1(branch_delay) \in 0 .. 1
  BY DEF ExceptionInv, TypeOK, Less1
<1>4. QED
  BY <1>1, <1>2, <1>3, HandleBranchStallStep DEF BranchStallDelay

LEMMA LoadUseStallStep ==
  ASSUME TypeOK, ExceptionInv, LoadUseStall
  PROVE  ExceptionInv'
<1>1. isLoad(EX)
  BY DEF LoadUseStall, Control, ControlSignal, LoadUse
<1>2. ~OverflowInEX
  BY <1>1 DEF ExceptionInv, VictimInPlace, isLoad
<1>3. branch_delay' = Less1(branch_delay)
  BY DEF LoadUseStall
<1>4. branch_delay' <= 2 /\ (OverflowInID => branch_delay' <= 1)
  BY <1>3 DEF ExceptionInv, VictimInPlace, TypeOK, Less1
<1>5. Quiet /\ EndOfCycle /\ pipe' = BRANCH_stall(pipe)
  BY DEF LoadUseStall, Quiet, load_use_stall_stage
<1>6. QED
  BY <1>2, <1>4, <1>5, QuietBranchStall

LEMMA HaltInPipelineStep ==
  ASSUME TypeOK, ExceptionInv, HaltInPipeline
  PROVE  ExceptionInv'
<1>1. info.isHalt
  BY DEF HaltInPipeline, Control, ControlSignal, HaltFetched
<1>2. ~AnyException
  BY <1>1 DEF ExceptionInv, OneException
<1>3. branch_delay' <= 2
  BY DEF HaltInPipeline, ExceptionInv, TypeOK, Less1
<1>4. QED
  BY <1>2, <1>3, QuietMove DEF HaltInPipeline, Quiet

LEMMA ICacheMissStep ==
  ASSUME TypeOK, ExceptionInv, ICacheMiss
  PROVE  ExceptionInv'
<1>1. /\ ~OverflowInIF /\ nopArithmeticExcept = 0 /\ ~IllegalInIF
      /\ ~IllegalInID /\ icache_delay > 0
  BY DEF ICacheMiss, Control, ControlSignal, OverflowInIF, IllegalInIF, IllegalInID,
     TypeOK
<1>2. ~AnyException
  BY <1>1 DEF ExceptionInv, VictimInPlace, AnyException, OverflowInID
<1>3. branch_delay' <= 2
  BY DEF ICacheMiss, ExceptionInv, TypeOK, Less1
<1>4. QED
  BY <1>2, <1>3, QuietMove DEF ICacheMiss, Quiet

LEMMA DCacheMissStep ==
  ASSUME TypeOK, ExceptionInv, DCacheMiss
  PROVE  ExceptionInv'
<1>1. branch_delay' = branch_delay
  BY DEF DCacheMiss, TypeOK, Less1
<1>2. QED
  BY <1>1, QuietHold DEF DCacheMiss, Quiet, ExceptionInv, VictimInPlace

-----------------------------------------------------------------------------
(***************************************************************************)
(* The cycles that move a victim on or take a new one in.                  *)
(***************************************************************************)
LEMMA ArithmeticOverflowStep ==
  ASSUME TypeOK, ExceptionInv, ArithmeticOverflow
  PROVE  ExceptionInv'
<1>1. info.isOverflow \/ nopArithmeticExcept > 0
  BY DEF ArithmeticOverflow, Control, ControlSignal
<1>2. /\ ~OverflowInEX /\ ~IllegalInIF /\ ~IllegalInID /\ ~info.isHalt
      /\ nopIllegalInstruct = 0
      /\ OverflowInIF \/ OverflowInID
      /\ OverflowInID => ~OverflowInIF
      /\ nopArithmeticExcept \in 0 .. 2
  BY <1>1 DEF ExceptionInv, OneException, AnyException, TypeOK, OverflowInID, OverflowInIF
<1>3. UNCHANGED <<nopIllegalInstruct, squashID, din, raised>> /\ EndOfCycle
  BY DEF ArithmeticOverflow
<1>4. branch_delay' = Less1(branch_delay) /\ icache_delay' = Less1(icache_delay)
  BY DEF ArithmeticOverflow
<1>5. CASE Less1(icache_delay) > 0
  <2>1. /\ pipe' = stall_IF_stage(pipe) /\ nopArithmeticExcept' = OverflowNops
        /\ UNCHANGED <<squashEX, info>>
    BY <1>5 DEF ArithmeticOverflow
  <2>2. OverflowInIF /\ ~OverflowInID /\ OverflowNops = 2
    BY <1>2, <1>5 DEF ExceptionInv, VictimInPlace, Less1, OverflowInID, OverflowNops,
       OneException
  <2>3. /\ OverflowInIF' /\ ~OverflowInID' /\ ~OverflowInEX' /\ ~IllegalInIF'
        /\ ~IllegalInID'
    BY <1>2, <1>3, <2>1, <2>2 DEF OverflowInIF, OverflowInID, OverflowInEX, IllegalInIF,
       IllegalInID
  <2>4. /\ pipe'.ifInstr = pipe.ifInstr /\ pipe'.idInstr = Bubble
        /\ pipe'.exInstr = pipe.idInstr /\ pipe'.memInstr = pipe.exInstr
        /\ pipe'.wbInstr = pipe.memInstr
    BY <2>1 DEF stall_IF_stage
  <2>5. Range(retired') \cap raised' = {}
    BY <1>3, <2>1, <2>4, MoveTypes, RetiredNotRaised DEF TypeOK
  <2>6. OneException'
    BY <1>2, <1>3, <2>1, <2>3 DEF OneException
  <2>7. VictimInPlace'
    BY <1>2, <1>3, <2>2, <2>3, <2>4 DEF ExceptionInv, VictimInPlace
  <2>8. NoOtherVictim'
    BY <1>2, <1>3, <2>2, <2>3, <2>4, <2>5, NoIdNotRaised DEF ExceptionInv, NoOtherVictim
  <2>9. NoOtherIllegal'
    BY <1>2, <2>2, <2>4, NoIdNotRaised DEF ExceptionInv, VictimInPlace, NoOtherIllegal,
       ID, EX, Nop
  <2>10. QED
    BY <1>4, <2>6, <2>7, <2>8, <2>9 DEF ExceptionInv, TypeOK, Less1
<1>6. CASE Less1(icache_delay) = 0
  <2>1. /\ pipe' = moveAllForward(pipe) /\ nopArithmeticExcept' = OverflowNops - 1
        /\ info' = OverflowTaken
    BY <1>6 DEF ArithmeticOverflow, insertNopException
  <2>9. OverflowInEX' <=> OverflowNops = 1
    <3>1. ~ (Less1(icache_delay) > 0)
      BY <1>6
    <3>2. squashEX' = (squashEX \/ OverflowNops = 1)
      BY <3>1, Zenon DEF ArithmeticOverflow
    <3>3. QED
      BY <1>2, <3>2, Zenon DEF OverflowInEX
  <2>2. /\ pipe'.ifInstr = Bubble /\ pipe'.idInstr = pipe.ifInstr
        /\ pipe'.exInstr = pipe.idInstr /\ pipe'.memInstr = pipe.exInstr
        /\ pipe'.wbInstr = pipe.memInstr
    BY <2>1 DEF moveAllForward
  <2>3. /\ ~info'.isOverflow /\ info'.isValid = info.isValid
        /\ info'.isHalt = info.isHalt
    BY <2>1 DEF OverflowTaken, TypeOK
  <2>4. Range(retired') \cap raised' = {}
    BY <1>3, <2>1, <2>2, MoveTypes, RetiredNotRaised DEF TypeOK
  <2>5. /\ icache_delay' = 0 /\ branch_delay' \in Nat /\ branch_delay' <= 1
        /\ OverflowInID => branch_delay' = 0
    BY <1>4, <1>6 DEF ExceptionInv, VictimInPlace, TypeOK, Less1
  <2>6. CASE OverflowInIF
    <3>1. OverflowNops = 2
      BY <1>2, <2>6 DEF OverflowNops, OverflowInID
    <3>2. /\ ~OverflowInIF' /\ OverflowInID' /\ ~OverflowInEX' /\ ~IllegalInIF'
          /\ ~IllegalInID' /\ nopArithmeticExcept' = 1
      BY <1>2, <1>3, <2>1, <2>3, <2>9, <3>1 DEF OverflowInIF, OverflowInID,
         IllegalInIF, IllegalInID
    <3>3. OneException'
      BY <1>2, <1>3, <2>3, <3>2 DEF OneException
    <3>4. VictimInPlace'
      BY <1>3, <2>2, <2>5, <2>6, <3>2 DEF ExceptionInv, VictimInPlace, ID
    <3>5. NoOtherVictim'
      BY <1>2, <1>3, <2>2, <2>4, <2>6, <3>2, NoIdNotRaised
         DEF ExceptionInv, NoOtherVictim
    <3>6. NoOtherIllegal'
      BY <1>2, <2>2, <2>6, NoIdNotRaised DEF ExceptionInv, VictimInPlace,
         NoOtherIllegal, ID, EX, Nop
    <3>7. QED
      BY <2>5, <3>3, <3>4, <3>5, <3>6 DEF ExceptionInv, TypeOK, Less1
  <2>7. CASE OverflowInID
    <3>1. OverflowNops = 1
      BY <2>7 DEF OverflowNops, OverflowInID
    <3>2. /\ ~OverflowInIF' /\ ~OverflowInID' /\ OverflowInEX' /\ ~IllegalInIF'
          /\ ~IllegalInID' /\ nopArithmeticExcept' = 0
      BY <1>2, <1>3, <2>1, <2>3, <2>9, <3>1 DEF OverflowInIF, OverflowInID,
         IllegalInIF, IllegalInID
    <3>3. OneException'
      BY <1>2, <1>3, <2>3, <3>2 DEF OneException
    <3>4. VictimInPlace'
      BY <1>3, <2>2, <2>5, <2>7, <3>2 DEF ExceptionInv, VictimInPlace, ID, EX
    <3>5. NoOtherVictim'
      BY <1>2, <1>3, <2>2, <2>4, <2>7, <3>2, NoIdNotRaised
         DEF ExceptionInv, NoOtherVictim, VictimInPlace
    <3>6. NoOtherIllegal'
      BY <1>2, <2>2, <2>7, NoIdNotRaised DEF ExceptionInv, VictimInPlace,
         NoOtherIllegal, ID, EX, Nop
    <3>7. QED
      BY <2>5, <2>7, <3>3, <3>4, <3>5, <3>6 DEF ExceptionInv
  <2>8. QED
    BY <1>2, <2>6, <2>7
<1>7. Less1(icache_delay) > 0 \/ Less1(icache_delay) = 0
  BY Less1Type DEF TypeOK
<1>8. QED
  BY <1>5, <1>6, <1>7

LEMMA IllegalInstructionStep ==
  ASSUME TypeOK, ExceptionInv, IllegalInstruction
  PROVE  ExceptionInv'
<1>1. /\ ~info.isOverflow /\ nopArithmeticExcept = 0
      /\ ~info.isValid \/ nopIllegalInstruct > 0
  BY DEF IllegalInstruction, Control, ControlSignal, TypeOK
<1>2. /\ ~OverflowInIF /\ ~OverflowInID /\ ~OverflowInEX /\ IllegalInIF
      /\ ~IllegalInID /\ ~info.isHalt /\ nopIllegalInstruct \in 0 .. 1
  BY <1>1 DEF ExceptionInv, OneException, AnyException, TypeOK, OverflowInID,
     OverflowInIF, OverflowInEX, IllegalInIF
<1>3. UNCHANGED <<nopArithmeticExcept, squashEX, din, raised>> /\ EndOfCycle
  BY DEF IllegalInstruction
<1>4. branch_delay' = Less1(branch_delay) /\ icache_delay' = Less1(icache_delay)
  BY DEF IllegalInstruction
<1>5. branch_delay' <= 2
  BY <1>4 DEF ExceptionInv, TypeOK, Less1
<1>6. CASE Less1(icache_delay) > 0
  <2>1. pipe' = stall_IF_stage(pipe) /\ UNCHANGED <<squashID, info>>
    BY <1>6 DEF IllegalInstruction
  <2>2. /\ ~OverflowInIF' /\ ~OverflowInID' /\ ~OverflowInEX' /\ IllegalInIF'
        /\ ~IllegalInID'
    BY <1>2, <1>3, <2>1 DEF OverflowInIF, OverflowInID, OverflowInEX, IllegalInIF,
       IllegalInID
  <2>3. /\ pipe'.ifInstr = pipe.ifInstr /\ pipe'.idInstr = Bubble
        /\ pipe'.exInstr = pipe.idInstr /\ pipe'.memInstr = pipe.exInstr
        /\ pipe'.wbInstr = pipe.memInstr
    BY <2>1 DEF stall_IF_stage
  <2>4. Range(retired') \cap raised' = {}
    BY <1>3, <2>1, <2>3, MoveTypes, RetiredNotRaised DEF TypeOK
  <2>5. OneException'
    BY <1>1, <1>2, <1>3, <2>1, <2>2 DEF OneException
  <2>6. VictimInPlace'
    BY <1>2, <1>3, <2>2, <2>3 DEF ExceptionInv, VictimInPlace
  <2>7. NoOtherVictim'
    BY <1>2, <1>3, <2>2, <2>3, <2>4, NoIdNotRaised DEF ExceptionInv, NoOtherVictim
  <2>8. NoOtherIllegal'
    BY <1>2, <2>2, <2>3, NoIdNotRaised DEF ExceptionInv, NoOtherIllegal, ID, EX, Nop
  <2>9. QED
    BY <1>5, <2>5, <2>6, <2>7, <2>8 DEF ExceptionInv
<1>7. CASE Less1(icache_delay) = 0
  <2>1. /\ pipe' = moveAllForward(pipe) /\ info' = IllegalTaken
        /\ nopIllegalInstruct' = 0
    BY <1>2, <1>7 DEF IllegalInstruction, insertNopException
  <2>11. IllegalInID'
    <3>1. /\ ~ (Less1(icache_delay) > 0)
          /\ (IF nopIllegalInstruct = 0 THEN 1 ELSE nopIllegalInstruct) = 1
      BY <1>2, <1>7
    <3>2. QED
      BY <3>1, Zenon DEF IllegalInstruction, IllegalInID
  <2>2. /\ pipe'.ifInstr = Bubble /\ pipe'.idInstr = pipe.ifInstr
        /\ pipe'.exInstr = pipe.idInstr /\ pipe'.memInstr = pipe.exInstr
        /\ pipe'.wbInstr = pipe.memInstr
    BY <2>1 DEF moveAllForward
  <2>3. /\ info'.isValid /\ info'.isOverflow = info.isOverflow
        /\ info'.isHalt = info.isHalt
    BY <2>1 DEF IllegalTaken, TypeOK
  <2>4. /\ ~OverflowInIF' /\ ~OverflowInID' /\ ~OverflowInEX' /\ ~IllegalInIF'
        /\ IllegalInID'
    BY <1>2, <1>3, <2>1, <2>3, <2>11 DEF OverflowInIF, OverflowInID, OverflowInEX,
       IllegalInIF
  <2>5. Range(retired') \cap raised' = {}
    BY <1>3, <2>1, <2>2, MoveTypes, RetiredNotRaised DEF TypeOK
  <2>6. OneException'
    BY <1>1, <1>2, <1>3, <2>1, <2>3, <2>4 DEF OneException
  <2>7. VictimInPlace'
    BY <1>2, <1>3, <1>4, <1>7, <2>2, <2>4 DEF ExceptionInv, VictimInPlace, ID
  <2>8. NoOtherVictim'
    BY <1>2, <1>3, <2>2, <2>4, <2>5, NoIdNotRaised DEF ExceptionInv, NoOtherVictim
  <2>9. NoOtherIllegal'
    BY <1>2, <2>2, <2>4, NoIdNotRaised DEF ExceptionInv, NoOtherIllegal, ID, EX, Nop
  <2>10. QED
    BY <1>5, <2>6, <2>7, <2>8, <2>9 DEF ExceptionInv
<1>8. Less1(icache_delay) > 0 \/ Less1(icache_delay) = 0
  BY Less1Type DEF TypeOK
<1>9. QED
  BY <1>6, <1>7, <1>8

LEMMA FetchPutsInIF ==
  ASSUME TypeOK, NEW i \in Instr, NEW ovf \in BOOLEAN, NEW a \in Addr,
         FetchNew(i, ovf, a)
  PROVE  /\ pipe'.ifInstr.id = din /\ pipe'.ifInstr.instr = i
         /\ pipe'.idInstr = pipe.ifInstr
         /\ pipe'.exInstr = IF IllegalInID THEN Bubble ELSE pipe.idInstr
         /\ pipe'.memInstr = IF ~IllegalInID /\ OverflowInEX THEN Bubble
                             ELSE pipe.exInstr
         /\ pipe'.wbInstr = pipe.memInstr
<1>1. /\ pipe'.wbInstr = Squashed.wbInstr /\ pipe'.memInstr = Squashed.memInstr
      /\ pipe'.exInstr = Squashed.exInstr /\ pipe'.idInstr = Squashed.idInstr
      /\ pipe'.ifInstr.id = din /\ pipe'.ifInstr.instr = i
  BY SquashedType DEF FetchNew, PipeState
<1>2. /\ Squashed.idInstr = pipe.ifInstr
      /\ Squashed.exInstr = IF IllegalInID THEN Bubble ELSE pipe.idInstr
      /\ Squashed.memInstr = IF ~IllegalInID /\ OverflowInEX THEN Bubble
                             ELSE pipe.exInstr
      /\ Squashed.wbInstr = pipe.memInstr
  BY DEF Squashed, moveAllForward, IllegalInID, OverflowInEX
<1>3. QED
  BY <1>1, <1>2

\* A fetch squashes the victim in ID or in EX, and may bring in the next one.
LEMMA FetchNewStep ==
  ASSUME TypeOK, OrderInv, ExceptionInv,
         NEW i \in Instr, NEW ovf \in BOOLEAN, NEW a \in Addr, FetchNew(i, ovf, a)
  PROVE  ExceptionInv'
<1>1. /\ ~OverflowInIF /\ ~OverflowInID /\ ~IllegalInIF
      /\ nopArithmeticExcept = 0 /\ nopIllegalInstruct = 0
  BY DEF FetchNew, Control, ControlSignal, OverflowInIF, OverflowInID, IllegalInIF,
     TypeOK
<1>2. ~ (IllegalInID /\ OverflowInEX)
  BY DEF ExceptionInv, OneException
<1>3. /\ UNCHANGED <<nopArithmeticExcept, nopIllegalInstruct>>
      /\ branch_delay' = Less1(branch_delay) /\ EndOfCycle
  BY DEF FetchNew
<1>4. /\ info' = [isHalt |-> i = HALT_INSTRUCTION, isValid |-> i.op # "Illegal",
                  isOverflow |-> ovf, instructionID |-> din]
      /\ ovf => i.op \in {"RType", "IType"}
      /\ raised' = IF ovf \/ i.op = "Illegal" THEN raised \cup {din} ELSE raised
      /\ din' = din + 1
  BY DEF FetchNew, executeInstruction
<1>5. /\ OverflowInIF' <=> ovf
      /\ IllegalInIF' <=> i.op = "Illegal"
      /\ info'.isHalt <=> i = HALT_INSTRUCTION
  BY <1>4 DEF OverflowInIF, IllegalInIF
<1>6. ~OverflowInID' /\ ~OverflowInEX' /\ ~IllegalInID'
  <2>1. nopArithmeticExcept' # 1
    BY <1>1, <1>3
  <2>2. ~squashID' /\ ~squashEX'
    BY <1>2, Zenon DEF FetchNew, IllegalInID, OverflowInEX
  <2>3. QED
    BY <2>1, <2>2 DEF OverflowInID, OverflowInEX, IllegalInID
<1>7. OneException'
  <2>1. i = HALT_INSTRUCTION => i.op \notin {"RType", "IType", "Illegal"}
    BY DEF HALT_INSTRUCTION
  <2>2. QED
    BY <1>1, <1>3, <1>4, <1>5, <1>6, <2>1 DEF OneException, AnyException
<1>8. pipe' \in PipeState /\ pipe \in PipeState /\ din \in Nat
  BY FetchNewTypes DEF TypeOK
<1>9. VictimInPlace'
  BY <1>4, <1>5, <1>6, FetchPutsInIF DEF VictimInPlace
<1>10. raised' \subseteq raised \cup {din} /\ NoId \notin raised'
  BY <1>4, <1>8, NoIdNotRaised DEF NoId
<1>11. /\ pipe.ifInstr.id # din /\ pipe.idInstr.id # din /\ pipe.exInstr.id # din
       /\ pipe.memInstr.id # din
  <2>1. /\ pipe.ifInstr.id \in Nat \cup {NoId} /\ pipe.idInstr.id \in Nat \cup {NoId}
        /\ pipe.exInstr.id \in Nat \cup {NoId} /\ pipe.memInstr.id \in Nat \cup {NoId}
    BY <1>8, StageTypes, SlotFields
  <2>2. QED
    BY <1>8, <2>1 DEF OrderInv, StagesBelow, NoId
<1>12. NoOtherVictim'
  <2>1. pipe'.ifInstr.id \in raised' => OverflowInIF' \/ IllegalInIF'
    <3>1. din \notin raised
      BY <1>8 DEF ExceptionInv, NoOtherVictim
    <3>2. QED
      BY <1>4, <1>5, <3>1, FetchPutsInIF
  <2>2. pipe'.idInstr.id \notin raised' /\ pipe'.exInstr.id \notin raised'
    BY <1>1, <1>10, <1>11, FetchPutsInIF, NoIdNotRaised DEF ExceptionInv, NoOtherVictim
  <2>3. pipe'.memInstr.id \notin raised' /\ pipe'.wbInstr.id \notin raised'
    BY <1>2, <1>10, <1>11, FetchPutsInIF, NoIdNotRaised DEF ExceptionInv, NoOtherVictim,
       OneException
  <2>4. Range(retired') \cap raised' = {}
    <3>1. din \notin Range(retired)
      BY <1>8 DEF OrderInv, RetiredFirst, AllBelow, Range, TypeOK
    <3>2. QED
      BY <1>3, <1>8, <1>10, <2>3, <3>1, RetiredRange DEF ExceptionInv, NoOtherVictim
  <2>5. \A r \in raised' : r < din'
    BY <1>4, <1>8 DEF ExceptionInv, NoOtherVictim, TypeOK
  <2>6. QED
    BY <2>1, <2>2, <2>3, <2>4, <2>5 DEF NoOtherVictim
<1>13. NoOtherIllegal'
  BY <1>1, <1>5, FetchPutsInIF, NoIdNotRaised DEF ExceptionInv, NoOtherIllegal, ID, EX,
     Nop
<1>14. branch_delay' <= 2
  BY <1>3 DEF ExceptionInv, TypeOK, Less1
<1>15. QED
  BY <1>7, <1>9, <1>12, <1>13, <1>14 DEF ExceptionInv

LEMMA ExceptionInvariant == Spec => []ExceptionInv
<1>1. Init => ExceptionInv
  BY DEF Init, EmptyPipe, ExceptionInv, OneException, VictimInPlace, NoOtherVictim,
     NoOtherIllegal, AnyException, OverflowInIF, OverflowInID, OverflowInEX,
     IllegalInIF, IllegalInID, ID, EX, Bubble, Nop, Range
<1>2. TypeOK /\ OrderInv /\ ExceptionInv /\ [Next]_vars => ExceptionInv'
  <2>1. SUFFICES ASSUME TypeOK, OrderInv, ExceptionInv, [Next]_vars
                 PROVE  ExceptionInv'
    OBVIOUS
  <2>2. CASE BranchStallOnEx
    BY <2>1, <2>2, BranchStallOnExStep
  <2>3. CASE LoadUseStall
    BY <2>1, <2>3, LoadUseStallStep
  <2>4. CASE BranchStallOnMem
    BY <2>1, <2>4, BranchStallOnMemStep
  <2>5. CASE BranchStallDelay
    BY <2>1, <2>5, BranchStallDelayStep
  <2>6. CASE ArithmeticOverflow
    BY <2>1, <2>6, ArithmeticOverflowStep
  <2>7. CASE IllegalInstruction
    BY <2>1, <2>7, IllegalInstructionStep
  <2>8. ASSUME NEW i \in Instr, NEW ovf \in BOOLEAN, NEW a \in Addr,
               FetchNew(i, ovf, a)
        PROVE  ExceptionInv'
    BY <2>1, <2>8, FetchNewStep
  <2>9. CASE HaltInPipeline
    BY <2>1, <2>9, HaltInPipelineStep
  <2>10. CASE ICacheMiss
    BY <2>1, <2>10, ICacheMissStep
  <2>11. CASE DCacheMiss
    BY <2>1, <2>11, DCacheMissStep
  <2>12. CASE Halted \/ UNCHANGED vars
    BY <2>1, <2>12 DEF Halted, vars, delays, exceptions, history, ExceptionInv,
       OneException, VictimInPlace, NoOtherVictim, NoOtherIllegal, AnyException,
       OverflowInIF, OverflowInID, OverflowInEX, IllegalInIF, IllegalInID, ID, EX
  <2>13. QED
    BY <2>1, <2>2, <2>3, <2>4, <2>5, <2>6, <2>7, <2>8, <2>9, <2>10, <2>11, <2>12
       DEF Next
<1>3. QED
  BY <1>1, <1>2, TypeCorrect, OrderInvariant, PTL DEF Spec

\* An instruction that overflows never reaches MEM, an illegal one never reaches
\* EX, and neither retires.
THEOREM PreciseExceptionsCorrect == Spec => []PreciseExceptions
<1>1. ExceptionInv => PreciseExceptions
  BY DEF ExceptionInv, NoOtherVictim, NoOtherIllegal, PreciseExceptions, EX
<1>2. QED
  BY <1>1, ExceptionInvariant, PTL

-----------------------------------------------------------------------------
(***************************************************************************)
(* Nothing else is lost.  Every move keeps the instructions in flight or   *)
(* retires them, but for the one a squash takes, and that is a victim.     *)
(***************************************************************************)
LEMMA NoneLostStep ==
  ASSUME TypeOK, TypeOK', ExceptionInv, NoneLost, [Next]_vars
  PROVE  NoneLost'
<1>1. CASE Holding
  <2>1. /\ pipe'.ifInstr = pipe.ifInstr /\ pipe'.idInstr = pipe.idInstr
        /\ pipe'.exInstr = pipe.exInstr /\ pipe'.memInstr = pipe.memInstr
    BY <1>1, HoldStages DEF Holding, TypeOK
  <2>2. Range(retired) \subseteq Range(retired')
    BY <1>1, RetiredRange DEF Holding, TypeOK
  <2>3. QED
    BY <1>1, <2>1, <2>2 DEF Holding, NoneLost, InFlight
<1>2. CASE Moving
  <2>1. Range(retired') = Range(retired) \cup ({pipe.memInstr.id} \ {NoId})
    BY <1>2, MovingForward, RetiredRange DEF Moving, Forward, TypeOK
  <2>2. InFlight \subseteq InFlight' \cup {pipe.memInstr.id}
    BY <1>2 DEF Moving, InFlight, moveAllForward, stall_IF_stage, BRANCH_stall
  <2>3. NoId \notin 0 .. din - 1
    BY DEF NoId, TypeOK
  <2>4. QED
    BY <1>2, <2>1, <2>2, <2>3 DEF Moving, NoneLost
<1>3. CASE Fetching
  <2>1. PICK i \in Instr, ovf \in BOOLEAN, a \in Addr : FetchNew(i, ovf, a)
    BY <1>3 DEF Fetching
  <2>2. EndOfCycle /\ din' = din + 1 /\ raised \subseteq raised'
    BY <2>1 DEF FetchNew, executeInstruction
  <2>3. Range(retired') = Range(retired) \cup ({pipe.memInstr.id} \ {NoId})
    BY <2>1, <2>2, FetchPutsInIF, RetiredRange DEF TypeOK
  <2>4. InFlight \subseteq InFlight' \cup raised \cup {pipe.memInstr.id}
    <3>1. IllegalInID => pipe.idInstr.id \in raised
      BY DEF ExceptionInv, VictimInPlace
    <3>2. OverflowInEX => pipe.exInstr.id \in raised
      BY DEF ExceptionInv, VictimInPlace
    <3>3. QED
      BY <2>1, <3>1, <3>2, FetchPutsInIF DEF InFlight
  <2>5. din \in InFlight'
    BY <2>1, FetchPutsInIF DEF InFlight
  <2>6. 0 .. din' - 1 = (0 .. din - 1) \cup {din} /\ NoId \notin 0 .. din - 1
    BY <2>2 DEF TypeOK, NoId
  <2>7. QED
    BY <2>2, <2>3, <2>4, <2>5, <2>6 DEF NoneLost
<1>4. CASE UNCHANGED vars
  BY <1>4 DEF vars, history, NoneLost, InFlight
<1>5. QED
  BY <1>1, <1>2, <1>3, <1>4, CycleShape

\* No stall, squash or inserted nop loses an instruction that raised no exception.
THEOREM NoneLostCorrect == Spec => []NoneLost
<1>1. Init => NoneLost
  BY DEF Init, NoneLost
<1>2. TypeOK /\ TypeOK' /\ ExceptionInv /\ NoneLost /\ [Next]_vars => NoneLost'
  BY NoneLostStep
<1>3. QED
  BY <1>1, <1>2, TypeCorrect, ExceptionInvariant, PTL DEF Spec

-----------------------------------------------------------------------------
(***************************************************************************)
(* The accesses to the D-cache.  The flag that decides about them belongs  *)
(* to the instruction in IF; as long as nothing has raised it is set.      *)
(***************************************************************************)
Accesses(s) == isLoad(s.instr) \/ isStore(s.instr)

AccessInv ==
  raised = {} =>
    \A s \in {pipe.memInstr, pipe.wbInstr} : Accesses(s) => s.id \in Range(accessed)

LEMMA AccessForward ==
  ASSUME TypeOK, TypeOK', ExceptionInv', AccessInv, Forward, raised \subseteq raised',
         execute_DCACHE_write_Check
  PROVE  AccessInv'
<1>1. SUFFICES ASSUME raised' = {}
               PROVE  \A s \in {pipe'.memInstr, pipe'.wbInstr} :
                        Accesses(s) => s.id \in Range(accessed')
  BY DEF AccessInv
<1>2. info'.isValid
  BY <1>1 DEF ExceptionInv, VictimInPlace, IllegalInIF
<1>3. Accesses(pipe'.memInstr) => pipe'.memInstr.id \in Nat
  BY AccessorId, StageTypes DEF TypeOK, Accesses
<1>4. accessed \in Seq(Nat)
  BY DEF TypeOK
<1>5. CASE Accesses(pipe'.memInstr)
  <2>1. accessed' = Append(accessed, pipe'.memInstr.id)
    BY <1>2, <1>5 DEF execute_DCACHE_write_Check, Accesses
  <2>2. Range(accessed') = Range(accessed) \cup {pipe'.memInstr.id}
    BY <1>3, <1>4, <1>5, <2>1, AppendRange
  <2>3. QED
    BY <1>1, <2>2 DEF AccessInv, Forward
<1>6. CASE ~Accesses(pipe'.memInstr)
  <2>1. accessed' = accessed
    BY <1>6 DEF execute_DCACHE_write_Check, Accesses
  <2>2. QED
    BY <1>1, <1>6, <2>1 DEF AccessInv, Forward
<1>7. QED
  BY <1>5, <1>6

LEMMA AccessStep ==
  ASSUME TypeOK, TypeOK', ExceptionInv', AccessInv, [Next]_vars
  PROVE  AccessInv'
<1>1. CASE Holding
  <2>1. pipe'.memInstr = pipe.memInstr /\ pipe'.wbInstr = Bubble
    BY <1>1, HoldStages DEF Holding, TypeOK
  <2>2. ~Accesses(Bubble)
    BY DEF Accesses, Bubble, Nop, isLoad, isStore
  <2>3. QED
    BY <1>1, <2>1, <2>2 DEF Holding, AccessInv
<1>2. CASE Moving
  BY <1>2, MovingForward, AccessForward DEF Moving
<1>3. CASE Fetching
  <2>1. PICK i \in Instr, ovf \in BOOLEAN, a \in Addr : FetchNew(i, ovf, a)
    BY <1>3 DEF Fetching
  <2>2. raised \subseteq raised'
    BY <2>1 DEF FetchNew, executeInstruction
  <2>3. QED
    BY <2>1, <2>2, FetchingForward, AccessForward
<1>4. CASE UNCHANGED vars
  BY <1>4 DEF vars, history, AccessInv
<1>5. QED
  BY <1>1, <1>2, <1>3, <1>4, CycleShape

\* Without an exception, no load or store passes MEM without its access.
THEOREM EveryAccessMadeCorrect == Spec => []EveryAccessMade
<1>1. Init => AccessInv
  BY DEF Init, EmptyPipe, Bubble, Nop, AccessInv, Accesses, isLoad, isStore
<1>2. TypeOK /\ TypeOK' /\ ExceptionInv' /\ AccessInv /\ [Next]_vars => AccessInv'
  BY AccessStep
<1>3. AccessInv => EveryAccessMade
  BY DEF AccessInv, EveryAccessMade, Accesses
<1>4. QED
  BY <1>1, <1>2, <1>3, TypeCorrect, ExceptionInvariant, PTL DEF Spec

-----------------------------------------------------------------------------
(***************************************************************************)
(* Interlocks.  Control looks for a hazard once: after a branch has        *)
(* been noted, lastBranchCycleCount is the id fetched last and the tests   *)
(* for hazards are off until the next fetch.  What keeps the branch in ID  *)
(* from then on is branch_delay alone.                                     *)
(***************************************************************************)
\* info.instructionID is the youngest instruction; only it can be in IF.
LastFetched ==
  /\ info.instructionID = IF din = 0 THEN 0 ELSE din - 1
  /\ pipe.ifInstr.id \in {NoId, info.instructionID}
  /\ info.isHalt => pipe.ifInstr.instr \in {Nop, HALT_INSTRUCTION}
  /\ lastBranchCycleCount <= info.instructionID

Noted == lastBranchCycleCount = info.instructionID /\ info.instructionID > 0
Waiting == isBranch(ID) /\ lastBranchInstruction = ID

\* When the branch that was noted has gone, only the youngest instruction follows it:
\* no load and consumer pair is left that the tests, being off, could miss.
NothingMissed ==
  Noted /\ ~Waiting =>
    /\ pipe.idInstr.id \in {NoId, info.instructionID}
    /\ isLoad(EX) => pipe.exInstr.id = info.instructionID

\* The instruction writes a register number that is in the word in ID.
Feeds(i) == i.rt # 0 /\ Reg(i.rt, ID)

\* The delay outlasts what the branch waits for.
DelayCovers ==
  Noted /\ isBranch(ID) /\ raised = {} =>
    /\ lastBranchInstruction = ID
    /\ isLoad(EX) /\ Feeds(EX) => branch_delay = 2
    /\ EX.op = "IType" /\ Feeds(EX) => branch_delay >= 1
    /\ isLoad(MEM) /\ Feeds(MEM) => branch_delay >= 1

InterlockInv == LastFetched /\ NothingMissed /\ DelayCovers

-----------------------------------------------------------------------------
\* A cycle without a fetch: the youngest instruction is still the youngest.
Unfetched ==
  /\ pipe'.ifInstr \in {pipe.ifInstr, Bubble}
  /\ info'.instructionID = info.instructionID /\ info'.isHalt = info.isHalt
  /\ UNCHANGED <<din, raised>>

LEMMA UnfetchedKeeps ==
  ASSUME TypeOK, LastFetched, Unfetched,
         lastBranchCycleCount' \in {lastBranchCycleCount, info.instructionID}
  PROVE  LastFetched'
  BY NoIdNotRaised DEF TypeOK, LastFetched, Unfetched

LEMMA BubbleNoHazard ==
  /\ ~isLoad(Bubble.instr) /\ ~isBranch(Bubble.instr) /\ Bubble.instr.op # "IType"
  /\ Bubble.id = NoId
  BY DEF Bubble, Nop, isLoad, isBranch

\* Both outcomes of a branch stall leave the branch in ID.
LEMMA HandleBranchStallKeeps ==
  ASSUME TypeOK, NEW delay \in Nat, HandleBranchStall(delay)
  PROVE  /\ Unfetched
         /\ pipe'.idInstr = pipe.idInstr
         /\ \/ /\ pipe'.exInstr = Bubble /\ pipe'.memInstr = pipe.exInstr
               /\ branch_delay' = delay
            \/ /\ pipe'.exInstr = pipe.exInstr /\ pipe'.memInstr = pipe.memInstr
               /\ branch_delay' = delay + 1
               /\ Less1(dcache_delay) # 0
<1>1. CASE Less1(dcache_delay) = 0
  BY <1>1 DEF HandleBranchStall, BRANCH_stall, Unfetched
<1>2. CASE Less1(dcache_delay) # 0
  BY <1>2, HoldStages DEF HandleBranchStall, Unfetched, TypeOK
<1>3. QED
  BY <1>1, <1>2

LEMMA BranchStallOnExInterlock ==
  ASSUME TypeOK, InterlockInv, BranchStallOnEx
  PROVE  InterlockInv'
<1>1. isBranch(ID) /\ lastBranchCycleCount # info.instructionID
  BY DEF BranchStallOnEx, Control, ControlSignal, BranchOnEx
<1>2. CASE ID.op = "Branch2" \/ ID.rs = EX.rt
  <2>1. /\ HandleBranchStall(Less1(BranchDelay))
        /\ lastBranchCycleCount' = info.instructionID /\ lastBranchInstruction' = ID
    BY <1>2 DEF BranchStallOnEx
  <2>2. /\ BranchDelay \in 1 .. 2 /\ (isLoad(EX) => BranchDelay = 2)
        /\ Less1(BranchDelay) = BranchDelay - 1
    BY DEF BranchDelay, Less1
  <2>3. /\ Unfetched /\ pipe'.idInstr = pipe.idInstr
        /\ \/ /\ pipe'.exInstr = Bubble /\ pipe'.memInstr = pipe.exInstr
              /\ branch_delay' = BranchDelay - 1
           \/ /\ pipe'.exInstr = pipe.exInstr /\ pipe'.memInstr = pipe.memInstr
              /\ branch_delay' = BranchDelay
    BY <2>1, <2>2, HandleBranchStallKeeps
  <2>4. LastFetched'
    BY <2>1, <2>3, UnfetchedKeeps DEF InterlockInv
  <2>5. Waiting'
    BY <1>1, <2>1, <2>3 DEF Waiting, ID
  <2>6. DelayCovers'
    BY <2>2, <2>3, <2>5, BubbleNoHazard DEF DelayCovers, Waiting, Feeds, ID, EX, MEM
  <2>7. QED
    BY <2>4, <2>5, <2>6 DEF InterlockInv, NothingMissed
<1>3. CASE ~ (ID.op = "Branch2" \/ ID.rs = EX.rt)
  <2>1. HandleBranchStall(Less1(branch_delay)) /\ UNCHANGED lastBranchCycleCount
    BY <1>3 DEF BranchStallOnEx
  <2>2. Unfetched
    BY <2>1, HandleBranchStallKeeps, Less1Type DEF TypeOK
  <2>3. ~Noted'
    BY <1>1, <2>1, <2>2 DEF Noted, Unfetched
  <2>4. QED
    BY <2>1, <2>2, <2>3, UnfetchedKeeps DEF InterlockInv, NothingMissed, DelayCovers
<1>4. QED
  BY <1>2, <1>3

LEMMA BranchStallOnMemInterlock ==
  ASSUME TypeOK, InterlockInv, BranchStallOnMem
  PROVE  InterlockInv'
<1>1. isBranch(ID) /\ ~BranchOnEx /\ BranchOnMem
  BY DEF BranchStallOnMem, Control, ControlSignal, BranchOnMem
<1>2. /\ HandleBranchStall(0)
      /\ lastBranchCycleCount' = info.instructionID /\ lastBranchInstruction' = ID
  BY DEF BranchStallOnMem, Less1
<1>3. /\ Unfetched /\ pipe'.idInstr = pipe.idInstr
      /\ \/ pipe'.exInstr = Bubble /\ pipe'.memInstr = pipe.exInstr
         \/ /\ pipe'.exInstr = pipe.exInstr /\ pipe'.memInstr = pipe.memInstr
            /\ branch_delay' = 1
  BY <1>2, HandleBranchStallKeeps
<1>4. LastFetched'
  BY <1>2, <1>3, UnfetchedKeeps DEF InterlockInv
<1>5. Waiting'
  BY <1>1, <1>2, <1>3 DEF Waiting, ID
<1>6. DelayCovers'
  <2>1. SUFFICES ASSUME Noted', raised' = {}
                 PROVE  DelayCovers'
    BY DEF DelayCovers
  <2>2. raised = {} /\ info.instructionID > 0
    BY <1>3, <2>1 DEF Unfetched, Noted
  <2>3. lastBranchCycleCount # info.instructionID
    BY <1>1, <2>2 DEF InterlockInv, DelayCovers, Noted, BranchOnMem
  <2>4. EX # Nop => ~Feeds(EX)
    BY <1>1, <2>3 DEF BranchOnEx, Feeds
  <2>5. ~Feeds(EX)
    BY <2>4 DEF Feeds, Nop
  <2>6. QED
    BY <1>3, <1>5, <2>5, BubbleNoHazard DEF DelayCovers, Waiting, Feeds, ID, EX, MEM
<1>7. QED
  BY <1>4, <1>5, <1>6 DEF InterlockInv, NothingMissed

LEMMA LoadUseInterlock ==
  ASSUME TypeOK, InterlockInv, LoadUseStall
  PROVE  InterlockInv'
<1>1. lastBranchCycleCount # info.instructionID
  BY DEF LoadUseStall, Control, ControlSignal, LoadUse
<1>2. Unfetched /\ UNCHANGED lastBranchCycleCount
  BY DEF LoadUseStall, Unfetched, load_use_stall_stage, BRANCH_stall
<1>3. ~Noted'
  BY <1>1, <1>2 DEF Noted, Unfetched
<1>4. QED
  BY <1>2, <1>3, UnfetchedKeeps DEF InterlockInv, NothingMissed, DelayCovers

\* The stages are held; so is the delay.
LEMMA DCacheMissInterlock ==
  ASSUME TypeOK, InterlockInv, DCacheMiss
  PROVE  InterlockInv'
<1>1. /\ Unfetched /\ UNCHANGED lastBranch
      /\ pipe'.idInstr = pipe.idInstr /\ pipe'.exInstr = pipe.exInstr
      /\ pipe'.memInstr = pipe.memInstr
  BY HoldStages DEF DCacheMiss, Unfetched, TypeOK
<1>2. branch_delay' = branch_delay
  BY DEF DCacheMiss, TypeOK, Less1
<1>3. LastFetched'
  BY <1>1, UnfetchedKeeps DEF InterlockInv, lastBranch
<1>4. NothingMissed' /\ DelayCovers'
  BY <1>1, <1>2 DEF InterlockInv, NothingMissed, DelayCovers, Noted, Waiting, Feeds,
     lastBranch, Unfetched, ID, EX, MEM
<1>5. QED
  BY <1>3, <1>4 DEF InterlockInv

LEMMA BranchStallDelayInterlock ==
  ASSUME TypeOK, InterlockInv, BranchStallDelay
  PROVE  InterlockInv'
<1>1. dcache_delay = 0 /\ Less1(dcache_delay) = 0
  BY DEF BranchStallDelay, Control, ControlSignal, Less1
<1>2. /\ Unfetched /\ UNCHANGED lastBranch /\ pipe'.idInstr = pipe.idInstr
      /\ pipe'.exInstr = Bubble /\ pipe'.memInstr = pipe.exInstr
      /\ branch_delay' = Less1(branch_delay)
  BY <1>1, HandleBranchStallKeeps, Less1Type DEF BranchStallDelay, TypeOK
<1>3. LastFetched'
  BY <1>2, UnfetchedKeeps DEF InterlockInv, lastBranch
<1>4. NothingMissed'
  BY <1>2, BubbleNoHazard DEF InterlockInv, NothingMissed, Noted, Waiting, lastBranch,
     Unfetched, ID, EX
<1>5. DelayCovers'
  BY <1>2, BubbleNoHazard DEF InterlockInv, DelayCovers, Noted, Feeds, lastBranch,
     Unfetched, ID, EX, MEM, Less1
<1>6. QED
  BY <1>3, <1>4, <1>5 DEF InterlockInv

\* The instruction in ID moves on; one that follows it is the youngest.
LEMMA MovedInterlock ==
  ASSUME TypeOK, InterlockInv, Unfetched, UNCHANGED lastBranch,
         pipe'.idInstr \in {pipe.ifInstr, Bubble}, pipe'.exInstr = pipe.idInstr
  PROVE  LastFetched' /\ NothingMissed'
<1>1. LastFetched'
  BY UnfetchedKeeps DEF InterlockInv, lastBranch
<1>2. pipe'.idInstr.id \in {NoId, info.instructionID}
  BY BubbleNoHazard DEF InterlockInv, LastFetched
<1>3. isLoad(pipe.idInstr.instr) => pipe.idInstr.id # NoId
  <2>1. pipe.idInstr \in Slot
    BY StageTypes DEF TypeOK
  <2> QED
    BY <2>1, AccessorId DEF NoId
<1>4. Noted /\ isLoad(ID) => pipe.idInstr.id = info.instructionID
  BY <1>3 DEF InterlockInv, NothingMissed, Waiting, ID, isLoad, isBranch
<1>5. NothingMissed'
  BY <1>2, <1>4 DEF NothingMissed, Noted, lastBranch, Unfetched, ID, EX
<1>6. QED
  BY <1>1, <1>5

LEMMA HaltInPipelineInterlock ==
  ASSUME TypeOK, InterlockInv, HaltInPipeline
  PROVE  InterlockInv'
<1>1. /\ Unfetched /\ UNCHANGED lastBranch
      /\ pipe'.idInstr = pipe.ifInstr /\ pipe'.exInstr = pipe.idInstr
  BY DEF HaltInPipeline, Unfetched, moveAllForward
<1>2. info.isHalt
  BY DEF HaltInPipeline, Control, ControlSignal, HaltFetched
<1>3. ~isBranch(ID)'
  BY <1>1, <1>2 DEF InterlockInv, LastFetched, ID, isBranch, Nop, HALT_INSTRUCTION
<1>4. QED
  BY <1>1, <1>3, MovedInterlock DEF InterlockInv, DelayCovers

LEMMA ICacheMissInterlock ==
  ASSUME TypeOK, InterlockInv, ICacheMiss
  PROVE  InterlockInv'
<1>1. /\ Unfetched /\ UNCHANGED lastBranch
      /\ pipe'.idInstr = Bubble /\ pipe'.exInstr = pipe.idInstr
  BY DEF ICacheMiss, Unfetched, stall_IF_stage
<1>2. ~isBranch(ID)'
  BY <1>1, BubbleNoHazard DEF ID
<1>3. QED
  BY <1>1, <1>2, MovedInterlock DEF InterlockInv, DelayCovers

\* While an exception is served, something has been raised.
LEMMA ServedWasRaised ==
  ASSUME TypeOK, ExceptionInv, ArithmeticOverflow \/ IllegalInstruction
  PROVE  raised # {}
<1>1. CASE ArithmeticOverflow
  BY <1>1 DEF ArithmeticOverflow, Control, ControlSignal, ExceptionInv, OneException,
     OverflowInIF, OverflowInID, VictimInPlace, TypeOK
<1>2. CASE IllegalInstruction
  BY <1>2 DEF IllegalInstruction, Control, ControlSignal, ExceptionInv, OneException,
     IllegalInIF, VictimInPlace, TypeOK
<1>3. QED
  BY <1>1, <1>2

LEMMA ExceptionInterlock ==
  ASSUME TypeOK, ExceptionInv, InterlockInv, ArithmeticOverflow \/ IllegalInstruction
  PROVE  InterlockInv'
<1>1. raised # {}
  BY ServedWasRaised
<1>2. /\ Unfetched /\ UNCHANGED lastBranch
      /\ pipe'.idInstr \in {pipe.ifInstr, Bubble} /\ pipe'.exInstr = pipe.idInstr
  <2>1. /\ info' \in {info, OverflowTaken, IllegalTaken}
        /\ pipe' \in {moveAllForward(pipe), stall_IF_stage(pipe)}
        /\ UNCHANGED <<lastBranch, din, raised>>
    BY DEF ArithmeticOverflow, IllegalInstruction, insertNopException
  <2>2. info'.instructionID = info.instructionID /\ info'.isHalt = info.isHalt
    BY <2>1 DEF OverflowTaken, IllegalTaken, TypeOK
  <2>3. QED
    BY <2>1, <2>2 DEF Unfetched, moveAllForward, stall_IF_stage
<1>3. QED
  BY <1>1, <1>2, MovedInterlock DEF InterlockInv, DelayCovers, Unfetched

\* A fetch turns the tests on again.
LEMMA FetchInterlock ==
  ASSUME TypeOK, InterlockInv,
         NEW i \in Instr, NEW ovf \in BOOLEAN, NEW a \in Addr, FetchNew(i, ovf, a)
  PROVE  InterlockInv'
<1>1. /\ info' = [isHalt |-> i = HALT_INSTRUCTION, isValid |-> i.op # "Illegal",
                  isOverflow |-> ovf, instructionID |-> din]
      /\ din' = din + 1 /\ UNCHANGED lastBranchCycleCount
  BY DEF FetchNew, executeInstruction, lastBranch
<1>2. pipe'.ifInstr.id = din /\ pipe'.ifInstr.instr = i
  BY FetchPutsInIF
<1>3. info'.instructionID = din /\ (info'.isHalt => i = HALT_INSTRUCTION)
  BY <1>1
<1>4. din \in Nat /\ lastBranchCycleCount \in Nat
  BY DEF TypeOK
<1>5. LastFetched'
  BY <1>1, <1>2, <1>3, <1>4 DEF InterlockInv, LastFetched
<1>6. ~Noted'
  BY <1>1, <1>3, <1>4 DEF InterlockInv, LastFetched, Noted
<1>7. QED
  BY <1>5, <1>6 DEF InterlockInv, NothingMissed, DelayCovers

LEMMA InterlockInvariant == Spec => []InterlockInv
<1>1. Init => InterlockInv
  BY BubbleNoHazard DEF Init, EmptyPipe, InterlockInv, LastFetched, NothingMissed,
     DelayCovers, Noted
<1>2. TypeOK /\ ExceptionInv /\ InterlockInv /\ [Next]_vars => InterlockInv'
  <2>1. SUFFICES ASSUME TypeOK, ExceptionInv, InterlockInv, [Next]_vars
                 PROVE  InterlockInv'
    OBVIOUS
  <2>2. CASE BranchStallOnEx
    BY <2>1, <2>2, BranchStallOnExInterlock
  <2>3. CASE LoadUseStall
    BY <2>1, <2>3, LoadUseInterlock
  <2>4. CASE BranchStallOnMem
    BY <2>1, <2>4, BranchStallOnMemInterlock
  <2>5. CASE BranchStallDelay
    BY <2>1, <2>5, BranchStallDelayInterlock
  <2>6. CASE ArithmeticOverflow \/ IllegalInstruction
    BY <2>1, <2>6, ExceptionInterlock
  <2>7. ASSUME NEW i \in Instr, NEW ovf \in BOOLEAN, NEW a \in Addr,
               FetchNew(i, ovf, a)
        PROVE  InterlockInv'
    BY <2>1, <2>7, FetchInterlock
  <2>8. CASE HaltInPipeline
    BY <2>1, <2>8, HaltInPipelineInterlock
  <2>9. CASE ICacheMiss
    BY <2>1, <2>9, ICacheMissInterlock
  <2>10. CASE DCacheMiss
    BY <2>1, <2>10, DCacheMissInterlock
  <2>11. CASE Halted \/ UNCHANGED vars
    BY <2>1, <2>11 DEF Halted, vars, delays, lastBranch, history, InterlockInv,
       LastFetched, NothingMissed, DelayCovers, Noted, Waiting, Feeds, ID, EX, MEM
  <2>12. QED
    BY <2>1, <2>2, <2>3, <2>4, <2>5, <2>6, <2>7, <2>8, <2>9, <2>10, <2>11 DEF Next
<1>3. QED
  BY <1>1, <1>2, TypeCorrect, ExceptionInvariant, PTL DEF Spec

-----------------------------------------------------------------------------
(***************************************************************************)
(* Who moves an instruction out of ID.                                     *)
(***************************************************************************)
\* A branch stall leaves EX empty or as it is: nothing gets there from ID.
LEMMA BranchStallKeepsID ==
  ASSUME TypeOK, OrderInv, NEW delay \in Nat, HandleBranchStall(delay),
         pipe.idInstr.id # NoId
  PROVE  pipe'.exInstr.id # pipe.idInstr.id
<1>1. pipe'.exInstr \in {Bubble, pipe.exInstr}
  BY HandleBranchStallKeeps
<1>2. /\ pipe.exInstr.id \in Nat \cup {NoId} /\ pipe.idInstr.id \in Nat \cup {NoId}
      /\ pipe.exInstr.id # NoId => pipe.exInstr.id < pipe.idInstr.id
  BY StageTypes, SlotFields DEF TypeOK, OrderInv, ProgramOrder, Before
<1>3. QED
  BY <1>1, <1>2, BubbleNoHazard

\* The stalls of Control keep the instruction in ID from EX.
LEMMA StallKeepsID ==
  ASSUME TypeOK, OrderInv, [Next]_vars, pipe.idInstr.id # NoId,
         BranchOnEx \/ LoadUse \/ BranchOnMem
  PROVE  pipe'.exInstr.id # pipe.idInstr.id
<1>1. pipe.exInstr.id # pipe.idInstr.id
  BY StageTypes, SlotFields DEF TypeOK, OrderInv, ProgramOrder, Before, NoId
<1>2. ControlSignal \in {"BRANCH_STALL_EX", "LOAD_USE_STALL", "BRANCH_STALL_MEM"}
  BY DEF ControlSignal
<1>3. CASE BranchStallOnEx
  <2>1. PICK delay \in Nat : HandleBranchStall(delay)
    <3>1. Less1(branch_delay) \in Nat /\ Less1(BranchDelay) \in Nat
      BY Less1Type DEF TypeOK, BranchDelay
    <3>2. QED
      BY <1>3, <3>1 DEF BranchStallOnEx
  <2>2. QED
    BY <2>1, BranchStallKeepsID
<1>4. CASE LoadUseStall
  BY <1>4, BubbleNoHazard DEF LoadUseStall, load_use_stall_stage, BRANCH_stall
<1>5. CASE BranchStallOnMem
  BY <1>5, BranchStallKeepsID DEF BranchStallOnMem, Less1
<1>6. CASE Halted \/ UNCHANGED vars
  BY <1>1, <1>6 DEF Halted, vars
<1>7. QED
  BY <1>2, <1>3, <1>4, <1>5, <1>6 DEF Next, Control, BranchStallDelay,
     ArithmeticOverflow, IllegalInstruction, FetchNew, HaltInPipeline, ICacheMiss,
     DCacheMiss

\* Without an exception, a branch enters EX only when its delay has run out.
LEMMA BranchMoves ==
  ASSUME TypeOK, OrderInv, ExceptionInv, [Next]_vars, raised = {}, isBranch(ID),
         pipe'.exInstr.id = pipe.idInstr.id
  PROVE  branch_delay = 0
<1>1. pipe.idInstr.id # NoId
  BY StageTypes, SlotFields, BubbleNoHazard DEF TypeOK, ID
<1>2. pipe.exInstr.id # pipe.idInstr.id
  BY <1>1, StageTypes, SlotFields DEF TypeOK, OrderInv, ProgramOrder, Before, NoId
<1>3. branch_delay \in Nat /\ dcache_delay \in Nat /\ ~squashID
  BY BranchInID DEF TypeOK, IllegalInID
<1>4. ~BranchOnEx /\ ~LoadUse /\ ~BranchOnMem
  BY <1>1, StallKeepsID
<1>5. CASE BranchStallDelay
  BY <1>1, <1>3, <1>5, Less1Type, BranchStallKeepsID DEF BranchStallDelay
<1>6. CASE DCacheMiss \/ Halted \/ UNCHANGED vars
  BY <1>2, <1>6, HoldStages DEF DCacheMiss, Halted, vars, TypeOK
<1>7. CASE HaltInPipeline \/ ICacheMiss \/ Fetching
  <2>1. ControlSignal \in {"FETCH_NEW", "HALT_INSTRUCT_IN_PIPELINE", "I_CACHE_MISS"}
    BY <1>7 DEF HaltInPipeline, ICacheMiss, Fetching, FetchNew, Control
  <2>2. QED
    BY <1>3, <2>1 DEF ControlSignal
<1>8. QED
  BY <1>4, <1>5, <1>6, <1>7, ServedWasRaised DEF Next, Fetching, BranchStallOnEx,
     LoadUseStall, BranchStallOnMem, Control, ControlSignal

\* Two instructions in the pipeline are two instructions fetched: the test of Control
\* for a stall already taken does not confuse 0 with "never".
LEMMA TwoFetched ==
  ASSUME TypeOK, OrderInv, LastFetched, pipe.idInstr.id # NoId,
         NEW s \in {pipe.exInstr, pipe.memInstr}, s.id # NoId
  PROVE  s.id < pipe.idInstr.id /\ info.instructionID > 0
<1>1. s.id \in Nat /\ pipe.idInstr.id \in Nat /\ din \in Nat
  BY StageTypes, SlotFields DEF TypeOK
<1>2. s.id < pipe.idInstr.id /\ pipe.idInstr.id < din
  BY DEF OrderInv, ProgramOrder, Before, StagesBelow
<1>3. QED
  BY <1>1, <1>2 DEF LastFetched

-----------------------------------------------------------------------------
(***************************************************************************)
(* The two interlocks.                                                     *)
(***************************************************************************)
LEMMA RaisedGrows ==
  ASSUME [Next]_vars
  PROVE  raised \subseteq raised'
  BY DEF Next, BranchStallOnEx, LoadUseStall, BranchStallOnMem, BranchStallDelay,
     HandleBranchStall, ArithmeticOverflow, IllegalInstruction, FetchNew,
     executeInstruction, HaltInPipeline, ICacheMiss, DCacheMiss, Halted, vars, history

\* A register that the word in ID uses is one that Control compares.
LEMMA UsesFeed == \A i : i.rt \in Uses(ID) => Feeds(i)
  BY DEF Uses, Feeds, Reg

LEMMA LoadInterlockStep ==
  ASSUME TypeOK, OrderInv, ExceptionInv, InterlockInv, [Next]_vars,
         isLoad(EX), EX.rt \in Uses(ID), pipe.idInstr.id # NoId,
         isBranch(ID) => raised' = {}
  PROVE  pipe'.exInstr.id # pipe.idInstr.id
<1>1. pipe.exInstr \in Slot /\ pipe.exInstr.id \in Nat
  BY StageTypes, AccessorId DEF TypeOK, EX
<1>2. pipe.exInstr.id < pipe.idInstr.id /\ info.instructionID > 0
  BY <1>1, TwoFetched DEF InterlockInv, NoId
<1>3. CASE lastBranchCycleCount # info.instructionID
  BY <1>3, UsesFeed, StallKeepsID DEF LoadUse, Feeds
<1>4. CASE Noted /\ ~Waiting
  BY <1>1, <1>2, <1>4 DEF InterlockInv, NothingMissed
<1>5. CASE Noted /\ Waiting
  <2>1. isBranch(ID) /\ raised = {}
    BY <1>5, RaisedGrows DEF Waiting
  <2>2. branch_delay = 2
    BY <1>5, <2>1, UsesFeed DEF InterlockInv, DelayCovers
  <2>3. QED
    BY <2>1, <2>2, BranchMoves
<1>6. QED
  BY <1>2, <1>3, <1>4, <1>5 DEF Noted

\* For every program, every cache and all latencies, an instruction never follows the
\* load it depends on into EX without a cycle between (LOAD_USE_STALL and BRANCH_STALL
\* in Control), unless an exception drags a branch along.
THEOREM LoadInterlockCorrect == Spec => LoadInterlock
<1>1. TypeOK /\ OrderInv /\ ExceptionInv /\ InterlockInv /\ [Next]_vars
      => [/\ isLoad(EX) /\ EX.rt \in Uses(ID)
          /\ pipe.idInstr.id # NoId
          /\ isBranch(ID) => raised' = {}
          => pipe'.exInstr.id # pipe.idInstr.id]_vars
  BY LoadInterlockStep
<1>2. QED
  BY <1>1, TypeCorrect, OrderInvariant, ExceptionInvariant, InterlockInvariant, PTL
     DEF Spec, LoadInterlock

LEMMA BranchOperandsStep ==
  ASSUME TypeOK, OrderInv, ExceptionInv, InterlockInv, [Next]_vars,
         isBranch(ID), pipe'.exInstr = pipe.idInstr, raised' = {}
  PROVE  /\ \A i \in {EX, MEM} : isLoad(i) => i.rt \notin Uses(ID)
         /\ EX.op = "IType" => EX.rt \notin Uses(ID)
<1>1. raised = {} /\ branch_delay = 0
  BY RaisedGrows, BranchMoves
<1>2. pipe.idInstr.id # NoId
  BY StageTypes, SlotFields, BubbleNoHazard DEF TypeOK, ID
<1>3. ~BranchOnEx /\ ~BranchOnMem
  BY <1>2, StallKeepsID
<1>4. \A r : r \in Uses(ID) => r # 0 /\ Reg(r, ID)
  BY DEF Uses, Reg
<1>5. ASSUME NEW s \in {pipe.exInstr, pipe.memInstr}, s.id # NoId
      PROVE  lastBranchCycleCount = info.instructionID => Noted
  BY <1>2, <1>5, TwoFetched DEF InterlockInv, Noted
<1>6. isLoad(EX) \/ EX.op = "IType" => EX.rt \notin Uses(ID)
  <2>1. SUFFICES ASSUME isLoad(EX) \/ EX.op = "IType", EX.rt # 0, Reg(EX.rt, ID)
                 PROVE  FALSE
    BY <1>4
  <2>2. EX # Nop /\ pipe.exInstr.id # NoId
    BY <2>1, StageTypes, SlotFields, BubbleNoHazard DEF TypeOK, EX, Nop, isLoad, Bubble
  <2>3. Noted
    BY <1>3, <1>5, <2>1, <2>2 DEF BranchOnEx
  <2>4. QED
    BY <1>1, <2>1, <2>3 DEF InterlockInv, DelayCovers, Feeds
<1>7. isLoad(MEM) => MEM.rt \notin Uses(ID)
  <2>1. SUFFICES ASSUME isLoad(MEM), MEM.rt # 0, Reg(MEM.rt, ID)
                 PROVE  FALSE
    BY <1>4
  <2>2. pipe.memInstr.id # NoId
    BY <2>1, StageTypes, SlotFields, BubbleNoHazard DEF TypeOK, MEM
  <2>3. Noted
    BY <1>3, <1>5, <2>1, <2>2 DEF BranchOnMem
  <2>4. QED
    BY <1>1, <2>1, <2>3 DEF InterlockInv, DelayCovers, Feeds
<1>8. QED
  BY <1>6, <1>7

\* For every program, every cache and all latencies, a branch that no exception drags
\* along finds its operands ready when it leaves ID (BRANCH_STALL in Control).
THEOREM BranchOperandsReadyCorrect == Spec => BranchOperandsReady
<1>1. TypeOK /\ OrderInv /\ ExceptionInv /\ InterlockInv /\ [Next]_vars
      => [/\ isBranch(ID) /\ pipe'.exInstr = pipe.idInstr
          /\ raised' = {}
          => /\ \A i \in {EX, MEM} : isLoad(i) => i.rt \notin Uses(ID)
             /\ EX.op = "IType" => EX.rt \notin Uses(ID)]_vars
  BY BranchOperandsStep
<1>2. QED
  BY <1>1, TypeCorrect, OrderInvariant, ExceptionInvariant, InterlockInvariant, PTL
     DEF Spec, BranchOperandsReady

-----------------------------------------------------------------------------
(***************************************************************************)
(* The cost of an instruction.  CycleBound follows from what is owed: the  *)
(* cycles that the instructions fetched so far may still take.             *)
(***************************************************************************)
\* The halt word has this far to go.
ToDrain(p) ==
  IF p.wbInstr.instr = HALT_INSTRUCTION THEN 0
  ELSE IF p.memInstr.instr = HALT_INSTRUCTION THEN 1
  ELSE IF p.exInstr.instr = HALT_INSTRUCTION THEN 2
  ELSE IF p.idInstr.instr = HALT_INSTRUCTION THEN 3
  ELSE 4

\* The stalls that the tests of Control would find for word i in ID, with these
\* words before it.
Conflicts(j, i) == j.rt # 0 /\ Reg(j.rt, i)
Waits(i, ex, mem) ==
  IF isLoad(ex) /\ Conflicts(ex, i) THEN IF isBranch(i) THEN 2 ELSE 1
  ELSE IF /\ isBranch(i)
          /\ \/ ex # Nop /\ Conflicts(ex, i)
             \/ isLoad(mem) /\ Conflicts(mem, i)
       THEN 1 ELSE 0

\* Once a branch has been noted, only the delay counts.
Stalls ==
  LET w == Waits(ID, EX, MEM) IN
  IF lastBranchCycleCount # info.instructionID /\ w > branch_delay
  THEN w ELSE branch_delay

\* An instruction in IF has all of its two stalls before it; a load in ID may make the
\* one behind it wait; the second nop of an overflow is still to come.
InIF == IF pipe.ifInstr.id = NoId THEN 0 ELSE 2
LoadInID == IF isLoad(ID) THEN 1 ELSE 0
NopToCome == IF nopArithmeticExcept = 1 THEN 1 ELSE 0

Work == InIF + LoadInID + NopToCome + Stalls
Stages == Work + ToDrain(pipe)
Owed == icache_delay + dcache_delay + Stages

Budget(n, k) == 4 + n * (1 + 2 + IMissLatency) + k * DMissLatency

\* The halt word is not lost, and ends the program when it arrives.
HaltOnItsWay ==
  /\ info.isHalt => ToDrain(pipe) < 4 \/ pipe.ifInstr.instr = HALT_INSTRUCTION
  /\ pipe.wbInstr.instr = HALT_INSTRUCTION => status = "HALT"

\* A branch is tested after the next instruction has been fetched.
BranchNotLast == isBranch(ID) => pipe.idInstr.id < info.instructionID

CostInv ==
  /\ HaltOnItsWay
  /\ BranchNotLast
  /\ currentCycle + Owed <= Budget(din, Len(accessed))

LEMMA BudgetGrows ==
  ASSUME NEW n \in Nat, NEW k \in Nat
  PROVE  /\ Budget(n, k) \in Nat
         /\ Budget(n + 1, k) = Budget(n, k) + 3 + IMissLatency
         /\ Budget(n, k + 1) = Budget(n, k) + DMissLatency
<1>1. IMissLatency \in Nat /\ DMissLatency \in Nat
  BY PipelineAssumption
<1>2. \A u \in Nat : (n + 1) * u = n * u + u /\ (k + 1) * u = k * u + u
                     /\ n * u \in Nat /\ k * u \in Nat
  OBVIOUS
<1>3. 1 + 2 + IMissLatency \in Nat
  BY <1>1
<1> QED
  BY <1>1, <1>2, <1>3 DEF Budget

LEMMA WordBits ==
  ASSUME TypeOK
  PROVE  /\ ID \in InstrWord /\ EX \in InstrWord /\ MEM \in InstrWord
         /\ pipe.ifInstr.instr \in InstrWord
         /\ \A i \in InstrWord : i.rs \in Nat /\ i.rt \in Nat
         /\ pipe.ifInstr.id = NoId => pipe.ifInstr = Bubble
  BY StageTypes, SlotFields DEF TypeOK, ID, EX, MEM, InstrWord

LEMMA WaitsBound ==
  /\ \A i, j, k : Waits(i, j, k) \in 0 .. 2 /\ (~isBranch(i) => Waits(i, j, k) \in 0 .. 1)
  /\ \A j, k : ~isLoad(j) => Waits(Nop, j, k) = 0
  /\ \A j \in InstrWord : \A k : Waits(Nop, j, k) = 0
  /\ \A i, j, k : ~isBranch(i) /\ ~isLoad(j) => Waits(i, j, k) = 0
  BY DEF Waits, Conflicts, Reg, Nop, isBranch

LEMMA StallsType ==
  ASSUME TypeOK
  PROVE  /\ Stalls \in Nat /\ Stalls >= branch_delay
         /\ Stalls <= Waits(ID, EX, MEM) + branch_delay
         /\ InIF \in {0, 2} /\ LoadInID \in {0, 1} /\ NopToCome \in {0, 1}
         /\ ToDrain(pipe) \in 0 .. 4
         /\ Work \in Nat /\ Stages \in Nat /\ Owed \in Nat
<1>1. Waits(ID, EX, MEM) \in 0 .. 2 /\ branch_delay \in Nat
  BY WaitsBound DEF TypeOK
<1>2. /\ Stalls \in Nat /\ Stalls >= branch_delay
      /\ Stalls <= Waits(ID, EX, MEM) + branch_delay
  BY <1>1 DEF Stalls
<1>3. /\ InIF \in {0, 2} /\ LoadInID \in {0, 1} /\ NopToCome \in {0, 1}
      /\ ToDrain(pipe) \in 0 .. 4
  BY DEF InIF, LoadInID, NopToCome, ToDrain
<1>4. Work \in Nat /\ Stages \in Nat
  BY <1>2, <1>3 DEF Work, Stages
<1> QED
  BY <1>2, <1>3, <1>4 DEF Owed, TypeOK

LEMMA StagesNext ==
  ASSUME TypeOK'
  PROVE  Stalls' \in Nat /\ Work' \in Nat /\ ToDrain(pipe') \in 0 .. 4 /\ Stages' \in Nat
<1>1. Waits(ID, EX, MEM)' \in 0 .. 2
  BY DEF Waits
<1>2. Stalls' \in Nat
  BY <1>1 DEF Stalls, TypeOK
<1>3. InIF' \in Nat /\ LoadInID' \in Nat /\ NopToCome' \in Nat /\ ToDrain(pipe)' \in Nat
  BY DEF InIF, LoadInID, NopToCome, ToDrain
<1>4. ToDrain(pipe') \in 0 .. 4
  BY DEF ToDrain
<1>5. Work' \in Nat
  <2> DEFINE i == InIF'
             l == LoadInID'
             n == NopToCome'
             s == Stalls'
  <2>1. i \in Nat /\ l \in Nat /\ n \in Nat /\ s \in Nat /\ Work' = i + l + n + s
    BY <1>2, <1>3 DEF Work
  <2> HIDE DEF i, l, n, s
  <2> QED
    BY <2>1
<1>6. Stages' = Work' + ToDrain(pipe')
  BY DEF Stages, ToDrain
<1> QED
  BY <1>2, <1>4, <1>5, <1>6

LEMMA WrappedBelow ==
  ASSUME NEW n \in Nat, NEW m \in Nat \ {0}
  PROVE  n % m <= n
  OBVIOUS

\* What a cycle has to show: it costs one, and something that is owed is paid.
Pays == Less1(dcache_delay) + icache_delay' + Stages' + 1 <= Owed

LEMMA AccessCost ==
  ASSUME TypeOK, pipe' \in PipeState, execute_DCACHE_write_Check
  PROVE  \/ Len(accessed') = Len(accessed) /\ dcache_delay' = Less1(dcache_delay)
         \/ /\ Len(accessed') = Len(accessed) + 1
            /\ dcache_delay' <= Less1(dcache_delay) + DMissLatency
<1>1. /\ accessed \in Seq(Nat) /\ DMissLatency \in Nat /\ Less1(dcache_delay) \in Nat
  BY PipelineAssumption, Less1Type DEF TypeOK
<1>2. isLoad(pipe'.memInstr.instr) \/ isStore(pipe'.memInstr.instr)
      => pipe'.memInstr.id \in Nat
  BY StageTypes, AccessorId
<1> QED
  BY <1>1, <1>2 DEF execute_DCACHE_write_Check

LEMMA PaidIsBounded ==
  ASSUME TypeOK, TypeOK', CostInv, EndOfCycle, din' = din, Pays,
         \/ execute_DCACHE_write_Check
         \/ dcache_delay' = Less1(dcache_delay) /\ UNCHANGED accessed
  PROVE  currentCycle' + Owed' <= Budget(din', Len(accessed'))
<1>1. /\ Owed \in Nat /\ Stages' \in Nat /\ din \in Nat /\ Len(accessed) \in Nat
      /\ DMissLatency \in Nat /\ Less1(dcache_delay) \in Nat
  <2>1. /\ din \in Nat /\ accessed \in Seq(Nat) /\ dcache_delay \in Nat
        /\ DMissLatency \in Nat
    BY PipelineAssumption DEF TypeOK
  <2>2. Owed \in Nat
    BY StallsType
  <2>3. Stages' \in Nat
    BY StagesNext
  <2> QED
    BY <2>1, <2>2, <2>3, Less1Type
<1>2. currentCycle' <= currentCycle + 1
  <2>1. currentCycle + 1 \in Nat /\ CycleModulus \in Nat \ {0}
    BY PipelineAssumption DEF TypeOK
  <2>2. currentCycle' = (currentCycle + 1) % CycleModulus
    BY DEF EndOfCycle
  <2> QED
    BY <2>1, <2>2, WrappedBelow
<1>3. \/ Len(accessed') = Len(accessed) /\ dcache_delay' = Less1(dcache_delay)
      \/ /\ Len(accessed') = Len(accessed) + 1
         /\ dcache_delay' <= Less1(dcache_delay) + DMissLatency
  BY AccessCost DEF TypeOK
<1>4. /\ Budget(din, Len(accessed)) \in Nat
      /\ Budget(din, Len(accessed) + 1) = Budget(din, Len(accessed)) + DMissLatency
  BY <1>1, BudgetGrows
<1>5. Owed' = icache_delay' + dcache_delay' + Stages'
  BY DEF Owed
<1>6. /\ currentCycle \in Nat /\ currentCycle' \in Nat /\ icache_delay' \in Nat
      /\ dcache_delay' \in Nat
  BY DEF TypeOK
<1>7. currentCycle + Owed <= Budget(din, Len(accessed))
  BY DEF CostInv
<1>8. Less1(dcache_delay) + icache_delay' + Stages' + 1 <= Owed
  BY DEF Pays
<1>9. currentCycle' + Owed' <= Budget(din, Len(accessed'))
  <2> DEFINE c == currentCycle'
             d == dcache_delay'
             i == icache_delay'
             s == Stages'
             l == Less1(dcache_delay)
             b == Budget(din, Len(accessed))
  <2>1. /\ c \in Nat /\ d \in Nat /\ i \in Nat /\ s \in Nat /\ l \in Nat /\ b \in Nat
        /\ c <= currentCycle + 1 /\ currentCycle + Owed <= b /\ l + i + s + 1 <= Owed
    BY <1>1, <1>2, <1>4, <1>6, <1>7, <1>8
  <2>2. \/ Budget(din, Len(accessed')) = b /\ d = l
        \/ Budget(din, Len(accessed')) = b + DMissLatency /\ d <= l + DMissLatency
    BY <1>3, <1>4
  <2>3. Owed' = i + d + s
    BY <1>5
  <2> HIDE DEF c, d, i, s, l, b
  <2>4. \/ Budget(din, Len(accessed')) = b /\ c + (i + d + s) <= b
        \/ /\ Budget(din, Len(accessed')) = b + DMissLatency
           /\ c + (i + d + s) <= b + DMissLatency
    BY <1>1, <1>6, <2>1, <2>2
  <2> QED
    BY <2>3, <2>4 DEF c
<1> QED
  BY <1>9

\* The same in terms of what is owed for the stages.
LEMMA PaidBy ==
  ASSUME TypeOK, TypeOK',
         \/ Less1(dcache_delay) = dcache_delay - 1 /\ dcache_delay > 0
            /\ icache_delay' <= icache_delay /\ Stages' <= Stages
         \/ icache_delay' = icache_delay - 1 /\ Stages' <= Stages
         \/ icache_delay' <= icache_delay /\ Stages' + 1 <= Stages
  PROVE  Pays
<1>1. Less1(dcache_delay) <= dcache_delay /\ Less1(dcache_delay) \in Nat
  BY DEF Less1, TypeOK
<1>2. Stages \in Nat /\ Stages' \in Nat
  BY StallsType, StagesNext
<1>3. Owed = icache_delay + dcache_delay + Stages
  BY DEF Owed
<1>4. dcache_delay \in Nat /\ icache_delay \in Nat /\ icache_delay' \in Nat
  BY DEF TypeOK
<1>5. Less1(dcache_delay) + icache_delay' + Stages' + 1 <= Owed
  <2> DEFINE l == Less1(dcache_delay)
             i == icache_delay'
             s == Stages'
  <2>1. i \in Nat /\ l \in Nat /\ s \in Nat /\ l <= dcache_delay
    BY <1>1, <1>2, <1>4
  <2>2. \/ l = dcache_delay - 1 /\ i <= icache_delay /\ s <= Stages
        \/ i = icache_delay - 1 /\ s <= Stages
        \/ i <= icache_delay /\ s + 1 <= Stages
    OBVIOUS
  <2> HIDE DEF l, i, s
  <2>3. l + i + s + 1 <= Owed
    BY <1>2, <1>3, <1>4, <2>1, <2>2
  <2> QED
    BY <2>3 DEF l, i, s
<1> QED
  BY <1>5 DEF Pays

-----------------------------------------------------------------------------
(***************************************************************************)
(* The halt word.                                                          *)
(***************************************************************************)
LEMMA HaltNotBubble == Bubble.instr # HALT_INSTRUCTION /\ ~isBranch(HALT_INSTRUCTION)
                       /\ ~isLoad(HALT_INSTRUCTION) /\ ~isBranch(Bubble.instr)
                       /\ ~isLoad(Bubble.instr)
  BY DEF Bubble, Nop, HALT_INSTRUCTION, isBranch, isLoad

LEMMA DrainMoves ==
  ASSUME HaltOnItsWay, status # "HALT", EndOfCycle,
         info'.isHalt = info.isHalt,
         \/ pipe' = moveAllForward(pipe) \/ pipe' = stall_IF_stage(pipe)
         \/ pipe' = BRANCH_stall(pipe)
  PROVE  HaltOnItsWay' /\ ToDrain(pipe') <= ToDrain(pipe)
<1>1. pipe.wbInstr.instr # HALT_INSTRUCTION
  BY DEF HaltOnItsWay
<1>2. pipe'.wbInstr.instr = HALT_INSTRUCTION => status' = "HALT"
  BY DEF EndOfCycle
<1>3. CASE pipe' = moveAllForward(pipe)
  BY <1>1, <1>2, <1>3, HaltNotBubble DEF HaltOnItsWay, ToDrain, moveAllForward
<1>4. CASE pipe' = stall_IF_stage(pipe)
  BY <1>1, <1>2, <1>4, HaltNotBubble DEF HaltOnItsWay, ToDrain, stall_IF_stage
<1>5. CASE pipe' = BRANCH_stall(pipe)
  BY <1>1, <1>2, <1>5, HaltNotBubble DEF HaltOnItsWay, ToDrain, BRANCH_stall
<1> QED
  BY <1>3, <1>4, <1>5

LEMMA DrainHolds ==
  ASSUME TypeOK, HaltOnItsWay, status # "HALT", EndOfCycle,
         info'.isHalt = info.isHalt, pipe' = stall_IF_ID_EX_MEM_stage(pipe)
  PROVE  HaltOnItsWay' /\ ToDrain(pipe') = ToDrain(pipe)
<1>1. pipe.wbInstr.instr # HALT_INSTRUCTION
  BY DEF HaltOnItsWay
<1>2. /\ pipe'.ifInstr = pipe.ifInstr /\ pipe'.idInstr = pipe.idInstr
      /\ pipe'.exInstr = pipe.exInstr /\ pipe'.memInstr = pipe.memInstr
      /\ pipe'.wbInstr = Bubble
  BY HoldStages DEF TypeOK
<1> QED
  BY <1>1, <1>2, HaltNotBubble DEF HaltOnItsWay, ToDrain

LEMMA StagesDrop ==
  ASSUME TypeOK, TypeOK', NEW n \in {0, 1}, Work' + n <= Work,
         ToDrain(pipe') <= ToDrain(pipe)
  PROVE  Stages' + n <= Stages
<1> DEFINE w == Work'
           t == ToDrain(pipe')
<1>1. w \in Nat /\ t \in Nat /\ Work \in Nat /\ ToDrain(pipe) \in Nat
  BY StagesNext, StallsType
<1>2. Stages' = w + t /\ Stages = Work + ToDrain(pipe)
  BY DEF Stages
<1>3. w + n <= Work /\ t <= ToDrain(pipe)
  OBVIOUS
<1> HIDE DEF w, t
<1> QED
  BY <1>1, <1>2, <1>3

LEMMA IDelayFalls ==
  ASSUME TypeOK, icache_delay' = Less1(icache_delay)
  PROVE  icache_delay' <= icache_delay
  BY DEF Less1, TypeOK

-----------------------------------------------------------------------------
(***************************************************************************)
(* Each signal pays for its cycle.                                         *)
(***************************************************************************)
\* A cycle that moves MEM on pays with the I-cache delay or with the work of the stages.
LEMMA MovePays ==
  ASSUME TypeOK, TypeOK', CostInv, EndOfCycle, status # "HALT",
         din' = din, info'.isHalt = info.isHalt,
         \/ pipe' = moveAllForward(pipe) \/ pipe' = stall_IF_stage(pipe)
         \/ pipe' = BRANCH_stall(pipe),
         execute_DCACHE_write_Check, BranchNotLast',
         \/ icache_delay' = icache_delay - 1 /\ Work' <= Work
         \/ icache_delay' = Less1(icache_delay) /\ Work' + 1 <= Work
  PROVE  CostInv'
<1>1. HaltOnItsWay' /\ ToDrain(pipe') <= ToDrain(pipe)
  BY DrainMoves DEF CostInv
<1>2. CASE icache_delay' = icache_delay - 1 /\ Work' <= Work
  <2>1. Work' + 0 <= Work
    BY <1>2, StagesNext
  <2>2. Stages' + 0 <= Stages
    BY <1>1, <2>1, StagesDrop
  <2>3. Stages' <= Stages
    BY <2>2, StagesNext
  <2> QED
    BY <1>1, <1>2, <2>3, PaidBy, PaidIsBounded DEF CostInv
<1>3. CASE icache_delay' = Less1(icache_delay) /\ Work' + 1 <= Work
  <2>1. Stages' + 1 <= Stages
    BY <1>1, <1>3, StagesDrop
  <2> QED
    BY <1>1, <1>3, <2>1, IDelayFalls, PaidBy, PaidIsBounded DEF CostInv
<1> QED
  BY <1>2, <1>3

\* A cycle that holds MEM pays with the D-cache delay.
LEMMA HoldPays ==
  ASSUME TypeOK, TypeOK', CostInv, EndOfCycle, status # "HALT",
         din' = din, info' = info, nopArithmeticExcept' = nopArithmeticExcept,
         pipe' = stall_IF_ID_EX_MEM_stage(pipe),
         dcache_delay > 0, dcache_delay' = Less1(dcache_delay), UNCHANGED accessed,
         icache_delay' = Less1(icache_delay), Stalls' <= Stalls
  PROVE  CostInv'
<1>1. /\ pipe'.ifInstr = pipe.ifInstr /\ pipe'.idInstr = pipe.idInstr
  BY HoldStages DEF TypeOK
<1>2. /\ InIF' = InIF /\ LoadInID' = LoadInID /\ NopToCome' = NopToCome
      /\ BranchNotLast'
  BY <1>1 DEF InIF, LoadInID, NopToCome, BranchNotLast, CostInv, ID
<1>3. Work' + 0 <= Work
  <2> DEFINE x == Stalls'
  <2>1. /\ x \in Nat /\ x <= Stalls /\ Stalls \in Nat
        /\ Work' = InIF + LoadInID + NopToCome + x
        /\ InIF \in Nat /\ LoadInID \in Nat /\ NopToCome \in Nat
    BY <1>2, StallsType, StagesNext DEF Work
  <2> HIDE DEF x
  <2> QED
    BY <2>1 DEF Work
<1>4. HaltOnItsWay' /\ ToDrain(pipe') <= ToDrain(pipe)
  BY DrainHolds, StallsType DEF CostInv
<1>5. Stages' + 0 <= Stages
  BY <1>3, <1>4, StagesDrop
<1>6. Stages' <= Stages
  BY <1>5, StagesNext
<1>7. Less1(dcache_delay) = dcache_delay - 1
  BY DEF Less1
<1> QED
  BY <1>2, <1>4, <1>6, <1>7, IDelayFalls, PaidBy, PaidIsBounded DEF CostInv

\* A stall of IF and ID pays with a stall.
LEMMA StallPays ==
  ASSUME TypeOK, TypeOK', CostInv, EndOfCycle, status # "HALT",
         UNCHANGED <<info, exceptions, din>>, pipe' = BRANCH_stall(pipe),
         execute_DCACHE_write_Check, icache_delay' = Less1(icache_delay),
         Stalls' + 1 <= Stalls
  PROVE  CostInv'
<1>1. pipe'.ifInstr = pipe.ifInstr /\ pipe'.idInstr = pipe.idInstr
  BY DEF BRANCH_stall
<1>2. /\ InIF' = InIF /\ LoadInID' = LoadInID /\ NopToCome' = NopToCome
      /\ BranchNotLast'
  BY <1>1 DEF InIF, LoadInID, NopToCome, BranchNotLast, CostInv, ID, exceptions
<1>3. Work' + 1 <= Work
  <2> DEFINE x == Stalls'
  <2>1. /\ x \in Nat /\ x + 1 <= Stalls /\ Stalls \in Nat
        /\ Work' = InIF + LoadInID + NopToCome + x
        /\ InIF \in Nat /\ LoadInID \in Nat /\ NopToCome \in Nat
    BY <1>2, StallsType, StagesNext DEF Work
  <2> HIDE DEF x
  <2> QED
    BY <2>1 DEF Work
<1> QED
  BY <1>2, <1>3, MovePays

LEMMA BranchStallCost ==
  ASSUME TypeOK, TypeOK', CostInv, NEW delay \in Nat, HandleBranchStall(delay),
         EndOfCycle, status # "HALT",
         Less1(dcache_delay) = 0 => Stalls' + 1 <= Stalls,
         Less1(dcache_delay) # 0 => Stalls' <= Stalls
  PROVE  CostInv'
<1>1. UNCHANGED <<info, exceptions, din>> /\ icache_delay' = Less1(icache_delay)
  BY DEF HandleBranchStall
<1>2. CASE Less1(dcache_delay) = 0
  <2>1. pipe' = BRANCH_stall(pipe) /\ execute_DCACHE_write_Check
    BY <1>2 DEF HandleBranchStall
  <2> QED
    BY <1>1, <1>2, <2>1, StallPays
<1>3. CASE Less1(dcache_delay) # 0
  <2>1. /\ pipe' = stall_IF_ID_EX_MEM_stage(pipe)
        /\ dcache_delay' = Less1(dcache_delay) /\ UNCHANGED accessed
    BY <1>3 DEF HandleBranchStall
  <2>2. dcache_delay > 0 /\ info' = info /\ nopArithmeticExcept' = nopArithmeticExcept
        /\ din' = din
    BY <1>1, <1>3 DEF Less1, TypeOK, exceptions
  <2> QED
    BY <1>1, <1>3, <2>1, <2>2, HoldPays
<1> QED
  BY <1>2, <1>3

\* A stall of two cycles takes one and leaves one, one of a single cycle leaves none.
LEMMA BranchStallOnExCost ==
  ASSUME TypeOK, TypeOK', CostInv, BranchStallOnEx
  PROVE  CostInv'
<1>1. /\ isBranch(ID) /\ Conflicts(EX, ID) /\ EX # Nop /\ EndOfCycle /\ status # "HALT"
      /\ lastBranchCycleCount # info.instructionID
  <2>1. BranchOnEx /\ EndOfCycle /\ status # "HALT"
    BY DEF BranchStallOnEx, Control, ControlSignal
  <2> QED
    BY <2>1 DEF BranchOnEx, Conflicts, Reg, isBranch
<1>2. Waits(ID, EX, MEM) = IF isLoad(EX) THEN 2 ELSE 1
  <2>1. CASE isLoad(EX)
    BY <1>1, <2>1 DEF Waits
  <2>2. CASE ~isLoad(EX)
    BY <1>1, <2>2 DEF Waits
  <2> QED
    BY <2>1, <2>2
<1>3. branch_delay \in Nat
  BY DEF TypeOK
<1>4. /\ Stalls = IF Waits(ID, EX, MEM) > branch_delay THEN Waits(ID, EX, MEM)
                  ELSE branch_delay
      /\ Stalls \in Nat
  BY <1>1, StallsType DEF Stalls
<1>5. CASE ID.op = "Branch2" \/ ID.rs = EX.rt
  <2>1. HandleBranchStall(Less1(BranchDelay)) /\ lastBranchCycleCount' = info.instructionID
    BY <1>5 DEF BranchStallOnEx
  <2>2. /\ BranchDelay = Waits(ID, EX, MEM) /\ BranchDelay \in 1 .. 2
        /\ Less1(BranchDelay) = BranchDelay - 1
    BY <1>2 DEF BranchDelay, Less1
  <2>3. /\ info' = info
        /\ Less1(dcache_delay) = 0 => branch_delay' = Less1(BranchDelay)
        /\ Less1(dcache_delay) # 0 => branch_delay' = Less1(BranchDelay) + 1
    BY <2>1 DEF HandleBranchStall
  <2>4. Stalls' = branch_delay'
    BY <2>1, <2>3 DEF Stalls
  <2>5. Stalls >= BranchDelay
    BY <1>3, <1>4, <2>2
  <2>6. ASSUME Less1(dcache_delay) = 0
        PROVE  Stalls' + 1 <= Stalls
    <3>1. Stalls' = BranchDelay - 1
      BY <2>2, <2>3, <2>4, <2>6
    <3> QED
      BY <1>4, <2>2, <2>5, <3>1
  <2>7. ASSUME Less1(dcache_delay) # 0
        PROVE  Stalls' <= Stalls
    <3>1. Stalls' = BranchDelay
      BY <2>2, <2>3, <2>4, <2>7
    <3> QED
      BY <1>4, <2>2, <2>5, <3>1
  <2> QED
    BY <1>1, <2>1, <2>2, <2>6, <2>7, BranchStallCost
<1>6. CASE ~ (ID.op = "Branch2" \/ ID.rs = EX.rt)
  <2>1. HandleBranchStall(Less1(branch_delay)) /\ UNCHANGED lastBranchCycleCount
    BY <1>6 DEF BranchStallOnEx
  <2>2. /\ Less1(branch_delay) \in Nat
        /\ Less1(branch_delay) = IF branch_delay = 0 THEN 0 ELSE branch_delay - 1
    BY <1>3 DEF Less1
  <2>3. ASSUME Less1(dcache_delay) = 0
        PROVE  Stalls' + 1 <= Stalls
    <3>1. /\ branch_delay' = Less1(branch_delay) /\ info' = info
          /\ pipe' = BRANCH_stall(pipe)
      BY <2>1, <2>3 DEF HandleBranchStall
    <3>2. ID' = ID /\ EX' = Nop /\ MEM' = EX
      BY <3>1 DEF BRANCH_stall, ID, EX, MEM, Bubble
    <3>3. Waits(ID', EX', MEM') = Waits(ID, EX, MEM) - 1
      BY <1>1, <1>2, <3>2, HaltNotBubble DEF Waits, Bubble
    <3>4. Stalls' = IF Waits(ID', EX', MEM') > branch_delay' THEN Waits(ID', EX', MEM')
                    ELSE branch_delay'
      BY <1>1, <2>1, <3>1 DEF Stalls
    <3> QED
      BY <1>2, <1>3, <1>4, <2>2, <3>1, <3>3, <3>4
  <2>4. ASSUME Less1(dcache_delay) # 0
        PROVE  Stalls' <= Stalls
    <3>1. /\ branch_delay' = Less1(branch_delay) + 1 /\ info' = info
          /\ ID' = ID /\ EX' = EX /\ MEM' = MEM
      BY <2>1, <2>4, HoldStages DEF HandleBranchStall, TypeOK, ID, EX, MEM
    <3>2. Waits(ID', EX', MEM') = Waits(ID, EX, MEM)
      BY <3>1
    <3>3. Stalls' = IF Waits(ID', EX', MEM') > branch_delay' THEN Waits(ID', EX', MEM')
                    ELSE branch_delay'
      BY <1>1, <2>1, <3>1 DEF Stalls
    <3> QED
      BY <1>2, <1>3, <1>4, <2>2, <3>1, <3>2, <3>3
  <2> QED
    BY <1>1, <2>1, <2>2, <2>3, <2>4, BranchStallCost
<1> QED
  BY <1>5, <1>6

LEMMA LoadUseCost ==
  ASSUME TypeOK, TypeOK', CostInv, LoadUseStall
  PROVE  CostInv'
<1>1. /\ LoadUse /\ ~BranchOnEx /\ EndOfCycle /\ status # "HALT"
      /\ UNCHANGED <<info, exceptions, din, lastBranchCycleCount>>
      /\ pipe' = BRANCH_stall(pipe) /\ execute_DCACHE_write_Check
      /\ icache_delay' = Less1(icache_delay) /\ branch_delay' = Less1(branch_delay)
  BY DEF LoadUseStall, Control, ControlSignal, load_use_stall_stage
<1>2. /\ isLoad(EX) /\ Conflicts(EX, ID) /\ ~isBranch(ID)
      /\ lastBranchCycleCount # info.instructionID
  BY <1>1 DEF LoadUse, BranchOnEx, Conflicts, isLoad, Nop
<1>3. Waits(ID, EX, MEM) = 1
  BY <1>2 DEF Waits
<1>4. Stalls = IF 1 > branch_delay THEN 1 ELSE branch_delay
  BY <1>2, <1>3 DEF Stalls
<1>5. ID' = ID /\ EX' = Nop
  BY <1>1 DEF ID, EX, BRANCH_stall, Bubble
<1>6. Waits(ID', EX', MEM') = 0
  BY <1>2, <1>5, WaitsBound, HaltNotBubble DEF Bubble
<1>7. Stalls' = IF 0 > branch_delay' THEN 0 ELSE branch_delay'
  BY <1>1, <1>2, <1>6 DEF Stalls
<1>8. Stalls' + 1 <= Stalls
  BY <1>1, <1>4, <1>7 DEF Less1, TypeOK
<1> QED
  BY <1>1, <1>8, StallPays

\* The branch waits for a load in MEM; nothing in EX is in its way.
\* With the tests off, the branch noted would be another one: a branch that was not
\* noted is the youngest instruction, and that one is in IF.
LEMMA BranchOnMemFresh ==
  ASSUME TypeOK, CostInv, InterlockInv, BranchOnMem
  PROVE  lastBranchCycleCount # info.instructionID
<1>1. isBranch(ID) /\ isLoad(MEM) /\ Conflicts(MEM, ID)
  BY DEF BranchOnMem, Conflicts
<1>2. SUFFICES ASSUME lastBranchCycleCount = info.instructionID
               PROVE  FALSE
  OBVIOUS
<1>3. pipe.idInstr.id < info.instructionID /\ pipe.idInstr.id \in Nat
  <2>1. pipe.idInstr \in Slot /\ ID \in InstrWord
    BY StageTypes, WordBits DEF TypeOK
  <2>2. pipe.idInstr.id # NoId
    BY <1>1, <2>1, SlotFields, HaltNotBubble DEF ID
  <2> QED
    BY <1>1, <2>1, <2>2, SlotFields DEF CostInv, BranchNotLast
<1>4. info.instructionID \in Nat
  BY DEF TypeOK
<1>5. Noted /\ ~Waiting
  BY <1>1, <1>2, <1>3, <1>4 DEF Noted, Waiting, BranchOnMem
<1> QED
  BY <1>3, <1>4, <1>5 DEF InterlockInv, NothingMissed, NoId

LEMMA BranchStallOnMemCost ==
  ASSUME TypeOK, TypeOK', CostInv, InterlockInv, BranchStallOnMem
  PROVE  CostInv'
<1>1. /\ BranchOnMem /\ ~BranchOnEx /\ EndOfCycle /\ status # "HALT"
      /\ HandleBranchStall(0) /\ lastBranchCycleCount' = info.instructionID
  BY DEF BranchStallOnMem, Control, ControlSignal, Less1
<1>2. isBranch(ID) /\ isLoad(MEM) /\ Conflicts(MEM, ID)
  BY <1>1 DEF BranchOnMem, Conflicts
<1>3. lastBranchCycleCount # info.instructionID
  BY <1>1, BranchOnMemFresh
<1>4. Waits(ID, EX, MEM) \in 1 .. 2
  BY <1>2 DEF Waits, Conflicts, isBranch, isLoad, Reg
<1>5. Stalls >= 1 /\ Stalls \in Nat
  <2>1. Stalls = IF Waits(ID, EX, MEM) > branch_delay THEN Waits(ID, EX, MEM)
                 ELSE branch_delay
    BY <1>3 DEF Stalls
  <2> QED
    BY <1>4, <2>1, StallsType
<1>6. info' = info
  BY <1>1 DEF HandleBranchStall
<1>7. Stalls' = branch_delay'
  BY <1>1, <1>6 DEF Stalls
<1>8. ASSUME Less1(dcache_delay) = 0
      PROVE  Stalls' + 1 <= Stalls
  <2>1. Stalls' = 0
    BY <1>1, <1>7, <1>8 DEF HandleBranchStall
  <2> QED
    BY <1>5, <2>1
<1>9. ASSUME Less1(dcache_delay) # 0
      PROVE  Stalls' <= Stalls
  <2>1. Stalls' = 1
    BY <1>1, <1>7, <1>9 DEF HandleBranchStall
  <2> QED
    BY <1>5, <2>1
<1> QED
  BY <1>1, <1>8, <1>9, BranchStallCost

\* None of the tests has found a hazard.
LEMMA NothingFound ==
  ASSUME TypeOK, ~BranchOnEx, ~LoadUse, ~BranchOnMem
  PROVE  Stalls = branch_delay
<1>1. CASE lastBranchCycleCount = info.instructionID
  BY <1>1 DEF Stalls
<1>2. CASE lastBranchCycleCount # info.instructionID
  <2>1. Waits(ID, EX, MEM) = 0
    BY <1>2 DEF BranchOnEx, LoadUse, BranchOnMem, Waits, Conflicts
  <2> QED
    BY <2>1 DEF Stalls, TypeOK
<1> QED
  BY <1>1, <1>2

LEMMA BranchStallDelayCost ==
  ASSUME TypeOK, TypeOK', CostInv, BranchStallDelay
  PROVE  CostInv'
<1>1. /\ ~BranchOnEx /\ ~LoadUse /\ ~BranchOnMem /\ EndOfCycle /\ status # "HALT"
      /\ HandleBranchStall(Less1(branch_delay)) /\ dcache_delay = 0 /\ branch_delay > 0
      /\ UNCHANGED lastBranch
  BY DEF BranchStallDelay, Control, ControlSignal
<1>2. /\ info' = info /\ pipe' = BRANCH_stall(pipe) /\ branch_delay' = Less1(branch_delay)
      /\ UNCHANGED <<info, exceptions, din>> /\ execute_DCACHE_write_Check
      /\ icache_delay' = Less1(icache_delay)
  BY <1>1 DEF HandleBranchStall, Less1
<1>3. Stalls = branch_delay
  BY <1>1, NothingFound
<1>4. Stalls' = branch_delay'
  <2>1. CASE lastBranchCycleCount = info.instructionID
    BY <1>1, <1>2, <2>1 DEF Stalls, lastBranch
  <2>2. CASE lastBranchCycleCount # info.instructionID
    <3>1. ID' = ID /\ EX' = Nop /\ MEM' = EX
      BY <1>2 DEF BRANCH_stall, ID, EX, MEM, Bubble
    <3>2. Waits(ID', EX', MEM') = 0
      BY <1>1, <2>2, <3>1 DEF BranchOnEx, LoadUse, Waits, Conflicts, isLoad, Nop
    <3> QED
      BY <1>1, <1>2, <3>2 DEF Stalls, TypeOK
  <2> QED
    BY <2>1, <2>2
<1>5. Stalls' + 1 <= Stalls
  BY <1>1, <1>2, <1>3, <1>4 DEF Less1, TypeOK
<1> QED
  BY <1>1, <1>2, <1>5, StallPays

\* The stages are held; so is the delay.
LEMMA DCacheMissCost ==
  ASSUME TypeOK, TypeOK', CostInv, DCacheMiss
  PROVE  CostInv'
<1>1. /\ EndOfCycle /\ status # "HALT" /\ pipe' = stall_IF_ID_EX_MEM_stage(pipe)
      /\ dcache_delay' = Less1(dcache_delay) /\ icache_delay' = Less1(icache_delay)
      /\ UNCHANGED <<info, lastBranch, exceptions, din, accessed>>
      /\ branch_delay' = branch_delay
  BY DEF DCacheMiss, Control, TypeOK, Less1
<1>2. dcache_delay > 0
  BY DEF DCacheMiss, Control, ControlSignal, TypeOK
<1>3. ID' = ID /\ EX' = EX /\ MEM' = MEM
  BY <1>1, HoldStages DEF TypeOK, ID, EX, MEM
<1>4. Stalls' = Stalls
  BY <1>1, <1>3 DEF Stalls, lastBranch
<1>5. din' = din /\ info' = info /\ nopArithmeticExcept' = nopArithmeticExcept
  BY <1>1 DEF exceptions
<1> QED
  BY <1>1, <1>2, <1>4, <1>5, StallsType, HoldPays

\* Nothing in ID waits for nothing.
LEMMA EmptyID ==
  ASSUME TypeOK, TypeOK', ID' = Nop, branch_delay' <= branch_delay
  PROVE  Stalls' <= Stalls /\ LoadInID' = 0
<1>1. Waits(ID', EX', MEM') = 0
  BY WaitsBound DEF Waits, Conflicts, Reg, Nop, isBranch
<1>2. Stalls' = branch_delay'
  <2>1. branch_delay' \in Nat
    BY DEF TypeOK
  <2>2. Stalls' = IF lastBranchCycleCount' # info'.instructionID /\ 0 > branch_delay'
                  THEN 0 ELSE branch_delay'
    BY <1>1 DEF Stalls
  <2> DEFINE b == branch_delay'
  <2>3. b \in Nat /\ ((Stalls' = 0 /\ 0 > b) \/ Stalls' = b)
    BY <2>1, <2>2
  <2> HIDE DEF b
  <2>4. Stalls' = b
    BY <2>3
  <2> QED
    BY <2>4 DEF b
<1>3. Stalls >= branch_delay /\ Stalls \in Nat /\ branch_delay \in Nat
  BY StallsType DEF TypeOK
<1>4. branch_delay' \in Nat
  BY DEF TypeOK
<1>5. Stalls' <= Stalls
  <2> DEFINE b == branch_delay'
  <2>1. b \in Nat /\ b <= branch_delay /\ Stalls' = b
    BY <1>2, <1>4
  <2> HIDE DEF b
  <2> QED
    BY <1>3, <2>1
<1>6. LoadInID' = 0
  BY DEF LoadInID, isLoad, Nop
<1> QED
  BY <1>5, <1>6

\* A word that is no branch waits for a load at most.
LEMMA PlainID ==
  ASSUME TypeOK, TypeOK', ~isBranch(ID'), EX' = ID, branch_delay' <= branch_delay
  PROVE  Stalls' <= LoadInID + Stalls
<1>1. Waits(ID', EX', MEM') <= LoadInID /\ Waits(ID', EX', MEM') \in 0 .. 1
  BY WaitsBound DEF LoadInID
<1>2. Stalls' <= Waits(ID', EX', MEM') + branch_delay'
  <2> DEFINE w == Waits(ID', EX', MEM')
             b == branch_delay'
  <2>1. w \in Nat /\ b \in Nat /\ (Stalls' = w \/ Stalls' = b)
    BY <1>1 DEF TypeOK, Stalls
  <2> HIDE DEF w, b
  <2>2. Stalls' <= w + b
    BY <2>1
  <2> QED
    BY <2>2 DEF w, b
<1>3. /\ Stalls >= branch_delay /\ Stalls \in Nat /\ branch_delay \in Nat
      /\ LoadInID \in {0, 1}
  BY StallsType DEF TypeOK
<1>4. branch_delay' \in Nat /\ Stalls' \in Nat
  BY StagesNext DEF TypeOK
<1>5. Stalls' <= LoadInID + Stalls
  <2> DEFINE w == Waits(ID', EX', MEM')
             b == branch_delay'
             s == Stalls'
  <2>1. /\ w \in Nat /\ b \in Nat /\ s \in Nat /\ w <= LoadInID /\ b <= branch_delay
        /\ s <= w + b
    BY <1>1, <1>2, <1>4
  <2> HIDE DEF w, b, s
  <2>2. s <= LoadInID + Stalls
    BY <1>3, <2>1
  <2> QED
    BY <2>2 DEF s
<1> QED
  BY <1>5

LEMMA BDelayFalls ==
  ASSUME TypeOK, branch_delay' = Less1(branch_delay)
  PROVE  branch_delay' <= branch_delay
  BY DEF Less1, TypeOK

\* A stall of IF pays with the I-cache delay.
LEMMA StallIFPays ==
  ASSUME TypeOK, TypeOK', CostInv, EndOfCycle, status # "HALT",
         din' = din, info' = info, pipe' = stall_IF_stage(pipe),
         icache_delay > 0, icache_delay' = Less1(icache_delay),
         branch_delay' = Less1(branch_delay), NopToCome' <= NopToCome,
         execute_DCACHE_write_Check
  PROVE  CostInv'
<1>1. pipe'.ifInstr = pipe.ifInstr /\ pipe'.idInstr = Bubble
  BY DEF stall_IF_stage
<1>2. ID' = Nop /\ InIF' = InIF /\ BranchNotLast'
  BY <1>1, HaltNotBubble DEF ID, InIF, BranchNotLast, Bubble
<1>3. Stalls' <= Stalls /\ LoadInID' = 0
  BY <1>2, BDelayFalls, EmptyID
<1>4. Work' <= Work
  <2> DEFINE s == Stalls'
             n == NopToCome'
  <2>1. /\ s \in Nat /\ s <= Stalls /\ n \in Nat /\ n <= NopToCome
        /\ Work' = InIF + 0 + n + s
        /\ InIF \in Nat /\ LoadInID \in Nat /\ NopToCome \in Nat /\ Stalls \in Nat
    BY <1>2, <1>3, StallsType, StagesNext DEF Work, NopToCome
  <2> HIDE DEF s, n
  <2> QED
    BY <2>1 DEF Work
<1>5. icache_delay' = icache_delay - 1
  BY DEF Less1
<1> QED
  BY <1>2, <1>4, <1>5, MovePays

LEMMA ICacheMissCost ==
  ASSUME TypeOK, TypeOK', CostInv, ICacheMiss
  PROVE  CostInv'
<1>1. /\ EndOfCycle /\ status # "HALT" /\ pipe' = stall_IF_stage(pipe)
      /\ icache_delay' = Less1(icache_delay) /\ branch_delay' = Less1(branch_delay)
      /\ UNCHANGED <<info, exceptions, din>> /\ execute_DCACHE_write_Check
  BY DEF ICacheMiss, Control
<1>2. icache_delay > 0
  BY DEF ICacheMiss, Control, ControlSignal
<1>3. NopToCome' <= NopToCome /\ din' = din /\ info' = info
  BY <1>1, StallsType DEF NopToCome, exceptions
<1> QED
  BY <1>1, <1>2, <1>3, StallIFPays

\* The victim leaves IF, which it has paid for, and two nops follow it.
LEMMA OverflowCost ==
  ASSUME TypeOK, TypeOK', CostInv, ExceptionInv, ArithmeticOverflow
  PROVE  CostInv'
<1>1. /\ EndOfCycle /\ status # "HALT" /\ (info.isOverflow \/ nopArithmeticExcept > 0)
      /\ icache_delay' = Less1(icache_delay) /\ branch_delay' = Less1(branch_delay)
      /\ din' = din /\ execute_DCACHE_write_Check
  BY DEF ArithmeticOverflow, Control, ControlSignal
<1>2. nopArithmeticExcept \in 0 .. 2 /\ OverflowNops \in 1 .. 2
  BY DEF TypeOK, OverflowNops
<1>3. CASE Less1(icache_delay) > 0
  <2>1. /\ pipe' = stall_IF_stage(pipe) /\ info' = info
        /\ nopArithmeticExcept' = OverflowNops
    BY <1>3 DEF ArithmeticOverflow
  <2>2. icache_delay > 0
    BY <1>3 DEF Less1, TypeOK
  <2>3. NopToCome' <= NopToCome
    BY <1>2, <2>1 DEF NopToCome, OverflowNops
  <2> QED
    BY <1>1, <2>1, <2>2, <2>3, StallIFPays
<1>4. CASE Less1(icache_delay) = 0
  <2>1. /\ pipe' = moveAllForward(pipe) /\ info' = OverflowTaken
        /\ nopArithmeticExcept' = OverflowNops - 1
    BY <1>4 DEF ArithmeticOverflow, insertNopException, Less1
  <2>2. /\ info'.isHalt = info.isHalt
        /\ pipe'.ifInstr = Bubble /\ pipe'.idInstr = pipe.ifInstr /\ EX' = ID
    BY <2>1 DEF OverflowTaken, moveAllForward, EX, ID, TypeOK
  <2>3. InIF' = 0
    BY <2>2 DEF InIF, Bubble
  <2>4. CASE OverflowNops = 2
    <3>1. nopArithmeticExcept # 1 /\ OverflowInIF
      BY <1>1, <1>2, <2>4 DEF OverflowNops, ExceptionInv, OneException, OverflowInIF
    <3>2. pipe.ifInstr.id \in raised /\ pipe.ifInstr.instr.op \in {"RType", "IType"}
      BY <3>1 DEF ExceptionInv, VictimInPlace
    <3>3. InIF = 2 /\ NopToCome = 0 /\ NopToCome' = 1
      BY <2>1, <2>4, <3>1, <3>2, NoIdNotRaised DEF InIF, NopToCome
    <3>4. ~isBranch(ID') /\ LoadInID' = 0 /\ BranchNotLast'
      BY <2>2, <3>2 DEF isBranch, isLoad, LoadInID, BranchNotLast, ID
    <3>5. Stalls' <= LoadInID + Stalls
      BY <1>1, <2>2, <3>4, BDelayFalls, PlainID
    <3>6. Work' + 1 <= Work
      <4> DEFINE s == Stalls'
      <4>1. /\ s \in Nat /\ s <= LoadInID + Stalls /\ Work' = 0 + 0 + 1 + s
            /\ LoadInID \in Nat /\ Stalls \in Nat /\ Work = 2 + LoadInID + 0 + Stalls
        BY <2>3, <3>3, <3>4, <3>5, StallsType, StagesNext DEF Work
      <4> HIDE DEF s
      <4> QED
        BY <4>1
    <3> QED
      BY <1>1, <2>1, <2>2, <3>4, <3>6, MovePays
  <2>5. CASE OverflowNops = 1
    <3>1. nopArithmeticExcept = 1
      BY <1>2, <2>5 DEF OverflowNops
    <3>2. pipe.ifInstr = Bubble
      BY <3>1 DEF ExceptionInv, VictimInPlace, OverflowInID
    <3>3. NopToCome = 1 /\ NopToCome' = 0 /\ ID' = Nop /\ BranchNotLast'
      BY <2>1, <2>2, <2>5, <3>1, <3>2, HaltNotBubble DEF NopToCome, ID, Bubble,
         BranchNotLast
    <3>4. Stalls' <= Stalls /\ LoadInID' = 0
      BY <1>1, <3>3, BDelayFalls, EmptyID
    <3>5. Work' + 1 <= Work
      <4> DEFINE s == Stalls'
      <4>1. /\ s \in Nat /\ s <= Stalls /\ Work' = 0 + 0 + 0 + s /\ InIF \in Nat
            /\ LoadInID \in Nat /\ Stalls \in Nat /\ Work = InIF + LoadInID + 1 + Stalls
        BY <2>3, <3>3, <3>4, StallsType, StagesNext DEF Work
      <4> HIDE DEF s
      <4> QED
        BY <4>1
    <3> QED
      BY <1>1, <2>1, <2>2, <3>3, <3>5, MovePays
  <2> QED
    BY <1>2, <2>4, <2>5
<1>5. Less1(icache_delay) \in Nat
  BY Less1Type DEF TypeOK
<1> QED
  BY <1>3, <1>4, <1>5

LEMMA IllegalCost ==
  ASSUME TypeOK, TypeOK', CostInv, ExceptionInv, IllegalInstruction
  PROVE  CostInv'
<1>1. /\ EndOfCycle /\ status # "HALT" /\ (~info.isValid \/ nopIllegalInstruct > 0)
      /\ icache_delay' = Less1(icache_delay) /\ branch_delay' = Less1(branch_delay)
      /\ din' = din /\ nopArithmeticExcept' = nopArithmeticExcept
      /\ execute_DCACHE_write_Check
  BY DEF IllegalInstruction, Control, ControlSignal
<1>2. NopToCome' = NopToCome /\ NopToCome \in Nat
  BY <1>1, StallsType DEF NopToCome
<1>3. CASE Less1(icache_delay) > 0
  <2>1. pipe' = stall_IF_stage(pipe) /\ info' = info
    BY <1>3 DEF IllegalInstruction
  <2>2. icache_delay > 0
    BY <1>3 DEF Less1, TypeOK
  <2>3. NopToCome' <= NopToCome
    BY <1>2
  <2> QED
    BY <1>1, <2>1, <2>2, <2>3, StallIFPays
<1>4. CASE Less1(icache_delay) = 0
  <2>1. pipe' = moveAllForward(pipe) /\ info' = IllegalTaken
    BY <1>4 DEF IllegalInstruction, insertNopException
  <2>2. /\ info'.isHalt = info.isHalt
        /\ pipe'.ifInstr = Bubble /\ pipe'.idInstr = pipe.ifInstr /\ EX' = ID
    BY <2>1 DEF IllegalTaken, moveAllForward, EX, ID, TypeOK
  <2>3. InIF' = 0
    BY <2>2 DEF InIF, Bubble
  <2>4. IllegalInIF
    BY <1>1 DEF ExceptionInv, OneException, IllegalInIF, TypeOK
  <2>5. pipe.ifInstr.id \in raised /\ pipe.ifInstr.instr.op = "Illegal"
    BY <2>4 DEF ExceptionInv, VictimInPlace
  <2>6. InIF = 2
    BY <2>5, NoIdNotRaised DEF InIF
  <2>7. ~isBranch(ID') /\ LoadInID' = 0 /\ BranchNotLast'
    BY <2>2, <2>5 DEF isBranch, isLoad, LoadInID, BranchNotLast, ID
  <2>8. Stalls' <= LoadInID + Stalls
    BY <1>1, <2>2, <2>7, BDelayFalls, PlainID
  <2>9. Work' + 1 <= Work
    <3> DEFINE s == Stalls'
    <3>1. /\ s \in Nat /\ s <= LoadInID + Stalls /\ Work' = 0 + 0 + NopToCome + s
          /\ LoadInID \in Nat /\ Stalls \in Nat
          /\ Work = 2 + LoadInID + NopToCome + Stalls
      BY <1>2, <2>3, <2>6, <2>7, <2>8, StallsType, StagesNext DEF Work
    <3> HIDE DEF s
    <3> QED
      BY <1>2, <3>1
  <2> QED
    BY <1>1, <2>1, <2>2, <2>7, <2>9, MovePays
<1>5. Less1(icache_delay) \in Nat
  BY Less1Type DEF TypeOK
<1> QED
  BY <1>3, <1>4, <1>5

\* While the pipeline drains, the halt word comes a stage nearer to WB.
LEMMA HaltInPipelineCost ==
  ASSUME TypeOK, TypeOK', CostInv, ExceptionInv, InterlockInv, HaltInPipeline
  PROVE  CostInv'
<1>1. /\ EndOfCycle /\ status # "HALT" /\ info.isHalt
      /\ icache_delay' = Less1(icache_delay) /\ branch_delay' = Less1(branch_delay)
      /\ UNCHANGED <<info, exceptions, din>> /\ execute_DCACHE_write_Check
      /\ pipe' = moveAllForward(pipe)
  BY DEF HaltInPipeline, Control, ControlSignal, HaltFetched
<1>2. /\ pipe'.ifInstr = Bubble /\ pipe'.idInstr = pipe.ifInstr /\ EX' = ID
      /\ din' = din /\ info'.isHalt = info.isHalt
      /\ nopArithmeticExcept' = nopArithmeticExcept
  BY <1>1 DEF moveAllForward, EX, ID, exceptions
<1>3. InIF' = 0 /\ NopToCome' = NopToCome
  BY <1>2 DEF InIF, Bubble, NopToCome
<1>4. pipe.ifInstr.instr \in {Nop, HALT_INSTRUCTION}
  BY <1>1 DEF InterlockInv, LastFetched
<1>5. ~isBranch(ID') /\ LoadInID' = 0 /\ BranchNotLast'
  BY <1>2, <1>4 DEF isBranch, isLoad, LoadInID, BranchNotLast, ID, Nop, HALT_INSTRUCTION
<1>6. Stalls' <= LoadInID + Stalls
  BY <1>1, <1>2, <1>5, BDelayFalls, PlainID
<1>7. Work' + 0 <= Work
  <2> DEFINE s == Stalls'
  <2>1. /\ s \in Nat /\ s <= LoadInID + Stalls /\ Work' = 0 + 0 + NopToCome + s
        /\ LoadInID \in Nat /\ Stalls \in Nat /\ NopToCome \in Nat /\ InIF \in Nat
    BY <1>3, <1>5, <1>6, StallsType, StagesNext DEF Work
  <2> HIDE DEF s
  <2> QED
    BY <2>1 DEF Work
<1>8. HaltOnItsWay'
  BY <1>1, <1>2, DrainMoves DEF CostInv
<1>9. ToDrain(pipe') + 1 <= ToDrain(pipe)
  <2>1. pipe.wbInstr.instr # HALT_INSTRUCTION
    BY <1>1 DEF CostInv, HaltOnItsWay
  <2>2. ToDrain(pipe) < 4 \/ pipe.ifInstr.instr = HALT_INSTRUCTION
    BY <1>1 DEF CostInv, HaltOnItsWay
  <2> QED
    BY <1>1, <2>1, <2>2 DEF ToDrain, moveAllForward
<1>10. Stages' + 1 <= Stages
  <2> DEFINE w == Work'
             t == ToDrain(pipe')
  <2>1. w \in Nat /\ t \in Nat /\ Work \in Nat /\ ToDrain(pipe) \in Nat
    BY StagesNext, StallsType
  <2>2. Stages' = w + t /\ Stages = Work + ToDrain(pipe)
    BY DEF Stages, ToDrain
  <2>3. w + 0 <= Work /\ t + 1 <= ToDrain(pipe)
    BY <1>7, <1>9
  <2> HIDE DEF w, t
  <2> QED
    BY <2>1, <2>2, <2>3
<1> QED
  BY <1>1, <1>2, <1>5, <1>8, <1>10, IDelayFalls, PaidBy, PaidIsBounded DEF CostInv

-----------------------------------------------------------------------------
(***************************************************************************)
(* A fetch pays with the budget of the instruction it brings.              *)
(***************************************************************************)
LEMMA FetchStages ==
  ASSUME TypeOK, NEW i \in Instr, NEW ovf \in BOOLEAN, NEW a \in Addr, FetchNew(i, ovf, a)
  PROVE  /\ pipe'.ifInstr.instr = i /\ pipe'.ifInstr.id = din
         /\ pipe'.idInstr = pipe.ifInstr
         /\ pipe'.exInstr = IF squashID THEN Bubble ELSE pipe.idInstr
         /\ pipe'.memInstr = IF squashEX /\ ~squashID THEN Bubble ELSE pipe.exInstr
         /\ pipe'.wbInstr = pipe.memInstr
  BY DEF FetchNew, Squashed, moveAllForward

LEMMA FetchDrains ==
  ASSUME TypeOK, CostInv, ExceptionInv,
         NEW i \in Instr, NEW ovf \in BOOLEAN, NEW a \in Addr, FetchNew(i, ovf, a)
  PROVE  HaltOnItsWay' /\ ToDrain(pipe') <= ToDrain(pipe)
<1>1. /\ EndOfCycle /\ status # "HALT" /\ executeInstruction(i, ovf)
  BY DEF FetchNew, Control
<1>2. pipe.wbInstr.instr # HALT_INSTRUCTION
  BY <1>1 DEF CostInv, HaltOnItsWay
<1>3. squashID => ID # HALT_INSTRUCTION
  BY DEF ExceptionInv, VictimInPlace, IllegalInID, HALT_INSTRUCTION
<1>4. squashEX => EX # HALT_INSTRUCTION
  BY DEF ExceptionInv, VictimInPlace, OverflowInEX, HALT_INSTRUCTION
<1>5. ToDrain(pipe') <= ToDrain(pipe)
  BY <1>2, <1>3, <1>4, FetchStages DEF ToDrain, ID, EX
<1>6. info'.isHalt => pipe'.ifInstr.instr = HALT_INSTRUCTION
  BY <1>1, FetchStages DEF executeInstruction
<1>7. pipe'.wbInstr.instr = HALT_INSTRUCTION => status' = "HALT"
  BY <1>1 DEF EndOfCycle
<1> QED
  BY <1>5, <1>6, <1>7 DEF HaltOnItsWay

\* Whatever enters ID waits for two cycles at most, and a load makes others wait for one.
LEMMA FetchWork ==
  ASSUME TypeOK, TypeOK', NEW i \in Instr, NEW ovf \in BOOLEAN, NEW a \in Addr,
         FetchNew(i, ovf, a)
  PROVE  Work' <= Work + 2
<1>1. branch_delay' = Less1(branch_delay) /\ nopArithmeticExcept' = nopArithmeticExcept
  BY DEF FetchNew
<1>2. InIF' = 2
  BY FetchStages DEF InIF, NoId, TypeOK
<1>3. NopToCome' = NopToCome
  BY <1>1 DEF NopToCome
<1>4. pipe'.idInstr = pipe.ifInstr
  BY FetchStages
<1>5. branch_delay' <= branch_delay
  BY <1>1, BDelayFalls
<1>6. LoadInID' + Stalls' <= InIF + Stalls
  <2>1. CASE pipe.ifInstr.id = NoId
    <3>1. ID' = Nop /\ InIF = 0
      BY <1>4, <2>1, WordBits DEF ID, InIF, Bubble
    <3>2. Stalls' <= Stalls /\ LoadInID' = 0
      BY <1>5, <3>1, EmptyID
    <3> DEFINE s == Stalls'
    <3>3. s <= Stalls /\ s \in Nat /\ Stalls \in Nat
      BY <3>2, StallsType, StagesNext
    <3>4. LoadInID' + Stalls' = 0 + s
      BY <3>2
    <3> HIDE DEF s
    <3> QED
      BY <3>1, <3>3, <3>4
  <2>2. CASE pipe.ifInstr.id # NoId
    <3> DEFINE w == Waits(ID', EX', MEM')
               b == branch_delay'
               s == Stalls'
               l == LoadInID'
    <3>1. w \in 0 .. 2 /\ l \in 0 .. 1 /\ (l = 1 => w \in 0 .. 1)
      BY WaitsBound DEF LoadInID, isLoad, isBranch
    <3>2. b \in Nat /\ (s = w \/ s = b)
      BY DEF TypeOK, Stalls
    <3>3. InIF = 2 /\ Stalls \in Nat /\ Stalls >= branch_delay /\ branch_delay \in Nat
      BY <2>2, StallsType DEF InIF, TypeOK
    <3>4. b <= branch_delay
      BY <1>5
    <3>5. LoadInID' + Stalls' = l + s
      OBVIOUS
    <3> HIDE DEF w, b, s, l
    <3> QED
      BY <3>1, <3>2, <3>3, <3>4, <3>5
  <2> QED
    BY <2>1, <2>2
<1>7. Work' <= Work + 2
  <2> DEFINE s == Stalls'
             l == LoadInID'
  <2>1. /\ s \in Nat /\ l \in Nat /\ l + s <= InIF + Stalls
        /\ InIF \in Nat /\ LoadInID \in Nat /\ NopToCome \in Nat /\ Stalls \in Nat
        /\ Work' = 2 + l + NopToCome + s
    BY <1>2, <1>3, <1>6, StallsType, StagesNext DEF Work, LoadInID
  <2> HIDE DEF s, l
  <2> QED
    BY <2>1 DEF Work
<1> QED
  BY <1>7

LEMMA FetchCost ==
  ASSUME TypeOK, TypeOK', CostInv, OrderInv, ExceptionInv,
         NEW i \in Instr, NEW ovf \in BOOLEAN, NEW a \in Addr, FetchNew(i, ovf, a)
  PROVE  CostInv'
<1>1. /\ EndOfCycle /\ icache_delay' \in {0, IMissLatency} /\ din' = din + 1
      /\ execute_DCACHE_write_Check /\ info'.instructionID = din
  BY DEF FetchNew, executeInstruction
<1>2. HaltOnItsWay' /\ ToDrain(pipe') <= ToDrain(pipe)
  BY FetchDrains
<1>3. BranchNotLast'
  BY <1>1, FetchStages DEF BranchNotLast, OrderInv, StagesBelow
<1>4. currentCycle' <= currentCycle + 1
  <2>1. currentCycle + 1 \in Nat /\ CycleModulus \in Nat \ {0}
    BY PipelineAssumption DEF TypeOK
  <2>2. currentCycle' = (currentCycle + 1) % CycleModulus
    BY <1>1 DEF EndOfCycle
  <2> QED
    BY <2>1, <2>2, WrappedBelow
<1>5. \/ Len(accessed') = Len(accessed) /\ dcache_delay' = Less1(dcache_delay)
      \/ /\ Len(accessed') = Len(accessed) + 1
         /\ dcache_delay' <= Less1(dcache_delay) + DMissLatency
  BY <1>1, AccessCost DEF TypeOK
<1>6. /\ din \in Nat /\ Len(accessed) \in Nat /\ dcache_delay \in Nat
      /\ currentCycle \in Nat /\ icache_delay \in Nat
  BY DEF TypeOK
<1>7. Less1(dcache_delay) \in Nat /\ Less1(dcache_delay) <= dcache_delay
  BY <1>6 DEF Less1
<1>8. /\ Budget(din, Len(accessed)) \in Nat
      /\ Budget(din + 1, Len(accessed)) = Budget(din, Len(accessed)) + 3 + IMissLatency
      /\ Budget(din + 1, Len(accessed) + 1)
           = Budget(din, Len(accessed)) + 3 + IMissLatency + DMissLatency
  <2>1. din + 1 \in Nat
    BY <1>6
  <2> QED
    BY <1>6, <2>1, BudgetGrows
<1>9. IMissLatency \in Nat /\ DMissLatency \in Nat
  BY PipelineAssumption
<1>10. /\ Work \in Nat /\ ToDrain(pipe) \in Nat /\ Stages = Work + ToDrain(pipe)
       /\ Owed = icache_delay + dcache_delay + Stages
       /\ currentCycle + Owed <= Budget(din, Len(accessed))
  BY StallsType DEF Stages, Owed, CostInv
<1>11. currentCycle' + Owed' <= Budget(din', Len(accessed'))
  <2> DEFINE c == currentCycle'
             d == dcache_delay'
             ic == icache_delay'
             w == Work'
             t == ToDrain(pipe')
             l == Less1(dcache_delay)
             b == Budget(din, Len(accessed))
  <2>1. /\ c \in Nat /\ d \in Nat /\ ic \in Nat /\ w \in Nat /\ t \in Nat /\ l \in Nat
        /\ b \in Nat
    <3>1. currentCycle' \in Nat /\ dcache_delay' \in Nat /\ icache_delay' \in Nat
      BY DEF TypeOK
    <3> QED
      BY <1>7, <1>8, <3>1, StagesNext
  <2>2. /\ c <= currentCycle + 1 /\ ic <= IMissLatency /\ w <= Work + 2
        /\ t <= ToDrain(pipe) /\ l <= dcache_delay
        /\ currentCycle + icache_delay + dcache_delay + Work + ToDrain(pipe) <= b
    BY <1>1, <1>2, <1>4, <1>6, <1>7, <1>9, <1>10, FetchWork
  <2>3. \/ Budget(din', Len(accessed')) = b + 3 + IMissLatency /\ d = l
        \/ /\ Budget(din', Len(accessed')) = b + 3 + IMissLatency + DMissLatency
           /\ d <= l + DMissLatency
    BY <1>1, <1>5, <1>8
  <2>4. Owed' = ic + d + (w + t)
    BY DEF Owed, Stages, ToDrain
  <2> HIDE DEF c, d, ic, w, t, l, b
  <2>5. \/ /\ Budget(din', Len(accessed')) = b + 3 + IMissLatency
           /\ c + (ic + d + (w + t)) <= b + 3 + IMissLatency
        \/ /\ Budget(din', Len(accessed')) = b + 3 + IMissLatency + DMissLatency
           /\ c + (ic + d + (w + t)) <= b + 3 + IMissLatency + DMissLatency
    BY <1>6, <1>9, <1>10, <2>1, <2>2, <2>3
  <2> QED
    BY <2>4, <2>5 DEF c
<1> QED
  BY <1>2, <1>3, <1>11 DEF CostInv

LEMMA CostInvariant == Spec => []CostInv
<1>1. Init => CostInv
  <2>1. SUFFICES ASSUME Init PROVE CostInv
    OBVIOUS
  <2>2. /\ ID = Nop /\ EX = Nop /\ MEM = Nop /\ InIF = 0 /\ ToDrain(pipe) = 4
        /\ pipe.wbInstr.instr = Nop
    BY <2>1 DEF Init, EmptyPipe, Bubble, ID, EX, MEM, InIF, ToDrain, HALT_INSTRUCTION, Nop
  <2>3. LoadInID = 0 /\ Waits(ID, EX, MEM) = 0 /\ ~isBranch(ID)
    BY <2>2 DEF LoadInID, Waits, isLoad, isBranch, Nop
  <2>4. Stalls = 0 /\ NopToCome = 0
    BY <2>1, <2>3 DEF Init, Stalls, NopToCome
  <2>5. Owed = 4
    BY <2>1, <2>2, <2>3, <2>4 DEF Init, Owed, Stages, Work
  <2>6. din = 0 /\ Len(accessed) = 0 /\ currentCycle = 0 /\ ~info.isHalt
    BY <2>1 DEF Init
  <2>7. Budget(0, 0) = 4
    BY PipelineAssumption DEF Budget
  <2>8. HaltOnItsWay /\ BranchNotLast
    BY <2>2, <2>3, <2>6 DEF HaltOnItsWay, BranchNotLast, Nop, HALT_INSTRUCTION
  <2> QED
    BY <2>5, <2>6, <2>7, <2>8 DEF CostInv
<1>2. TypeOK /\ TypeOK' /\ OrderInv /\ ExceptionInv /\ InterlockInv /\ CostInv
      /\ [Next]_vars => CostInv'
  <2>1. SUFFICES ASSUME TypeOK, TypeOK', OrderInv, ExceptionInv, InterlockInv, CostInv,
                        [Next]_vars
                 PROVE  CostInv'
    OBVIOUS
  <2>2. CASE BranchStallOnEx
    BY <2>1, <2>2, BranchStallOnExCost
  <2>3. CASE LoadUseStall
    BY <2>1, <2>3, LoadUseCost
  <2>4. CASE BranchStallOnMem
    BY <2>1, <2>4, BranchStallOnMemCost
  <2>5. CASE BranchStallDelay
    BY <2>1, <2>5, BranchStallDelayCost
  <2>6. CASE ArithmeticOverflow
    BY <2>1, <2>6, OverflowCost
  <2>7. CASE IllegalInstruction
    BY <2>1, <2>7, IllegalCost
  <2>8. ASSUME NEW i \in Instr, NEW ovf \in BOOLEAN, NEW a \in Addr, FetchNew(i, ovf, a)
        PROVE  CostInv'
    BY <2>1, <2>8, FetchCost
  <2>9. CASE HaltInPipeline
    BY <2>1, <2>9, HaltInPipelineCost
  <2>10. CASE ICacheMiss
    BY <2>1, <2>10, ICacheMissCost
  <2>11. CASE DCacheMiss
    BY <2>1, <2>11, DCacheMissCost
  <2>12. CASE UNCHANGED vars
    BY <2>1, <2>12 DEF vars, delays, lastBranch, exceptions, history, CostInv, HaltOnItsWay,
       BranchNotLast, Owed, Stages, Work, InIF, LoadInID, NopToCome, Stalls, ToDrain,
       ID, EX, MEM
  <2>13. QED
    BY <2>1, <2>2, <2>3, <2>4, <2>5, <2>6, <2>7, <2>8, <2>9, <2>10, <2>11, <2>12
       DEF Next, Halted
<1>3. QED
  BY <1>1, <1>2, TypeCorrect, OrderInvariant, ExceptionInvariant, InterlockInvariant, PTL
     DEF Spec

\* An instruction costs its cycle, two stalls and its misses at most, for every mix of
\* hazards, misses and exceptions in programs of any length.
THEOREM CycleBoundCorrect == Spec => []CycleBound
<1>1. TypeOK /\ CostInv => CycleBound
  <2>1. SUFFICES ASSUME TypeOK, CostInv PROVE CycleBound
    OBVIOUS
  <2>2. /\ Owed \in Nat /\ currentCycle \in Nat /\ din \in Nat /\ Len(accessed) \in Nat
        /\ currentCycle + Owed <= Budget(din, Len(accessed))
    BY <2>1, StallsType DEF TypeOK, CostInv
  <2>3. Budget(din, Len(accessed)) \in Nat
    BY <2>2, BudgetGrows
  <2>4. currentCycle <= Budget(din, Len(accessed))
    BY <2>2, <2>3
  <2> QED
    BY <2>4 DEF CycleBound, Budget
<1>2. QED
  BY <1>1, TypeCorrect, CostInvariant, PTL

-----------------------------------------------------------------------------
(***************************************************************************)
(* The count of stalls.  The tests of Control are off from the time a      *)
(* branch is noted to the next fetch; a load whose register is compared    *)
(* with the word in ID is in the history exactly if the tests are off.     *)
(***************************************************************************)
Off == lastBranchCycleCount = info.instructionID

FromEX == isLoad(EX) /\ Feeds(EX)
FromMEM == isBranch(ID) /\ isLoad(MEM) /\ Feeds(MEM)

\* A load is ahead of the word in ID, whatever their registers.
BehindEX == isLoad(EX) /\ pipe.idInstr.id # NoId
BehindMEM == isBranch(ID) /\ isLoad(MEM)
PairOf(s) == [load |-> s.id, user |-> pipe.idInstr.id, uses |-> s.instr.rt \in Uses(ID)]

\* BLEZ and BGTZ have no second register.
Plain(i) == i.op = "Branch1" => i.rt = 0

PlainStages ==
  /\ Plain(pipe.ifInstr.instr) /\ Plain(ID) /\ Plain(EX) /\ Plain(MEM)

Counted ==
  /\ IsFiniteSet(loadPairs) /\ nrLoadUseStalls \in Nat
  /\ Cardinality(LoadUses) <= nrLoadUseStalls
  /\ nrLoadUseStalls <= Cardinality(loadPairs)

\* What is in IF has not been in ID.
NotYetInID ==
  \A p \in loadPairs :
    p.user < din /\ (pipe.ifInstr.id # NoId => p.user < pipe.ifInstr.id)

\* The last part is for a branch that waits for the word in EX: only then is a load
\* in MEM counted without a look at its register, and only once.
Known(b) ==
  /\ FromEX => (PairOf(pipe.exInstr) \in loadPairs <=> b)
  /\ FromMEM => (PairOf(pipe.memInstr) \in loadPairs <=> b)
  /\ BehindMEM /\ Feeds(EX) /\ PairOf(pipe.memInstr) \in loadPairs => b

\* A branch that has been noted stays as long as the load is in EX, exceptions or not.
DelayHolds == Off /\ FromEX => branch_delay = 2

\* No branch is in ID while the two words before it depend on each other.
Apart == isLoad(MEM) /\ MEM.rt # 0 /\ Reg(MEM.rt, EX) => ~isBranch(ID)

CountInv ==
  PlainStages /\ Counted /\ NotYetInID /\ Known(Off) /\ DelayHolds /\ Apart

LEMMA RealPair ==
  ASSUME TypeOK, OrderInv
  PROVE  /\ FromEX => BehindEX
         /\ FromMEM => BehindMEM
         /\ BehindEX => /\ pipe.exInstr.id \in Nat /\ pipe.idInstr.id \in Nat
                        /\ pipe.exInstr.id < pipe.idInstr.id
         /\ BehindMEM => /\ pipe.memInstr.id \in Nat /\ pipe.idInstr.id \in Nat
                         /\ pipe.memInstr.id < pipe.idInstr.id
         /\ isLoad(EX) /\ isLoad(MEM) => pipe.memInstr.id < pipe.exInstr.id
<1>1. \A s \in {pipe.idInstr, pipe.exInstr, pipe.memInstr} :
        s \in Slot /\ (s.id \in Nat \/ s = Bubble)
  BY StageTypes, SlotFields DEF TypeOK, NoId
<1>2. \A i : ~ (i.rt # 0 /\ Reg(i.rt, Bubble.instr))
  BY DEF Bubble, Nop, Reg
<1>3. FromEX \/ BehindEX \/ BehindMEM => pipe.idInstr.id \in Nat
  BY <1>1, <1>2, BubbleNoHazard DEF FromEX, BehindEX, BehindMEM, Feeds, ID, NoId
<1>4. (isLoad(EX) => pipe.exInstr.id \in Nat) /\ (isLoad(MEM) => pipe.memInstr.id \in Nat)
  BY <1>1, BubbleNoHazard DEF EX, MEM
<1>5. (FromEX => BehindEX) /\ (FromMEM => BehindMEM)
  BY <1>3 DEF FromEX, FromMEM, BehindEX, BehindMEM, NoId
<1> QED
  BY <1>3, <1>4, <1>5 DEF BehindEX, BehindMEM, OrderInv, ProgramOrder, Before, NoId

LEMMA PairsNow ==
  ASSUME TypeOK, OrderInv
  PROVE  /\ BehindEX => PairOf(pipe.exInstr) \in LoadPairsNow
         /\ BehindMEM => PairOf(pipe.memInstr) \in LoadPairsNow
         /\ \A p \in LoadPairsNow :
              \/ BehindEX /\ p = PairOf(pipe.exInstr)
              \/ BehindMEM /\ p = PairOf(pipe.memInstr)
<1>1. LoadPairsNow =
        {PairOf(s) : s \in {t \in {pipe.exInstr, pipe.memInstr} :
                              /\ isLoad(t.instr) /\ pipe.idInstr.id # NoId
                              /\ t = pipe.memInstr => isBranch(ID)}}
  BY DEF LoadPairsNow, PairOf
<1>2. BehindEX => pipe.exInstr # pipe.memInstr
  <2>1. SUFFICES ASSUME BehindEX, pipe.exInstr = pipe.memInstr
                 PROVE  FALSE
    OBVIOUS
  <2>2. pipe.memInstr.id < pipe.exInstr.id /\ pipe.exInstr.id \in Nat
    BY <2>1, RealPair DEF BehindEX, EX, MEM
  <2> QED
    BY <2>1, <2>2
<1>3. BehindMEM => pipe.idInstr.id # NoId
  BY RealPair DEF NoId
<1>4. ASSUME NEW t \in {pipe.exInstr, pipe.memInstr}
      PROVE  (/\ isLoad(t.instr) /\ pipe.idInstr.id # NoId
              /\ t = pipe.memInstr => isBranch(ID))
             <=> (\/ BehindEX /\ t = pipe.exInstr
                  \/ BehindMEM /\ t = pipe.memInstr)
  BY <1>2, <1>3 DEF BehindEX, BehindMEM, EX, MEM
<1> QED
  BY <1>1, <1>4

\* A pair in which the load is used is one that Control looks for.
LEMMA UsedPairs ==
  /\ BehindEX /\ PairOf(pipe.exInstr).uses => FromEX
  /\ BehindMEM /\ PairOf(pipe.memInstr).uses => FromMEM
<1>1. PairOf(pipe.exInstr).uses <=> EX.rt \in Uses(ID)
  BY DEF PairOf, EX
<1>2. PairOf(pipe.memInstr).uses <=> MEM.rt \in Uses(ID)
  BY DEF PairOf, MEM
<1> QED
  BY <1>1, <1>2, UsesFeed DEF BehindEX, BehindMEM, FromEX, FromMEM

\* With the tests off, only the branch that was noted can wait for a load.
LEMMA OffWaits ==
  ASSUME TypeOK, OrderInv, InterlockInv, BranchNotLast, Off, FromEX \/ FromMEM
  PROVE  Waiting
<1>1. info.instructionID > 0 /\ pipe.idInstr.id \in Nat
  BY RealPair, TwoFetched DEF InterlockInv, NoId
<1>2. Noted
  BY <1>1 DEF Noted, Off
<1>3. ~Waiting => /\ pipe.idInstr.id = info.instructionID
                  /\ isLoad(EX) => pipe.exInstr.id = info.instructionID
  BY <1>1, <1>2 DEF InterlockInv, NothingMissed, NoId
<1>4. FromEX => Waiting
  BY <1>3, RealPair DEF FromEX
<1>5. FromMEM => Waiting
  BY <1>1, <1>3 DEF FromMEM, BranchNotLast
<1> QED
  BY <1>4, <1>5

LEMMA OffFindsNothing ==
  ASSUME TypeOK, OrderInv, InterlockInv, BranchNotLast, Off
  PROVE  ~BranchOnEx /\ ~LoadUse /\ ~BranchOnMem
<1>1. BranchOnMem => FromMEM
  BY DEF BranchOnMem, FromMEM, Feeds
<1> QED
  BY <1>1, OffWaits DEF BranchOnEx, LoadUse, BranchOnMem, Off, Waiting

LEMMA OnFindsAll ==
  ASSUME ~Off, ~BranchOnEx, ~LoadUse, ~BranchOnMem
  PROVE  ~FromEX /\ ~FromMEM
  BY DEF Off, LoadUse, BranchOnMem, FromEX, FromMEM, Feeds

\* The pairs that a cycle adds are pairs with the word in ID.
LEMMA PairsBelowIF ==
  ASSUME TypeOK, OrderInv, CountInv, EndOfCycle
  PROVE  /\ loadPairs \subseteq loadPairs'
         /\ IsFiniteSet(loadPairs')
         /\ \A p \in loadPairs' :
              p.user < din /\ (pipe.ifInstr.id # NoId => p.user < pipe.ifInstr.id)
<1>1. loadPairs' = loadPairs \cup LoadPairsNow
  BY DEF EndOfCycle
<1>2. /\ pipe.idInstr.id < din
      /\ pipe.idInstr.id # NoId /\ pipe.ifInstr.id # NoId
         => pipe.idInstr.id < pipe.ifInstr.id
  BY DEF OrderInv, StagesBelow, ProgramOrder, Before
<1>3. \A p \in LoadPairsNow : p.user = pipe.idInstr.id /\ pipe.idInstr.id # NoId
  BY PairsNow, RealPair DEF PairOf, NoId
<1>4. IsFiniteSet({PairOf(pipe.exInstr), PairOf(pipe.memInstr)})
  <2>1. IsFiniteSet({PairOf(pipe.exInstr)}) /\ IsFiniteSet({PairOf(pipe.memInstr)})
    BY FS_Singleton
  <2>2. IsFiniteSet({PairOf(pipe.exInstr)} \cup {PairOf(pipe.memInstr)})
    BY <2>1, FS_Union
  <2>3. {PairOf(pipe.exInstr), PairOf(pipe.memInstr)}
          = {PairOf(pipe.exInstr)} \cup {PairOf(pipe.memInstr)}
    OBVIOUS
  <2> QED
    BY <2>2, <2>3
<1>5. LoadPairsNow \subseteq {PairOf(pipe.exInstr), PairOf(pipe.memInstr)}
  BY PairsNow
<1>6. IsFiniteSet(loadPairs')
  BY <1>1, <1>4, <1>5, FS_Subset, FS_Union DEF CountInv, Counted
<1> QED
  BY <1>1, <1>2, <1>3, <1>6 DEF CountInv, NotYetInID

\* A cycle in which the tests find nothing adds no pair in which the load is used.
LEMMA NoneNew ==
  ASSUME TypeOK, OrderInv, CountInv, EndOfCycle, ~BranchOnEx, ~LoadUse, ~BranchOnMem,
         nrLoadUseStalls' = nrLoadUseStalls
  PROVE  Counted'
<1>1. loadPairs' = loadPairs \cup LoadPairsNow
  BY DEF EndOfCycle
<1>2. \A p \in LoadPairsNow : p.uses => p \in loadPairs
  <2>1. CASE Off
    BY <2>1, PairsNow, UsedPairs DEF CountInv, Known
  <2>2. CASE ~Off
    BY <2>2, PairsNow, UsedPairs, OnFindsAll
  <2> QED
    BY <2>1, <2>2
<1>3. LoadUses' = LoadUses
  BY <1>1, <1>2 DEF LoadUses
<1>4. Cardinality(loadPairs) <= Cardinality(loadPairs')
  BY PairsBelowIF, FS_Subset
<1>5. Cardinality(loadPairs) \in Nat /\ Cardinality(loadPairs') \in Nat
  BY PairsBelowIF, FS_CardinalityType DEF CountInv, Counted
<1> QED
  BY <1>3, <1>4, <1>5, PairsBelowIF DEF CountInv, Counted

\* How a set grows with an element.
LEMMA GrowsByOne ==
  ASSUME NEW R, IsFiniteSet(R), NEW z
  PROVE  /\ IsFiniteSet(R \cup {z})
         /\ Cardinality(R) \in Nat /\ Cardinality(R \cup {z}) \in Nat
         /\ Cardinality(R \cup {z}) <= Cardinality(R) + 1
         /\ z \notin R => Cardinality(R \cup {z}) = Cardinality(R) + 1
<1>1. Cardinality(R) \in Nat
  BY FS_CardinalityType
<1>2. CASE z \in R
  <2>1. R \cup {z} = R
    BY <1>2
  <2>2. Cardinality(R) <= Cardinality(R) + 1
    BY <1>1
  <2> QED
    BY <1>1, <1>2, <2>1, <2>2
<1>3. CASE z \notin R
  <2>1. IsFiniteSet(R \cup {z}) /\ Cardinality(R \cup {z}) = Cardinality(R) + 1
    BY <1>3, FS_AddElement
  <2> QED
    BY <1>1, <2>1
<1> QED
  BY <1>2, <1>3

\* A cycle in which they find something counts the pairs that Control looks for, and
\* perhaps a load in MEM behind which a branch waits for the word in EX anyway.
LEMMA AllNew ==
  ASSUME TypeOK, OrderInv, CountInv, EndOfCycle, ~Off, NEW inMEM \in BOOLEAN,
         FromMEM => inMEM,
         inMEM => BehindMEM /\ (FromMEM \/ Feeds(EX)),
         nrLoadUseStalls' = nrLoadUseStalls + (IF FromEX THEN 1 ELSE 0)
                                            + (IF inMEM THEN 1 ELSE 0)
  PROVE  /\ Counted'
         /\ FromEX => PairOf(pipe.exInstr) \in loadPairs'
         /\ FromMEM => PairOf(pipe.memInstr) \in loadPairs'
<1> DEFINE x == PairOf(pipe.exInstr)
           y == PairOf(pipe.memInstr)
           q == FromEX
           new == {z \in {x, y} : (q /\ z = x) \/ (inMEM /\ z = y)}
           n == (IF q THEN 1 ELSE 0) + (IF inMEM THEN 1 ELSE 0)
<1>1. loadPairs' = loadPairs \cup LoadPairsNow
  BY DEF EndOfCycle
<1>2. (q => x \in LoadPairsNow) /\ (inMEM => y \in LoadPairsNow)
  BY PairsNow, RealPair
<1>3. (q => x \notin loadPairs) /\ (inMEM => y \notin loadPairs)
  BY DEF CountInv, Known
<1>4. q /\ inMEM => x # y
  <2>1. q /\ inMEM => pipe.memInstr.id < pipe.exInstr.id /\ pipe.exInstr.id \in Nat
    BY RealPair DEF BehindEX, BehindMEM
  <2>2. x.load = pipe.exInstr.id /\ y.load = pipe.memInstr.id
    BY DEF PairOf
  <2> QED
    BY <2>1, <2>2
<1>5. q \in BOOLEAN
  BY DEF FromEX, isLoad, Feeds
<1>6. IsFiniteSet(loadPairs) /\ IsFiniteSet(LoadUses)
  BY FS_Subset DEF CountInv, Counted, LoadUses
<1>7. nrLoadUseStalls' = nrLoadUseStalls + n
  BY DEF CountInv, Counted
<1>8. ASSUME NEW S, IsFiniteSet(S)
      PROVE  /\ IsFiniteSet(S \cup new)
             /\ Cardinality(S) \in Nat /\ Cardinality(S \cup new) \in Nat
             /\ Cardinality(S \cup new) <= Cardinality(S) + n
             /\ (q => x \notin S) /\ (inMEM => y \notin S)
                => Cardinality(S \cup new) = Cardinality(S) + n
  <2>1. CASE q /\ inMEM
    <3>1. S \cup new = (S \cup {x}) \cup {y} /\ n = 2 /\ x # y
      BY <1>4, <2>1
    <3>2. /\ IsFiniteSet(S \cup {x}) /\ Cardinality(S) \in Nat
          /\ Cardinality(S \cup {x}) \in Nat
          /\ Cardinality(S \cup {x}) <= Cardinality(S) + 1
          /\ x \notin S => Cardinality(S \cup {x}) = Cardinality(S) + 1
      BY <1>8, GrowsByOne
    <3>3. /\ IsFiniteSet((S \cup {x}) \cup {y})
          /\ Cardinality((S \cup {x}) \cup {y}) \in Nat
          /\ Cardinality((S \cup {x}) \cup {y}) <= Cardinality(S \cup {x}) + 1
          /\ y \notin S \cup {x}
               => Cardinality((S \cup {x}) \cup {y}) = Cardinality(S \cup {x}) + 1
      BY <3>2, GrowsByOne
    <3>4. x \notin S /\ y \notin S => y \notin S \cup {x}
      BY <3>1
    <3> HIDE DEF new, n, x, y, q
    <3> QED
      BY <2>1, <3>1, <3>2, <3>3, <3>4
  <2>2. CASE q /\ ~inMEM
    <3>1. S \cup new = S \cup {x} /\ n = 1
      BY <2>2
    <3> QED
      BY <1>8, <2>2, <3>1, GrowsByOne
  <2>3. CASE ~q /\ inMEM
    <3>1. S \cup new = S \cup {y} /\ n = 1
      BY <2>3
    <3> QED
      BY <1>8, <2>3, <3>1, GrowsByOne
  <2>4. CASE ~q /\ ~inMEM
    <3>1. S \cup new = S /\ n = 0
      BY <2>4
    <3>2. Cardinality(S) \in Nat /\ Cardinality(S) <= Cardinality(S) + 0
      BY <1>8, FS_CardinalityType
    <3>3. Cardinality(S) = Cardinality(S) + 0
      BY <3>2
    <3> HIDE DEF new, n, x, y, q
    <3> QED
      BY <1>8, <3>1, <3>2, <3>3
  <2> QED
    BY <1>5, <2>1, <2>2, <2>3, <2>4
<1>9. /\ Cardinality(loadPairs \cup new) = Cardinality(loadPairs) + n
      /\ Cardinality(loadPairs) \in Nat
  BY <1>3, <1>6, <1>8
<1>10. /\ Cardinality(LoadUses \cup new) <= Cardinality(LoadUses) + n
      /\ Cardinality(LoadUses) \in Nat /\ Cardinality(LoadUses \cup new) \in Nat
      /\ IsFiniteSet(LoadUses \cup new)
  BY <1>6, <1>8
<1>11. Cardinality(loadPairs \cup new) <= Cardinality(loadPairs')
  <2>1. loadPairs \cup new \subseteq loadPairs'
    BY <1>1, <1>2
  <2> QED
    BY <2>1, PairsBelowIF, FS_Subset
<1>12. Cardinality(LoadUses') <= Cardinality(LoadUses \cup new)
  <2>1. \A p \in LoadPairsNow : p.uses => p \in new
    BY PairsNow, UsedPairs
  <2>2. LoadUses' \subseteq LoadUses \cup new
    BY <1>1, <2>1 DEF LoadUses
  <2> QED
    BY <1>10, <2>2, FS_Subset
<1>13. Cardinality(LoadUses') \in Nat /\ Cardinality(loadPairs') \in Nat
  <2>1. IsFiniteSet(LoadUses')
    BY PairsBelowIF, FS_Subset DEF LoadUses
  <2> QED
    BY <2>1, PairsBelowIF, FS_CardinalityType
<1>14. n \in Nat
  OBVIOUS
<1> HIDE DEF n, new, q, x, y
<1>15. /\ Cardinality(LoadUses') <= nrLoadUseStalls'
       /\ nrLoadUseStalls' <= Cardinality(loadPairs') /\ nrLoadUseStalls' \in Nat
  <2>1. /\ nrLoadUseStalls \in Nat /\ Cardinality(LoadUses) <= nrLoadUseStalls
        /\ nrLoadUseStalls <= Cardinality(loadPairs)
    BY DEF CountInv, Counted
  <2> QED
    BY <1>7, <1>9, <1>10, <1>11, <1>12, <1>13, <1>14, <2>1
<1> QED
  BY <1>1, <1>2, <1>15, PairsBelowIF, RealPair, PairsNow DEF Counted

-----------------------------------------------------------------------------
(***************************************************************************)
(* The count, signal by signal.                                            *)
(***************************************************************************)
\* A word behind an empty stage, and an empty stage behind a word, wait for nothing.
LEMMA NopWaits ==
  /\ \A i : i.rt # 0 => ~Reg(i.rt, Nop)
  /\ ~isLoad(Nop) /\ ~isBranch(Nop) /\ Plain(Nop) /\ Bubble.instr = Nop
  BY DEF Reg, Nop, isLoad, isBranch, Plain, Bubble

\* The stages are held.
LEMMA HeldCount ==
  ASSUME TypeOK, CountInv, pipe' = stall_IF_ID_EX_MEM_stage(pipe)
  PROVE  /\ PlainStages' /\ Apart' /\ pipe'.ifInstr = pipe.ifInstr
         /\ FromEX' = FromEX /\ FromMEM' = FromMEM /\ Feeds(EX)' = Feeds(EX)
         /\ BehindMEM' = BehindMEM
         /\ PairOf(pipe.exInstr)' = PairOf(pipe.exInstr)
         /\ PairOf(pipe.memInstr)' = PairOf(pipe.memInstr)
<1>1. /\ pipe'.ifInstr = pipe.ifInstr /\ pipe'.idInstr = pipe.idInstr
      /\ pipe'.exInstr = pipe.exInstr /\ pipe'.memInstr = pipe.memInstr
  BY HoldStages DEF TypeOK
<1>2. ID' = ID /\ EX' = EX /\ MEM' = MEM
  BY <1>1 DEF ID, EX, MEM
<1> QED
  BY <1>1, <1>2 DEF CountInv, PlainStages, Apart, FromEX, FromMEM, BehindMEM, Feeds,
     PairOf

\* EX is emptied behind what was in it.
LEMMA StalledCount ==
  ASSUME CountInv, pipe' = BRANCH_stall(pipe)
  PROVE  /\ PlainStages' /\ Apart' /\ ~FromEX' /\ ~Feeds(EX)'
         /\ pipe'.ifInstr = pipe.ifInstr
         /\ FromMEM' => /\ FromEX /\ isBranch(ID)
                        /\ PairOf(pipe.memInstr)' = PairOf(pipe.exInstr)
<1>1. /\ pipe'.ifInstr = pipe.ifInstr /\ pipe'.idInstr = pipe.idInstr
      /\ pipe'.exInstr = Bubble /\ pipe'.memInstr = pipe.exInstr
  BY DEF BRANCH_stall
<1>2. ID' = ID /\ EX' = Nop /\ MEM' = EX
  BY <1>1 DEF ID, EX, MEM, Bubble
<1>3. PlainStages' /\ Apart'
  BY <1>1, <1>2, NopWaits DEF CountInv, PlainStages, Apart
<1>4. ~FromEX' /\ ~Feeds(EX)'
  BY <1>2, NopWaits DEF FromEX, Feeds, Nop
<1>5. FromMEM' => FromEX /\ isBranch(ID)
  BY <1>2 DEF FromMEM, FromEX, Feeds
<1>6. PairOf(pipe.memInstr)' = PairOf(pipe.exInstr)
  BY <1>1, <1>2 DEF PairOf
<1> QED
  BY <1>1, <1>3, <1>4, <1>5, <1>6

\* The instruction in IF stays there.
LEMMA StaysInIF ==
  ASSUME TypeOK, OrderInv, CountInv, EndOfCycle, pipe'.ifInstr = pipe.ifInstr, din' = din
  PROVE  NotYetInID'
  BY PairsBelowIF DEF NotYetInID

\* A branch that is noted: every load it waits for is in the history from now on.
LEMMA NotedCount ==
  ASSUME TypeOK, OrderInv, CountInv, EndOfCycle, ~Off, Off', din' = din,
         NEW inMEM \in BOOLEAN, FromMEM => inMEM,
         inMEM => BehindMEM /\ (FromMEM \/ Feeds(EX)),
         nrLoadUseStalls' = nrLoadUseStalls + (IF FromEX THEN 1 ELSE 0)
                                            + (IF inMEM THEN 1 ELSE 0),
         \/ pipe' = BRANCH_stall(pipe)
         \/ pipe' = stall_IF_ID_EX_MEM_stage(pipe) /\ (FromEX => branch_delay' = 2)
  PROVE  CountInv'
<1>1. /\ Counted'
      /\ FromEX => PairOf(pipe.exInstr) \in loadPairs'
      /\ FromMEM => PairOf(pipe.memInstr) \in loadPairs'
  BY AllNew
<1>2. /\ PlainStages' /\ Apart' /\ pipe'.ifInstr = pipe.ifInstr
  BY HeldCount, StalledCount
<1>3. NotYetInID'
  BY <1>2, StaysInIF
<1>4. CASE pipe' = BRANCH_stall(pipe)
  <2>1. Known(TRUE)' /\ DelayHolds'
    BY <1>1, <1>4, StalledCount DEF Known, DelayHolds
  <2> QED
    BY <1>1, <1>2, <1>3, <2>1 DEF CountInv, Known
<1>5. CASE pipe' = stall_IF_ID_EX_MEM_stage(pipe) /\ (FromEX => branch_delay' = 2)
  <2>1. Known(TRUE)' /\ DelayHolds'
    BY <1>1, <1>5, HeldCount DEF Known, DelayHolds
  <2> QED
    BY <1>1, <1>2, <1>3, <2>1 DEF CountInv, Known
<1> QED
  BY <1>4, <1>5

LEMMA BranchStallOnExCount ==
  ASSUME TypeOK, OrderInv, InterlockInv, BranchNotLast, CountInv, BranchStallOnEx
  PROVE  CountInv'
<1>1. /\ BranchOnEx /\ EndOfCycle /\ isBranch(ID) /\ EX.rt # 0 /\ Reg(EX.rt, ID)
  BY DEF BranchStallOnEx, Control, ControlSignal, BranchOnEx
<1>2. ~Off
  BY <1>1, OffFindsNothing
<1>3. ID.op = "Branch2" \/ ID.rs = EX.rt
  BY <1>1 DEF CountInv, PlainStages, Plain, isBranch, Reg
<1>4. /\ HandleBranchStall(Less1(BranchDelay))
      /\ lastBranchCycleCount' = info.instructionID
      /\ nrLoadUseStalls' = nrLoadUseStalls + (IF isLoad(EX) THEN 1 ELSE 0)
           + (IF ID.op = "Branch2" /\ isLoad(MEM) /\ Reg(MEM.rt, ID) THEN 1 ELSE 0)
  BY <1>3 DEF BranchStallOnEx
<1>5. din' = din /\ info' = info
  BY <1>4 DEF HandleBranchStall
<1>6. Off'
  BY <1>4, <1>5 DEF Off
<1>7. isLoad(EX) <=> FromEX
  BY <1>1 DEF FromEX, Feeds
<1> DEFINE inMEM == ID.op = "Branch2" /\ isLoad(MEM) /\ Reg(MEM.rt, ID)
<1>8. FromMEM => inMEM
  <2>1. SUFFICES ASSUME FromMEM, ID.op = "Branch1"
                 PROVE  FALSE
    BY <1>1 DEF FromMEM, Feeds, isBranch
  <2>2. ID.rt = 0
    BY <2>1 DEF CountInv, PlainStages, Plain
  <2>3. MEM.rt = ID.rs /\ EX.rt = ID.rs /\ MEM.rt # 0
    BY <1>1, <2>1, <2>2 DEF FromMEM, Feeds, Reg
  <2>4. Reg(MEM.rt, EX)
    BY <2>3 DEF Reg
  <2> QED
    BY <1>1, <2>1, <2>3, <2>4 DEF CountInv, Apart, FromMEM
<1>9. /\ inMEM \in BOOLEAN
      /\ inMEM => BehindMEM /\ Feeds(EX)
      /\ nrLoadUseStalls' = nrLoadUseStalls + (IF FromEX THEN 1 ELSE 0)
                                            + (IF inMEM THEN 1 ELSE 0)
  BY <1>1, <1>4, <1>7 DEF BehindMEM, Feeds, isLoad, Reg
<1>10. \/ pipe' = BRANCH_stall(pipe)
       \/ pipe' = stall_IF_ID_EX_MEM_stage(pipe) /\ (FromEX => branch_delay' = 2)
  <2>1. FromEX => Less1(BranchDelay) = 1
    BY <1>7 DEF BranchDelay, Less1
  <2> QED
    BY <1>4, <2>1 DEF HandleBranchStall
<1> QED
  BY <1>1, <1>2, <1>5, <1>6, <1>8, <1>9, <1>10, NotedCount

LEMMA BranchStallOnMemCount ==
  ASSUME TypeOK, OrderInv, InterlockInv, BranchNotLast, CountInv, BranchStallOnMem
  PROVE  CountInv'
<1>1. ~BranchOnEx /\ ~LoadUse /\ BranchOnMem /\ EndOfCycle
  BY DEF BranchStallOnMem, Control, ControlSignal
<1>2. ~Off
  BY <1>1, OffFindsNothing
<1>3. FromMEM /\ ~FromEX
  BY <1>1, <1>2 DEF BranchOnMem, LoadUse, FromMEM, FromEX, Feeds, Off
<1>4. /\ HandleBranchStall(Less1(1)) /\ lastBranchCycleCount' = info.instructionID
      /\ nrLoadUseStalls' = nrLoadUseStalls + 1
  BY DEF BranchStallOnMem
<1>5. /\ din' = din /\ info' = info
      /\ pipe' = BRANCH_stall(pipe) \/ pipe' = stall_IF_ID_EX_MEM_stage(pipe)
  BY <1>4 DEF HandleBranchStall
<1>6. Off'
  BY <1>4, <1>5 DEF Off
<1>7. nrLoadUseStalls' = nrLoadUseStalls + (IF FromEX THEN 1 ELSE 0)
                                          + (IF TRUE THEN 1 ELSE 0)
  BY <1>3, <1>4 DEF TypeOK
<1>8. BehindMEM
  BY <1>3, RealPair
<1> QED
  BY <1>1, <1>2, <1>3, <1>5, <1>6, <1>7, <1>8, NotedCount

LEMMA LoadUseCount ==
  ASSUME TypeOK, OrderInv, InterlockInv, BranchNotLast, CountInv, LoadUseStall
  PROVE  CountInv'
<1>1. ~BranchOnEx /\ LoadUse /\ EndOfCycle /\ isLoad(EX)
  BY DEF LoadUseStall, Control, ControlSignal, LoadUse
<1>2. ~Off
  BY <1>1, OffFindsNothing
<1>3. FromEX /\ ~isBranch(ID) /\ ~FromMEM
  BY <1>1, <1>2 DEF BranchOnEx, LoadUse, FromMEM, FromEX, Feeds, Off, isLoad, Nop
<1>4. /\ pipe' = BRANCH_stall(pipe) /\ nrLoadUseStalls' = nrLoadUseStalls + 1
      /\ UNCHANGED <<info, lastBranchCycleCount, din>>
  BY DEF LoadUseStall, load_use_stall_stage
<1>5. /\ PlainStages' /\ Apart' /\ ~FromEX' /\ ~FromMEM' /\ ~Feeds(EX)'
      /\ pipe'.ifInstr = pipe.ifInstr
  BY <1>3, <1>4, StalledCount
<1>6. Known(Off)' /\ DelayHolds'
  BY <1>5 DEF Known, DelayHolds
<1>7. NotYetInID'
  BY <1>1, <1>4, <1>5, StaysInIF
<1>8. Counted'
  <2>1. nrLoadUseStalls' = nrLoadUseStalls + (IF FromEX THEN 1 ELSE 0)
                                           + (IF FALSE THEN 1 ELSE 0)
    BY <1>3, <1>4 DEF TypeOK
  <2> QED
    BY <1>1, <1>2, <1>3, <2>1, AllNew
<1> QED
  BY <1>5, <1>6, <1>7, <1>8 DEF CountInv

\* The other signals: the tests have found nothing and nothing is counted.
NoneCounted ==
  /\ ~BranchOnEx /\ ~LoadUse /\ ~BranchOnMem /\ EndOfCycle
  /\ UNCHANGED <<nrLoadUseStalls, lastBranchCycleCount>>

LEMMA BranchStallDelayCount ==
  ASSUME TypeOK, OrderInv, InterlockInv, BranchNotLast, CountInv, BranchStallDelay
  PROVE  CountInv'
<1>1. NoneCounted /\ HandleBranchStall(Less1(branch_delay)) /\ dcache_delay = 0
  BY DEF BranchStallDelay, Control, ControlSignal, NoneCounted, lastBranch
<1>2. pipe' = BRANCH_stall(pipe) /\ UNCHANGED <<info, din>>
  BY <1>1 DEF HandleBranchStall, Less1
<1>3. loadPairs \subseteq loadPairs' /\ Off' = Off
  BY <1>1, <1>2, PairsBelowIF DEF NoneCounted, Off
<1>4. Counted' /\ NotYetInID' /\ PlainStages' /\ Apart'
  BY <1>1, <1>2, NoneNew, StalledCount, StaysInIF DEF NoneCounted
<1>5. CASE Off
  <2>1. Known(TRUE)' /\ DelayHolds'
    BY <1>2, <1>3, <1>5, StalledCount DEF CountInv, Known, DelayHolds
  <2> QED
    BY <1>3, <1>4, <1>5, <2>1 DEF CountInv, Known
<1>6. CASE ~Off
  <2>1. ~FromEX' /\ ~FromMEM' /\ ~Feeds(EX)'
    BY <1>1, <1>2, <1>6, StalledCount, OnFindsAll DEF NoneCounted
  <2> QED
    BY <1>4, <2>1 DEF CountInv, Known, DelayHolds
<1> QED
  BY <1>5, <1>6

LEMMA DCacheMissCount ==
  ASSUME TypeOK, OrderInv, InterlockInv, BranchNotLast, CountInv, DCacheMiss
  PROVE  CountInv'
<1>1. NoneCounted /\ pipe' = stall_IF_ID_EX_MEM_stage(pipe) /\ UNCHANGED <<info, din>>
  BY DEF DCacheMiss, Control, ControlSignal, NoneCounted, lastBranch
<1>2. branch_delay' = branch_delay
  BY DEF DCacheMiss, TypeOK, Less1
<1>3. loadPairs \subseteq loadPairs' /\ Off' = Off
  BY <1>1, PairsBelowIF DEF NoneCounted, Off
<1>4. Counted' /\ NotYetInID' /\ PlainStages' /\ Apart'
  BY <1>1, NoneNew, HeldCount, StaysInIF DEF NoneCounted
<1>5. Known(Off)' /\ DelayHolds'
  <2>1. CASE Off
    BY <1>1, <1>2, <1>3, <2>1, HeldCount DEF CountInv, Known, DelayHolds
  <2>2. CASE ~Off
    <3>1. ~FromEX /\ ~FromMEM
      BY <1>1, <2>2, OnFindsAll DEF NoneCounted
    <3>2. ~(BehindMEM /\ Feeds(EX))
      BY <1>1, <2>2 DEF NoneCounted, BranchOnEx, BehindMEM, Feeds, Off, Nop
    <3> QED
      BY <1>1, <3>1, <3>2, HeldCount DEF Known, DelayHolds
  <2> QED
    BY <2>1, <2>2
<1> QED
  BY <1>4, <1>5 DEF CountInv

\* What moves into ID without a fetch is the youngest instruction, and no branch.
LEMMA MovedCount ==
  ASSUME TypeOK, OrderInv, InterlockInv, BranchNotLast, CountInv, BranchNotLast',
         NoneCounted, Unfetched, pipe' \in {moveAllForward(pipe), stall_IF_stage(pipe)}
  PROVE  CountInv'
<1>1. /\ pipe'.ifInstr \in {pipe.ifInstr, Bubble} /\ pipe'.idInstr \in {pipe.ifInstr, Bubble}
      /\ pipe'.exInstr = pipe.idInstr /\ pipe'.memInstr = pipe.exInstr
  BY DEF moveAllForward, stall_IF_stage
<1>2. /\ pipe'.ifInstr.instr \in {pipe.ifInstr.instr, Nop} /\ EX' = ID /\ MEM' = EX
      /\ ID' \in {pipe.ifInstr.instr, Nop}
  BY <1>1 DEF ID, EX, MEM, Bubble
<1>3. Off' = Off /\ din' = din
  BY DEF NoneCounted, Off, Unfetched
<1>4. ~isBranch(ID')
  <2>1. SUFFICES ASSUME isBranch(ID')
                 PROVE  FALSE
    OBVIOUS
  <2>2. pipe'.idInstr = pipe.ifInstr /\ pipe.ifInstr # Bubble
    BY <1>1, <2>1, BubbleNoHazard DEF ID
  <2>3. pipe.ifInstr.id = info.instructionID /\ pipe.ifInstr.id \in Nat
    BY <2>2, StageTypes, SlotFields DEF TypeOK, InterlockInv, LastFetched
  <2> QED
    BY <2>1, <2>2, <2>3 DEF BranchNotLast, Unfetched
<1>5. PlainStages' /\ Apart' /\ Counted' /\ NotYetInID'
  <2>1. PlainStages' /\ Apart'
    BY <1>2, <1>4, NopWaits DEF CountInv, PlainStages, Apart
  <2>2. Counted'
    BY NoneNew DEF NoneCounted
  <2>3. NotYetInID'
    BY <1>1, <1>3, PairsBelowIF, BubbleNoHazard DEF NotYetInID, NoneCounted
  <2> QED
    BY <2>1, <2>2, <2>3
<1>6. ~FromMEM' /\ ~BehindMEM'
  BY <1>4 DEF FromMEM, BehindMEM
<1>7. FromEX' => /\ isLoad(ID) /\ pipe'.idInstr = pipe.ifInstr
                 /\ pipe.ifInstr.id \in Nat /\ pipe.idInstr.id \in Nat
  <2>1. SUFFICES ASSUME FromEX'
                 PROVE  /\ isLoad(ID) /\ pipe'.idInstr = pipe.ifInstr
                        /\ pipe.ifInstr.id \in Nat /\ pipe.idInstr.id \in Nat
    OBVIOUS
  <2>2. isLoad(ID) /\ ID.rt # 0 /\ Reg(ID.rt, ID')
    BY <1>2, <2>1 DEF FromEX, Feeds
  <2>3. pipe'.idInstr = pipe.ifInstr /\ pipe.ifInstr # Bubble
    BY <1>1, <2>2, NopWaits DEF ID
  <2>4. pipe.idInstr # Bubble
    BY <2>2, BubbleNoHazard DEF ID
  <2> QED
    BY <2>2, <2>3, <2>4, StageTypes, SlotFields DEF TypeOK
<1>8. FromEX' => ~Off
  <2>1. SUFFICES ASSUME FromEX', Off
                 PROVE  FALSE
    OBVIOUS
  <2>2. /\ pipe.idInstr.id < pipe.ifInstr.id /\ pipe.ifInstr.id = info.instructionID
        /\ pipe.idInstr.id \in Nat /\ pipe.ifInstr.id \in Nat
    BY <1>7, <2>1 DEF OrderInv, ProgramOrder, Before, NoId, InterlockInv, LastFetched
  <2>3. Noted /\ ~Waiting
    BY <1>7, <2>1, <2>2 DEF Noted, Off, Waiting, isLoad, isBranch
  <2> QED
    BY <2>2, <2>3 DEF InterlockInv, NothingMissed, NoId
<1>9. FromEX' => PairOf(pipe.exInstr)' \notin loadPairs'
  <2>1. PairOf(pipe.exInstr)'.user = pipe'.idInstr.id
    BY DEF PairOf
  <2> QED
    BY <1>7, <2>1, PairsBelowIF DEF NoneCounted, NoId
<1>10. CASE Off
  <2>1. ~FromEX'
    BY <1>8, <1>10
  <2> QED
    BY <1>5, <1>6, <2>1 DEF CountInv, Known, DelayHolds
<1>11. CASE ~Off
  <2>1. ~Off'
    BY <1>3, <1>11
  <2>2. Known(Off)'
    BY <1>6, <1>9, <2>1 DEF Known
  <2>3. DelayHolds'
    BY <2>1 DEF DelayHolds
  <2> QED
    BY <1>5, <2>2, <2>3 DEF CountInv
<1> QED
  BY <1>10, <1>11

LEMMA OtherMovesCount ==
  ASSUME TypeOK, OrderInv, InterlockInv, BranchNotLast, CountInv, BranchNotLast',
         ArithmeticOverflow \/ IllegalInstruction \/ HaltInPipeline \/ ICacheMiss
  PROVE  CountInv'
<1>1. /\ info' \in {info, OverflowTaken, IllegalTaken}
      /\ pipe' \in {moveAllForward(pipe), stall_IF_stage(pipe)}
      /\ UNCHANGED <<din, raised>>
  BY DEF ArithmeticOverflow, IllegalInstruction, HaltInPipeline, ICacheMiss,
     insertNopException
<1>2. info'.instructionID = info.instructionID /\ info'.isHalt = info.isHalt
  BY <1>1 DEF OverflowTaken, IllegalTaken, TypeOK
<1>3. Unfetched
  BY <1>1, <1>2 DEF Unfetched, moveAllForward, stall_IF_stage
<1>4. NoneCounted
  BY DEF ArithmeticOverflow, IllegalInstruction, HaltInPipeline, ICacheMiss,
     Control, ControlSignal, NoneCounted, lastBranch
<1> QED
  BY <1>1, <1>3, <1>4, MovedCount

LEMMA FetchCount ==
  ASSUME TypeOK, OrderInv, InterlockInv, CountInv,
         NEW i \in Instr, NEW ovf \in BOOLEAN, NEW a \in Addr, FetchNew(i, ovf, a),
         Plain(i)
  PROVE  CountInv'
<1>1. /\ NoneCounted
      /\ branch_delay = 0 \/ squashID
      /\ din' = din + 1 /\ info'.instructionID = din
  BY DEF FetchNew, Control, ControlSignal, NoneCounted, executeInstruction, lastBranch
<1>2. /\ pipe'.ifInstr.instr = i /\ pipe'.ifInstr.id = din
      /\ pipe'.idInstr = pipe.ifInstr
      /\ pipe'.exInstr = IF squashID THEN Bubble ELSE pipe.idInstr
      /\ pipe'.memInstr \in {pipe.exInstr, Bubble}
  BY FetchStages
<1>3. /\ ID' = pipe.ifInstr.instr /\ EX' = (IF squashID THEN Nop ELSE ID)
      /\ MEM' \in {EX, Nop}
  BY <1>2 DEF ID, EX, MEM, Bubble
<1>4. /\ loadPairs \subseteq loadPairs'
      /\ \A p \in loadPairs' :
           p.user < din /\ (pipe.ifInstr.id # NoId => p.user < pipe.ifInstr.id)
  BY <1>1, PairsBelowIF DEF NoneCounted
<1>5. PlainStages'
  BY <1>2, <1>3, NopWaits DEF CountInv, PlainStages
<1>6. Counted'
  BY <1>1, NoneNew DEF NoneCounted
<1>7. NotYetInID'
  <2>1. loadPairs' \subseteq [load : Nat, user : Nat, uses : BOOLEAN]
    BY FetchNewTypes DEF TypeOK
  <2>2. \A p \in loadPairs' : p.user \in Nat /\ p.user < din
    BY <1>4, <2>1
  <2>3. \A p \in loadPairs' : p.user < din + 1
    BY <2>2 DEF TypeOK
  <2> QED
    BY <1>1, <1>2, <2>2, <2>3 DEF NotYetInID
<1>8. Apart'
  <2>1. SUFFICES ASSUME isLoad(MEM'), MEM'.rt # 0, Reg(MEM'.rt, EX')
                 PROVE  FALSE
    BY DEF Apart
  <2>2. MEM' = EX /\ EX' = ID /\ ~squashID
    BY <1>3, <2>1, NopWaits
  <2>3. FromEX
    BY <2>1, <2>2 DEF FromEX, Feeds
  <2>4. Off
    BY <1>1, <2>3, OnFindsAll DEF NoneCounted
  <2> QED
    BY <1>1, <2>2, <2>3, <2>4 DEF CountInv, DelayHolds
<1>9. /\ FromEX' => PairOf(pipe.exInstr)' \notin loadPairs'
      /\ FromMEM' \/ BehindMEM' => PairOf(pipe.memInstr)' \notin loadPairs'
  <2>1. FromEX' \/ FromMEM' \/ BehindMEM' => pipe.ifInstr # Bubble
    BY <1>3, NopWaits DEF FromEX, FromMEM, BehindMEM, Feeds
  <2>2. pipe.ifInstr # Bubble => pipe.ifInstr.id \in Nat /\ pipe.ifInstr.id # NoId
    BY StageTypes, SlotFields DEF TypeOK, NoId
  <2>3. /\ PairOf(pipe.exInstr)'.user = pipe.ifInstr.id
        /\ PairOf(pipe.memInstr)'.user = pipe.ifInstr.id
    BY <1>2 DEF PairOf
  <2> QED
    BY <1>4, <2>1, <2>2, <2>3
<1>10. CASE din = 0
  <2>1. pipe.ifInstr = Bubble
    BY <1>10, StageTypes, SlotFields DEF TypeOK, OrderInv, StagesBelow, NoId
  <2>2. ~FromEX' /\ ~FromMEM' /\ ~BehindMEM'
    BY <1>3, <2>1, NopWaits DEF FromEX, FromMEM, BehindMEM, Feeds
  <2> QED
    BY <1>5, <1>6, <1>7, <1>8, <2>2 DEF CountInv, Known, DelayHolds
<1>11. CASE din # 0
  <2>1. ~Off'
    BY <1>1, <1>11 DEF Off, NoneCounted, lastBranch, InterlockInv, LastFetched, TypeOK
  <2>2. Known(Off)'
    BY <1>9, <2>1 DEF Known
  <2>3. DelayHolds'
    BY <2>1 DEF DelayHolds
  <2> QED
    BY <1>5, <1>6, <1>7, <1>8, <2>2, <2>3 DEF CountInv
<1> QED
  BY <1>10, <1>11

LEMMA CountAtFirst == Init => CountInv
<1>1. SUFFICES ASSUME Init PROVE CountInv
  OBVIOUS
<1>2. /\ pipe.ifInstr.instr = Nop /\ ID = Nop /\ EX = Nop /\ MEM = Nop
      /\ loadPairs = {} /\ nrLoadUseStalls = 0
  BY <1>1 DEF Init, EmptyPipe, Bubble, ID, EX, MEM
<1>3. LoadUses = {}
  BY <1>2 DEF LoadUses
<1>4. Counted
  BY <1>2, <1>3, FS_EmptySet DEF Counted
<1> QED
  BY <1>2, <1>4, NopWaits
     DEF CountInv, PlainStages, NotYetInID, Known, DelayHolds, Apart, FromEX, FromMEM,
         BehindMEM

\* The step fetches no word that is not plain.
FetchesPlain ==
  \A i \in Instr, ovf \in BOOLEAN, a \in Addr : FetchNew(i, ovf, a) => Plain(i)

LEMMA CountStep ==
  ASSUME TypeOK, OrderInv, InterlockInv, CostInv, CostInv', CountInv, [Next]_vars,
         FetchesPlain
  PROVE  CountInv'
<1>1. BranchNotLast /\ BranchNotLast'
  BY DEF CostInv
<1>2. CASE BranchStallOnEx
  BY <1>1, <1>2, BranchStallOnExCount
<1>3. CASE LoadUseStall
  BY <1>1, <1>3, LoadUseCount
<1>4. CASE BranchStallOnMem
  BY <1>1, <1>4, BranchStallOnMemCount
<1>5. CASE BranchStallDelay
  BY <1>1, <1>5, BranchStallDelayCount
<1>6. CASE ArithmeticOverflow \/ IllegalInstruction \/ HaltInPipeline \/ ICacheMiss
  BY <1>1, <1>6, OtherMovesCount
<1>7. ASSUME NEW i \in Instr, NEW ovf \in BOOLEAN, NEW a \in Addr, FetchNew(i, ovf, a)
      PROVE  CountInv'
  BY <1>7, FetchCount DEF FetchesPlain
<1>8. CASE DCacheMiss
  BY <1>1, <1>8, DCacheMissCount
<1>9. CASE Halted \/ UNCHANGED vars
  BY <1>9 DEF Halted, vars, delays, lastBranch, history, CountInv, PlainStages,
     Counted, LoadUses, NotYetInID, Known, DelayHolds, Apart, FromEX, FromMEM, BehindMEM,
     Feeds, PairOf, Off, ID, EX, MEM
<1> QED
  BY <1>2, <1>3, <1>4, <1>5, <1>6, <1>7, <1>8, <1>9 DEF Next

\* No word that programs are made of is a BLEZ or BGTZ with a second register, an encoding
\* that MIPS reserves.
PlainWords == \A i \in Instr : Plain(i)

\* The load-use stalls reported, added up in four places of Control, count every use of a
\* load that has to wait, and charge no instruction twice for the same load nor for one
\* further ahead, for every program, loads to $0 included, every cache and all latencies.
THEOREM StallsCountedCorrect ==
  ASSUME PlainWords
  PROVE  Spec => []StallsCounted
<1>1. /\ TypeOK /\ OrderInv /\ InterlockInv /\ CostInv /\ CostInv' /\ CountInv
      /\ [Next]_vars
      => CountInv'
  <2>1. FetchesPlain
    BY DEF PlainWords, FetchesPlain
  <2> QED
    BY <2>1, CountStep
<1>2. CountInv => StallsCounted
  BY DEF CountInv, Counted, StallsCounted
<1> QED
  BY <1>1, <1>2, CountAtFirst, TypeCorrect, OrderInvariant, InterlockInvariant,
     CostInvariant, PTL DEF Spec

-----------------------------------------------------------------------------
(***************************************************************************)
(* What a cycle is for.  A cycle in which nothing is fetched is a stall    *)
(* that is counted, or one that is due: to a latency, to a branch that     *)
(* waits and is not counted, to a nop of an exception or to the halt word  *)
(* that drains.                                                            *)
(***************************************************************************)
BranchInIF == IF isBranch(pipe.ifInstr.instr) THEN 1 ELSE 0

\* The cycle in which a branch waits for EX without a count: one before it is noted,
\* the delay afterwards.
Uncounted ==
  IF /\ lastBranchCycleCount # info.instructionID
     /\ isBranch(ID) /\ EX # Nop /\ Conflicts(EX, ID)
     /\ branch_delay = 0
  THEN 1 ELSE branch_delay

NopsDue ==
  IF info.isOverflow THEN 2
  ELSE IF nopArithmeticExcept = 1 \/ ~info.isValid THEN 1 ELSE 0

Charge == BranchInIF + Uncounted + NopsDue
Due == Charge + ToDrain(pipe)

\* A cycle without a fetch.
Explained ==
  1 + Less1(dcache_delay) + icache_delay' + Due' + nrLoadUseStalls
    <= icache_delay + dcache_delay + Due + nrLoadUseStalls'

Keeps == Charge' + nrLoadUseStalls <= Charge + nrLoadUseStalls'
Earns == Charge' + 1 + nrLoadUseStalls <= Charge + nrLoadUseStalls'

LEMMA ChargeTypes ==
  ASSUME TypeOK
  PROVE  /\ BranchInIF \in {0, 1} /\ Uncounted \in Nat /\ NopsDue \in 0 .. 2
         /\ Charge \in Nat /\ ToDrain(pipe) \in 0 .. 4 /\ Due \in Nat
         /\ Uncounted >= branch_delay /\ branch_delay \in Nat
         /\ nrLoadUseStalls \in Nat /\ icache_delay \in Nat /\ dcache_delay \in Nat
<1>1. branch_delay \in Nat /\ nrLoadUseStalls \in Nat /\ icache_delay \in Nat
      /\ dcache_delay \in Nat
  BY DEF TypeOK
<1>2. BranchInIF \in {0, 1} /\ NopsDue \in 0 .. 2 /\ ToDrain(pipe) \in 0 .. 4
  BY DEF BranchInIF, NopsDue, ToDrain
<1>3. Uncounted \in Nat /\ Uncounted >= branch_delay
  BY <1>1 DEF Uncounted
<1>4. Charge \in Nat /\ Due \in Nat
  BY <1>2, <1>3 DEF Charge, Due
<1> QED
  BY <1>1, <1>2, <1>3, <1>4

LEMMA ChargeNext ==
  ASSUME TypeOK'
  PROVE  /\ BranchInIF' \in {0, 1} /\ Uncounted' \in Nat /\ NopsDue' \in 0 .. 2
         /\ Charge' \in Nat /\ ToDrain(pipe') \in 0 .. 4 /\ branch_delay' \in Nat
         /\ Charge' = BranchInIF' + Uncounted' + NopsDue'
         /\ Due' = Charge' + ToDrain(pipe')
         /\ nrLoadUseStalls' \in Nat /\ icache_delay' \in Nat
<1>1. branch_delay' \in Nat /\ nrLoadUseStalls' \in Nat /\ icache_delay' \in Nat
  BY DEF TypeOK
<1>2. BranchInIF' \in {0, 1} /\ NopsDue' \in 0 .. 2 /\ ToDrain(pipe') \in 0 .. 4
  BY DEF BranchInIF, NopsDue, ToDrain
<1>3. Uncounted' \in Nat
  BY <1>1 DEF Uncounted
<1>4. Charge' = BranchInIF' + Uncounted' + NopsDue' /\ Due' = Charge' + ToDrain(pipe')
  BY DEF Charge, Due, ToDrain
<1>5. Charge' \in Nat
  <2> DEFINE b == BranchInIF'
             u == Uncounted'
             n == NopsDue'
  <2>1. b \in Nat /\ u \in Nat /\ n \in Nat /\ Charge' = b + u + n
    BY <1>2, <1>3, <1>4
  <2> HIDE DEF b, u, n
  <2> QED
    BY <2>1
<1> QED
  BY <1>1, <1>2, <1>3, <1>4, <1>5

LEMMA DueNext ==
  ASSUME TypeOK'
  PROVE  Due' \in Nat
<1> DEFINE c == Charge'
           t == ToDrain(pipe')
<1>1. c \in Nat /\ t \in Nat /\ Due' = c + t
  BY ChargeNext
<1> HIDE DEF c, t
<1> QED
  BY <1>1

LEMMA ExplainedBy ==
  ASSUME TypeOK, TypeOK',
         \/ /\ icache_delay' = icache_delay - 1 /\ Keeps /\ ToDrain(pipe') <= ToDrain(pipe)
         \/ /\ dcache_delay > 0 /\ icache_delay' <= icache_delay
            /\ Keeps /\ ToDrain(pipe') <= ToDrain(pipe)
         \/ /\ icache_delay' <= icache_delay /\ Earns /\ ToDrain(pipe') <= ToDrain(pipe)
         \/ /\ icache_delay' <= icache_delay /\ Keeps
            /\ ToDrain(pipe') + 1 <= ToDrain(pipe)
  PROVE  Explained
<1> DEFINE c == Charge'
           t == ToDrain(pipe')
           i == icache_delay'
           r == nrLoadUseStalls'
           l == Less1(dcache_delay)
<1>1. /\ c \in Nat /\ t \in Nat /\ i \in Nat /\ r \in Nat /\ Charge \in Nat
      /\ ToDrain(pipe) \in Nat /\ icache_delay \in Nat /\ dcache_delay \in Nat
      /\ nrLoadUseStalls \in Nat
  BY ChargeTypes, ChargeNext
<1>2. l \in Nat /\ l <= dcache_delay /\ (dcache_delay > 0 => l = dcache_delay - 1)
  BY <1>1 DEF Less1
<1>3. /\ Keeps <=> c + nrLoadUseStalls <= Charge + r
      /\ Earns <=> c + 1 + nrLoadUseStalls <= Charge + r
  BY DEF Keeps, Earns
<1>4. Due' = c + t /\ Due = Charge + ToDrain(pipe)
  BY ChargeNext DEF Due
<1>5. \/ i = icache_delay - 1 /\ Keeps /\ t <= ToDrain(pipe)
      \/ dcache_delay > 0 /\ i <= icache_delay /\ Keeps /\ t <= ToDrain(pipe)
      \/ i <= icache_delay /\ Earns /\ t <= ToDrain(pipe)
      \/ i <= icache_delay /\ Keeps /\ t + 1 <= ToDrain(pipe)
  OBVIOUS
<1> HIDE DEF c, t, i, r, l
<1>6. 1 + l + i + (c + t) + nrLoadUseStalls
        <= icache_delay + dcache_delay + (Charge + ToDrain(pipe)) + r
  BY <1>1, <1>2, <1>3, <1>5
<1> QED
  BY <1>4, <1>6 DEF Explained, l, i, r

-----------------------------------------------------------------------------
\* A cycle that holds MEM, and one that stalls IF and ID.
LEMMA HoldExplained ==
  ASSUME TypeOK, TypeOK', HaltOnItsWay, EndOfCycle, status # "HALT",
         info' = info, nopArithmeticExcept' = nopArithmeticExcept,
         pipe' = stall_IF_ID_EX_MEM_stage(pipe), dcache_delay > 0,
         icache_delay' = Less1(icache_delay),
         Uncounted' + nrLoadUseStalls <= Uncounted + nrLoadUseStalls'
  PROVE  Explained
<1>1. pipe'.ifInstr = pipe.ifInstr
  BY HoldStages DEF TypeOK
<1>2. BranchInIF' = BranchInIF /\ NopsDue' = NopsDue
  BY <1>1 DEF BranchInIF, NopsDue
<1>3. ToDrain(pipe') <= ToDrain(pipe)
  BY DrainHolds, ChargeTypes
<1>4. Keeps
  <2> DEFINE u == Uncounted'
             r == nrLoadUseStalls'
  <2>1. /\ u \in Nat /\ r \in Nat /\ u + nrLoadUseStalls <= Uncounted + r
        /\ Charge' = BranchInIF + u + NopsDue
        /\ Uncounted \in Nat /\ BranchInIF \in Nat /\ NopsDue \in Nat
        /\ nrLoadUseStalls \in Nat
    BY <1>2, ChargeTypes, ChargeNext
  <2>2. Charge' + nrLoadUseStalls <= Charge + r
    <3> HIDE DEF u, r
    <3> QED
      BY <2>1 DEF Charge
  <2> QED
    BY <2>2 DEF Keeps
<1> QED
  BY <1>3, <1>4, IDelayFalls, ExplainedBy

LEMMA StallExplained ==
  ASSUME TypeOK, TypeOK', HaltOnItsWay, EndOfCycle, status # "HALT",
         UNCHANGED <<info, exceptions>>, pipe' = BRANCH_stall(pipe),
         icache_delay' = Less1(icache_delay),
         Uncounted' + 1 + nrLoadUseStalls <= Uncounted + nrLoadUseStalls'
  PROVE  Explained
<1>1. pipe'.ifInstr = pipe.ifInstr
  BY DEF BRANCH_stall
<1>2. BranchInIF' = BranchInIF /\ NopsDue' = NopsDue
  BY <1>1 DEF BranchInIF, NopsDue, exceptions
<1>3. ToDrain(pipe') <= ToDrain(pipe)
  BY DrainMoves
<1>4. Earns
  <2> DEFINE u == Uncounted'
             r == nrLoadUseStalls'
  <2>1. /\ u \in Nat /\ r \in Nat /\ u + 1 + nrLoadUseStalls <= Uncounted + r
        /\ Charge' = BranchInIF + u + NopsDue
        /\ Uncounted \in Nat /\ BranchInIF \in Nat /\ NopsDue \in Nat
        /\ nrLoadUseStalls \in Nat
    BY <1>2, ChargeTypes, ChargeNext
  <2>2. Charge' + 1 + nrLoadUseStalls <= Charge + r
    <3> HIDE DEF u, r
    <3> QED
      BY <2>1 DEF Charge
  <2> QED
    BY <2>2 DEF Earns
<1> QED
  BY <1>3, <1>4, IDelayFalls, ExplainedBy

LEMMA BranchStallExplained ==
  ASSUME TypeOK, TypeOK', HaltOnItsWay, NEW delay \in Nat, HandleBranchStall(delay),
         EndOfCycle, status # "HALT",
         Less1(dcache_delay) = 0
           => Uncounted' + 1 + nrLoadUseStalls <= Uncounted + nrLoadUseStalls',
         Less1(dcache_delay) # 0
           => Uncounted' + nrLoadUseStalls <= Uncounted + nrLoadUseStalls'
  PROVE  Explained
<1>1. UNCHANGED <<info, exceptions>> /\ icache_delay' = Less1(icache_delay)
  BY DEF HandleBranchStall
<1>2. CASE Less1(dcache_delay) = 0
  <2>1. pipe' = BRANCH_stall(pipe)
    BY <1>2 DEF HandleBranchStall
  <2> QED
    BY <1>1, <1>2, <2>1, StallExplained
<1>3. CASE Less1(dcache_delay) # 0
  <2>1. pipe' = stall_IF_ID_EX_MEM_stage(pipe)
    BY <1>3 DEF HandleBranchStall
  <2>2. dcache_delay > 0 /\ info' = info /\ nopArithmeticExcept' = nopArithmeticExcept
    BY <1>1, <1>3 DEF Less1, TypeOK, exceptions
  <2> QED
    BY <1>1, <1>3, <2>1, <2>2, HoldExplained
<1> QED
  BY <1>2, <1>3

LEMMA BranchStallOnExExplained ==
  ASSUME TypeOK, TypeOK', HaltOnItsWay, BranchStallOnEx
  PROVE  Explained
<1>1. /\ isBranch(ID) /\ Conflicts(EX, ID) /\ EX # Nop /\ EndOfCycle /\ status # "HALT"
      /\ lastBranchCycleCount # info.instructionID
  <2>1. BranchOnEx /\ EndOfCycle /\ status # "HALT"
    BY DEF BranchStallOnEx, Control, ControlSignal
  <2> QED
    BY <2>1 DEF BranchOnEx, Conflicts, Reg, isBranch
<1>2. Uncounted = IF branch_delay = 0 THEN 1 ELSE branch_delay
  BY <1>1 DEF Uncounted
<1>3. /\ branch_delay \in Nat /\ nrLoadUseStalls \in Nat
  BY DEF TypeOK
<1>4. CASE ID.op = "Branch2" \/ ID.rs = EX.rt
  <2>1. HandleBranchStall(Less1(BranchDelay)) /\ lastBranchCycleCount' = info.instructionID
    BY <1>4 DEF BranchStallOnEx
  <2>2. /\ nrLoadUseStalls' \in Nat
        /\ nrLoadUseStalls' >= nrLoadUseStalls + (IF isLoad(EX) THEN 1 ELSE 0)
    <3>1. PICK x \in {0, 1}, y \in {0, 1} :
            /\ nrLoadUseStalls' = nrLoadUseStalls + x + y
            /\ x = IF isLoad(EX) THEN 1 ELSE 0
      <4> DEFINE onMem == ID.op = "Branch2" /\ isLoad(MEM) /\ Reg(MEM.rt, ID)
                 x == IF isLoad(EX) THEN 1 ELSE 0
                 y == IF onMem THEN 1 ELSE 0
      <4>1. nrLoadUseStalls' = nrLoadUseStalls + x + y
        BY <1>4 DEF BranchStallOnEx
      <4>2. x \in {0, 1} /\ y \in {0, 1}
        OBVIOUS
      <4> QED
        BY <4>1, <4>2
    <3> QED
      BY <1>3, <3>1
  <2>3. /\ Less1(BranchDelay) = IF isLoad(EX) THEN 1 ELSE 0
        /\ Less1(BranchDelay) \in Nat
    BY DEF BranchDelay, Less1
  <2>4. /\ info' = info
        /\ Less1(dcache_delay) = 0 => branch_delay' = Less1(BranchDelay)
        /\ Less1(dcache_delay) # 0 => branch_delay' = Less1(BranchDelay) + 1
    BY <2>1 DEF HandleBranchStall
  <2>5. Uncounted' = branch_delay'
    BY <2>1, <2>4 DEF Uncounted
  <2> DEFINE r == nrLoadUseStalls'
             k == Less1(BranchDelay)
             u == Uncounted'
  <2>6. /\ r \in Nat /\ k \in Nat /\ r >= nrLoadUseStalls + k
        /\ Less1(dcache_delay) = 0 => u = k
        /\ Less1(dcache_delay) # 0 => u = k + 1
        /\ Uncounted \in Nat /\ Uncounted >= 1
    BY <1>2, <1>3, <2>2, <2>3, <2>4, <2>5
  <2>7. /\ Less1(dcache_delay) = 0 => u + 1 + nrLoadUseStalls <= Uncounted + r
        /\ Less1(dcache_delay) # 0 => u + nrLoadUseStalls <= Uncounted + r
    <3> HIDE DEF r, k, u
    <3> QED
      BY <1>3, <2>6
  <2> QED
    BY <1>1, <2>1, <2>3, <2>7, BranchStallExplained
<1>5. CASE ~ (ID.op = "Branch2" \/ ID.rs = EX.rt)
  <2>1. HandleBranchStall(Less1(branch_delay)) /\ UNCHANGED lastBranchCycleCount
    BY <1>5 DEF BranchStallOnEx
  <2>2. nrLoadUseStalls' = nrLoadUseStalls
    <3>1. nrLoadUseStalls' = nrLoadUseStalls + 0 + 0
      BY <1>5 DEF BranchStallOnEx
    <3> QED
      BY <1>3, <3>1
  <2>3. /\ Less1(branch_delay) \in Nat
        /\ Less1(branch_delay) = IF branch_delay = 0 THEN 0 ELSE branch_delay - 1
    BY <1>3 DEF Less1
  <2>4. ASSUME Less1(dcache_delay) = 0
        PROVE  Uncounted' + 1 + nrLoadUseStalls <= Uncounted + nrLoadUseStalls'
    <3>1. branch_delay' = Less1(branch_delay) /\ pipe' = BRANCH_stall(pipe)
      BY <2>1, <2>4 DEF HandleBranchStall
    <3>2. EX' = Nop
      BY <3>1 DEF BRANCH_stall, EX, Bubble
    <3>3. Uncounted' = Less1(branch_delay)
      BY <3>1, <3>2 DEF Uncounted
    <3> QED
      BY <1>2, <1>3, <2>2, <2>3, <3>3
  <2>5. ASSUME Less1(dcache_delay) # 0
        PROVE  Uncounted' + nrLoadUseStalls <= Uncounted + nrLoadUseStalls'
    <3>1. branch_delay' = Less1(branch_delay) + 1
      BY <2>1, <2>5 DEF HandleBranchStall
    <3>2. branch_delay' # 0
      BY <2>3, <3>1
    <3>3. Uncounted' = Less1(branch_delay) + 1
      BY <3>1, <3>2 DEF Uncounted
    <3> QED
      BY <1>2, <1>3, <2>2, <2>3, <3>3
  <2> QED
    BY <1>1, <2>1, <2>3, <2>4, <2>5, BranchStallExplained
<1> QED
  BY <1>4, <1>5

LEMMA BranchStallOnMemExplained ==
  ASSUME TypeOK, TypeOK', HaltOnItsWay, BranchStallOnMem
  PROVE  Explained
<1>1. /\ EndOfCycle /\ status # "HALT" /\ HandleBranchStall(0)
      /\ lastBranchCycleCount' = info.instructionID
      /\ nrLoadUseStalls' = nrLoadUseStalls + 1
  BY DEF BranchStallOnMem, Control, Less1
<1>2. info' = info
  BY <1>1 DEF HandleBranchStall
<1>3. Uncounted' = branch_delay'
  BY <1>1, <1>2 DEF Uncounted
<1>4. Uncounted \in Nat /\ nrLoadUseStalls \in Nat
  BY ChargeTypes
<1>5. ASSUME Less1(dcache_delay) = 0
      PROVE  Uncounted' + 1 + nrLoadUseStalls <= Uncounted + nrLoadUseStalls'
  <2>1. Uncounted' = 0
    BY <1>1, <1>3, <1>5 DEF HandleBranchStall
  <2> QED
    BY <1>1, <1>4, <2>1
<1>6. ASSUME Less1(dcache_delay) # 0
      PROVE  Uncounted' + nrLoadUseStalls <= Uncounted + nrLoadUseStalls'
  <2>1. Uncounted' = 1
    BY <1>1, <1>3, <1>6 DEF HandleBranchStall
  <2> QED
    BY <1>1, <1>4, <2>1
<1> QED
  BY <1>1, <1>5, <1>6, BranchStallExplained

LEMMA LoadUseExplained ==
  ASSUME TypeOK, TypeOK', HaltOnItsWay, LoadUseStall
  PROVE  Explained
<1>1. /\ LoadUse /\ ~BranchOnEx /\ EndOfCycle /\ status # "HALT"
      /\ UNCHANGED <<info, exceptions>> /\ pipe' = BRANCH_stall(pipe)
      /\ icache_delay' = Less1(icache_delay) /\ branch_delay' = Less1(branch_delay)
      /\ nrLoadUseStalls' = nrLoadUseStalls + 1
  BY DEF LoadUseStall, Control, ControlSignal, load_use_stall_stage
<1>2. EX' = Nop
  BY <1>1 DEF EX, BRANCH_stall, Bubble
<1>3. Uncounted' = Less1(branch_delay)
  BY <1>1, <1>2 DEF Uncounted
<1>4. Less1(branch_delay) \in Nat /\ Less1(branch_delay) <= branch_delay
  BY ChargeTypes DEF Less1
<1>5. Uncounted' + 1 + nrLoadUseStalls <= Uncounted + nrLoadUseStalls'
  BY <1>1, <1>3, <1>4, ChargeTypes
<1> QED
  BY <1>1, <1>5, StallExplained

LEMMA BranchStallDelayExplained ==
  ASSUME TypeOK, TypeOK', HaltOnItsWay, BranchStallDelay
  PROVE  Explained
<1>1. /\ EndOfCycle /\ status # "HALT" /\ HandleBranchStall(Less1(branch_delay))
      /\ dcache_delay = 0 /\ branch_delay > 0 /\ nrLoadUseStalls' = nrLoadUseStalls
  BY DEF BranchStallDelay, Control, ControlSignal
<1>2. /\ UNCHANGED <<info, exceptions>> /\ pipe' = BRANCH_stall(pipe)
      /\ branch_delay' = Less1(branch_delay) /\ icache_delay' = Less1(icache_delay)
  BY <1>1 DEF HandleBranchStall, Less1
<1>3. EX' = Nop
  BY <1>2 DEF EX, BRANCH_stall, Bubble
<1>4. Uncounted' = Less1(branch_delay)
  BY <1>2, <1>3 DEF Uncounted
<1>5. Less1(branch_delay) = branch_delay - 1
  BY <1>1 DEF Less1
<1>6. Uncounted' + 1 + nrLoadUseStalls <= Uncounted + nrLoadUseStalls'
  BY <1>1, <1>4, <1>5, ChargeTypes
<1> QED
  BY <1>1, <1>2, <1>6, StallExplained

LEMMA DCacheMissExplained ==
  ASSUME TypeOK, TypeOK', HaltOnItsWay, DCacheMiss
  PROVE  Explained
<1>1. /\ EndOfCycle /\ status # "HALT" /\ pipe' = stall_IF_ID_EX_MEM_stage(pipe)
      /\ icache_delay' = Less1(icache_delay) /\ branch_delay' = branch_delay
      /\ UNCHANGED <<info, lastBranch, exceptions, nrLoadUseStalls>>
  BY DEF DCacheMiss, Control, TypeOK, Less1
<1>2. dcache_delay > 0
  BY DEF DCacheMiss, Control, ControlSignal, TypeOK
<1>3. ID' = ID /\ EX' = EX
  BY <1>1, HoldStages DEF TypeOK, ID, EX
<1>4. Uncounted' = Uncounted
  BY <1>1, <1>3 DEF Uncounted, lastBranch
<1>5. Uncounted' + nrLoadUseStalls <= Uncounted + nrLoadUseStalls'
  BY <1>1, <1>4, ChargeTypes
<1> QED
  BY <1>1, <1>2, <1>5, HoldExplained DEF exceptions

-----------------------------------------------------------------------------
\* A word that is no branch does not wait uncounted.
LEMMA NoBranchInID ==
  ASSUME TypeOK, TypeOK', ~isBranch(ID'), branch_delay' = Less1(branch_delay)
  PROVE  Uncounted' <= Uncounted
<1>1. Uncounted' = Less1(branch_delay)
  BY DEF Uncounted
<1>2. Less1(branch_delay) \in Nat /\ Less1(branch_delay) <= branch_delay
  BY ChargeTypes DEF Less1
<1> QED
  BY <1>1, <1>2, ChargeTypes

LEMMA StallIFExplained ==
  ASSUME TypeOK, TypeOK', HaltOnItsWay, EndOfCycle, status # "HALT",
         info' = info, pipe' = stall_IF_stage(pipe), nrLoadUseStalls' = nrLoadUseStalls,
         icache_delay > 0, icache_delay' = Less1(icache_delay),
         branch_delay' = Less1(branch_delay), NopsDue' <= NopsDue
  PROVE  Explained
<1>1. pipe'.ifInstr = pipe.ifInstr /\ pipe'.idInstr = Bubble
  BY DEF stall_IF_stage
<1>2. ~isBranch(ID') /\ BranchInIF' = BranchInIF
  BY <1>1, HaltNotBubble DEF ID, BranchInIF
<1>3. Uncounted' <= Uncounted
  BY <1>2, NoBranchInID
<1>4. ToDrain(pipe') <= ToDrain(pipe)
  BY DrainMoves
<1>5. icache_delay' = icache_delay - 1
  BY DEF Less1
<1>6. Keeps
  <2> DEFINE u == Uncounted'
             n == NopsDue'
  <2>1. /\ u \in Nat /\ n \in Nat /\ u <= Uncounted /\ n <= NopsDue
        /\ Charge' = BranchInIF + u + n
        /\ Uncounted \in Nat /\ BranchInIF \in Nat /\ NopsDue \in Nat
        /\ nrLoadUseStalls \in Nat
    BY <1>2, <1>3, ChargeTypes, ChargeNext
  <2>2. Charge' + nrLoadUseStalls <= Charge + nrLoadUseStalls
    <3> HIDE DEF u, n
    <3> QED
      BY <2>1 DEF Charge
  <2> QED
    BY <2>2 DEF Keeps
<1> QED
  BY <1>4, <1>5, <1>6, ExplainedBy

LEMMA ICacheMissExplained ==
  ASSUME TypeOK, TypeOK', HaltOnItsWay, ICacheMiss
  PROVE  Explained
<1>1. /\ EndOfCycle /\ status # "HALT" /\ pipe' = stall_IF_stage(pipe)
      /\ icache_delay' = Less1(icache_delay) /\ branch_delay' = Less1(branch_delay)
      /\ UNCHANGED <<info, exceptions, nrLoadUseStalls>>
  BY DEF ICacheMiss, Control
<1>2. icache_delay > 0
  BY DEF ICacheMiss, Control, ControlSignal
<1>3. NopsDue' = NopsDue
  BY <1>1 DEF NopsDue, exceptions
<1>4. NopsDue' <= NopsDue
  BY <1>3, ChargeTypes
<1> QED
  BY <1>1, <1>2, <1>4, StallIFExplained

\* A nop of an exception: the victim moves on, and one nop less is due.
LEMMA NopExplained ==
  ASSUME TypeOK, TypeOK', HaltOnItsWay, EndOfCycle, status # "HALT",
         info'.isHalt = info.isHalt, pipe' = moveAllForward(pipe),
         nrLoadUseStalls' = nrLoadUseStalls, icache_delay' = Less1(icache_delay),
         branch_delay' = Less1(branch_delay), ~isBranch(pipe.ifInstr.instr),
         NopsDue' + 1 <= NopsDue
  PROVE  Explained
<1>1. pipe'.ifInstr = Bubble /\ pipe'.idInstr = pipe.ifInstr
  BY DEF moveAllForward
<1>2. ~isBranch(ID') /\ BranchInIF' = 0
  BY <1>1, HaltNotBubble DEF ID, BranchInIF
<1>3. Uncounted' <= Uncounted
  BY <1>2, NoBranchInID
<1>4. ToDrain(pipe') <= ToDrain(pipe)
  BY DrainMoves
<1>5. Earns
  <2> DEFINE u == Uncounted'
             n == NopsDue'
  <2>1. /\ u \in Nat /\ n \in Nat /\ u <= Uncounted /\ n + 1 <= NopsDue
        /\ Charge' = 0 + u + n
        /\ Uncounted \in Nat /\ BranchInIF \in Nat /\ NopsDue \in Nat
        /\ nrLoadUseStalls \in Nat
    BY <1>2, <1>3, ChargeTypes, ChargeNext
  <2>2. Charge' + 1 + nrLoadUseStalls <= Charge + nrLoadUseStalls
    <3> HIDE DEF u, n
    <3> QED
      BY <2>1 DEF Charge
  <2> QED
    BY <2>2 DEF Earns
<1> QED
  BY <1>4, <1>5, IDelayFalls, ExplainedBy

LEMMA OverflowExplained ==
  ASSUME TypeOK, TypeOK', HaltOnItsWay, ExceptionInv, ArithmeticOverflow
  PROVE  Explained
<1>1. /\ EndOfCycle /\ status # "HALT" /\ (info.isOverflow \/ nopArithmeticExcept > 0)
      /\ icache_delay' = Less1(icache_delay) /\ branch_delay' = Less1(branch_delay)
      /\ nrLoadUseStalls' = nrLoadUseStalls
  BY DEF ArithmeticOverflow, Control, ControlSignal
<1>2. nopArithmeticExcept \in 0 .. 2 /\ OverflowNops \in 1 .. 2
  BY DEF TypeOK, OverflowNops
<1>3. /\ info.isOverflow => nopArithmeticExcept # 1 /\ info.isValid
      /\ nopArithmeticExcept = 2 => info.isOverflow
      /\ nopArithmeticExcept = 1 => info.isValid
  BY DEF ExceptionInv, OneException, OverflowInIF, OverflowInID, IllegalInIF
<1>4. CASE Less1(icache_delay) > 0
  <2>1. /\ pipe' = stall_IF_stage(pipe) /\ info' = info
        /\ nopArithmeticExcept' = OverflowNops
    BY <1>4 DEF ArithmeticOverflow
  <2>2. icache_delay > 0
    BY <1>4 DEF Less1, TypeOK
  <2>3. NopsDue' = NopsDue
    BY <1>1, <1>2, <1>3, <2>1 DEF NopsDue, OverflowNops
  <2>4. NopsDue' <= NopsDue
    BY <2>3, ChargeTypes
  <2> QED
    BY <1>1, <2>1, <2>2, <2>4, StallIFExplained
<1>5. CASE Less1(icache_delay) = 0
  <2>1. /\ pipe' = moveAllForward(pipe) /\ info' = OverflowTaken
        /\ nopArithmeticExcept' = OverflowNops - 1
    BY <1>5 DEF ArithmeticOverflow, insertNopException, Less1
  <2>2. /\ info'.isHalt = info.isHalt /\ info'.isValid = info.isValid
        /\ ~info'.isOverflow
    BY <2>1 DEF OverflowTaken, TypeOK
  <2>3. ~isBranch(pipe.ifInstr.instr)
    <3>1. CASE info.isOverflow
      BY <3>1 DEF ExceptionInv, VictimInPlace, OverflowInIF, isBranch
    <3>2. CASE nopArithmeticExcept = 1
      BY <3>2, HaltNotBubble DEF ExceptionInv, VictimInPlace, OverflowInID
    <3> QED
      BY <1>1, <1>2, <1>3, <3>1, <3>2
  <2>4. NopsDue' + 1 <= NopsDue
    <3>1. CASE info.isOverflow
      <4>1. NopsDue = 2 /\ NopsDue' = 1
        BY <1>2, <1>3, <2>1, <2>2, <3>1 DEF NopsDue, OverflowNops
      <4> QED
        BY <4>1
    <3>2. CASE ~info.isOverflow
      <4>1. NopsDue = 1 /\ NopsDue' = 0
        BY <1>1, <1>2, <1>3, <2>1, <2>2, <3>2 DEF NopsDue, OverflowNops
      <4> QED
        BY <4>1
    <3> QED
      BY <3>1, <3>2
  <2> QED
    BY <1>1, <2>1, <2>2, <2>3, <2>4, NopExplained
<1>6. Less1(icache_delay) \in Nat
  BY Less1Type DEF TypeOK
<1> QED
  BY <1>4, <1>5, <1>6

LEMMA IllegalExplained ==
  ASSUME TypeOK, TypeOK', HaltOnItsWay, ExceptionInv, IllegalInstruction
  PROVE  Explained
<1>1. /\ EndOfCycle /\ status # "HALT" /\ (~info.isValid \/ nopIllegalInstruct > 0)
      /\ icache_delay' = Less1(icache_delay) /\ branch_delay' = Less1(branch_delay)
      /\ nrLoadUseStalls' = nrLoadUseStalls
      /\ nopArithmeticExcept' = nopArithmeticExcept
  BY DEF IllegalInstruction, Control, ControlSignal
<1>2. ~info.isValid /\ ~info.isOverflow /\ nopArithmeticExcept # 1
  <2>1. IllegalInIF
    BY <1>1 DEF ExceptionInv, OneException, IllegalInIF, TypeOK
  <2> QED
    BY <2>1 DEF ExceptionInv, OneException, IllegalInIF, OverflowInIF, OverflowInID
<1>3. CASE Less1(icache_delay) > 0
  <2>1. pipe' = stall_IF_stage(pipe) /\ info' = info
    BY <1>3 DEF IllegalInstruction
  <2>2. icache_delay > 0
    BY <1>3 DEF Less1, TypeOK
  <2>3. NopsDue' = NopsDue
    BY <1>1, <2>1 DEF NopsDue
  <2>4. NopsDue' <= NopsDue
    BY <2>3, ChargeTypes
  <2> QED
    BY <1>1, <2>1, <2>2, <2>4, StallIFExplained
<1>4. CASE Less1(icache_delay) = 0
  <2>1. pipe' = moveAllForward(pipe) /\ info' = IllegalTaken
    BY <1>4 DEF IllegalInstruction, insertNopException
  <2>2. /\ info'.isHalt = info.isHalt /\ info'.isOverflow = info.isOverflow
        /\ info'.isValid
    BY <2>1 DEF IllegalTaken, TypeOK
  <2>3. ~isBranch(pipe.ifInstr.instr)
    BY <1>2 DEF ExceptionInv, VictimInPlace, IllegalInIF, isBranch
  <2>4. NopsDue = 1 /\ NopsDue' = 0
    BY <1>1, <1>2, <2>2 DEF NopsDue
  <2>5. NopsDue' + 1 <= NopsDue
    BY <2>4
  <2> QED
    BY <1>1, <2>1, <2>2, <2>3, <2>5, NopExplained
<1>5. Less1(icache_delay) \in Nat
  BY Less1Type DEF TypeOK
<1> QED
  BY <1>3, <1>4, <1>5

LEMMA HaltExplained ==
  ASSUME TypeOK, TypeOK', HaltOnItsWay, InterlockInv, HaltInPipeline
  PROVE  Explained
<1>1. /\ EndOfCycle /\ status # "HALT" /\ info.isHalt
      /\ icache_delay' = Less1(icache_delay) /\ branch_delay' = Less1(branch_delay)
      /\ UNCHANGED <<info, exceptions, nrLoadUseStalls>>
      /\ pipe' = moveAllForward(pipe)
  BY DEF HaltInPipeline, Control, ControlSignal, HaltFetched
<1>2. /\ pipe'.ifInstr = Bubble /\ pipe'.idInstr = pipe.ifInstr /\ NopsDue' = NopsDue
  BY <1>1 DEF moveAllForward, NopsDue, exceptions
<1>3. pipe.ifInstr.instr \in {Nop, HALT_INSTRUCTION}
  BY <1>1 DEF InterlockInv, LastFetched
<1>4. ~isBranch(ID') /\ BranchInIF' = 0
  BY <1>2, <1>3, HaltNotBubble DEF isBranch, ID, Nop, HALT_INSTRUCTION, BranchInIF
<1>5. Uncounted' <= Uncounted
  BY <1>1, <1>4, NoBranchInID
<1>6. ToDrain(pipe') + 1 <= ToDrain(pipe)
  <2>1. pipe.wbInstr.instr # HALT_INSTRUCTION
    BY <1>1 DEF HaltOnItsWay
  <2>2. ToDrain(pipe) < 4 \/ pipe.ifInstr.instr = HALT_INSTRUCTION
    BY <1>1 DEF HaltOnItsWay
  <2> QED
    BY <1>1, <2>1, <2>2 DEF ToDrain, moveAllForward
<1>7. Keeps
  <2> DEFINE u == Uncounted'
  <2>1. /\ u \in Nat /\ u <= Uncounted /\ Charge' = 0 + u + NopsDue
        /\ Uncounted \in Nat /\ BranchInIF \in Nat /\ NopsDue \in Nat
        /\ nrLoadUseStalls \in Nat /\ nrLoadUseStalls' = nrLoadUseStalls
    BY <1>1, <1>2, <1>4, <1>5, ChargeTypes, ChargeNext
  <2>2. Charge' + nrLoadUseStalls <= Charge + nrLoadUseStalls
    <3> HIDE DEF u
    <3> QED
      BY <2>1 DEF Charge
  <2> QED
    BY <2>1, <2>2 DEF Keeps
<1> QED
  BY <1>1, <1>6, <1>7, IDelayFalls, ExplainedBy

\* A fetch makes due what its instruction may cost.
LEMMA FetchExplained ==
  ASSUME TypeOK, TypeOK', CostInv, ExceptionInv,
         NEW i \in Instr, NEW ovf \in BOOLEAN, NEW a \in Addr, FetchNew(i, ovf, a)
  PROVE  /\ nrLoadUseStalls' = nrLoadUseStalls
         /\ Due' <= Due + (IF isBranch(i) THEN 1 ELSE 0)
                        + (IF ovf THEN 2 ELSE IF i.op = "Illegal" THEN 1 ELSE 0)
<1>1. /\ branch_delay' = Less1(branch_delay) /\ nopArithmeticExcept' = nopArithmeticExcept
      /\ nrLoadUseStalls' = nrLoadUseStalls
      /\ ~info.isOverflow /\ info.isValid /\ nopArithmeticExcept = 0
      /\ info'.isOverflow = ovf /\ info'.isValid = (i.op # "Illegal")
  <2>1. /\ branch_delay' = Less1(branch_delay) /\ nopArithmeticExcept' = nopArithmeticExcept
        /\ nrLoadUseStalls' = nrLoadUseStalls
    BY Zenon DEF FetchNew
  <2>2. info'.isOverflow = ovf /\ info'.isValid = (i.op # "Illegal")
    BY DEF FetchNew, executeInstruction
  <2>3. ControlSignal = "FETCH_NEW"
    BY Zenon DEF FetchNew, Control
  <2>4. ~info.isOverflow /\ info.isValid /\ nopArithmeticExcept = 0
    BY <2>3 DEF ControlSignal, TypeOK
  <2> QED
    BY <2>1, <2>2, <2>4
<1>2. pipe'.ifInstr.instr = i /\ pipe'.idInstr = pipe.ifInstr
  BY FetchStages
<1>3. BranchInIF' = IF isBranch(i) THEN 1 ELSE 0
  BY <1>2 DEF BranchInIF
<1>4. /\ NopsDue = 0
      /\ NopsDue' = IF ovf THEN 2 ELSE IF i.op = "Illegal" THEN 1 ELSE 0
  BY <1>1 DEF NopsDue
<1>5. Less1(branch_delay) \in Nat /\ Less1(branch_delay) <= branch_delay
  BY ChargeTypes DEF Less1
<1>6. Uncounted' <= BranchInIF + Uncounted
  <2>1. CASE isBranch(pipe.ifInstr.instr)
    <3>1. BranchInIF = 1
      BY <2>1 DEF BranchInIF
    <3>2. Uncounted' = 1 \/ Uncounted' = Less1(branch_delay)
      BY <1>1 DEF Uncounted
    <3> QED
      BY <1>5, <3>1, <3>2, ChargeTypes
  <2>2. CASE ~isBranch(pipe.ifInstr.instr)
    <3>1. ~isBranch(ID') /\ BranchInIF = 0
      BY <1>2, <2>2 DEF ID, BranchInIF
    <3>2. Uncounted' <= Uncounted
      BY <1>1, <3>1, NoBranchInID
    <3> QED
      BY <3>1, <3>2, ChargeTypes
  <2> QED
    BY <2>1, <2>2
<1>7. ToDrain(pipe') <= ToDrain(pipe)
  BY FetchDrains
<1> DEFINE br == BranchInIF'
           n == NopsDue'
           u == Uncounted'
           t == ToDrain(pipe')
<1>8. /\ br \in Nat /\ n \in Nat /\ u \in Nat /\ t \in Nat
      /\ Due' = (br + u + n) + t
      /\ Due = (BranchInIF + Uncounted + 0) + ToDrain(pipe)
      /\ BranchInIF \in Nat /\ Uncounted \in Nat /\ ToDrain(pipe) \in Nat
      /\ u <= BranchInIF + Uncounted /\ t <= ToDrain(pipe)
  BY <1>4, <1>6, <1>7, ChargeTypes, ChargeNext DEF Due, Charge
<1>9. Due' <= Due + br + n
  <2> HIDE DEF br, n, u, t
  <2> QED
    BY <1>8
<1> QED
  BY <1>1, <1>3, <1>4, <1>9

LEMMA CycleExplained ==
  ASSUME TypeOK, TypeOK', CostInv, ExceptionInv, InterlockInv,
         \/ BranchStallOnEx \/ LoadUseStall \/ BranchStallOnMem \/ BranchStallDelay
         \/ ArithmeticOverflow \/ IllegalInstruction \/ HaltInPipeline
         \/ ICacheMiss \/ DCacheMiss
  PROVE  Explained
<1>1. HaltOnItsWay
  BY DEF CostInv
<1> QED
  BY <1>1, BranchStallOnExExplained, LoadUseExplained, BranchStallOnMemExplained,
     BranchStallDelayExplained, OverflowExplained, IllegalExplained, HaltExplained,
     ICacheMissExplained, DCacheMissExplained

-----------------------------------------------------------------------------
(***************************************************************************)
(* What a stall costs at least.  Without exceptions no two of one kind     *)
(* overlap: a delay runs down only in cycles in which the halt word, if it *)
(* has been fetched, is not on its way, or in which nothing else of that   *)
(* kind is paid for.                                                       *)
(***************************************************************************)
\* The halt word is the youngest instruction: the stages behind it are empty.
HaltBehind(p) ==
  /\ p.idInstr.instr = HALT_INSTRUCTION => p.ifInstr = Bubble
  /\ p.exInstr.instr = HALT_INSTRUCTION => p.ifInstr = Bubble /\ p.idInstr = Bubble
  /\ p.memInstr.instr = HALT_INSTRUCTION
       => p.ifInstr = Bubble /\ p.idInstr = Bubble /\ p.exInstr = Bubble
  /\ p.wbInstr.instr = HALT_INSTRUCTION
       => /\ p.ifInstr = Bubble /\ p.idInstr = Bubble /\ p.exInstr = Bubble
          /\ p.memInstr = Bubble

HaltOrder ==
  /\ HaltBehind(pipe)
  /\ ToDrain(pipe) < 4 \/ pipe.ifInstr.instr = HALT_INSTRUCTION => info.isHalt
  /\ status = "HALT" <=> pipe.wbInstr.instr = HALT_INSTRUCTION

\* Control waits for the bits of a branch that it does not note.
Unnoted == BranchOnEx /\ ~ (ID.op = "Branch2" \/ ID.rs = EX.rt)

DelaysKept ==
  /\ icache_delay > 0 => ToDrain(pipe) = 4
  /\ branch_delay > 0 => isBranch(ID)
  /\ branch_delay > 0 /\ lastBranchCycleCount # info.instructionID
       => branch_delay = 1 /\ Unnoted
  /\ status = "HALT" => dcache_delay = 0

StallInv == HaltOrder /\ (raised = {} => DelaysKept)

\* A cycle without a fetch is used up by one stall of each kind at most.
StallsInFull ==
  /\ ToDrain(pipe) + icache_delay <= ToDrain(pipe') + icache_delay' + 1
  /\ ToDrain(pipe) + branch_delay + nrLoadUseStalls'
       <= ToDrain(pipe') + branch_delay' + 1 + nrLoadUseStalls
  /\ ToDrain(pipe) + dcache_delay <= ToDrain(pipe') + Less1(dcache_delay) + 1

-----------------------------------------------------------------------------
LEMMA HaltMoves ==
  ASSUME TypeOK, HaltOrder, status # "HALT", EndOfCycle, info'.isHalt = info.isHalt,
         \/ pipe' = moveAllForward(pipe) \/ pipe' = stall_IF_stage(pipe)
         \/ pipe' = BRANCH_stall(pipe) \/ pipe' = stall_IF_ID_EX_MEM_stage(pipe)
  PROVE  HaltOrder' /\ ToDrain(pipe) <= ToDrain(pipe') + 1
<1>1. pipe.wbInstr.instr # HALT_INSTRUCTION
  BY DEF HaltOrder
<1>2. status' = "HALT" <=> pipe'.wbInstr.instr = HALT_INSTRUCTION
  BY DEF EndOfCycle
<1>3. CASE pipe' = moveAllForward(pipe)
  <2>1. HaltBehind(pipe')
    BY <1>1, <1>3, HaltNotBubble DEF HaltOrder, HaltBehind, moveAllForward
  <2>2. ToDrain(pipe') < 4 \/ pipe'.ifInstr.instr = HALT_INSTRUCTION
        => ToDrain(pipe) < 4 \/ pipe.ifInstr.instr = HALT_INSTRUCTION
    BY <1>1, <1>3, HaltNotBubble DEF ToDrain, moveAllForward
  <2>3. ToDrain(pipe) <= ToDrain(pipe') + 1
    BY <1>1, <1>3, HaltNotBubble DEF ToDrain, moveAllForward
  <2> QED
    BY <1>2, <2>1, <2>2, <2>3 DEF HaltOrder
<1>4. CASE pipe' = stall_IF_stage(pipe)
  <2>1. HaltBehind(pipe')
    BY <1>1, <1>4, HaltNotBubble DEF HaltOrder, HaltBehind, stall_IF_stage
  <2>2. ToDrain(pipe') < 4 \/ pipe'.ifInstr.instr = HALT_INSTRUCTION
        => ToDrain(pipe) < 4 \/ pipe.ifInstr.instr = HALT_INSTRUCTION
    BY <1>1, <1>4, HaltNotBubble DEF ToDrain, stall_IF_stage
  <2>3. ToDrain(pipe) <= ToDrain(pipe') + 1
    BY <1>1, <1>4, HaltNotBubble DEF ToDrain, stall_IF_stage
  <2> QED
    BY <1>2, <2>1, <2>2, <2>3 DEF HaltOrder
<1>5. CASE pipe' = BRANCH_stall(pipe)
  <2>1. HaltBehind(pipe')
    BY <1>1, <1>5, HaltNotBubble DEF HaltOrder, HaltBehind, BRANCH_stall
  <2>2. ToDrain(pipe') < 4 \/ pipe'.ifInstr.instr = HALT_INSTRUCTION
        => ToDrain(pipe) < 4 \/ pipe.ifInstr.instr = HALT_INSTRUCTION
    BY <1>1, <1>5, HaltNotBubble DEF ToDrain, BRANCH_stall
  <2>3. ToDrain(pipe) <= ToDrain(pipe') + 1
    BY <1>1, <1>5, HaltNotBubble DEF ToDrain, BRANCH_stall
  <2> QED
    BY <1>2, <2>1, <2>2, <2>3 DEF HaltOrder
<1>6. CASE pipe' = stall_IF_ID_EX_MEM_stage(pipe)
  <2>1. /\ pipe'.ifInstr = pipe.ifInstr /\ pipe'.idInstr = pipe.idInstr
        /\ pipe'.exInstr = pipe.exInstr /\ pipe'.memInstr = pipe.memInstr
        /\ pipe'.wbInstr = Bubble
    BY <1>6, HoldStages DEF TypeOK
  <2>2. HaltBehind(pipe')
    BY <2>1, HaltNotBubble DEF HaltOrder, HaltBehind
  <2>3. ToDrain(pipe') = ToDrain(pipe)
    BY <1>1, <2>1, HaltNotBubble DEF ToDrain
  <2>4. ToDrain(pipe) \in 0 .. 4
    BY DEF ToDrain
  <2> QED
    BY <1>2, <2>1, <2>2, <2>3, <2>4 DEF HaltOrder
<1> QED
  BY <1>3, <1>4, <1>5, <1>6

\* IF keeps the halt word while it stalls.
LEMMA DrainWaits ==
  ASSUME TypeOK, ToDrain(pipe) = 4,
         \/ pipe' = stall_IF_stage(pipe) \/ pipe' = BRANCH_stall(pipe)
         \/ pipe' = stall_IF_ID_EX_MEM_stage(pipe)
  PROVE  ToDrain(pipe') = 4
<1>1. /\ pipe.wbInstr.instr # HALT_INSTRUCTION /\ pipe.memInstr.instr # HALT_INSTRUCTION
      /\ pipe.exInstr.instr # HALT_INSTRUCTION /\ pipe.idInstr.instr # HALT_INSTRUCTION
  BY DEF ToDrain
<1>2. /\ pipe'.wbInstr \in {pipe.memInstr, Bubble}
      /\ pipe'.memInstr \in {pipe.exInstr, pipe.memInstr}
      /\ pipe'.exInstr \in {pipe.idInstr, pipe.exInstr, Bubble}
      /\ pipe'.idInstr \in {pipe.idInstr, Bubble}
  BY HoldStages DEF TypeOK, stall_IF_stage, BRANCH_stall
<1> QED
  BY <1>1, <1>2, HaltNotBubble DEF ToDrain

\* A branch in ID is older than the halt word.
LEMMA BranchDrains ==
  ASSUME HaltOrder, isBranch(ID), status # "HALT"
  PROVE  ToDrain(pipe) = 4
  BY HaltNotBubble DEF HaltOrder, HaltBehind, ToDrain, ID

LEMMA DelayTypes ==
  ASSUME TypeOK, TypeOK'
  PROVE  /\ icache_delay \in Nat /\ dcache_delay \in Nat /\ branch_delay \in Nat
         /\ nrLoadUseStalls \in Nat /\ ToDrain(pipe) \in 0 .. 4
         /\ icache_delay' \in Nat /\ dcache_delay' \in Nat /\ branch_delay' \in Nat
         /\ nrLoadUseStalls' \in Nat /\ ToDrain(pipe') \in 0 .. 4
         /\ Less1(dcache_delay) \in Nat /\ Less1(dcache_delay) <= dcache_delay
         /\ dcache_delay <= Less1(dcache_delay) + 1
         /\ Less1(icache_delay) \in Nat /\ Less1(icache_delay) <= icache_delay
         /\ icache_delay <= Less1(icache_delay) + 1
         /\ Less1(branch_delay) \in Nat /\ branch_delay <= Less1(branch_delay) + 1
<1>1. /\ icache_delay \in Nat /\ dcache_delay \in Nat /\ branch_delay \in Nat
      /\ nrLoadUseStalls \in Nat
  BY DEF TypeOK
<1>2. /\ icache_delay' \in Nat /\ dcache_delay' \in Nat /\ branch_delay' \in Nat
      /\ nrLoadUseStalls' \in Nat
  BY DEF TypeOK
<1>3. ToDrain(pipe) \in 0 .. 4 /\ ToDrain(pipe') \in 0 .. 4
  BY DEF ToDrain
<1>4. \A n \in Nat : Less1(n) \in Nat /\ Less1(n) <= n /\ n <= Less1(n) + 1
  BY DEF Less1
<1> QED
  BY <1>1, <1>2, <1>3, <1>4

\* When IF stalls all delays may run: the halt word does not move meanwhile.
LEMMA WaitInFull ==
  ASSUME TypeOK, TypeOK', ToDrain(pipe') = ToDrain(pipe),
         icache_delay' = Less1(icache_delay),
         branch_delay + nrLoadUseStalls' <= branch_delay' + 1 + nrLoadUseStalls
  PROVE  StallsInFull
<1> DEFINE t == ToDrain(pipe')
           i == icache_delay'
           b == branch_delay'
           r == nrLoadUseStalls'
           l == Less1(dcache_delay)
<1>1. /\ t \in Nat /\ i \in Nat /\ b \in Nat /\ r \in Nat /\ l \in Nat
      /\ branch_delay \in Nat /\ nrLoadUseStalls \in Nat /\ icache_delay \in Nat
      /\ dcache_delay \in Nat /\ dcache_delay <= l + 1 /\ icache_delay <= i + 1
      /\ branch_delay + r <= b + 1 + nrLoadUseStalls
      /\ ToDrain(pipe) = t
  BY DelayTypes
<1>2. /\ t + icache_delay <= t + i + 1
      /\ t + branch_delay + r <= t + b + 1 + nrLoadUseStalls
      /\ t + dcache_delay <= t + l + 1
  <2> HIDE DEF t, i, b, r, l
  <2> QED
    BY <1>1
<1> QED
  BY <1>1, <1>2 DEF StallsInFull

\* A stall in which the branch in ID waits.
LEMMA BranchWaitsInFull ==
  ASSUME TypeOK, TypeOK', StallInv, raised = {}, isBranch(ID), status # "HALT",
         EndOfCycle, NEW delay \in Nat, HandleBranchStall(delay),
         branch_delay + nrLoadUseStalls' <= delay + 1 + nrLoadUseStalls,
         \/ lastBranchCycleCount' = info.instructionID
         \/ /\ delay = 0 /\ Unnoted /\ lastBranchCycleCount' = lastBranchCycleCount
  PROVE  StallInv' /\ StallsInFull
<1>1. /\ info' = info /\ raised' = raised /\ icache_delay' = Less1(icache_delay)
      /\ \/ /\ Less1(dcache_delay) = 0 /\ pipe' = BRANCH_stall(pipe)
            /\ branch_delay' = delay
         \/ /\ Less1(dcache_delay) # 0 /\ pipe' = stall_IF_ID_EX_MEM_stage(pipe)
            /\ branch_delay' = delay + 1
  BY DEF HandleBranchStall
<1>2. HaltOrder /\ DelaysKept
  BY DEF StallInv
<1>3. ToDrain(pipe) = 4
  BY <1>2, BranchDrains
<1>4. ToDrain(pipe') = 4
  BY <1>1, <1>3, DrainWaits
<1>5. HaltOrder'
  BY <1>1, <1>2, HaltMoves
<1>6. pipe'.idInstr = pipe.idInstr
  BY HandleBranchStallKeeps
<1>7. status' # "HALT"
  <2>1. pipe'.wbInstr.instr # HALT_INSTRUCTION
    BY <1>4 DEF ToDrain
  <2> QED
    BY <2>1 DEF EndOfCycle
<1>8. ASSUME branch_delay' > 0, lastBranchCycleCount' # info'.instructionID
      PROVE  branch_delay' = 1 /\ Unnoted'
  <2>1. Less1(dcache_delay) # 0 /\ delay = 0 /\ branch_delay' = 1 /\ Unnoted
        /\ lastBranchCycleCount' = lastBranchCycleCount
    BY <1>1, <1>8
  <2>2. pipe'.exInstr = pipe.exInstr
    BY <1>1, <2>1, HoldStages DEF TypeOK
  <2>3. Unnoted'
    BY <1>1, <1>6, <2>1, <2>2 DEF Unnoted, BranchOnEx, ID, EX
  <2> QED
    BY <2>1, <2>3
<1>9. DelaysKept'
  BY <1>4, <1>6, <1>7, <1>8 DEF DelaysKept, ToDrain, ID
<1>10. branch_delay + nrLoadUseStalls' <= branch_delay' + 1 + nrLoadUseStalls
  <2> DEFINE b == branch_delay'
             r == nrLoadUseStalls'
  <2>1. b \in Nat /\ r \in Nat /\ branch_delay \in Nat /\ nrLoadUseStalls \in Nat
        /\ delay \in Nat /\ (b = delay \/ b = delay + 1)
        /\ branch_delay + r <= delay + 1 + nrLoadUseStalls
    BY <1>1, DelayTypes
  <2> HIDE DEF b, r
  <2>2. branch_delay + r <= b + 1 + nrLoadUseStalls
    BY <2>1
  <2> QED
    BY <2>2 DEF b, r
<1> QED
  BY <1>1, <1>3, <1>4, <1>5, <1>9, <1>10, WaitInFull DEF StallInv

LEMMA BranchStallOnExInFull ==
  ASSUME TypeOK, TypeOK', StallInv, raised = {}, BranchStallOnEx
  PROVE  StallInv' /\ StallsInFull
<1>1. /\ BranchOnEx /\ isBranch(ID) /\ EndOfCycle /\ status # "HALT"
      /\ lastBranchCycleCount # info.instructionID
  BY DEF BranchStallOnEx, Control, ControlSignal, BranchOnEx
<1>2. branch_delay \in Nat /\ nrLoadUseStalls \in Nat
  BY DEF TypeOK
<1>3. CASE ID.op = "Branch2" \/ ID.rs = EX.rt
  <2>1. HandleBranchStall(Less1(BranchDelay)) /\ lastBranchCycleCount' = info.instructionID
    BY <1>3 DEF BranchStallOnEx
  <2>2. branch_delay = 0
    BY <1>1, <1>2, <1>3 DEF StallInv, DelaysKept, Unnoted
  <2>3. Less1(BranchDelay) = (IF isLoad(EX) THEN 1 ELSE 0) /\ Less1(BranchDelay) \in Nat
    BY DEF BranchDelay, Less1
  <2>4. PICK x \in {0, 1}, y \in {0, 1} :
            /\ nrLoadUseStalls' = nrLoadUseStalls + x + y
            /\ x = IF isLoad(EX) THEN 1 ELSE 0
    <3> DEFINE onMem == ID.op = "Branch2" /\ isLoad(MEM) /\ Reg(MEM.rt, ID)
               x == IF isLoad(EX) THEN 1 ELSE 0
               y == IF onMem THEN 1 ELSE 0
    <3>1. nrLoadUseStalls' = nrLoadUseStalls + x + y
      BY <1>3 DEF BranchStallOnEx
    <3>2. x \in {0, 1} /\ y \in {0, 1}
      OBVIOUS
    <3> QED
      BY <3>1, <3>2
  <2>5. branch_delay + nrLoadUseStalls' <= Less1(BranchDelay) + 1 + nrLoadUseStalls
    BY <1>2, <2>2, <2>3, <2>4
  <2> QED
    BY <1>1, <2>1, <2>3, <2>5, BranchWaitsInFull
<1>4. CASE ~ (ID.op = "Branch2" \/ ID.rs = EX.rt)
  <2>1. /\ HandleBranchStall(Less1(branch_delay))
        /\ lastBranchCycleCount' = lastBranchCycleCount
    BY <1>4 DEF BranchStallOnEx
  <2>2. nrLoadUseStalls' = nrLoadUseStalls
    <3>1. nrLoadUseStalls' = nrLoadUseStalls + 0 + 0
      BY <1>4 DEF BranchStallOnEx
    <3> QED
      BY <1>2, <3>1
  <2>3. branch_delay \in {0, 1}
    BY <1>1, <1>2 DEF StallInv, DelaysKept
  <2>4. Less1(branch_delay) = 0
    BY <2>3 DEF Less1
  <2>5. branch_delay + nrLoadUseStalls' <= 0 + 1 + nrLoadUseStalls
    BY <1>2, <2>2, <2>3
  <2>6. Unnoted
    BY <1>1, <1>4 DEF Unnoted
  <2> QED
    BY <1>1, <2>1, <2>4, <2>5, <2>6, BranchWaitsInFull
<1> QED
  BY <1>3, <1>4

LEMMA BranchStallOnMemInFull ==
  ASSUME TypeOK, TypeOK', CostInv, InterlockInv, StallInv, raised = {}, BranchStallOnMem
  PROVE  StallInv' /\ StallsInFull
<1>1. /\ BranchOnMem /\ ~BranchOnEx /\ isBranch(ID) /\ EndOfCycle /\ status # "HALT"
      /\ HandleBranchStall(0) /\ lastBranchCycleCount' = info.instructionID
      /\ nrLoadUseStalls' = nrLoadUseStalls + 1
  BY DEF BranchStallOnMem, Control, ControlSignal, Less1, BranchOnMem
<1>2. branch_delay \in Nat /\ nrLoadUseStalls \in Nat
  BY DEF TypeOK
<1>3. lastBranchCycleCount # info.instructionID
  BY <1>1, BranchOnMemFresh
<1>4. branch_delay = 0
  BY <1>1, <1>2, <1>3 DEF StallInv, DelaysKept, Unnoted
<1>5. branch_delay + nrLoadUseStalls' <= 0 + 1 + nrLoadUseStalls
  BY <1>1, <1>2, <1>4
<1> QED
  BY <1>1, <1>5, BranchWaitsInFull

LEMMA BranchStallDelayInFull ==
  ASSUME TypeOK, TypeOK', StallInv, raised = {}, BranchStallDelay
  PROVE  StallInv' /\ StallsInFull
<1>1. /\ ~BranchOnEx /\ EndOfCycle /\ status # "HALT" /\ branch_delay > 0
      /\ HandleBranchStall(Less1(branch_delay)) /\ UNCHANGED <<lastBranch, nrLoadUseStalls>>
  BY DEF BranchStallDelay, Control, ControlSignal
<1>2. isBranch(ID) /\ lastBranchCycleCount = info.instructionID
  BY <1>1 DEF StallInv, DelaysKept, Unnoted
<1>3. lastBranchCycleCount' = info.instructionID
  BY <1>1, <1>2 DEF lastBranch
<1>4. branch_delay + nrLoadUseStalls' <= Less1(branch_delay) + 1 + nrLoadUseStalls
  BY <1>1, DelayTypes
<1>5. Less1(branch_delay) \in Nat
  BY DelayTypes
<1> QED
  BY <1>1, <1>2, <1>3, <1>4, <1>5, BranchWaitsInFull

\* Nothing in ID waits for the load in EX but words that are no branch.
LEMMA LoadUseInFull ==
  ASSUME TypeOK, TypeOK', StallInv, raised = {}, LoadUseStall
  PROVE  StallInv' /\ StallsInFull
<1>1. /\ LoadUse /\ ~BranchOnEx /\ EndOfCycle /\ status # "HALT"
      /\ UNCHANGED <<info, raised>> /\ pipe' = BRANCH_stall(pipe)
      /\ icache_delay' = Less1(icache_delay) /\ branch_delay' = Less1(branch_delay)
      /\ nrLoadUseStalls' = nrLoadUseStalls + 1
  BY DEF LoadUseStall, Control, ControlSignal, load_use_stall_stage
<1>2. isLoad(EX) /\ ~isBranch(ID)
  BY <1>1, HaltNotBubble DEF LoadUse, BranchOnEx, Bubble
<1>3. HaltOrder /\ DelaysKept
  BY DEF StallInv
<1>4. branch_delay = 0 /\ branch_delay' = 0
  BY <1>1, <1>2, <1>3 DEF DelaysKept, Less1, TypeOK
<1>5. /\ pipe.wbInstr.instr # HALT_INSTRUCTION /\ pipe.memInstr.instr # HALT_INSTRUCTION
      /\ pipe.exInstr.instr # HALT_INSTRUCTION
  BY <1>1, <1>2, <1>3, HaltNotBubble DEF HaltOrder, HaltBehind, EX
<1>6. /\ pipe'.wbInstr = pipe.memInstr /\ pipe'.memInstr = pipe.exInstr
      /\ pipe'.exInstr = Bubble /\ pipe'.idInstr = pipe.idInstr
  BY <1>1 DEF BRANCH_stall
<1>7. ToDrain(pipe') = ToDrain(pipe)
  BY <1>5, <1>6, HaltNotBubble DEF ToDrain
<1>8. HaltOrder'
  BY <1>1, <1>3, HaltMoves
<1>9. status' # "HALT"
  BY <1>1, <1>5, <1>6 DEF EndOfCycle
<1>10. icache_delay' > 0 => icache_delay > 0
  BY <1>1 DEF Less1, TypeOK
<1>11. DelaysKept'
  BY <1>3, <1>4, <1>7, <1>9, <1>10 DEF DelaysKept, ToDrain
<1>12. branch_delay + nrLoadUseStalls' <= branch_delay' + 1 + nrLoadUseStalls
  BY <1>1, <1>4, DelayTypes
<1> QED
  BY <1>1, <1>7, <1>8, <1>11, <1>12, WaitInFull DEF StallInv

LEMMA DCacheMissInFull ==
  ASSUME TypeOK, TypeOK', StallInv, raised = {}, DCacheMiss
  PROVE  StallInv' /\ StallsInFull
<1>1. /\ ~BranchOnEx /\ EndOfCycle /\ status # "HALT"
      /\ pipe' = stall_IF_ID_EX_MEM_stage(pipe)
      /\ icache_delay' = Less1(icache_delay) /\ branch_delay' = branch_delay
      /\ UNCHANGED <<info, lastBranch, raised, nrLoadUseStalls>>
  BY DEF DCacheMiss, Control, ControlSignal, TypeOK, Less1
<1>2. HaltOrder /\ DelaysKept
  BY DEF StallInv
<1>3. ToDrain(pipe') = ToDrain(pipe) /\ ID' = ID /\ pipe'.wbInstr = Bubble
  <2>1. /\ pipe'.ifInstr = pipe.ifInstr /\ pipe'.idInstr = pipe.idInstr
        /\ pipe'.exInstr = pipe.exInstr /\ pipe'.memInstr = pipe.memInstr
        /\ pipe'.wbInstr = Bubble
    BY <1>1, HoldStages DEF TypeOK
  <2> QED
    BY <1>1, <1>2, <2>1, HaltNotBubble DEF HaltOrder, ToDrain, ID
<1>4. HaltOrder'
  BY <1>1, <1>2, HaltMoves
<1>5. status' # "HALT"
  BY <1>1, <1>3, HaltNotBubble DEF EndOfCycle
<1>6. branch_delay > 0 => lastBranchCycleCount = info.instructionID
  BY <1>1, <1>2 DEF DelaysKept, Unnoted
<1>7. icache_delay' > 0 => icache_delay > 0
  BY <1>1 DEF Less1, TypeOK
<1>8. DelaysKept'
  BY <1>1, <1>2, <1>3, <1>5, <1>6, <1>7 DEF DelaysKept, ToDrain, lastBranch
<1>9. branch_delay + nrLoadUseStalls' <= branch_delay' + 1 + nrLoadUseStalls
  BY <1>1, DelayTypes
<1> QED
  BY <1>1, <1>3, <1>4, <1>8, <1>9, WaitInFull DEF StallInv

LEMMA ICacheMissInFull ==
  ASSUME TypeOK, TypeOK', StallInv, raised = {}, ICacheMiss
  PROVE  StallInv' /\ StallsInFull
<1>1. /\ EndOfCycle /\ status # "HALT" /\ icache_delay > 0
      /\ ~ (dcache_delay = 0 /\ branch_delay > 0) /\ dcache_delay = 0
      /\ pipe' = stall_IF_stage(pipe)
      /\ icache_delay' = Less1(icache_delay) /\ branch_delay' = Less1(branch_delay)
      /\ UNCHANGED <<info, raised, nrLoadUseStalls>>
  BY DEF ICacheMiss, Control, ControlSignal
<1>2. branch_delay = 0 /\ branch_delay' = 0
  BY <1>1 DEF TypeOK, Less1
<1>3. HaltOrder /\ DelaysKept
  BY DEF StallInv
<1>4. ToDrain(pipe) = 4
  BY <1>1, <1>3 DEF DelaysKept
<1>5. ToDrain(pipe') = 4
  BY <1>1, <1>4, DrainWaits
<1>6. HaltOrder'
  BY <1>1, <1>3, HaltMoves
<1>7. status' # "HALT"
  <2>1. pipe'.wbInstr.instr # HALT_INSTRUCTION
    BY <1>5 DEF ToDrain
  <2> QED
    BY <1>1, <2>1 DEF EndOfCycle
<1>8. DelaysKept'
  BY <1>2, <1>5, <1>7 DEF DelaysKept, ToDrain
<1>9. branch_delay + nrLoadUseStalls' <= branch_delay' + 1 + nrLoadUseStalls
  BY <1>1, <1>2, DelayTypes
<1> QED
  BY <1>1, <1>4, <1>5, <1>6, <1>8, <1>9, WaitInFull DEF StallInv

\* Without an exception nothing is squashed.
LEMMA NothingSquashed ==
  ASSUME TypeOK, ExceptionInv, raised = {}
  PROVE  ~squashID
  BY DEF ExceptionInv, VictimInPlace, IllegalInID

\* The halt word drains after all the delays.
LEMMA HaltInFull ==
  ASSUME TypeOK, TypeOK', ExceptionInv, StallInv, raised = {}, HaltInPipeline
  PROVE  StallInv' /\ StallsInFull
<1>1. /\ EndOfCycle /\ status # "HALT" /\ pipe' = moveAllForward(pipe)
      /\ icache_delay' = Less1(icache_delay) /\ branch_delay' = Less1(branch_delay)
      /\ UNCHANGED <<info, raised, nrLoadUseStalls>> /\ execute_DCACHE_write_Check
  BY DEF HaltInPipeline, Control
<1>2. icache_delay = 0 /\ dcache_delay = 0 /\ branch_delay = 0
  BY NothingSquashed DEF HaltInPipeline, Control, ControlSignal
<1>3. icache_delay' = 0 /\ branch_delay' = 0 /\ Less1(dcache_delay) = 0
  BY <1>1, <1>2 DEF Less1
<1>4. HaltOrder /\ DelaysKept
  BY DEF StallInv
<1>5. HaltOrder' /\ ToDrain(pipe) <= ToDrain(pipe') + 1
  BY <1>1, <1>4, HaltMoves
<1>6. ASSUME status' = "HALT" PROVE dcache_delay' = 0
  <2>1. pipe'.wbInstr.instr = HALT_INSTRUCTION
    BY <1>1, <1>6 DEF EndOfCycle
  <2>2. pipe'.memInstr = Bubble
    BY <1>5, <2>1 DEF HaltOrder, HaltBehind
  <2>3. ~isLoad(pipe'.memInstr.instr) /\ ~isStore(pipe'.memInstr.instr)
    BY <2>2 DEF Bubble, Nop, isLoad, isStore
  <2> QED
    BY <1>1, <1>3, <2>3 DEF execute_DCACHE_write_Check
<1>7. DelaysKept'
  BY <1>3, <1>6 DEF DelaysKept
<1>8. StallsInFull
  <2> DEFINE t == ToDrain(pipe')
             r == nrLoadUseStalls'
  <2>1. /\ t \in Nat /\ ToDrain(pipe) \in Nat /\ r \in Nat /\ r = nrLoadUseStalls
        /\ ToDrain(pipe) <= t + 1
    BY <1>1, <1>5, DelayTypes
  <2>2. /\ ToDrain(pipe) + 0 <= t + 0 + 1
        /\ ToDrain(pipe) + 0 + r <= t + 0 + 1 + nrLoadUseStalls
    <3> HIDE DEF t, r
    <3> QED
      BY <2>1
  <2> QED
    BY <1>2, <1>3, <2>2 DEF StallsInFull
<1> QED
  BY <1>1, <1>5, <1>7, <1>8 DEF StallInv

\* A fetch finds all delays at zero and, without exceptions, the halt word not fetched.
LEMMA FetchInFull ==
  ASSUME TypeOK, TypeOK', ExceptionInv, StallInv,
         NEW i \in Instr, NEW ovf \in BOOLEAN, NEW a \in Addr, FetchNew(i, ovf, a)
  PROVE  /\ StallInv'
         /\ raised' = {} =>
              /\ raised = {} /\ ToDrain(pipe) = 4 /\ ToDrain(pipe') = 4
              /\ icache_delay = 0 /\ dcache_delay = 0 /\ branch_delay = 0
              /\ branch_delay' = 0 /\ nrLoadUseStalls' = nrLoadUseStalls
<1>1. /\ EndOfCycle /\ status # "HALT" /\ ~info.isHalt /\ executeInstruction(i, ovf)
      /\ branch_delay' = Less1(branch_delay) /\ nrLoadUseStalls' = nrLoadUseStalls
  BY DEF FetchNew, Control, ControlSignal, HaltFetched
<1>2. /\ pipe.wbInstr.instr # HALT_INSTRUCTION /\ pipe.memInstr.instr # HALT_INSTRUCTION
      /\ pipe.exInstr.instr # HALT_INSTRUCTION /\ pipe.idInstr.instr # HALT_INSTRUCTION
      /\ pipe.ifInstr.instr # HALT_INSTRUCTION /\ ToDrain(pipe) = 4
  BY <1>1 DEF StallInv, HaltOrder, ToDrain
<1>3. /\ pipe'.idInstr.instr # HALT_INSTRUCTION /\ pipe'.exInstr.instr # HALT_INSTRUCTION
      /\ pipe'.memInstr.instr # HALT_INSTRUCTION
      /\ pipe'.wbInstr.instr # HALT_INSTRUCTION
  BY <1>2, FetchStages, HaltNotBubble
<1>4. ToDrain(pipe') = 4
  BY <1>3 DEF ToDrain
<1>5. pipe'.ifInstr.instr = HALT_INSTRUCTION => info'.isHalt
  BY <1>1, FetchStages DEF executeInstruction
<1>6. status' # "HALT"
  BY <1>1, <1>3 DEF EndOfCycle
<1>7. HaltOrder'
  <2>1. HaltBehind(pipe')
    BY <1>3 DEF HaltBehind
  <2>2. ~ (ToDrain(pipe') < 4)
    BY <1>4
  <2> QED
    BY <1>3, <1>5, <1>6, <2>1, <2>2 DEF HaltOrder
<1>8. ASSUME raised' = {}
      PROVE  /\ raised = {} /\ icache_delay = 0 /\ dcache_delay = 0 /\ branch_delay = 0
             /\ branch_delay' = 0
  <2>1. raised = {}
    BY <1>1, <1>8 DEF executeInstruction
  <2>2. icache_delay = 0 /\ dcache_delay = 0 /\ branch_delay = 0
    BY <2>1, NothingSquashed DEF FetchNew, Control, ControlSignal
  <2> QED
    BY <1>1, <2>1, <2>2 DEF Less1
<1>9. raised' = {} => DelaysKept'
  BY <1>4, <1>6, <1>8 DEF DelaysKept, ToDrain
<1> QED
  BY <1>1, <1>2, <1>4, <1>7, <1>8, <1>9 DEF StallInv

LEMMA CycleInFull ==
  ASSUME TypeOK, TypeOK', CostInv, ExceptionInv, InterlockInv, StallInv,
         \/ BranchStallOnEx \/ LoadUseStall \/ BranchStallOnMem \/ BranchStallDelay
         \/ ArithmeticOverflow \/ IllegalInstruction \/ HaltInPipeline
         \/ ICacheMiss \/ DCacheMiss
  PROVE  StallInv' /\ raised' = raised /\ (raised = {} => StallsInFull)
<1>1. /\ raised' = raised /\ info'.isHalt = info.isHalt /\ EndOfCycle /\ status # "HALT"
      /\ \/ pipe' = moveAllForward(pipe) \/ pipe' = stall_IF_stage(pipe)
         \/ pipe' = BRANCH_stall(pipe) \/ pipe' = stall_IF_ID_EX_MEM_stage(pipe)
  <2>1. CASE BranchStallOnEx \/ BranchStallOnMem \/ BranchStallDelay
    BY <2>1 DEF BranchStallOnEx, BranchStallOnMem, BranchStallDelay, HandleBranchStall,
       Control
  <2>2. CASE LoadUseStall \/ HaltInPipeline \/ ICacheMiss \/ DCacheMiss
    BY <2>2 DEF LoadUseStall, HaltInPipeline, ICacheMiss, DCacheMiss, Control,
       load_use_stall_stage
  <2>3. CASE ArithmeticOverflow
    BY <2>3 DEF ArithmeticOverflow, Control, insertNopException, OverflowTaken, TypeOK
  <2>4. CASE IllegalInstruction
    BY <2>4 DEF IllegalInstruction, Control, insertNopException, IllegalTaken, TypeOK
  <2> QED
    BY <2>1, <2>2, <2>3, <2>4
<1>2. CASE raised # {}
  BY <1>1, <1>2, HaltMoves DEF StallInv
<1>3. CASE raised = {}
  BY <1>1, <1>3, ServedWasRaised, BranchStallOnExInFull, BranchStallOnMemInFull,
     BranchStallDelayInFull, LoadUseInFull, DCacheMissInFull, ICacheMissInFull, HaltInFull
<1> QED
  BY <1>2, <1>3

LEMMA StallInvariant == Spec => []StallInv
<1>1. Init => StallInv
  BY HaltNotBubble DEF Init, EmptyPipe, StallInv, HaltOrder, HaltBehind, DelaysKept, ToDrain
<1>2. TypeOK /\ TypeOK' /\ CostInv /\ ExceptionInv /\ InterlockInv /\ StallInv
      /\ [Next]_vars => StallInv'
  <2>1. SUFFICES ASSUME TypeOK, TypeOK', CostInv, ExceptionInv, InterlockInv, StallInv,
                        [Next]_vars
                 PROVE  StallInv'
    OBVIOUS
  <2>2. CASE UNCHANGED vars
    BY <2>1, <2>2 DEF vars, delays, lastBranch, exceptions, history, StallInv, HaltOrder,
       DelaysKept, Unnoted, BranchOnEx, ToDrain, ID, EX
  <2>3. ASSUME NEW i \in Instr, NEW ovf \in BOOLEAN, NEW a \in Addr, FetchNew(i, ovf, a)
        PROVE  StallInv'
    BY <2>1, <2>3, FetchInFull
  <2> QED
    BY <2>1, <2>2, <2>3, CycleInFull DEF Next, Halted
<1>3. QED
  BY <1>1, <1>2, TypeCorrect, ExceptionInvariant, InterlockInvariant, CostInvariant, PTL
     DEF Spec
=============================================================================
