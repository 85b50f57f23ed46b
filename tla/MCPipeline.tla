----------------------------- MODULE MCPipeline -----------------------------
(***************************************************************************)
(* Instances of Pipeline for TLC.  Registers are 1, 2 and 3; the sets are  *)
(* chosen so that every pair of a producer and a consumer occurs: a load   *)
(* after a load, a use of either operand, a branch that reads one or both, *)
(* and loads to register 0 before instructions that name it.               *)
(***************************************************************************)
EXTENDS Pipeline

Word(op, rs, rt, dst) == [op |-> op, rs |-> rs, rt |-> rt, dst |-> dst, imm |-> 0]

MCAddr == {64}

\* One or two words of every class.
AllClasses ==
  {Word("Load", 1, 2, 2), Word("Load", 1, 3, 3), Word("Load", 1, 0, 0),
   Word("Store", 2, 3, 0), Word("IType", 2, 2, 2), Word("RType", 2, 3, 2),
   Word("Branch2", 2, 3, 0), Word("Branch2", 2, 0, 0), Word("Branch1", 2, 0, 0),
   Word("Jump", 2, 0, 0), Word("Illegal", 2, 1, 0), HALT_INSTRUCTION}

\* The words whose stalls and exceptions disturb each other, for longer programs.
Disturbing ==
  {Word("Load", 1, 2, 2), Word("Load", 1, 3, 3), Word("IType", 2, 2, 2),
   Word("Branch2", 2, 3, 0), Word("Illegal", 2, 1, 0), HALT_INSTRUCTION}

\* Every load goes to register 0.
ZeroLoads ==
  {Word("Load", 1, 0, 0), Word("IType", 2, 2, 2), Word("RType", 0, 0, 2),
   Word("Branch2", 2, 0, 0), HALT_INSTRUCTION}

=============================================================================
