----------------------------- MODULE MCFunctSim -----------------------------
(***************************************************************************)
(* Instances of FunctSim for TLC.  Bytes are 2 bits wide: half words have  *)
(* 4 bits, words 8.  A program is four words; word number k of Words,      *)
(* counted from 0, stands for the instruction with that encoding.  After   *)
(* the program come a nop, the halt word at the exception address and one  *)
(* word of data at the end of memory.                                      *)
(***************************************************************************)
EXTENDS FunctSim

I(o, s, t, d, i) ==
  [op |-> o, rs |-> s, rt |-> t, rd |-> d, shamt |-> 1, imm |-> i, address |-> i]

MCRegister == 0 .. 3

\* Word 0 is sll $0, $0, 0.
Instructions == <<
  [I("sll", 0, 0, 0, 0) EXCEPT !.shamt = 0], I("halt", 0, 0, 0, 0),
  \* 2 .. 11: control
  I("addiu", 0, 1, 0, 1), I("beq", 0, 0, 0, 1), I("bne", 1, 0, 0, 15),
  I("blez", 1, 0, 0, 1), I("bgtz", 1, 0, 0, 14), I("j", 0, 0, 0, 2),
  I("jal", 0, 0, 0, 3), I("jr", 3, 0, 0, 0), I("illegal", 0, 0, 0, 0),
  I("addi", 0, 0, 0, 5),
  \* 12 .. 25: arithmetic
  I("lui", 0, 1, 0, 8), I("lui", 0, 2, 0, 7), I("addi", 1, 1, 0, 15),
  I("addi", 2, 2, 0, 7), I("add", 1, 2, 2, 0), I("add", 1, 1, 1, 0),
  I("addu", 1, 2, 1, 0), I("sub", 2, 1, 1, 0), I("subu", 2, 1, 2, 0),
  I("sltu", 1, 2, 3, 0), I("slt", 1, 2, 3, 0), I("slti", 1, 2, 0, 9),
  I("nor", 1, 0, 1, 0), I("sub", 0, 1, 2, 0),
  \* 26 .. 37: memory and logic
  I("lw", 0, 1, 0, 0), I("sw", 0, 1, 0, 4), I("lhu", 2, 1, 0, 2),
  I("lbu", 2, 2, 0, 3), I("sb", 2, 1, 0, 7), I("sh", 2, 1, 0, 13),
  I("addiu", 2, 2, 0, 6), I("ori", 1, 1, 0, 11), I("andi", 1, 2, 0, 6),
  I("srl", 0, 1, 1, 0), I("or", 1, 2, 1, 0), I("sltiu", 1, 2, 0, 9) >>

MCDecode ==
  [w \in Word |-> IF w < Len(Instructions) THEN Instructions[w + 1]
                  ELSE I("illegal", 0, 0, 0, 0)]

\* The memory image with words p[1] .. p[4].
Image(p) ==
  LET words == p \o <<0, 1, 1>>
  IN  [k \in Cell |-> ByteAt(words[(k \div 4) + 1], 4, k % 4)]

\* All programs of four control instructions; those of two arithmetic, memory or
\* logic instructions after two that set up their operands.
MCPrograms ==
  LET control == {0} \cup 2 .. 10
      operands == {2, 11, 12, 13, 15, 32}
  IN  {Image(p) : p \in [1 .. 4 -> control]}
        \cup {Image(p \o q) : p \in [1 .. 2 -> operands],
                              q \in [1 .. 2 -> 14 .. 25] \cup [1 .. 2 -> 26 .. 37]}
=============================================================================
