----------------------------- MODULE MCCycleSim -----------------------------
(***************************************************************************)
(* Instances of CycleSim for TLC.  Bytes are 2 bits wide, words 8.  A      *)
(* program is four words between two that are fixed: it starts by setting  *)
(* $1 to the address 32 and goes on to a nop and the halt word, which is   *)
(* at the exception address too.  Three words of data follow, around 32;   *)
(* the first of them is a pointer into the program.                        *)
(***************************************************************************)
EXTENDS CycleSim

W(o, s, t, d, i) ==
  [op |-> o, rs |-> s, rt |-> t, rd |-> d, shamt |-> 0, imm |-> i, address |-> i]

MCRegister == 0 .. 3

\* Word 0 is sll $0, $0, 0.  Immediates have 4 bits: 14 is -2.
Instructions == <<
  W("sll", 0, 0, 0, 0), W("halt", 0, 0, 0, 0), W("lui", 0, 1, 0, 2),
  W("lhu", 1, 1, 0, 14), W("lw", 1, 2, 0, 0), W("sw", 1, 2, 0, 4),
  W("addu", 1, 2, 2, 0), W("addi", 2, 2, 0, 7), W("beq", 1, 2, 0, 1),
  W("bgtz", 2, 0, 0, 1), W("ll", 0, 2, 0, 4), W("j", 0, 0, 0, 5) >>

MCDecode ==
  [w \in Word |-> IF w < Len(Instructions) THEN Instructions[w + 1]
                  ELSE W("illegal", 0, 0, 0, 0)]

\* The memory image with words p[1] .. p[4]; the first is a load, a store or addu.
Image(p) ==
  LET words == <<2>> \o p \o <<0, 1, 12, 124, 36>>
  IN  [k \in Cell |-> ByteAt(words[(k \div 4) + 1], 4, k % 4)]

MCPrograms == {Image(<<first>> \o p) : first \in 3 .. 6, p \in [1 .. 3 -> 3 .. 11]}

\* For a process that simulates one after the other.
TwoPrograms == {Image(<<3, 6, 7, 8>>), Image(<<4, 4, 10, 5>>)}

MCICache == [cacheSize |-> 32, blockSize |-> 16, ways |-> 1, missLatency |-> 2]
MCDCache == [cacheSize |-> 8, blockSize |-> 4, ways |-> 2, missLatency |-> 3]

\* The cycles of these instances are counted without a wrap.
ASSUME CyclesFitAssumption == CyclesFit
=============================================================================
