------------------------------- MODULE Words -------------------------------
(***************************************************************************)
(* The fixed-width integers of the emulator: a word is 32 bits in the      *)
(* program and four bytes of any size here.  The functions that decide     *)
(* overflow compute in 64 bits after a conversion to a signed or an        *)
(* unsigned word, that is, in integers that do not wrap.                   *)
(***************************************************************************)
EXTENDS Integers, FiniteSets, FiniteSetsExt

CONSTANT ByteModulus  \* 2^8

HalfModulus == ByteModulus * ByteModulus
WordModulus == HalfModulus * HalfModulus

ASSUME WordsAssumption ==
  /\ ByteModulus \in Nat /\ ByteModulus >= 2
  /\ ByteModulus % 2 = 0
  /\ \E n \in 1 .. ByteModulus : 2^n = ByteModulus

Byte == 0 .. ByteModulus - 1
Half == 0 .. HalfModulus - 1
Word == 0 .. WordModulus - 1

SignBit == WordModulus \div 2
INT32_MAX == SignBit - 1
INT32_MIN == -SignBit
UINT32_MAX == WordModulus - 1

\* int32_t(v)
Signed(v) == IF v < SignBit THEN v ELSE v - WordModulus

signExt(smol) ==
  IF smol < HalfModulus \div 2 THEN smol ELSE smol + (WordModulus - HalfModulus)

\* Unsigned arithmetic wraps.
Add_wide(x, y) == x + y                          \* mutant: kept in 64 bits
Add(x, y) == (x + y) % WordModulus
Difference(x, y) == (x - y) % WordModulus

checkOverflowUnsigned(val1, val2) == val1 + val2 > UINT32_MAX

checkOverflowSigned_above(val1, val2) ==         \* mutant: one bound is left out
  Signed(val1) + Signed(val2) > INT32_MAX
checkOverflowSigned(val1, val2) ==
  LET result == Signed(val1) + Signed(val2)
  IN  result > INT32_MAX \/ result < INT32_MIN

checkUnderflowUnsigned(val1, val2) == val2 > val1

checkUnderflowSigned(val1, val2) ==
  LET result == Signed(val1) - Signed(val2)
  IN  result < INT32_MIN \/ result > INT32_MAX

\* Bitwise operators on words, by the set of the bits that are 1.
WordBits == 4 * (CHOOSE n \in 1 .. ByteModulus : 2^n = ByteModulus)
Bits(v) == {k \in 0 .. WordBits - 1 : (v \div 2^k) % 2 = 1}
OfBits(S) ==
  LET sum[n \in 0 .. WordBits] ==
        IF n = 0 THEN 0 ELSE sum[n - 1] + (IF n - 1 \in S THEN 2^(n - 1) ELSE 0)
  IN  sum[WordBits]
And(a, b) == OfBits(Bits(a) \cap Bits(b))
Or(a, b) == OfBits(Bits(a) \cup Bits(b))
Nor(a, b) == UINT32_MAX - Or(a, b)

\* What the provers are not told of the powers of two.
ASSUME PowersOfTwo ==
  2^0 = 1 /\ \A n \in 0 .. WordBits : 2^n \in Nat /\ 2^(n + 1) = 2 * 2^n
=============================================================================
