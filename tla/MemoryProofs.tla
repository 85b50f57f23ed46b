----------------------------- MODULE MemoryProofs ----------------------------
(***************************************************************************)
(* What the overflow checks of the emulator decide, for words of any width *)
(* (src/src/emulator.cpp:15-58), that every operator on words leaves a     *)
(* word, and every access to memory words and bytes.                       *)
(***************************************************************************)
EXTENDS Memory, FiniteSetTheorems, TLAPS

\* The sign bit halves the words exactly.
LEMMA SignBitHalves ==
  /\ SignBit \in Nat /\ SignBit > 0
  /\ WordModulus = 2 * SignBit
<1> DEFINE half == ByteModulus \div 2
<1>1. half \in Nat /\ half > 0 /\ ByteModulus = 2 * half
  BY WordsAssumption
<1>2. HalfModulus \in Nat /\ HalfModulus > 0
  BY WordsAssumption, <1>1 DEF HalfModulus
<1>3. WordModulus = 2 * ((half * ByteModulus) * HalfModulus)
  BY <1>1, <1>2 DEF WordModulus, HalfModulus
<1> DEFINE quarter == (half * ByteModulus) * HalfModulus
<1>4. quarter \in Nat /\ quarter > 0
  BY <1>1, <1>2
<1> HIDE DEF quarter, half
<1>5. WordModulus \div 2 = quarter
  BY <1>3, <1>4 DEF quarter
<1> QED
  BY <1>3, <1>4, <1>5 DEF SignBit, quarter

\* A result of one addition or subtraction wraps once at most.
LEMMA WrapsOnce ==
  ASSUME NEW n \in Int, -WordModulus <= n, n < 2 * WordModulus
  PROVE  n % WordModulus = IF n < 0 THEN n + WordModulus
                           ELSE IF n < WordModulus THEN n ELSE n - WordModulus
<1>1. WordModulus \in Nat /\ WordModulus > 0
  BY SignBitHalves
<1>2. \A m \in Nat, r, q \in Int :
        m > 0 /\ r \in 0 .. m - 1 /\ n = q * m + r => n % m = r
  OBVIOUS
<1>3. CASE n < 0
  <2>1. n = (-1) * WordModulus + (n + WordModulus)
    BY <1>1
  <2> QED
    BY <1>1, <1>2, <1>3, <2>1
<1>4. CASE 0 <= n /\ n < WordModulus
  <2>1. n = 0 * WordModulus + n
    BY <1>1
  <2> QED
    BY <1>1, <1>2, <1>4, <2>1
<1>5. CASE WordModulus <= n
  <2>1. n = 1 * WordModulus + (n - WordModulus)
    BY <1>1
  <2> QED
    BY <1>1, <1>2, <1>5, <2>1
<1> QED
  BY <1>1, <1>3, <1>4, <1>5

\* The words that addition and subtraction leave.
LEMMA SumWraps ==
  ASSUME NEW x \in Word, NEW y \in Word
  PROVE  Add(x, y) = IF x + y < WordModulus THEN x + y ELSE x + y - WordModulus
<1> DEFINE s == x + y
<1>1. s \in Int /\ 0 <= s /\ s < 2 * WordModulus /\ WordModulus \in Nat
  BY SignBitHalves DEF Word
<1> HIDE DEF s
<1>2. -WordModulus <= s
  BY <1>1
<1>3. s % WordModulus = IF s < 0 THEN s + WordModulus
                        ELSE IF s < WordModulus THEN s ELSE s - WordModulus
  BY <1>1, <1>2, WrapsOnce
<1>4. s % WordModulus = IF s < WordModulus THEN s ELSE s - WordModulus
  BY <1>1, <1>3
<1>5. x \in Int /\ y \in Int /\ WordModulus \in Int
  BY SignBitHalves DEF Word
<1> QED
  BY <1>4, <1>5 DEF Add, s

LEMMA DifferenceWraps ==
  ASSUME NEW x \in Word, NEW y \in Word
  PROVE  Difference(x, y) = IF x - y < 0 THEN x - y + WordModulus ELSE x - y
<1> DEFINE d == x - y
<1>1. d \in Int /\ -WordModulus <= d /\ d < WordModulus /\ WordModulus \in Nat
  BY SignBitHalves DEF Word
<1> HIDE DEF d
<1>2. d < 2 * WordModulus
  BY <1>1
<1>3. d % WordModulus = IF d < 0 THEN d + WordModulus
                        ELSE IF d < WordModulus THEN d ELSE d - WordModulus
  BY <1>1, <1>2, WrapsOnce
<1>4. d % WordModulus = IF d < 0 THEN d + WordModulus ELSE d
  BY <1>1, <1>3
<1> QED
  BY <1>4 DEF Difference, d

\* int32_t() of a word is in the range of int32_t.
LEMMA SignedRange ==
  ASSUME NEW v \in Word
  PROVE  Signed(v) \in INT32_MIN .. INT32_MAX
  BY SignBitHalves DEF Signed, Word, INT32_MIN, INT32_MAX

\* checkOverflowSigned decides exactly whether the word that add or addi would
\* write is the sum of the signed operands.
THEOREM AddOverflow ==
  ASSUME NEW x \in Word, NEW y \in Word
  PROVE  checkOverflowSigned(x, y) <=> Signed(Add(x, y)) # Signed(x) + Signed(y)
<1>1. Add(x, y) = IF x + y < WordModulus THEN x + y ELSE x + y - WordModulus
  BY SumWraps
<1>2. x \in Int /\ y \in Int /\ 0 <= x /\ x < WordModulus /\ 0 <= y /\ y < WordModulus
  BY SignBitHalves DEF Word
<1> QED
  BY <1>1, <1>2, SignBitHalves
     DEF checkOverflowSigned, Signed, INT32_MIN, INT32_MAX

\* checkUnderflowSigned does so for sub.
THEOREM SubOverflow ==
  ASSUME NEW x \in Word, NEW y \in Word
  PROVE  checkUnderflowSigned(x, y)
           <=> Signed(Difference(x, y)) # Signed(x) - Signed(y)
<1>1. Difference(x, y) = IF x - y < 0 THEN x - y + WordModulus ELSE x - y
  BY DifferenceWraps
<1>2. x \in Int /\ y \in Int /\ 0 <= x /\ x < WordModulus /\ 0 <= y /\ y < WordModulus
  BY SignBitHalves DEF Word
<1> QED
  BY <1>1, <1>2, SignBitHalves
     DEF checkUnderflowSigned, Signed, INT32_MIN, INT32_MAX

\* The unsigned checks do so for addu and subu.
THEOREM UnsignedOverflow ==
  ASSUME NEW x \in Word, NEW y \in Word
  PROVE  /\ checkOverflowUnsigned(x, y) <=> Add(x, y) # x + y
         /\ checkUnderflowUnsigned(x, y) <=> Difference(x, y) # x - y
  BY SumWraps, DifferenceWraps, SignBitHalves
     DEF checkOverflowUnsigned, checkUnderflowUnsigned, UINT32_MAX, Word

\* The rule an adder uses: a sum overflows if and only if the operands have the
\* same sign and the word of the sum has the other.
THEOREM OverflowBySigns ==
  ASSUME NEW x \in Word, NEW y \in Word
  PROVE  checkOverflowSigned(x, y) <=>
           /\ x < SignBit <=> y < SignBit
           /\ ~(Add(x, y) < SignBit <=> x < SignBit)
<1>1. Add(x, y) = IF x + y < WordModulus THEN x + y ELSE x + y - WordModulus
  BY SumWraps
<1>2. x \in Int /\ y \in Int /\ 0 <= x /\ x < WordModulus /\ 0 <= y /\ y < WordModulus
  BY SignBitHalves DEF Word
<1> QED
  BY <1>1, <1>2, SignBitHalves
     DEF checkOverflowSigned, Signed, INT32_MIN, INT32_MAX

-----------------------------------------------------------------------------
(***************************************************************************)
(* Every operator on words leaves a word.                                  *)
(***************************************************************************)
LEMMA ModuliTypes ==
  /\ ByteModulus \in Nat /\ HalfModulus \in Nat /\ WordModulus \in Nat
  /\ ByteModulus > 1 /\ HalfModulus > ByteModulus /\ WordModulus > HalfModulus
<1>1. ByteModulus \in Nat /\ ByteModulus > 1
  BY WordsAssumption
<1>2. HalfModulus \in Nat /\ HalfModulus > ByteModulus
  BY <1>1 DEF HalfModulus
<1>3. WordModulus \in Nat /\ WordModulus > HalfModulus
  BY <1>1, <1>2 DEF WordModulus
<1> QED
  BY <1>1, <1>2, <1>3

LEMMA WordExceedsFour ==
  WordModulus > 4
<1>1. HalfModulus >= 2 * ByteModulus /\ 2 * ByteModulus >= 4
  BY WordsAssumption DEF HalfModulus
<1>2. HalfModulus \in Nat /\ HalfModulus >= 4
  BY <1>1, ModuliTypes
<1>3. HalfModulus * HalfModulus >= 4 * HalfModulus
  BY <1>2
<1>4. WordModulus >= 4 * HalfModulus /\ WordModulus \in Nat
  BY <1>3, ModuliTypes DEF WordModulus
<1> QED
  BY <1>2, <1>4

LEMMA Wraps ==
  ASSUME NEW n \in Int
  PROVE  n % WordModulus \in Word
  BY ModuliTypes DEF Word

\* A modulus more or less makes no difference.
LEMMA ModulusShift ==
  ASSUME NEW n \in Int
  PROVE  (n - WordModulus) % WordModulus = n % WordModulus
<1> DEFINE m == WordModulus
           q == n \div m
           r == n - m * q
<1>1. m \in Nat /\ m > 0
  BY ModuliTypes
<1> HIDE DEF m
<1>2. q \in Int /\ m * q <= n /\ n < m * (q + 1)
  BY <1>1
<1> HIDE DEF q
<1>3. r \in 0 .. m - 1
  BY <1>1, <1>2
<1>4. n = q * m + r /\ n - m = (q - 1) * m + r
  BY <1>1, <1>2
<1> HIDE DEF r
<1>5. ASSUME NEW x \in Int, NEW k \in Int, x = k * m + r
      PROVE  x % m = r
  BY <1>1, <1>3, <1>5
<1>6. n % m = r
  BY <1>2, <1>4, <1>5
<1>7. (n - m) % m = r
  <2>1. n - m \in Int /\ q - 1 \in Int
    BY <1>1, <1>2
  <2> QED
    BY <2>1, <1>4, <1>5
<1> QED
  BY <1>6, <1>7 DEF m

\* Unsigned arithmetic may wrap at every step or at the end.
LEMMA AddThenWrap ==
  ASSUME NEW x \in Word, NEW y \in Word, NEW z \in Int
  PROVE  (Add(x, y) + z) % WordModulus = (x + y + z) % WordModulus
<1>1. x \in Int /\ y \in Int /\ WordModulus \in Int
  BY ModuliTypes DEF Word
<1>2. Add(x, y) = x + y \/ Add(x, y) = x + y - WordModulus
  BY SumWraps
<1>3. CASE Add(x, y) = x + y
  BY <1>1, <1>3
<1>4. CASE Add(x, y) = x + y - WordModulus
  <2>1. x + y + z \in Int /\ x + y - WordModulus + z = (x + y + z) - WordModulus
    BY <1>1
  <2> QED
    BY <1>4, <2>1, ModulusShift
<1> QED
  BY <1>2, <1>3, <1>4

LEMMA AddType ==
  ASSUME NEW x \in Word, NEW y \in Word
  PROVE  Add(x, y) \in Word /\ Difference(x, y) \in Word
<1>1. x + y \in Int /\ x - y \in Int
  BY ModuliTypes DEF Word
<1> QED
  BY <1>1, Wraps DEF Add, Difference

LEMMA SignExtType ==
  ASSUME NEW h \in Half
  PROVE  signExt(h) \in Word /\ h \in Word /\ h * HalfModulus \in Word
<1>1. h \in Nat /\ h < HalfModulus
  BY ModuliTypes DEF Half
<1>2. signExt(h) \in Word
  BY <1>1, ModuliTypes DEF signExt, Word
<1>3. h * HalfModulus \in Nat /\ h * HalfModulus < HalfModulus * HalfModulus
  BY <1>1, ModuliTypes
<1> QED
  BY <1>1, <1>2, <1>3, ModuliTypes DEF Word, WordModulus

LEMMA LeastNat ==
  ASSUME NEW T, T \subseteq Nat, T # {}
  PROVE  \E x \in T : \A y \in T : x <= y
<1>1. IsWellFoundedOn({ss \in Nat \X Nat : ss[1] < ss[2]}, Nat)
  BY NatLessThanWellFounded DEF OpToRel
<1>2. PICK x \in T : \A y \in T : <<y, x>> \notin {ss \in Nat \X Nat : ss[1] < ss[2]}
  BY <1>1, WFMin
<1>3. ASSUME NEW y \in T
      PROVE  x <= y
  <2>1. x \in Nat /\ y \in Nat
    OBVIOUS
  <2>2. ~ (y < x)
    <3>1. ~ (/\ <<y, x>> \in Nat \X Nat
             /\ <<y, x>>[1] < <<y, x>>[2])
      BY <1>2, Zenon
    <3>2. QED
      BY <2>1, <3>1
  <2>3. QED
    BY <2>1, <2>2
<1>4. QED
  BY <1>3

\* Induction, for a set instead of a predicate.
LEMMA UpTo ==
  ASSUME NEW n \in Nat, NEW S, 0 \in S,
         \A k \in 0 .. n - 1 : k \in S => k + 1 \in S
  PROVE  0 .. n \subseteq S
<1> DEFINE T == (0 .. n) \ S
<1>1. SUFFICES ASSUME T # {}
               PROVE  FALSE
  OBVIOUS
<1>2. T \subseteq Nat
  OBVIOUS
<1>3. PICK m \in T : \A k \in T : m <= k
  BY <1>1, <1>2, LeastNat
<1>4. m - 1 \in 0 .. n - 1 /\ m - 1 \notin T /\ (m - 1) + 1 = m
  BY <1>3
<1>5. m - 1 \in S
  BY <1>4
<1>6. QED
  BY <1>3, <1>4, <1>5

LEMMA WordBitsType ==
  WordBits \in Nat
<1> DEFINE n == CHOOSE m \in 1 .. ByteModulus : 2^m = ByteModulus
<1>1. n \in 1 .. ByteModulus /\ WordBits = 4 * n
  BY WordsAssumption DEF WordBits
<1> QED
  BY <1>1, ModuliTypes

LEMMA PowerType ==
  ASSUME NEW n \in 0 .. WordBits
  PROVE  2^n \in Nat /\ 2^n > 0
<1> DEFINE S == {m \in 0 .. WordBits : 2^m > 0}
<1>1. WordBits \in Nat
  BY WordBitsType
<1>2. 0 \in S
  BY <1>1, PowersOfTwo
<1>3. ASSUME NEW k \in 0 .. WordBits - 1, k \in S
      PROVE  k + 1 \in S
  <2>1. 2^k \in Nat /\ 2^(k + 1) = 2 * 2^k /\ k + 1 \in 0 .. WordBits
    BY <1>1, PowersOfTwo
  <2> QED
    BY <1>3, <2>1
<1>4. 0 .. WordBits \subseteq S
  BY <1>1, <1>2, <1>3, UpTo
<1> QED
  BY <1>4, PowersOfTwo

LEMMA PowerSquare ==
  ASSUME NEW x \in Nat, x + x \in 0 .. WordBits
  PROVE  2^(x + x) = 2^x * 2^x
<1> DEFINE S == {m \in 0 .. x : 2^(x + m) = 2^x * 2^m}
<1>1. x \in 0 .. WordBits /\ 0 .. x \subseteq 0 .. WordBits
      /\ \A m \in 0 .. x : x + m \in 0 .. WordBits
  BY WordBitsType
<1>2. 0 \in S
  BY <1>1, PowersOfTwo
<1>3. ASSUME NEW k \in 0 .. x - 1, k \in S
      PROVE  k + 1 \in S
  <2>1. /\ 2^x \in Nat /\ 2^k \in Nat /\ 2^(k + 1) = 2 * 2^k
        /\ 2^((x + k) + 1) = 2 * 2^(x + k)
    BY <1>1, PowersOfTwo
  <2>2. ASSUME NEW p \in Nat, NEW q \in Nat
        PROVE  2 * (p * q) = p * (2 * q)
    OBVIOUS
  <2>3. 2^((x + k) + 1) = 2^x * 2^(k + 1)
    BY <1>3, <2>1, <2>2
  <2>4. (x + k) + 1 = x + (k + 1)
    OBVIOUS
  <2> QED
    BY <2>3, <2>4
<1>4. 0 .. x \subseteq S
  BY <1>2, <1>3, UpTo
<1> QED
  BY <1>4

LEMMA AllBits ==
  WordBits \in Nat /\ 2^WordBits = WordModulus
<1> DEFINE n == CHOOSE m \in 1 .. ByteModulus : 2^m = ByteModulus
<1>1. n \in 1 .. ByteModulus /\ 2^n = ByteModulus /\ WordBits = 4 * n
  BY WordsAssumption DEF WordBits
<1> HIDE DEF n
<1>2. 2^(n + n) = HalfModulus
  BY <1>1, PowerSquare DEF HalfModulus
<1>3. 2^((n + n) + (n + n)) = WordModulus
  BY <1>1, <1>2, PowerSquare DEF WordModulus
<1>4. (n + n) + (n + n) = WordBits /\ WordBits \in Nat
  BY <1>1
<1> QED
  BY <1>3, <1>4

\* A sum of different powers of two below the width fits in the width.
LEMMA OfBitsType ==
  ASSUME NEW S
  PROVE  OfBits(S) \in Word
<1> DEFINE term(n) == IF n - 1 \in S THEN 2^(n - 1) ELSE 0
           Step(f, n) == IF n = 0 THEN 0 ELSE f[n - 1] + term(n)
           Rec(f, m) == f = [n \in 0 .. m |-> f[n]]
                        /\ \A n \in 0 .. m : f[n] = Step(f, n)
           T == {m \in 0 .. WordBits : \E f : Rec(f, m)}
           sum == CHOOSE f : f = [n \in 0 .. WordBits |-> Step(f, n)]
<1>1. WordBits \in Nat
  BY AllBits
<1>2. 0 \in T
  <2>1. Rec([n \in 0 .. 0 |-> 0], 0)
    OBVIOUS
  <2>2. 0 \in 0 .. WordBits
    BY <1>1
  <2> QED
    BY <2>1, <2>2
<1>3. ASSUME NEW m \in 0 .. WordBits - 1, m \in T
      PROVE  m + 1 \in T
  <2>1. PICK f : Rec(f, m)
    BY <1>3
  <2> DEFINE g == [n \in 0 .. m + 1 |-> IF n = m + 1 THEN f[m] + term(m + 1) ELSE f[n]]
  <2>2. ASSUME NEW n \in 0 .. m + 1
        PROVE  g[n] = Step(g, n)
    <3>1. CASE n = m + 1
      BY <3>1
    <3>2. CASE n \in 0 .. m
      <4>1. g[n] = f[n] /\ (n # 0 => g[n - 1] = f[n - 1])
        BY <3>2
      <4>2. f[n] = Step(f, n)
        BY <2>1, <3>2
      <4> QED
        BY <4>1, <4>2
    <3> QED
      BY <3>1, <3>2
  <2>3. g = [n \in 0 .. m + 1 |-> g[n]]
    OBVIOUS
  <2> HIDE DEF g
  <2>4. Rec(g, m + 1)
    BY <2>2, <2>3
  <2>5. m + 1 \in 0 .. WordBits
    BY <1>1
  <2> HIDE DEF Rec
  <2> QED
    BY <2>4, <2>5
<1>4. WordBits \in T
  <2> HIDE DEF T
  <2> QED
    BY <1>1, <1>2, <1>3, UpTo
<1>5. PICK f : Rec(f, WordBits)
  BY <1>4
<1>6. f = [n \in 0 .. WordBits |-> Step(f, n)]
  BY <1>5
<1>7. sum = [n \in 0 .. WordBits |-> Step(sum, n)]
  BY <1>6
<1> HIDE DEF sum
<1> DEFINE R == {m \in 0 .. WordBits : sum[m] \in Nat /\ sum[m] < 2^m}
<1>8. 0 \in R
  <2>1. sum[0] = 0
    BY <1>1, <1>7
  <2> QED
    BY <1>1, <2>1, PowersOfTwo
<1>9. ASSUME NEW m \in 0 .. WordBits - 1, m \in R
      PROVE  m + 1 \in R
  <2>1. m + 1 \in 0 .. WordBits /\ m + 1 # 0 /\ (m + 1) - 1 = m
    BY <1>1
  <2>2. sum[m + 1] = sum[m] + (IF m \in S THEN 2^m ELSE 0)
    BY <1>7, <2>1
  <2>3. 2^m \in Nat /\ 2^(m + 1) = 2 * 2^m
    BY <1>1, PowersOfTwo
  <2> QED
    BY <1>9, <2>1, <2>2, <2>3
<1>10. WordBits \in R
  <2> HIDE DEF R
  <2> QED
    BY <1>1, <1>8, <1>9, UpTo
<1>11. OfBits(S) = sum[WordBits]
  BY DEF OfBits, sum
<1> QED
  BY <1>10, <1>11, AllBits DEF Word

LEMMA BitwiseType ==
  ASSUME NEW x, NEW y
  PROVE  And(x, y) \in Word /\ Or(x, y) \in Word /\ Nor(x, y) \in Word
<1>1. And(x, y) \in Word /\ Or(x, y) \in Word
  BY OfBitsType DEF And, Or
<1> QED
  BY <1>1, ModuliTypes DEF Nor, Word, UINT32_MAX

LEMMA ShiftType ==
  ASSUME NEW x \in Word, NEW n \in 0 .. WordBits
  PROVE  (x * 2^n) % WordModulus \in Word /\ x \div 2^n \in Word
<1>1. 2^n \in Nat /\ 2^n > 0
  BY PowerType
<1>2. x \in Nat /\ x < WordModulus
  BY ModuliTypes DEF Word
<1>3. x * 2^n \in Int
  BY <1>1, <1>2
<1>4. ASSUME NEW p \in Nat, p > 0
      PROVE  x \div p \in Nat /\ x \div p <= x
  <2> DEFINE q == x \div p
  <2>1. q \in Int /\ p * q <= x /\ x < p * (q + 1)
    BY <1>2, <1>4
  <2> HIDE DEF q
  <2>2. q >= 0
    BY <1>2, <1>4, <2>1
  <2>3. q <= p * q
    BY <1>4, <2>1, <2>2
  <2> QED
    BY <1>2, <1>4, <2>1, <2>2, <2>3 DEF q
<1> QED
  BY <1>1, <1>2, <1>3, <1>4, Wraps, ModuliTypes DEF Word

-----------------------------------------------------------------------------
(***************************************************************************)
(* Memory: what is read is a word, what is written leaves bytes.           *)
(***************************************************************************)
LEMMA WeightType ==
  ASSUME NEW size \in MemEntrySize, NEW i \in 0 .. size - 1
  PROVE  /\ Weight(size, i) \in Nat \ {0}
         /\ size - i = 1 => Weight(size, i) = 1
         /\ size - i = 2 => Weight(size, i) = ByteModulus
         /\ size - i = 3 => Weight(size, i) = HalfModulus
         /\ size - i = 4 => Weight(size, i) = HalfModulus * ByteModulus
<1>1. size - i \in 1 .. 4
  BY DEF MemEntrySize, BYTE_SIZE, HALF_SIZE, WORD_SIZE
<1>2. HalfModulus * ByteModulus \in Nat \ {0}
  BY ModuliTypes
<1> QED
  BY <1>1, <1>2, ModuliTypes DEF Weight, ByteWeight

LEMMA FourBytes ==
  ASSUME NEW p \in Byte, NEW q \in Byte, NEW r \in Byte, NEW s \in Byte
  PROVE  p + q * ByteModulus + r * HalfModulus + s * (HalfModulus * ByteModulus)
           \in Word
<1> DEFINE low == p + q * ByteModulus
           high == r + s * ByteModulus
<1>1. ASSUME NEW x \in Byte, NEW y \in Byte
      PROVE  /\ x + y * ByteModulus \in Nat
             /\ x + y * ByteModulus < HalfModulus
  <2>1. x \in Nat /\ y \in Nat /\ x < ByteModulus /\ y <= ByteModulus - 1
    BY ModuliTypes DEF Byte
  <2>2. y * ByteModulus <= (ByteModulus - 1) * ByteModulus
    BY <2>1, ModuliTypes
  <2>3. (ByteModulus - 1) * ByteModulus = HalfModulus - ByteModulus
    BY ModuliTypes DEF HalfModulus
  <2>4. y * ByteModulus \in Nat
    BY <2>1, ModuliTypes
  <2> QED
    BY <2>1, <2>2, <2>3, <2>4, ModuliTypes
<1>2. low \in Nat /\ low < HalfModulus /\ high \in Nat /\ high <= HalfModulus - 1
  BY <1>1, ModuliTypes
<1>3. p + q * ByteModulus + r * HalfModulus + s * (HalfModulus * ByteModulus)
        = low + high * HalfModulus
  BY ModuliTypes DEF Byte
<1> HIDE DEF low, high
<1>4. high * HalfModulus <= (HalfModulus - 1) * HalfModulus
  BY <1>2, ModuliTypes
<1>5. (HalfModulus - 1) * HalfModulus = WordModulus - HalfModulus
  BY ModuliTypes DEF WordModulus
<1>6. high * HalfModulus \in Nat
  BY <1>2, ModuliTypes
<1>7. low + high * HalfModulus \in Word
  BY <1>2, <1>4, <1>5, <1>6, ModuliTypes DEF Word
<1> QED
  BY <1>3, <1>7

\* A read of any size, a failed one too, leaves a word.
LEMMA GetValueType ==
  ASSUME NEW mem \in MemArr, NEW address, NEW size \in MemEntrySize
  PROVE  getValue(mem, address, size) \in Word
<1> DEFINE byte(i) == IF i \in Reached(address, size)
                      THEN mem[CellOf(address, i)] ELSE 0
           part(i) == IF i \in Reached(address, size)
                      THEN mem[CellOf(address, i)] * Weight(size, i) ELSE 0
<1>1. ASSUME NEW i \in 0 .. 3
      PROVE  /\ byte(i) \in Byte
             /\ i < size => part(i) = byte(i) * Weight(size, i)
             /\ i >= size => part(i) = 0
  <2>1. i \in Reached(address, size) => i \in 0 .. size - 1 /\ CellOf(address, i) \in Cell
    BY DEF Reached
  <2>2. i \in Reached(address, size) => mem[CellOf(address, i)] \in Byte
    BY <2>1 DEF MemArr
  <2>3. byte(i) \in Byte
    BY <2>2, ModuliTypes DEF Byte
  <2>4. i \notin Reached(address, size) /\ i < size => part(i) = byte(i) * Weight(size, i)
    BY WeightType DEF MemEntrySize, BYTE_SIZE, HALF_SIZE, WORD_SIZE
  <2>5. i >= size => part(i) = 0
    BY <2>1 DEF MemEntrySize, BYTE_SIZE, HALF_SIZE, WORD_SIZE
  <2> QED
    BY <2>3, <2>4, <2>5
<1>2. getValue(mem, address, size) = part(0) + part(1) + part(2) + part(3)
  BY DEF getValue
<1>3. 0 \in Byte /\ \A x \in Byte : x \in Nat
  BY ModuliTypes DEF Byte
<1> HIDE DEF byte, part
<1>4. CASE size = 1
  <2>1. part(0) = byte(0) /\ part(1) = 0 /\ part(2) = 0 /\ part(3) = 0
    BY <1>1, <1>3, <1>4, WeightType
  <2>2. byte(0) + 0 * ByteModulus + 0 * HalfModulus + 0 * (HalfModulus * ByteModulus)
          \in Word
    BY <1>1, <1>3, FourBytes
  <2>3. byte(0) \in Nat
    BY <1>1, <1>3
  <2> QED
    BY <1>2, <2>1, <2>2, <2>3, ModuliTypes
<1>5. CASE size = 2
  <2>1. part(0) = byte(0) * ByteModulus /\ part(1) = byte(1)
        /\ part(2) = 0 /\ part(3) = 0
    BY <1>1, <1>3, <1>5, WeightType
  <2>2. byte(1) + byte(0) * ByteModulus + 0 * HalfModulus
          + 0 * (HalfModulus * ByteModulus) \in Word
    BY <1>1, <1>3, FourBytes
  <2>3. byte(0) \in Nat /\ byte(1) \in Nat
    BY <1>1, <1>3
  <2> QED
    BY <1>2, <2>1, <2>2, <2>3, ModuliTypes
<1>6. CASE size = 4
  <2>1. /\ part(0) = byte(0) * (HalfModulus * ByteModulus)
        /\ part(1) = byte(1) * HalfModulus
        /\ part(2) = byte(2) * ByteModulus
        /\ part(3) = byte(3)
    BY <1>1, <1>3, <1>6, WeightType
  <2>2. byte(3) + byte(2) * ByteModulus + byte(1) * HalfModulus
          + byte(0) * (HalfModulus * ByteModulus) \in Word
    BY <1>1, <1>3, FourBytes
  <2>3. byte(0) \in Nat /\ byte(1) \in Nat /\ byte(2) \in Nat /\ byte(3) \in Nat
    BY <1>1, <1>3
  <2> QED
    BY <1>2, <2>1, <2>2, <2>3, ModuliTypes
<1> QED
  BY <1>4, <1>5, <1>6 DEF MemEntrySize, BYTE_SIZE, HALF_SIZE, WORD_SIZE

LEMMA SetValueType ==
  ASSUME NEW mem \in MemArr, NEW address, NEW value \in Word,
         NEW size \in MemEntrySize
  PROVE  setValue(mem, address, value, size) \in MemArr
<1>1. ASSUME NEW i \in Reached(address, size)
      PROVE  ByteAt(value, size, i) \in Byte
  <2>1. Weight(size, i) \in Nat \ {0}
    BY WeightType DEF Reached
  <2>2. value \div Weight(size, i) \in Int
    BY <2>1, ModuliTypes DEF Word
  <2> QED
    BY <2>2, ModuliTypes DEF ByteAt, Byte
<1>2. ASSUME NEW k \in Cell, \E i \in Reached(address, size) : CellOf(address, i) = k
      PROVE  (CHOOSE i \in Reached(address, size) : CellOf(address, i) = k)
               \in Reached(address, size)
  BY <1>2
<1>3. ASSUME NEW k \in Cell
      PROVE  mem[k] \in Byte
  BY DEF MemArr
<1> QED
  BY <1>1, <1>2, <1>3 DEF setValue, MemArr
=============================================================================
