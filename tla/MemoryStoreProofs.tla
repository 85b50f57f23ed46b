-------------------------- MODULE MemoryStoreProofs --------------------------
(***************************************************************************)
(* Theorems about MemoryStore, for every width of a byte, every memory and *)
(* every sequence of calls: errors are reported, a read returns what was   *)
(* stored, a dump shows it.                                                *)
(***************************************************************************)
EXTENDS MemoryStore, MemoryProofs

-----------------------------------------------------------------------------
(***************************************************************************)
(* Which cells an access reaches.                                          *)
(***************************************************************************)
LEMMA MemoryBounds ==
  /\ startAddr \in Nat /\ MEMORY_SIZE \in Nat /\ WordModulus \in Nat
  /\ MEMORY_SIZE + 4 <= WordModulus /\ startAddr + MEMORY_SIZE <= WordModulus
  /\ Word = 0 .. WordModulus - 1 /\ Cell = 0 .. MEMORY_SIZE - 1
<1>1. startAddr \in Word /\ MEMORY_SIZE \in 0 .. WordModulus - 4
  BY MemoryAssumption
<1> QED
  BY <1>1, ModuliTypes, MemoryStoreAssumption DEF Word, Cell

LEMMA SizeBounds ==
  ASSUME NEW size \in MemEntrySize
  PROVE  size \in 1 .. 4
  BY DEF MemEntrySize, BYTE_SIZE, HALF_SIZE, WORD_SIZE

\* An access that begins in memory does not wrap before it leaves it.
LEMMA CellAt ==
  ASSUME NEW address \in Word, NEW i \in 0 .. 3,
         address >= startAddr, address < startAddr + MEMORY_SIZE
  PROVE  CellOf(address, i) = address - startAddr + i
<1> DEFINE d == address - startAddr + i
<1>1. d \in Int /\ 0 <= d /\ d < WordModulus
  BY MemoryBounds
<1> QED
  BY <1>1, MemoryBounds DEF CellOf

LEMMA FirstByte ==
  ASSUME NEW address \in Word, CellOf(address, 0) \in Cell
  PROVE  address >= startAddr /\ address < startAddr + MEMORY_SIZE
<1> DEFINE d == address - startAddr
<1>1. /\ d \in Int /\ -WordModulus <= d /\ d < WordModulus /\ d < 2 * WordModulus
      /\ address \in Nat
  BY MemoryBounds
<1>2. CellOf(address, 0) = d % WordModulus
  BY <1>1 DEF CellOf
<1>3. d % WordModulus = IF d < 0 THEN d + WordModulus
                        ELSE IF d < WordModulus THEN d ELSE d - WordModulus
  BY <1>1, WrapsOnce
<1> QED
  BY <1>1, <1>2, <1>3, MemoryBounds

LEMMA ReachedBytes ==
  ASSUME NEW address \in Word, NEW size \in MemEntrySize, NEW i \in 0 .. size - 1
  PROVE  i \in Reached(address, size)
           <=> startAddr <= address /\ address + i < startAddr + MEMORY_SIZE
<1>1. size \in 1 .. 4 /\ i \in 0 .. 3 /\ address \in Nat
  BY SizeBounds, MemoryBounds
<1>2. ASSUME i \in Reached(address, size)
      PROVE  startAddr <= address /\ address + i < startAddr + MEMORY_SIZE
  <2>1. CellOf(address, 0) \in Cell /\ CellOf(address, i) \in Cell
    BY <1>1, <1>2 DEF Reached
  <2> QED
    BY <1>1, <2>1, FirstByte, CellAt, MemoryBounds
<1>3. ASSUME startAddr <= address, address + i < startAddr + MEMORY_SIZE
      PROVE  i \in Reached(address, size)
  <2>1. ASSUME NEW j \in 0 .. i
        PROVE  CellOf(address, j) \in Cell
    BY <1>1, <1>3, CellAt, MemoryBounds
  <2> QED
    BY <2>1 DEF Reached
<1> QED
  BY <1>2, <1>3

LEMMA SucceedsInside ==
  ASSUME NEW address \in Word, NEW size \in MemEntrySize
  PROVE  Succeeds(address, size)
           <=> \A i \in 0 .. size - 1 :
                 address + i \in startAddr .. startAddr + MEMORY_SIZE - 1
<1>1. size \in 1 .. 4 /\ size - 1 \in 0 .. size - 1 /\ 0 \in 0 .. size - 1
      /\ address \in Nat
  BY SizeBounds, MemoryBounds
<1>2. Succeeds(address, size)
        <=> startAddr <= address /\ address + (size - 1) < startAddr + MEMORY_SIZE
  BY <1>1, ReachedBytes DEF Succeeds
<1>3. ASSUME startAddr <= address, address + (size - 1) < startAddr + MEMORY_SIZE,
             NEW i \in 0 .. size - 1
      PROVE  address + i \in startAddr .. startAddr + MEMORY_SIZE - 1
  BY <1>1, <1>3, MemoryBounds
<1>4. ASSUME /\ address + 0 \in startAddr .. startAddr + MEMORY_SIZE - 1
             /\ address + (size - 1) \in startAddr .. startAddr + MEMORY_SIZE - 1
      PROVE  startAddr <= address /\ address + (size - 1) < startAddr + MEMORY_SIZE
  BY <1>1, <1>4, MemoryBounds
<1> QED
  BY <1>1, <1>2, <1>3, <1>4

-----------------------------------------------------------------------------
(***************************************************************************)
(* The digits of a value are the bytes it is stored as and read from.      *)
(***************************************************************************)
LEMMA Divides ==
  ASSUME NEW n \in Nat \ {0}, NEW q \in Nat, NEW r \in 0 .. n - 1,
         NEW v, v = q * n + r
  PROVE  v \div n = q /\ v % n = r
  OBVIOUS

LEMMA Distributes ==
  ASSUME NEW x \in Int, NEW y \in Int, NEW z \in Int
  PROVE  (x + y) * z = x * z + y * z /\ (x * y) * z = x * (y * z)
  OBVIOUS

LEMMA DigitsOfFour ==
  ASSUME NEW p \in Byte, NEW q \in Byte, NEW r \in Byte, NEW s \in Byte,
         NEW v, v = p + q * ByteModulus + r * HalfModulus + s * (HalfModulus * ByteModulus)
  PROVE  Digit(v, 0) = p /\ Digit(v, 1) = q /\ Digit(v, 2) = r /\ Digit(v, 3) = s
<1> DEFINE B == ByteModulus
<1>1. /\ B \in Nat /\ B > 1 /\ B * B \in Nat \ {0} /\ B * B * B \in Nat \ {0}
      /\ HalfModulus = B * B
  BY ModuliTypes DEF HalfModulus
<1>2. /\ p \in 0 .. B - 1 /\ q \in 0 .. B - 1 /\ r \in 0 .. B - 1 /\ s \in 0 .. B - 1
  BY DEF Byte
<1>3. ASSUME NEW x \in 0 .. B - 1, NEW n \in Nat \ {0}, NEW y \in 0 .. n - 1
      PROVE  x * n + y \in 0 .. B * n - 1
  <2>1. x * n <= (B - 1) * n /\ (B - 1) * n = B * n - n /\ x * n \in Nat
    BY <1>1
  <2> QED
    BY <1>1, <2>1
<1>4. q * B + p \in 0 .. B * B - 1
  BY <1>1, <1>2, <1>3
<1>5. r * (B * B) + (q * B + p) \in 0 .. B * B * B - 1
  BY <1>1, <1>2, <1>3, <1>4
<1>6. s * B + r \in Nat /\ (s * B + r) * B + q \in Nat /\ q * B + p \in Nat
  BY <1>1, <1>2
<1>7. /\ (s * B + r) * B = s * (B * B) + r * B
      /\ ((s * B + r) * B) * B = (s * (B * B)) * B + (r * B) * B
      /\ (s * (B * B)) * B = s * (B * B * B) /\ (r * B) * B = r * (B * B)
      /\ ((s * B + r) * B + q) * B = ((s * B + r) * B) * B + q * B
      /\ (s * B + r) * (B * B) = ((s * B + r) * B) * B
  <2>1. p \in Int /\ q \in Int /\ r \in Int /\ s \in Int /\ B \in Int
    BY <1>1, <1>2
  <2> HIDE DEF B
  <2>2. s * B \in Int /\ B * B \in Int /\ r * B \in Int /\ (s * B + r) * B \in Int
    BY <2>1
  <2> QED
    BY <2>1, <2>2, Distributes
<1> DEFINE high == (s * B + r) * B + q
           top == s * B + r
           low == q * B + p
           lower == r * (B * B) + low
<1>8. v = high * B + p /\ v = top * (B * B) + low /\ v = s * (B * B * B) + lower
  BY <1>1, <1>2, <1>7
<1> HIDE DEF high, top, low, lower
<1>9. v % B = p /\ v \div B = high
  <2>1. high \in Nat /\ B \in Nat \ {0} /\ p \in 0 .. B - 1 /\ v = high * B + p
    BY <1>1, <1>2, <1>6, <1>8 DEF high
  <2> HIDE DEF B
  <2> QED
    BY <2>1, Divides
<1>10. high % B = q /\ top % B = r /\ s % B = s
  <2>1. /\ high = top * B + q /\ q \in 0 .. B - 1 /\ B \in Nat \ {0}
        /\ top = s * B + r /\ top \in Nat /\ r \in 0 .. B - 1 /\ s \in 0 .. B - 1
        /\ s \in Nat
    BY <1>1, <1>2, <1>6 DEF high, top
  <2> HIDE DEF B
  <2>2. high % B = q
    BY <2>1, Divides
  <2>3. top % B = r
    BY <2>1, Divides
  <2>4. s % B = s
    BY <2>1
  <2> QED
    BY <2>2, <2>3, <2>4
<1>11. v \div (B * B) = top /\ v \div (B * B * B) = s
  <2>1. low \in 0 .. B * B - 1 /\ lower \in 0 .. B * B * B - 1 /\ top \in Nat /\ s \in Nat
    BY <1>2, <1>4, <1>5, <1>6 DEF low, lower, top
  <2> QED
    BY <1>1, <1>8, <2>1, Divides
<1>12. v \in Nat /\ v \div 1 = v
  BY <1>1, <1>2, <1>6, <1>8 DEF high
<1>13. /\ Digit(v, 0) = (v \div 1) % B /\ Digit(v, 1) = (v \div B) % B
       /\ Digit(v, 2) = (v \div (B * B)) % B /\ Digit(v, 3) = (v \div (B * B * B)) % B
  BY DEF Digit
<1> QED
  BY <1>9, <1>10, <1>11, <1>12, <1>13

\* What a store writes of a value is its digits.
LEMMA ByteAtDigit ==
  ASSUME NEW value \in Word, NEW size \in MemEntrySize, NEW i \in 0 .. size - 1
  PROVE  ByteAt(value, size, i) = Digit(value, size - 1 - i)
<1>1. size - i \in 1 .. 4 /\ size - 1 - i + 1 = size - i
  BY SizeBounds
<1>2. <<1, ByteModulus, ByteModulus * ByteModulus,
        ByteModulus * ByteModulus * ByteModulus>> = ByteWeight
  BY DEF ByteWeight, HalfModulus
<1> QED
  BY <1>1, <1>2 DEF ByteAt, Digit, Weight

-----------------------------------------------------------------------------
(***************************************************************************)
(* The invariant: each cell holds what the last call that covers it has    *)
(* put there.                                                              *)
(***************************************************************************)
Call == [address : Word, value : Word, size : MemEntrySize]

\* LastStored, of any sequence of calls.
Covering(q, a) == {k \in DOMAIN q : Covers(q[k], a)}
Latest(T) == CHOOSE k \in T : \A j \in T : j <= k
StoredAt(c, a) == Digit(c.value, c.address + c.size - 1 - a)
LastIn(q, a) ==
  IF Covering(q, a) = {} THEN 0 ELSE StoredAt(q[Latest(Covering(q, a))], a)

StoreInv ==
  /\ memArr \in MemArr
  /\ calls \in Seq(Call)
  /\ \A k \in Cell : memArr[k] = LastIn(calls, startAddr + k)

LEMMA LastStoredIn == \A a : LastStored(a) = LastIn(calls, a)
  BY DEF LastStored, LastIn, Covering, Latest, StoredAt

LEMMA GreatestIndex ==
  ASSUME NEW n \in Nat, NEW T, T \subseteq 1 .. n, T # {}
  PROVE  Latest(T) \in T /\ \A j \in T : j <= Latest(T)
<1> DEFINE S == {n - k : k \in T}
<1>1. S \subseteq Nat /\ S # {}
  <2>1. \A k \in T : n - k \in Nat
    OBVIOUS
  <2> QED
    BY <2>1
<1>2. PICK x \in S : \A y \in S : x <= y
  BY <1>1, LeastNat
<1>3. PICK k \in T : x = n - k
  OBVIOUS
<1>4. ASSUME NEW j \in T
      PROVE  j <= k
  <2>1. n - j \in S
    OBVIOUS
  <2>2. n - k <= n - j
    BY <1>2, <1>3, <2>1
  <2> QED
    BY <2>2
<1> QED
  BY <1>4 DEF Latest

LEMMA LastInAppended ==
  ASSUME NEW q \in Seq(Call), NEW t \in Seq(Call), NEW a
  PROVE  /\ (\A j \in DOMAIN t : ~Covers(t[j], a)) => LastIn(q \o t, a) = LastIn(q, a)
         /\ \A j \in DOMAIN t :
              /\ Covers(t[j], a)
              /\ \A i \in DOMAIN t : Covers(t[i], a) => i = j
              => LastIn(q \o t, a) = StoredAt(t[j], a)
<1> DEFINE n == Len(q)
           m == Len(t)
           u == q \o t
<1>1. /\ n \in Nat /\ m \in Nat /\ DOMAIN q = 1 .. n /\ DOMAIN t = 1 .. m
      /\ DOMAIN u = 1 .. n + m
      /\ \A k \in 1 .. n : u[k] = q[k]
      /\ \A j \in 1 .. m : u[n + j] = t[j]
  OBVIOUS
<1>2. \A k \in 1 .. n + m : k \in 1 .. n \/ \E j \in 1 .. m : k = n + j
  <2>1. ASSUME NEW k \in 1 .. n + m, k \notin 1 .. n
        PROVE  k - n \in 1 .. m /\ k = n + (k - n)
    BY <1>1, <2>1
  <2> QED
    BY <2>1
<1>3. /\ \A k \in 1 .. n : k \in 1 .. n + m
      /\ \A j \in 1 .. m : n + j \in 1 .. n + m
  BY <1>1
<1>4. Covering(q, a) \subseteq 1 .. n /\ Covering(u, a) \subseteq 1 .. n + m
  BY <1>1 DEF Covering
<1> HIDE DEF u, n, m
<1>5. ASSUME \A j \in DOMAIN t : ~Covers(t[j], a)
      PROVE  LastIn(u, a) = LastIn(q, a)
  <2>1. Covering(u, a) = Covering(q, a)
    <3>1. ASSUME NEW k \in 1 .. n + m
          PROVE  k \in Covering(u, a) <=> k \in Covering(q, a)
      <4>1. CASE k \in 1 .. n
        BY <1>1, <4>1 DEF Covering
      <4>2. CASE \E j \in 1 .. m : k = n + j /\ k \notin 1 .. n
        BY <1>1, <1>5, <4>2 DEF Covering
      <4> QED
        BY <1>2, <4>1, <4>2
    <3> QED
      BY <1>3, <1>4, <3>1
  <2>2. CASE Covering(q, a) = {}
    BY <2>1, <2>2 DEF LastIn
  <2>3. CASE Covering(q, a) # {}
    <3>1. Latest(Covering(q, a)) \in 1 .. n
      BY <1>1, <1>4, <2>3, GreatestIndex
    <3> QED
      BY <1>1, <2>1, <2>3, <3>1 DEF LastIn
  <2> QED
    BY <2>2, <2>3
<1>6. ASSUME NEW j \in DOMAIN t, Covers(t[j], a),
             \A i \in DOMAIN t : Covers(t[i], a) => i = j
      PROVE  LastIn(u, a) = StoredAt(t[j], a)
  <2>1. n + j \in Covering(u, a) /\ u[n + j] = t[j]
    BY <1>1, <1>3, <1>6 DEF Covering
  <2>2. ASSUME NEW k \in Covering(u, a)
        PROVE  k <= n + j
    <3>1. k \in 1 .. n \/ \E i \in 1 .. m : k = n + i
      BY <1>2, <1>4
    <3>2. ASSUME NEW i \in 1 .. m, k = n + i
          PROVE  i = j
      BY <1>1, <1>6, <3>2 DEF Covering
    <3> QED
      BY <1>1, <3>1, <3>2
  <2>3. /\ Latest(Covering(u, a)) \in Covering(u, a)
        /\ n + j <= Latest(Covering(u, a))
    BY <1>1, <1>4, <2>1, GreatestIndex
  <2>4. Latest(Covering(u, a)) = n + j
    BY <1>1, <1>4, <2>2, <2>3
  <2> QED
    BY <2>1, <2>4 DEF LastIn
<1> QED
  BY <1>5, <1>6 DEF u

\* An access reaches exactly the cells that its call covers.
LEMMA ReachesCovered ==
  ASSUME NEW c \in Call, NEW k \in Cell
  PROVE  LET a == startAddr + k IN
         /\ Covers(c, a) => /\ a - c.address \in Reached(c.address, c.size)
                            /\ CellOf(c.address, a - c.address) = k
         /\ \A i \in Reached(c.address, c.size) :
              CellOf(c.address, i) = k => Covers(c, a) /\ i = a - c.address
<1> DEFINE a == startAddr + k
<1>1. /\ c.address \in Word /\ c.address \in Nat /\ c.size \in MemEntrySize
      /\ c.size \in Nat /\ c.size <= 4 /\ k \in Nat /\ k < MEMORY_SIZE
      /\ startAddr \in Nat /\ MEMORY_SIZE \in Nat
  BY SizeBounds, MemoryBounds DEF Call
<1>2. ASSUME Covers(c, a)
      PROVE  /\ a - c.address \in Reached(c.address, c.size)
             /\ CellOf(c.address, a - c.address) = k
  <2>1. /\ a - c.address \in 0 .. c.size - 1 /\ a - c.address \in 0 .. 3
        /\ startAddr <= c.address /\ c.address < startAddr + MEMORY_SIZE
        /\ c.address + (a - c.address) < startAddr + MEMORY_SIZE
        /\ c.address - startAddr + (a - c.address) = k
    BY <1>1, <1>2 DEF Covers
  <2>2. a - c.address \in Reached(c.address, c.size)
    BY <1>1, <2>1, ReachedBytes
  <2>3. CellOf(c.address, a - c.address) = c.address - startAddr + (a - c.address)
    BY <1>1, <2>1, CellAt
  <2> QED
    BY <2>1, <2>2, <2>3
<1>3. ASSUME NEW i \in Reached(c.address, c.size), CellOf(c.address, i) = k
      PROVE  Covers(c, a) /\ i = a - c.address
  <2>1. i \in 0 .. c.size - 1 /\ i \in 0 .. 3 /\ i \in Nat /\ i < c.size
    BY <1>1 DEF Reached
  <2>2. startAddr <= c.address /\ c.address + i < startAddr + MEMORY_SIZE
    BY <1>1, <2>1, ReachedBytes
  <2>3. c.address < startAddr + MEMORY_SIZE
    BY <1>1, <2>1, <2>2
  <2>4. k = c.address - startAddr + i
    BY <1>1, <1>3, <2>1, <2>2, <2>3, CellAt
  <2>5. a = c.address + i
    BY <1>1, <2>1, <2>4
  <2>6. i = a - c.address /\ c.address <= a /\ a < c.address + c.size
    BY <1>1, <2>1, <2>5
  <2> QED
    BY <2>2, <2>6 DEF Covers
<1> QED
  BY <1>2, <1>3

LEMMA SetStores ==
  ASSUME NEW mem \in MemArr, NEW q \in Seq(Call), NEW c \in Call,
         \A k \in Cell : mem[k] = LastIn(q, startAddr + k)
  PROVE  \A k \in Cell : setValue(mem, c.address, c.value, c.size)[k]
                           = LastIn(Append(q, c), startAddr + k)
<1> SUFFICES ASSUME NEW k \in Cell
             PROVE  setValue(mem, c.address, c.value, c.size)[k]
                      = LastIn(Append(q, c), startAddr + k)
  OBVIOUS
<1> DEFINE a == startAddr + k
           R == Reached(c.address, c.size)
           i == a - c.address
           t == <<c>>
<1>1. c.value \in Word /\ c.size \in MemEntrySize /\ c.size \in 1 .. 4 /\ c.address \in Nat
      /\ startAddr \in Nat /\ k \in Nat
  BY SizeBounds, MemoryBounds DEF Call
<1>2. /\ Append(q, c) = q \o t /\ t \in Seq(Call)
      /\ DOMAIN t = {1} /\ t[1] = c
  OBVIOUS
<1> HIDE DEF t
<1>3. CASE Covers(c, a)
  <2>1. i \in R /\ CellOf(c.address, i) = k /\ \A j \in R : CellOf(c.address, j) = k => j = i
    BY <1>3, ReachesCovered
  <2>2. (CHOOSE j \in R : CellOf(c.address, j) = k) = i
    BY <2>1
  <2>3. setValue(mem, c.address, c.value, c.size)[k] = ByteAt(c.value, c.size, i)
    BY <2>1, <2>2 DEF setValue
  <2>4. i \in 0 .. c.size - 1
    BY <2>1 DEF Reached
  <2>5. ByteAt(c.value, c.size, i) = Digit(c.value, c.size - 1 - i)
    BY <1>1, <2>4, ByteAtDigit
  <2>6. c.size - 1 - i = c.address + c.size - 1 - a
    BY <1>1
  <2>7. LastIn(q \o t, a) = StoredAt(c, a)
    <3>1. 1 \in DOMAIN t /\ Covers(t[1], a) /\ \A j \in DOMAIN t : Covers(t[j], a) => j = 1
      BY <1>2, <1>3
    <3> QED
      BY <1>2, <3>1, LastInAppended
  <2> QED
    BY <1>2, <2>3, <2>5, <2>6, <2>7 DEF StoredAt
<1>4. CASE ~Covers(c, a)
  <2>1. \A j \in R : CellOf(c.address, j) # k
    BY <1>4, ReachesCovered
  <2>2. setValue(mem, c.address, c.value, c.size)[k] = mem[k]
    BY <2>1 DEF setValue
  <2>3. LastIn(q \o t, a) = LastIn(q, a)
    <3>1. \A j \in DOMAIN t : ~Covers(t[j], a)
      BY <1>2, <1>4
    <3> QED
      BY <1>2, <3>1, LastInAppended
  <2> QED
    BY <1>2, <2>2, <2>3
<1> QED
  BY <1>3, <1>4

\* A program file of any length leaves its bytes from address 0 on.
FileCalls(file) ==
  [i \in DOMAIN file |-> [address |-> i - 1, value |-> file[i], size |-> BYTE_SIZE]]

LEMMA FileStores ==
  ASSUME StoreInv, NEW file \in Seq(Byte), Len(file) <= WordModulus,
         phase = "loadFromFile", loadFromFile(file)
  PROVE  StoreInv'
<1> DEFINE t == FileCalls(file)
           Holds(i, k) == CellOf(i - 1, 0) = k
<1>1. /\ Len(file) \in Nat /\ DOMAIN file = 1 .. Len(file)
      /\ \A i \in DOMAIN file : file[i] \in Byte
      /\ \A i \in DOMAIN file : i - 1 \in Word /\ i \in Nat
  BY MemoryBounds
<1>2. \A x \in Byte : x \in Word /\ Digit(x, 0) = x
  <2>1. ASSUME NEW x \in Byte
        PROVE  x \in Word /\ x \div 1 = x /\ x % ByteModulus = x
    BY ModuliTypes DEF Byte, Word
  <2> QED
    BY <2>1 DEF Digit
<1>3. /\ t \in Seq(Call) /\ DOMAIN t = DOMAIN file
      /\ \A i \in DOMAIN file :
           t[i] = [address |-> i - 1, value |-> file[i], size |-> BYTE_SIZE]
  <2>1. \A i \in DOMAIN file :
          [address |-> i - 1, value |-> file[i], size |-> BYTE_SIZE] \in Call
    BY <1>1, <1>2 DEF Call, MemEntrySize
  <2> QED
    BY <1>1, <2>1 DEF FileCalls
<1>4. calls' = calls \o t /\ calls' \in Seq(Call)
  BY <1>3 DEF loadFromFile, FileCalls, StoreInv
<1>5. ASSUME NEW k \in Cell, NEW i \in DOMAIN file
      PROVE  /\ Covers(t[i], startAddr + k) <=> i = startAddr + k + 1
             /\ Holds(i, k) <=> i = startAddr + k + 1
  <2>1. i - 1 \in Word /\ i \in Nat /\ startAddr \in Nat /\ k \in Nat /\ k < MEMORY_SIZE
    BY <1>1, MemoryBounds
  <2>2. t[i].address = i - 1 /\ t[i].size = 1
    BY <1>3 DEF BYTE_SIZE
  <2>3. Covers(t[i], startAddr + k) <=> i = startAddr + k + 1
    BY <2>1, <2>2 DEF Covers
  <2>4. ASSUME Holds(i, k)
        PROVE  i = startAddr + k + 1
    <3>1. i - 1 >= startAddr /\ i - 1 < startAddr + MEMORY_SIZE
      BY <2>1, <2>4, FirstByte
    <3>2. CellOf(i - 1, 0) = (i - 1) - startAddr + 0
      BY <2>1, <3>1, CellAt
    <3> QED
      BY <2>1, <2>4, <3>2
  <2>5. ASSUME i = startAddr + k + 1
        PROVE  Holds(i, k)
    <3>1. i - 1 >= startAddr /\ i - 1 < startAddr + MEMORY_SIZE
      BY <2>1, <2>5, MemoryBounds
    <3>2. CellOf(i - 1, 0) = (i - 1) - startAddr + 0
      BY <2>1, <3>1, CellAt
    <3> QED
      BY <2>1, <2>5, <3>2
  <2> QED
    BY <2>3, <2>4, <2>5
<1>6. ASSUME NEW k \in Cell
      PROVE  /\ memArr'[k] \in Byte
             /\ memArr'[k] = LastIn(calls', startAddr + k)
  <2> DEFINE i == startAddr + k + 1
             a == startAddr + k
  <2>1. memArr'[k] = IF \E j \in DOMAIN file : Holds(j, k)
                     THEN file[CHOOSE j \in DOMAIN file : Holds(j, k)] ELSE memArr[k]
    BY DEF loadFromFile
  <2>2. memArr[k] \in Byte /\ memArr[k] = LastIn(calls, a)
    BY DEF StoreInv, MemArr
  <2>3. CASE i \in DOMAIN file
    <3>1. (CHOOSE j \in DOMAIN file : Holds(j, k)) = i
      BY <1>5, <2>3
    <3>2. memArr'[k] = file[i]
      BY <1>5, <2>1, <2>3, <3>1
    <3>3. Covers(t[i], a) /\ \A j \in DOMAIN t : Covers(t[j], a) => j = i
      BY <1>3, <1>5, <2>3
    <3>4. LastIn(calls', a) = StoredAt(t[i], a)
      BY <1>3, <1>4, <2>3, <3>3, LastInAppended DEF StoreInv
    <3>5. StoredAt(t[i], a) = Digit(file[i], 0)
      <4>1. i - 1 + 1 - 1 - a = 0
        BY MemoryBounds
      <4>2. t[i].address = i - 1 /\ t[i].size = 1 /\ t[i].value = file[i]
        BY <1>3, <2>3 DEF BYTE_SIZE
      <4> QED
        BY <4>1, <4>2 DEF StoredAt
    <3> QED
      BY <1>1, <1>2, <2>3, <3>2, <3>4, <3>5
  <2>4. CASE i \notin DOMAIN file
    <3>1. \A j \in DOMAIN file : ~Holds(j, k) /\ ~Covers(t[j], a)
      BY <1>5, <2>4
    <3>2. LastIn(calls', a) = LastIn(calls, a)
      BY <1>3, <1>4, <3>1, LastInAppended DEF StoreInv
    <3> QED
      BY <2>1, <2>2, <3>1, <3>2
  <2> QED
    BY <2>3, <2>4
<1>7. memArr' = [k \in Cell |-> memArr'[k]]
  BY DEF loadFromFile
<1> QED
  BY <1>4, <1>6, <1>7 DEF StoreInv, MemArr, LastIn, Covering, Covers, StoredAt, Digit, Latest

LEMMA SetKeeps ==
  ASSUME StoreInv, NEW address \in Word, NEW value \in Word, NEW size \in MemEntrySize,
         setMemValue(address, value, size)
  PROVE  StoreInv'
<1> DEFINE c == [address |-> address, value |-> value, size |-> size]
<1>1. c \in Call /\ c.address = address /\ c.value = value /\ c.size = size
  BY DEF Call
<1>2. memArr' = setValue(memArr, address, value, size) /\ calls' = Append(calls, c)
  BY DEF setMemValue
<1>3. memArr' \in MemArr
  BY <1>2, SetValueType DEF StoreInv
<1>4. calls' \in Seq(Call)
  BY <1>1, <1>2 DEF StoreInv
<1>5. \A k \in Cell : memArr'[k] = LastIn(calls', startAddr + k)
  BY <1>1, <1>2, SetStores DEF StoreInv
<1> QED
  BY <1>3, <1>4, <1>5 DEF StoreInv, LastIn, Covering, Covers, StoredAt, Digit, Latest

LEMMA StoreUnchanged ==
  ASSUME StoreInv, memArr' = memArr, calls' = calls
  PROVE  StoreInv'
<1>1. memArr' \in MemArr /\ calls' \in Seq(Call)
  BY DEF StoreInv
<1>2. \A k \in Cell : memArr'[k] = LastIn(calls', startAddr + k)
  BY DEF StoreInv
<1> QED
  BY <1>1, <1>2 DEF StoreInv, LastIn, Covering, Covers, StoredAt, Digit, Latest

\* got reports what the access did.
GotInv ==
  /\ phase \in {"prepareMemory", "loadFromFile", "ready", "aborted"}
  /\ got \in [address : Word, size : MemEntrySize, value : Word, ok : BOOLEAN] \cup {NoGet}
  /\ got # NoGet => got.ok = Succeeds(got.address, got.size)

LEMMA GotKeeps ==
  ASSUME GotInv, got' \in {got, NoGet},
         phase' \in {"prepareMemory", "loadFromFile", "ready", "aborted"}
  PROVE  GotInv'
  BY DEF GotInv, NoGet, Succeeds, Reached, CellOf, Cell

LEMMA GetKeeps ==
  ASSUME StoreInv, GotInv, NEW address \in Word, NEW size \in MemEntrySize,
         Get(address, size)
  PROVE  GotInv'
<1>1. getValue(memArr, address, size) \in Word
  BY GetValueType DEF StoreInv
<1>2. Succeeds(address, size) \in BOOLEAN
  BY DEF Succeeds
<1>3. /\ got' = [address |-> address, size |-> size,
                value |-> getValue(memArr, address, size),
                ok |-> Succeeds(address, size)]
      /\ phase' = phase
  BY DEF Get
<1>4. got' \in [address : Word, size : MemEntrySize, value : Word, ok : BOOLEAN]
  BY <1>1, <1>2, <1>3
<1>5. got'.ok = Succeeds(got'.address, got'.size)
  BY <1>3
<1> QED
  BY <1>3, <1>4, <1>5 DEF GotInv, NoGet, Succeeds, Reached, CellOf, Cell

LEMMA StoreInvariant == Spec => [](StoreInv /\ GotInv)
<1>1. Init => StoreInv /\ GotInv
  <2> SUFFICES ASSUME Init
               PROVE  StoreInv /\ GotInv
    OBVIOUS
  <2>1. memArr \in MemArr /\ \A k \in Cell : memArr[k] = 0
    BY ModuliTypes DEF Init, Zeros, MemArr, Byte
  <2>2. calls = <<>> /\ calls \in Seq(Call)
    BY DEF Init
  <2>3. \A a : LastIn(calls, a) = 0
    BY <2>2 DEF LastIn, Covering
  <2> QED
    BY <2>1, <2>2, <2>3 DEF Init, StoreInv, GotInv
<1>2. StoreInv /\ GotInv /\ [Next]_vars => StoreInv' /\ GotInv'
  <2> SUFFICES ASSUME StoreInv, GotInv, [Next]_vars
               PROVE  StoreInv' /\ GotInv'
    OBVIOUS
  <2>1. /\ Address \subseteq Word /\ Value \subseteq Word /\ 0 \in Word
        /\ WORD_SIZE \in MemEntrySize
    BY MemoryStoreAssumption, ModuliTypes DEF Word, MemEntrySize
  <2>2. CASE UNCHANGED <<memArr, calls, got>> /\ phase' \in {phase, "loadFromFile", "ready"}
    <3>1. StoreInv'
      BY <2>2, StoreUnchanged
    <3>2. GotInv'
      BY <2>2, GotKeeps DEF GotInv
    <3> QED
      BY <3>1, <3>2
  <2>3. CASE NoImage \/ NoFile \/ Aborted \/ UNCHANGED vars
    BY <2>2, <2>3 DEF NoImage, NoFile, Aborted, vars
  <2>4. ASSUME NEW address \in Word, NEW value \in Word, NEW size \in MemEntrySize,
               setMemValue(address, value, size), got' = got,
               phase' \in {phase, "loadFromFile", "aborted"}
        PROVE  StoreInv' /\ GotInv'
    <3>1. phase' \in {"prepareMemory", "loadFromFile", "ready", "aborted"}
      BY <2>4 DEF GotInv
    <3> QED
      BY <2>4, <3>1, SetKeeps, GotKeeps
  <2>5. ASSUME NEW addr \in Address, NEW curVal \in Value, ReadEntry(addr, curVal)
        PROVE  StoreInv' /\ GotInv'
    BY <2>1, <2>4, <2>5 DEF ReadEntry
  <2>6. CASE ReadPastEnd
    BY <2>1, <2>4, <2>6 DEF ReadPastEnd
  <2>7. ASSUME NEW file \in Files, loadFromFile(file)
        PROVE  StoreInv' /\ GotInv'
    <3>1. file \in Seq(Byte) /\ Len(file) <= WordModulus
      BY MemoryStoreAssumption
    <3>2. StoreInv'
      BY <2>7, <3>1, FileStores DEF loadFromFile
    <3> QED
      BY <2>7, <3>2, GotKeeps DEF loadFromFile
  <2>8. ASSUME NEW address \in Address, NEW value \in Value, NEW size \in MemEntrySize,
               Set(address, value, size)
        PROVE  StoreInv' /\ GotInv'
    BY <2>1, <2>4, <2>8 DEF Set
  <2>9. ASSUME NEW address \in Address, NEW size \in MemEntrySize, Get(address, size)
        PROVE  StoreInv' /\ GotInv'
    <3>1. GotInv'
      BY <2>1, <2>9, GetKeeps
    <3>2. memArr' = memArr /\ calls' = calls
      BY <2>9 DEF Get
    <3> QED
      BY <3>1, <3>2, StoreUnchanged
  <2>10. ASSUME NEW range \in Ranges, NEW size \in MemEntrySize, Dump(range, size)
         PROVE  StoreInv' /\ GotInv'
    <3>1. memArr' = memArr /\ calls' = calls /\ got' = NoGet /\ phase' = phase
      BY <2>10 DEF Dump
    <3>2. GotInv'
      BY <3>1, GotKeeps DEF GotInv
    <3> QED
      BY <3>1, <3>2, StoreUnchanged
  <2> QED
    BY <2>3, <2>5, <2>6, <2>7, <2>8, <2>9, <2>10 DEF Next
<1> QED
  BY <1>1, <1>2, PTL DEF Spec

\* Whatever is stored, of any size, at any address, over either end of memory or far
\* outside it, the array keeps its length and its bytes, and a read returns a word
\* (src/src/MemoryStore.cpp:59-98).
THEOREM StoreTypeCorrect == Spec => []TypeOK
<1>1. StoreInv /\ GotInv => TypeOK
  BY DEF StoreInv, GotInv, TypeOK
<1> QED
  BY <1>1, StoreInvariant, PTL

\* getMemValue returns an error exactly if a byte asked for lies outside memory, for
\* addresses that wrap around too (src/src/MemoryStore.cpp:72-90).
THEOREM ErrorsAreReportedCorrect == Spec => []ErrorsAreReported
<1>1. GotInv => ErrorsAreReported
  <2>1. ASSUME GotInv, got # NoGet
        PROVE  /\ got.address \in Word /\ got.size \in MemEntrySize
               /\ got.ok = Succeeds(got.address, got.size)
    BY <2>1 DEF GotInv
  <2> QED
    BY <2>1, SucceedsInside DEF ErrorsAreReported
<1> QED
  BY <1>1, StoreInvariant, PTL

-----------------------------------------------------------------------------
(***************************************************************************)
(* The initial image.  While the constructor reads it, the calls are its   *)
(* entries, and at the end the store of the turn that found none.          *)
(***************************************************************************)
ImageEntry == [address : Word, value : Word]
EntryCall(e) == [address |-> e.address, value |-> e.value, size |-> WORD_SIZE]
PastEnd == [address |-> 0, value |-> 0, size |-> WORD_SIZE]

ImageInv ==
  /\ image \in Seq(ImageEntry)
  /\ phase \in {"prepareMemory", "loadFromFile"} =>
       /\ \A k \in DOMAIN image : /\ Succeeds(image[k].address, WORD_SIZE)
                                /\ k \in DOMAIN calls
                                /\ calls[k] = EntryCall(image[k])
       /\ \/ Len(calls) = Len(image)
          \/ /\ phase = "loadFromFile"
             /\ Len(calls) = Len(image) + 1 /\ calls[Len(calls)] = PastEnd

LEMMA ImageStays ==
  ASSUME ImageInv, image' = image,
         phase' = "ready" \/ (calls' = calls /\ phase' \in {phase, "loadFromFile"}),
         phase \in {"prepareMemory", "loadFromFile"}
           \/ phase' \notin {"prepareMemory", "loadFromFile"}
  PROVE  ImageInv'
  BY DEF ImageInv, Succeeds, Reached, CellOf, Cell, EntryCall, PastEnd

LEMMA ImageSoFar ==
  ASSUME ImageInv, phase = "prepareMemory"
  PROVE  /\ image \in Seq(ImageEntry) /\ Len(calls) = Len(image)
         /\ \A k \in 1 .. Len(image) : /\ Succeeds(image[k].address, WORD_SIZE)
                                      /\ calls[k] = EntryCall(image[k])
<1>1. /\ image \in Seq(ImageEntry)
      /\ \A k \in DOMAIN image : /\ Succeeds(image[k].address, WORD_SIZE)
                                /\ calls[k] = EntryCall(image[k])
      /\ Len(calls) = Len(image) \/ phase = "loadFromFile"
  BY Zenon DEF ImageInv
<1>2. DOMAIN image = 1 .. Len(image)
  BY <1>1
<1> QED
  BY <1>1, <1>2

LEMMA EntryKeepsImage ==
  ASSUME StoreInv, ImageInv, NEW addr \in Word, NEW curVal \in Word, ReadEntry(addr, curVal)
  PROVE  ImageInv'
<1> DEFINE e == [address |-> addr, value |-> curVal]
<1>1. /\ phase = "prepareMemory" /\ calls \in Seq(Call) /\ EntryCall(e) \in Call
      /\ calls' = Append(calls, EntryCall(e)) /\ image' = Append(image, e)
      /\ phase' = IF Succeeds(addr, WORD_SIZE) THEN phase ELSE "aborted"
  BY DEF ReadEntry, setMemValue, StoreInv, EntryCall, Call, MemEntrySize
<1>2. /\ image \in Seq(ImageEntry) /\ Len(calls) = Len(image)
      /\ \A k \in 1 .. Len(image) : /\ Succeeds(image[k].address, WORD_SIZE)
                                   /\ calls[k] = EntryCall(image[k])
  BY <1>1, ImageSoFar
<1>3. e \in ImageEntry
  BY DEF ImageEntry
<1>4. /\ image' \in Seq(ImageEntry)
      /\ Len(image') = Len(image) + 1 /\ Len(calls') = Len(image) + 1
      /\ DOMAIN image' = 1 .. Len(image) + 1 /\ DOMAIN calls' = 1 .. Len(image) + 1
      /\ image'[Len(image) + 1] = e /\ calls'[Len(image) + 1] = EntryCall(e)
      /\ \A k \in 1 .. Len(image) : image'[k] = image[k] /\ calls'[k] = calls[k]
  BY <1>1, <1>2, <1>3
<1>5. ASSUME phase' # "aborted", NEW k \in DOMAIN image'
      PROVE  /\ Succeeds(image'[k].address, WORD_SIZE) /\ k \in DOMAIN calls'
             /\ calls'[k] = EntryCall(image'[k])
  <2>1. CASE k = Len(image) + 1
    BY <1>1, <1>4, <1>5, <2>1
  <2>2. CASE k \in 1 .. Len(image)
    BY <1>2, <1>4, <2>2
  <2> QED
    BY <1>2, <1>4, <1>5, <2>1, <2>2
<1> QED
  BY <1>4, <1>5 DEF ImageInv, Succeeds, Reached, CellOf, Cell, EntryCall

LEMMA PastEndKeepsImage ==
  ASSUME StoreInv, ImageInv, ReadPastEnd
  PROVE  ImageInv'
<1>1. /\ phase = "prepareMemory" /\ calls \in Seq(Call) /\ image' = image
      /\ PastEnd \in Call /\ calls' = Append(calls, PastEnd)
      /\ phase' \in {"loadFromFile", "aborted"}
  BY ModuliTypes DEF ReadPastEnd, setMemValue, StoreInv, PastEnd, Call, MemEntrySize, Word
<1>2. /\ image \in Seq(ImageEntry) /\ Len(calls) = Len(image)
      /\ \A k \in 1 .. Len(image) : /\ Succeeds(image[k].address, WORD_SIZE)
                                   /\ calls[k] = EntryCall(image[k])
  BY <1>1, ImageSoFar
<1>3. /\ Len(calls') = Len(image) + 1 /\ calls'[Len(calls')] = PastEnd
      /\ DOMAIN image = 1 .. Len(image) /\ DOMAIN calls' = 1 .. Len(image) + 1
      /\ \A k \in 1 .. Len(image) : calls'[k] = calls[k]
  BY <1>1, <1>2
<1>4. \A k \in 1 .. Len(image) : /\ Succeeds(image[k].address, WORD_SIZE)
                                 /\ k \in DOMAIN calls'
                                 /\ calls'[k] = EntryCall(image[k])
  BY <1>2, <1>3
<1> QED
  BY <1>1, <1>2, <1>3, <1>4 DEF ImageInv, Succeeds, Reached, CellOf, Cell, EntryCall

LEMMA ImageInvariant == Spec => []ImageInv
<1>1. Init => ImageInv
  BY DEF Init, ImageInv
<1>2. StoreInv /\ GotInv /\ ImageInv /\ [Next]_vars => ImageInv'
  <2> SUFFICES ASSUME StoreInv, GotInv, ImageInv, [Next]_vars
               PROVE  ImageInv'
    OBVIOUS
  <2>1. ASSUME NEW addr \in Address, NEW curVal \in Value, ReadEntry(addr, curVal)
        PROVE  ImageInv'
    BY <2>1, EntryKeepsImage, MemoryStoreAssumption
  <2>2. CASE ReadPastEnd
    BY <2>2, PastEndKeepsImage
  <2>3. CASE NoImage \/ NoFile \/ Aborted \/ UNCHANGED vars
    BY <2>3, ImageStays DEF NoImage, NoFile, Aborted, vars, GotInv
  <2>4. ASSUME NEW file \in Files, loadFromFile(file)
        PROVE  ImageInv'
    BY <2>4, ImageStays DEF loadFromFile
  <2>5. ASSUME NEW address \in Address, NEW value \in Value, NEW size \in MemEntrySize,
               Set(address, value, size)
        PROVE  ImageInv'
    BY <2>5, ImageStays DEF Set
  <2>6. ASSUME NEW address \in Address, NEW size \in MemEntrySize, Get(address, size)
        PROVE  ImageInv'
    BY <2>6, ImageStays DEF Get
  <2>7. ASSUME NEW range \in Ranges, NEW size \in MemEntrySize, Dump(range, size)
        PROVE  ImageInv'
    BY <2>7, ImageStays DEF Dump
  <2> QED
    BY <2>1, <2>2, <2>3, <2>4, <2>5, <2>6, <2>7 DEF Next
<1> QED
  BY <1>1, <1>2, StoreInvariant, PTL DEF Spec

LEMMA EntryAddress ==
  ASSUME ImageInv, NEW j \in DOMAIN image
  PROVE  image[j].address \in Nat
<1>1. image \in Seq(ImageEntry)
  BY DEF ImageInv
<1>2. image[j] \in ImageEntry
  BY <1>1
<1> QED
  BY <1>2, MemoryBounds DEF ImageEntry

\* The constructor leaves every byte of every entry of init_mem_image where it belongs, for
\* an image of any length whose entries overlap in any way; the word at address 0, which
\* the turn past the end of the file clears, is the only exception
\* (src/src/MemoryStore.cpp:36-57).
THEOREM ImageIsLoadedCorrect == Spec => []ImageIsLoaded
<1>1. StoreInv /\ ImageInv => ImageIsLoaded
  <2> SUFFICES ASSUME StoreInv, ImageInv, phase = "loadFromFile",
                      NEW k \in DOMAIN image, NEW a \in BytesOf(image[k]),
                      a >= WORD_SIZE,
                      \A j \in DOMAIN image : k < j => a \notin BytesOf(image[j])
               PROVE  memArr[a - startAddr]
                        = Digit(image[k].value, image[k].address + WORD_SIZE - 1 - a)
    BY Zenon DEF ImageIsLoaded
  <2> DEFINE T == Covering(calls, a)
             n == a - image[k].address
  <2>1. /\ image[k].address \in Word /\ image[k].address \in Nat /\ n \in 0 .. 3
        /\ k \in 1 .. Len(image) /\ Len(image) \in Nat /\ a \in Nat
        /\ WORD_SIZE \in MemEntrySize /\ startAddr \in Nat
    <3>1. image \in Seq(ImageEntry) /\ WORD_SIZE \in MemEntrySize
      BY DEF ImageInv, WORD_SIZE, MemEntrySize
    <3>2. k \in 1 .. Len(image) /\ Len(image) \in Nat /\ image[k] \in ImageEntry
      BY <3>1
    <3>3. image[k].address \in Word
      BY <3>2 DEF ImageEntry
    <3>4. image[k].address \in Nat /\ startAddr \in Nat
      BY <3>3, MemoryBounds
    <3>5. a \in Nat /\ n \in 0 .. 3
      BY <3>4 DEF BytesOf, WORD_SIZE
    <3> QED
      BY <3>1, <3>2, <3>3, <3>4, <3>5
  <2>2. /\ Succeeds(image[k].address, WORD_SIZE)
        /\ k \in DOMAIN calls /\ calls[k] = EntryCall(image[k])
    BY DEF ImageInv
  <2>3. startAddr <= image[k].address /\ a < startAddr + MEMORY_SIZE
    <3>1. /\ 0 \in 0 .. WORD_SIZE - 1 /\ n \in 0 .. WORD_SIZE - 1
      BY <2>1 DEF WORD_SIZE
    <3>2. \A i \in 0 .. WORD_SIZE - 1 :
            image[k].address + i \in startAddr .. startAddr + MEMORY_SIZE - 1
      BY <2>1, <2>2, SucceedsInside
    <3>3. /\ image[k].address + 0 \in startAddr .. startAddr + MEMORY_SIZE - 1
          /\ image[k].address + n \in startAddr .. startAddr + MEMORY_SIZE - 1
      BY <3>1, <3>2
    <3> QED
      BY <2>1, <3>3, MemoryBounds
  <2>4. Covers(calls[k], a)
    BY <2>1, <2>2, <2>3 DEF Covers, EntryCall, WORD_SIZE
  <2>5. ASSUME NEW j \in DOMAIN calls, k < j
        PROVE  ~Covers(calls[j], a)
    <3>1. j \in 1 .. Len(calls) /\ Len(calls) \in Nat
      BY DEF StoreInv
    <3>2. CASE j \in 1 .. Len(image)
      <4>1. j \in DOMAIN image /\ calls[j] = EntryCall(image[j])
        BY <3>2 DEF ImageInv
      <4>2. calls[j].address = image[j].address /\ calls[j].size = WORD_SIZE
        BY <4>1 DEF EntryCall
      <4> QED
        BY <2>1, <2>5, <4>1, <4>2, EntryAddress DEF Covers, BytesOf, WORD_SIZE
    <3>3. CASE j \notin 1 .. Len(image)
      <4>1. j = Len(calls) /\ calls[j] = PastEnd
        BY <2>1, <3>1, <3>3 DEF ImageInv
      <4>2. calls[j].address = 0 /\ calls[j].size = WORD_SIZE
        BY <4>1 DEF PastEnd
      <4> QED
        BY <2>1, <4>2 DEF Covers, WORD_SIZE
    <3> QED
      BY <3>2, <3>3
  <2>6. Latest(T) = k
    <3>1. T \subseteq 1 .. Len(calls) /\ Len(calls) \in Nat /\ k \in T
      BY <2>2, <2>4 DEF Covering, StoreInv
    <3>2. Latest(T) \in T /\ k <= Latest(T)
      BY <3>1, GreatestIndex
    <3>3. ~(k < Latest(T))
      BY <2>5, <3>2 DEF Covering
    <3> QED
      BY <2>1, <3>1, <3>2, <3>3
  <2>7. LastIn(calls, a) = StoredAt(calls[k], a)
    BY <2>2, <2>4, <2>6 DEF LastIn, Covering
  <2>8. a - startAddr \in Cell /\ startAddr + (a - startAddr) = a
    BY <2>1, <2>3, MemoryBounds
  <2>9. memArr[a - startAddr] = LastIn(calls, a)
    BY <2>8 DEF StoreInv
  <2>10. StoredAt(calls[k], a) = Digit(image[k].value, image[k].address + WORD_SIZE - 1 - a)
    BY <2>2 DEF StoredAt, EntryCall
  <2> QED
    BY <2>7, <2>9, <2>10, Zenon
<1> QED
  BY <1>1, StoreInvariant, ImageInvariant, PTL

-----------------------------------------------------------------------------
(***************************************************************************)
(* Reads.                                                                  *)
(***************************************************************************)
LEMMA ReadDigits ==
  ASSUME NEW mem \in MemArr, NEW address \in Word, NEW size \in MemEntrySize,
         Succeeds(address, size), NEW i \in 0 .. size - 1
  PROVE  Digit(getValue(mem, address, size), size - 1 - i) = mem[CellOf(address, i)]
<1> DEFINE byte(j) == mem[CellOf(address, j)]
           part(j) == IF j \in Reached(address, size)
                      THEN mem[CellOf(address, j)] * Weight(size, j) ELSE 0
           v == getValue(mem, address, size)
<1>1. size \in {1, 2, 4}
  BY DEF MemEntrySize, BYTE_SIZE, HALF_SIZE, WORD_SIZE
<1>2. ASSUME NEW j \in 0 .. 3
      PROVE  /\ j < size => byte(j) \in Byte /\ part(j) = byte(j) * Weight(size, j)
             /\ j >= size => part(j) = 0
  <2>1. j < size => j \in Reached(address, size) /\ CellOf(address, j) \in Cell
    BY <1>1 DEF Succeeds, Reached
  <2>2. j \in Reached(address, size) => j \in 0 .. size - 1
    BY DEF Reached
  <2> QED
    BY <1>1, <2>1, <2>2 DEF MemArr
<1>3. v = part(0) + part(1) + part(2) + part(3)
  BY DEF getValue
<1>4. 0 \in Byte /\ \A x \in Byte : x \in Nat
  BY ModuliTypes DEF Byte
<1> HIDE DEF byte, part, v
<1>5. CASE size = 1
  <2>1. part(0) = byte(0) /\ part(1) = 0 /\ part(2) = 0 /\ part(3) = 0 /\ byte(0) \in Byte
    BY <1>2, <1>4, <1>5, WeightType
  <2>2. v = byte(0) + 0 * ByteModulus + 0 * HalfModulus + 0 * (HalfModulus * ByteModulus)
    BY <1>3, <1>4, <2>1, ModuliTypes
  <2>3. Digit(v, 0) = byte(0)
    BY <1>4, <2>1, <2>2, DigitsOfFour
  <2> QED
    BY <1>5, <2>3 DEF byte, v
<1>6. CASE size = 2
  <2>1. /\ part(0) = byte(0) * ByteModulus /\ part(1) = byte(1)
        /\ part(2) = 0 /\ part(3) = 0 /\ byte(0) \in Byte /\ byte(1) \in Byte
    BY <1>2, <1>4, <1>6, WeightType
  <2>2. v = byte(1) + byte(0) * ByteModulus + 0 * HalfModulus
              + 0 * (HalfModulus * ByteModulus)
    BY <1>3, <1>4, <2>1, ModuliTypes
  <2>3. Digit(v, 0) = byte(1) /\ Digit(v, 1) = byte(0)
    BY <1>4, <2>1, <2>2, DigitsOfFour
  <2> QED
    BY <1>6, <2>3 DEF byte, v
<1>7. CASE size = 4
  <2>1. /\ part(0) = byte(0) * (HalfModulus * ByteModulus)
        /\ part(1) = byte(1) * HalfModulus
        /\ part(2) = byte(2) * ByteModulus
        /\ part(3) = byte(3)
        /\ byte(0) \in Byte /\ byte(1) \in Byte /\ byte(2) \in Byte /\ byte(3) \in Byte
    BY <1>2, <1>4, <1>7, WeightType
  <2>2. v = byte(3) + byte(2) * ByteModulus + byte(1) * HalfModulus
              + byte(0) * (HalfModulus * ByteModulus)
    BY <1>3, <1>4, <2>1, ModuliTypes
  <2>3. /\ Digit(v, 0) = byte(3) /\ Digit(v, 1) = byte(2)
        /\ Digit(v, 2) = byte(1) /\ Digit(v, 3) = byte(0)
    BY <2>1, <2>2, DigitsOfFour
  <2> QED
    BY <1>7, <2>3 DEF byte, v
<1> QED
  BY <1>1, <1>5, <1>6, <1>7

\* A byte that is reached holds what was last stored at its address.
LEMMA ReachedIsLast ==
  ASSUME StoreInv, NEW address \in Word, NEW size \in MemEntrySize,
         NEW i \in Reached(address, size)
  PROVE  memArr[CellOf(address, i)] = LastStored(address + i)
<1>1. i \in 0 .. 3 /\ i \in Nat /\ address \in Nat /\ i \in 0 .. size - 1
  BY SizeBounds, MemoryBounds DEF Reached
<1>2. startAddr <= address /\ address + i < startAddr + MEMORY_SIZE
      /\ address < startAddr + MEMORY_SIZE
  BY <1>1, ReachedBytes, MemoryBounds
<1>3. CellOf(address, i) = address - startAddr + i /\ CellOf(address, i) \in Cell
  BY <1>1, <1>2, CellAt DEF Reached
<1>4. startAddr + CellOf(address, i) = address + i
  BY <1>1, <1>3, MemoryBounds
<1> QED
  BY <1>3, <1>4, LastStoredIn DEF StoreInv

LEMMA ReadIsLast ==
  ASSUME StoreInv, NEW address \in Word, NEW size \in MemEntrySize,
         Succeeds(address, size), NEW i \in 0 .. size - 1
  PROVE  Digit(getValue(memArr, address, size), size - 1 - i) = LastStored(address + i)
<1>1. Digit(getValue(memArr, address, size), size - 1 - i) = memArr[CellOf(address, i)]
  BY ReadDigits DEF StoreInv
<1>2. i \in Reached(address, size)
  BY DEF Succeeds, Reached
<1> QED
  BY <1>1, <1>2, ReachedIsLast

\* A read that succeeds returns, most significant byte first, the byte of the last store
\* that covers each of its addresses, for accesses of every size and alignment and the
\* program file of every length (src/src/MemoryStore.cpp:74-83, :100-120).
THEOREM ReadsWhatWasStoredCorrect == Spec => ReadsWhatWasStored
<1>1. StoreInv /\ [Next]_vars
      => [got'.ok /\ got' # got =>
            \A i \in 0 .. got'.size - 1 :
              Digit(got'.value, got'.size - 1 - i) = LastStored(got'.address + i)]_vars
  <2> SUFFICES ASSUME StoreInv, [Next]_vars, got'.ok, got' # got,
                      NEW i \in 0 .. got'.size - 1
               PROVE  Digit(got'.value, got'.size - 1 - i) = LastStored(got'.address + i)
    OBVIOUS
  <2>1. CASE \E range \in Ranges, size \in MemEntrySize : Dump(range, size)
    <3>1. got'.size = 0
      BY <2>1 DEF Dump, NoGet
    <3> QED
      BY <3>1
  <2>2. ASSUME NEW address \in Address, NEW size \in MemEntrySize, Get(address, size)
        PROVE  Digit(got'.value, got'.size - 1 - i) = LastStored(got'.address + i)
    <3>1. /\ got'.address = address /\ got'.size = size
          /\ got'.value = getValue(memArr, address, size)
          /\ got'.ok = Succeeds(address, size)
      BY <2>2 DEF Get
    <3>2. address \in Word
      BY MemoryStoreAssumption
    <3> QED
      BY <3>1, <3>2, ReadIsLast
  <2>3. \/ \E range \in Ranges, size \in MemEntrySize : Dump(range, size)
        \/ \E address \in Address, size \in MemEntrySize : Get(address, size)
    BY DEF Next, vars, NoImage, ReadEntry, ReadPastEnd, loadFromFile, NoFile, Set, Aborted
  <2> QED
    BY <2>1, <2>2, <2>3
<1> QED
  BY <1>1, StoreInvariant, PTL DEF Spec, ReadsWhatWasStored

-----------------------------------------------------------------------------
(***************************************************************************)
(* The dump.                                                               *)
(***************************************************************************)
\* Multiplying by a positive number keeps an order, and keeps a strict one apart.
LEMMA TimesKeepsOrder ==
  ASSUME NEW x \in Int, NEW y \in Int, NEW d \in Nat \ {0}
  PROVE  /\ x <= y => x * d <= y * d
         /\ x < y => x * d + d <= y * d
<1>1. ASSUME NEW n \in Nat
      PROVE  (x + n) * d = x * d + n * d /\ n * d \in Nat
  OBVIOUS
<1>2. ASSUME x <= y
      PROVE  x * d <= y * d
  <2>1. y - x \in Nat /\ x + (y - x) = y
    BY <1>2
  <2>2. y * d = x * d + (y - x) * d /\ (y - x) * d \in Nat
    BY <1>1, <2>1
  <2> QED
    BY <2>2
<1>3. ASSUME x < y
      PROVE  x * d + d <= y * d
  <2>1. y - x - 1 \in Nat /\ x + 1 + (y - x - 1) = y
    BY <1>3
  <2>2. y * d = x * d + d + (y - x - 1) * d /\ (y - x - 1) * d \in Nat
    BY <2>1
  <2> QED
    BY <2>2
<1> QED
  BY <1>2, <1>3

\* Counting one by one is counting in groups and in a group.
LEMMA CountedInGroups ==
  ASSUME NEW n \in Nat, NEW d \in Nat \ {0}
  PROVE  \E q \in Nat, m \in 1 .. d : n = q * d + (m - 1)
<1> DEFINE c == n \div d
           r == n % d
<1>1. c \in Nat /\ r \in 0 .. d - 1 /\ n = c * d + r
  OBVIOUS
<1> HIDE DEF c, r
<1>2. PICK q \in Nat, i \in 0 .. d - 1 : n = q * d + i
  BY <1>1
<1>3. i + 1 \in 1 .. d /\ i = (i + 1) - 1
  OBVIOUS
<1>4. n = q * d + ((i + 1) - 1)
  BY <1>2, <1>3
<1> QED
  BY <1>3, <1>4

\* A division that rounds up counts the multiples below a number.
LEMMA CeilCounts ==
  ASSUME NEW n \in Nat, NEW d \in Nat \ {0}, NEW q \in Nat
  PROVE  Ceil(n, d) \in Nat /\ (q < Ceil(n, d) <=> q * d < n)
<1> DEFINE c == (n + d - 1) \div d
           r == (n + d - 1) % d
<1>1. c \in Nat /\ r \in 0 .. d - 1 /\ n + d - 1 = c * d + r
  OBVIOUS
<1> HIDE DEF c, r
<1>2. ASSUME q < c
      PROVE  q * d < n
  <2>1. q * d + d <= c * d
    BY <1>1, <1>2, TimesKeepsOrder
  <2>2. q * d \in Nat /\ c * d \in Nat
    BY <1>1
  <2> QED
    BY <1>1, <2>1, <2>2
<1>3. ASSUME ~ (q < c)
      PROVE  ~ (q * d < n)
  <2>1. c * d <= q * d
    BY <1>1, <1>3, TimesKeepsOrder
  <2>2. q * d \in Nat /\ c * d \in Nat
    BY <1>1
  <2> QED
    BY <1>1, <2>1, <2>2
<1> QED
  BY <1>1, <1>2, <1>3 DEF Ceil, c

\* The minimum the rows are cut off with.
LEMMA LesserOfTwo ==
  ASSUME NEW x \in Int, NEW y \in Int, NEW e \in Int
  PROVE  e <= Min({x, y}) <=> e <= x /\ e <= y
<1>1. Min({x, y}) = IF x <= y THEN x ELSE y
  <2>1. ASSUME NEW z \in {x, y}, \A v \in {x, y} : z =< v
        PROVE  z = IF x <= y THEN x ELSE y
    BY <2>1
  <2>2. \E z \in {x, y} : \A v \in {x, y} : z =< v
    OBVIOUS
  <2> QED
    BY <2>1, <2>2 DEF Min
<1> QED
  BY <1>1

\* The bytes an access reaches are its first ones.
LEMMA ReachedFirst ==
  ASSUME NEW address \in Word, NEW size \in MemEntrySize
  PROVE  /\ \A j \in 1 .. Cardinality(Reached(address, size)) :
              j - 1 \in Reached(address, size)
         /\ Succeeds(address, size) => Cardinality(Reached(address, size)) = size
<1> DEFINE top == startAddr + MEMORY_SIZE
           n == IF startAddr > address \/ address >= top THEN 0
                ELSE IF address + size <= top THEN size ELSE top - address
<1>1. size \in 1 .. 4 /\ address \in Nat /\ top \in Nat /\ startAddr \in Nat
  BY SizeBounds, MemoryBounds
<1>2. n \in 0 .. size
  BY <1>1
<1>3. ASSUME NEW i \in 0 .. size - 1
      PROVE  i \in Reached(address, size) <=> i \in 0 .. n - 1
  <2>1. i \in Reached(address, size) <=> startAddr <= address /\ address + i < top
    BY ReachedBytes
  <2>2. startAddr <= address /\ address + i < top <=> i < n
    BY <1>1
  <2> QED
    BY <1>1, <1>2, <2>1, <2>2
<1> HIDE DEF n, top
<1>4. Reached(address, size) \subseteq 0 .. size - 1
  BY DEF Reached
<1>5. Reached(address, size) = 0 .. n - 1
  <2>1. 0 .. n - 1 \subseteq 0 .. size - 1
    BY <1>1, <1>2
  <2> QED
    BY <1>3, <1>4, <2>1
<1>6. Cardinality(Reached(address, size)) = n
  <2>1. n - 1 \in Int /\ 0 \in Int
    BY <1>1, <1>2
  <2>2. Cardinality(0 .. n - 1) = IF 0 > n - 1 THEN 0 ELSE n - 1 - 0 + 1
    BY <2>1, FS_Interval
  <2> QED
    BY <1>1, <1>2, <1>5, <2>2
<1>7. Succeeds(address, size) => n = size
  BY <1>1, <1>2, <1>5 DEF Succeeds
<1>8. \A j \in 1 .. n : j - 1 \in 0 .. n - 1
  BY <1>1, <1>2
<1> QED
  BY <1>5, <1>6, <1>7, <1>8

-----------------------------------------------------------------------------
\* The parts of printMemArray.
RelStart(range) == (range.start - startAddr) % WordModulus
RelEnd(range) == (range.end - startAddr) % WordModulus
Entry(range, size, k) == (range.start + k * size) % WordModulus
Wanted(range, size) ==
  IF RelStart(range) < RelEnd(range) THEN Ceil(RelEnd(range) - RelStart(range), size) ELSE 0
Failing(range, size) ==
  {k \in 0 .. Wanted(range, size) - 1 : ~Succeeds(Entry(range, size, k), size)}
EntriesPrinted(range, size) ==
  IF Failing(range, size) = {} THEN Wanted(range, size) ELSE Min(Failing(range, size)) + 1
EntryBytes(address, size) ==
  [j \in 1 .. Cardinality(Reached(address, size)) |-> memArr[CellOf(address, j - 1)]]
Row(range, size, r) ==
  [curAddr |-> CurAddr(range, size, r),
   entries |-> [e \in 1 .. Min({EntriesPerRow,
                                EntriesPrinted(range, size) - (r - 1) * EntriesPerRow}) |->
                  EntryBytes(Entry(range, size, (r - 1) * EntriesPerRow + e - 1), size)]]

LEMMA PrintParts ==
  ASSUME NEW range, NEW size
  PROVE  printMemArray(range, size) =
           [range |-> range, size |-> size, ok |-> Failing(range, size) = {},
            rows |-> [r \in 1 .. Ceil(EntriesPrinted(range, size), EntriesPerRow) |->
                        Row(range, size, r)]]
  BY DEF printMemArray, RelStart, RelEnd, Entry, Wanted, Failing, EntriesPrinted,
     EntryBytes, Row

\* How many entries a range asks for and how many are printed.
LEMMA CountTypes ==
  ASSUME NEW range \in [start : Word, end : Word], NEW size \in MemEntrySize
  PROVE  /\ RelStart(range) \in Word /\ RelEnd(range) \in Word
         /\ Wanted(range, size) \in Nat
         /\ EntriesPrinted(range, size) \in 0 .. Wanted(range, size)
         /\ \A k \in Nat : k < Wanted(range, size)
                             <=> k * size < RelEnd(range) - RelStart(range)
<1>1. range.start - startAddr \in Int /\ range.end - startAddr \in Int /\ size \in Nat \ {0}
  BY MemoryBounds, SizeBounds
<1>2. RelStart(range) \in Word /\ RelEnd(range) \in Word
  BY <1>1, Wraps DEF RelStart, RelEnd
<1>3. ASSUME NEW k \in Nat
      PROVE  /\ Wanted(range, size) \in Nat
             /\ k < Wanted(range, size) <=> k * size < RelEnd(range) - RelStart(range)
  <2>1. CASE RelStart(range) < RelEnd(range)
    <3>1. RelEnd(range) - RelStart(range) \in Nat
      BY <1>2, <2>1, MemoryBounds
    <3> QED
      BY <1>1, <2>1, <3>1, CeilCounts DEF Wanted
  <2>2. CASE ~ (RelStart(range) < RelEnd(range))
    <3>1. k * size \in Nat /\ RelEnd(range) - RelStart(range) <= 0
      BY <1>1, <1>2, <2>2, MemoryBounds
    <3> QED
      BY <1>2, <2>2, <3>1, MemoryBounds DEF Wanted
  <2> QED
    BY <2>1, <2>2
<1>4. Wanted(range, size) \in Nat
  BY <1>3
<1>5. EntriesPrinted(range, size) \in 0 .. Wanted(range, size)
  <2>1. CASE Failing(range, size) = {}
    BY <1>4, <2>1 DEF EntriesPrinted
  <2>2. CASE Failing(range, size) # {}
    <3>1. Failing(range, size) \subseteq 0 .. Wanted(range, size) - 1
          /\ Failing(range, size) \subseteq Nat
      BY <1>4 DEF Failing
    <3>2. \E x \in Failing(range, size) : \A y \in Failing(range, size) : x =< y
      BY <2>2, <3>1, LeastNat
    <3>3. Min(Failing(range, size)) \in Failing(range, size)
      BY <3>2 DEF Min
    <3> QED
      BY <1>4, <2>2, <3>1, <3>3 DEF EntriesPrinted
  <2> QED
    BY <2>1, <2>2
<1> QED
  BY <1>2, <1>3, <1>4, <1>5

\* An entry of the range whose first byte is in memory, and every one before it, is at the
\* address counted from the start without a wrap.
LEMMA EntryUnwrapped ==
  ASSUME NEW range \in [start : Word, end : Word], NEW size \in MemEntrySize,
         NEW k \in Nat, k < Wanted(range, size),
         0 \in Reached(Entry(range, size, k), size), NEW m \in 0 .. k
  PROVE  Entry(range, size, m) = range.start + m * size
<1> DEFINE s == range.start
           x == k * size
           y == m * size
<1>1. /\ s \in Nat /\ s < WordModulus /\ size \in Nat \ {0} /\ x \in Nat /\ y \in Nat
      /\ WordModulus \in Nat /\ startAddr \in Nat /\ startAddr < WordModulus
  BY MemoryBounds, SizeBounds, MemoryAssumption
<1>2. y <= x
  BY <1>1, TimesKeepsOrder
<1>3. /\ x < RelEnd(range) - RelStart(range) /\ RelEnd(range) \in Nat
      /\ RelEnd(range) < WordModulus /\ RelStart(range) \in Nat
  BY CountTypes, MemoryBounds
<1>4. RelStart(range) = IF s - startAddr < 0 THEN s - startAddr + WordModulus
                        ELSE s - startAddr
  <2> DEFINE d == s - startAddr
  <2>1. d \in Int /\ -WordModulus <= d /\ d < 2 * WordModulus /\ d < WordModulus
    BY <1>1
  <2>2. d % WordModulus = IF d < 0 THEN d + WordModulus
                          ELSE IF d < WordModulus THEN d ELSE d - WordModulus
    BY <2>1, WrapsOnce
  <2> QED
    BY <2>1, <2>2 DEF RelStart
<1>5. s + x < startAddr + WordModulus
  BY <1>1, <1>3, <1>4
<1>6. (s + x) % WordModulus = IF s + x < WordModulus THEN s + x ELSE s + x - WordModulus
  <2> DEFINE n == s + x
  <2> HIDE DEF s, x
  <2>1. n \in Int /\ -WordModulus <= n /\ n < 2 * WordModulus /\ ~ (n < 0)
    BY <1>1, <1>5
  <2> HIDE DEF n
  <2>2. n % WordModulus = IF n < WordModulus THEN n ELSE n - WordModulus
    BY <2>1, WrapsOnce
  <2> QED
    BY <1>1, <2>1, <2>2 DEF n
<1>7. Entry(range, size, k) \in Word /\ Entry(range, size, k) >= startAddr
  <2>1. s + x \in Int
    BY <1>1
  <2>2. Entry(range, size, k) \in Word
    BY <2>1, Wraps DEF Entry
  <2>3. CellOf(Entry(range, size, k), 0) \in Cell
    BY DEF Reached
  <2> QED
    BY <2>2, <2>3, FirstByte
<1>8. s + x < WordModulus
  BY <1>1, <1>5, <1>6, <1>7 DEF Entry
<1>9. s + y \in Nat /\ s + y < WordModulus
  BY <1>1, <1>2, <1>8
<1>10. (s + y) % WordModulus = s + y
  BY <1>1, <1>9
<1> QED
  BY <1>10 DEF Entry

\* The place of an entry in its row counts like the entries do.
LEMMA PlaceCounts ==
  ASSUME NEW p \in Nat, NEW size \in Nat, NEW r \in Nat \ {0}, NEW e \in Nat \ {0},
         e <= Min({EntriesPerRow, p - (r - 1) * EntriesPerRow})
  PROVE  LET first == (r - 1) * EntriesPerRow
             k == first + e - 1
         IN  /\ k \in Nat /\ k < p /\ first \in 0 .. k
             /\ (r - 1) * size * EntriesPerRow = first * size
             /\ first * size + (e - 1) * size = k * size
<1> DEFINE first == (r - 1) * EntriesPerRow
           k == first + e - 1
<1>1. EntriesPerRow \in Nat /\ r - 1 \in Nat /\ e - 1 \in Nat /\ first \in Nat
  BY MemoryStoreAssumption
<1>2. e <= p - first
  BY <1>1, LesserOfTwo
<1>3. (r - 1) * size * EntriesPerRow = first * size
  BY <1>1
<1> HIDE DEF first
<1>4. k \in Nat /\ k < p /\ first \in 0 .. k /\ k = first + (e - 1)
  BY <1>1, <1>2
<1>5. first * size + (e - 1) * size = (first + (e - 1)) * size
  BY <1>1
<1> QED
  BY <1>3, <1>4, <1>5 DEF first

\* Every byte of a row is the one last stored at the address it is shown for.
LEMMA DumpShows ==
  ASSUME StoreInv, NEW range \in [start : Word, end : Word], NEW size \in MemEntrySize,
         NEW r \in 1 .. Ceil(EntriesPrinted(range, size), EntriesPerRow),
         NEW e \in DOMAIN Row(range, size, r).entries,
         NEW j \in DOMAIN Row(range, size, r).entries[e]
  PROVE  Row(range, size, r).entries[e][j]
           = LastStored(Row(range, size, r).curAddr + (e - 1) * size + j - 1)
<1> DEFINE p == EntriesPrinted(range, size)
           first == (r - 1) * EntriesPerRow
           k == first + e - 1
           a == Entry(range, size, k)
<1>1. p \in Nat /\ p <= Wanted(range, size) /\ Wanted(range, size) \in Nat
  BY CountTypes
<1>2. size \in Nat /\ EntriesPerRow \in Nat \ {0} /\ range.start \in Nat
  BY SizeBounds, MemoryStoreAssumption, MemoryBounds
<1>3. Ceil(p, EntriesPerRow) \in Nat
  BY <1>1, <1>2, CeilCounts
<1>4. r \in Nat \ {0} /\ e \in Nat \ {0} /\ e <= Min({EntriesPerRow, p - first})
  <2>1. r \in Nat \ {0} /\ first \in Int
    BY <1>2, <1>3
  <2>2. e \in 1 .. Min({EntriesPerRow, p - first})
    BY DEF Row
  <2>3. Min({EntriesPerRow, p - first}) \in Int
    <3>1. p - first \in Int
      BY <1>1, <2>1
    <3>2. Min({EntriesPerRow, p - first}) \in {EntriesPerRow, p - first}
      <4>1. \E z \in {EntriesPerRow, p - first} : \A v \in {EntriesPerRow, p - first} : z =< v
        BY <1>2, <3>1
      <4> QED
        BY <4>1 DEF Min
    <3> QED
      BY <1>2, <3>1, <3>2
  <2> QED
    BY <2>1, <2>2, <2>3
<1>5. /\ k \in Nat /\ k < p /\ first \in 0 .. k /\ first \in Nat
      /\ (r - 1) * size * EntriesPerRow = first * size
      /\ first * size + (e - 1) * size = k * size
  BY <1>1, <1>2, <1>4, PlaceCounts
<1>6. Row(range, size, r).entries[e] = EntryBytes(a, size)
  BY DEF Row
<1>7. range.start + k * size \in Int
  BY <1>2, <1>5
<1>8. a \in Word
  BY <1>7, Wraps DEF Entry
<1>9. j \in 1 .. Cardinality(Reached(a, size))
  BY <1>6 DEF EntryBytes
<1>10. j - 1 \in Reached(a, size) /\ j - 1 \in 0 .. size - 1
  BY <1>8, <1>9, ReachedFirst DEF Reached
<1>11. Row(range, size, r).entries[e][j] = LastStored(a + (j - 1))
  BY <1>6, <1>8, <1>9, <1>10, ReachedIsLast DEF EntryBytes
<1>12. 0 \in Reached(a, size)
  BY <1>2, <1>10 DEF Reached
<1>13. k < Wanted(range, size)
  BY <1>1, <1>5
<1>14. k \in 0 .. k
  BY <1>5
<1>15. a = range.start + k * size
  BY <1>5, <1>12, <1>13, <1>14, EntryUnwrapped
<1>16. Row(range, size, r).curAddr = range.start + first * size
  <2>1. Entry(range, size, first) = range.start + first * size
    BY <1>5, <1>12, <1>13, EntryUnwrapped
  <2>2. Row(range, size, r).curAddr = (range.start + (r - 1) * size * EntriesPerRow) % WordModulus
    BY DEF Row, CurAddr
  <2>3. (range.start + (r - 1) * size * EntriesPerRow) % WordModulus
          = Entry(range, size, first)
    BY <1>5 DEF Entry
  <2> QED
    BY <2>1, <2>2, <2>3
<1>17. Row(range, size, r).curAddr + (e - 1) * size + j - 1 = a + (j - 1)
  <2> DEFINE u == first * size
             v == (e - 1) * size
             w == k * size
  <2>1. e - 1 \in Nat /\ size \in Nat /\ first \in Nat /\ k \in Nat /\ j \in Int
    BY <1>2, <1>4, <1>5, <1>9
  <2>2. u + v = w
    BY <1>5
  <2>3. u \in Nat /\ v \in Nat /\ w \in Nat
    <3> HIDE DEF first, k
    <3> QED
      BY <2>1
  <2>4. u \in Nat /\ v \in Nat /\ w \in Nat /\ u + v = w /\ j \in Int
    BY <2>1, <2>2, <2>3
  <2>5. Row(range, size, r).curAddr = range.start + u /\ a = range.start + w
    BY <1>15, <1>16
  <2> HIDE DEF u, a, w
  <2>6. range.start + u + v + j - 1 = range.start + w + (j - 1)
    BY <1>2, <2>4
  <2> QED
    BY <2>5, <2>6
<1> QED
  BY <1>11, <1>17

\* A dump in which no read fails shows each address of its range.
LEMMA DumpShowsAll ==
  ASSUME NEW range \in [start : Word, end : Word], NEW size \in MemEntrySize,
         Failing(range, size) = {}, startAddr <= range.start,
         NEW x \in range.start .. range.end - 1
  PROVE  \E r \in 1 .. Ceil(EntriesPrinted(range, size), EntriesPerRow) :
         \E e \in DOMAIN Row(range, size, r).entries :
         \E j \in DOMAIN Row(range, size, r).entries[e] :
           x = Row(range, size, r).curAddr + (e - 1) * size + j - 1
<1> DEFINE s == range.start
           p == EntriesPrinted(range, size)
<1>1. /\ s \in Nat /\ range.end \in Nat /\ x \in Nat /\ s <= x /\ x < range.end
      /\ s < WordModulus /\ range.end < WordModulus /\ startAddr \in Nat
      /\ size \in Nat \ {0} /\ EntriesPerRow \in Nat \ {0} /\ WordModulus \in Nat
      /\ startAddr <= s
  BY MemoryBounds, SizeBounds, MemoryStoreAssumption
<1>2. RelEnd(range) - RelStart(range) = range.end - s
  <2> HIDE DEF s
  <2>1. s - startAddr \in 0 .. WordModulus - 1 /\ range.end - startAddr \in 0 .. WordModulus - 1
    BY <1>1
  <2>2. ASSUME NEW n \in 0 .. WordModulus - 1
        PROVE  n % WordModulus = n
    BY <1>1
  <2>3. (s - startAddr) % WordModulus = s - startAddr
        /\ (range.end - startAddr) % WordModulus = range.end - startAddr
    BY <2>2, <2>1
  <2> QED
    BY <1>1, <2>3 DEF RelStart, RelEnd, s
<1>3. PICK k \in Nat, j \in 1 .. size : x - s = k * size + (j - 1)
  <2>1. x - s \in Nat
    BY <1>1
  <2> QED
    BY <1>1, <2>1, CountedInGroups
<1>4. PICK q \in Nat, e \in 1 .. EntriesPerRow : k = q * EntriesPerRow + (e - 1)
  BY <1>1, CountedInGroups
<1> DEFINE r == q + 1
           first == (r - 1) * EntriesPerRow
           a == Entry(range, size, k)
<1>5. /\ r \in Nat \ {0} /\ e \in 1 .. EntriesPerRow /\ k = first + (e - 1)
      /\ first \in Nat
  <2>1. r - 1 = q
    OBVIOUS
  <2> QED
    BY <1>1, <1>4, <2>1
<1> HIDE DEF r
<1>6. k * size \in Nat /\ k * size < range.end - s
  BY <1>1, <1>3
<1>7. k < Wanted(range, size) /\ p = Wanted(range, size) /\ p \in Nat
  BY <1>2, <1>3, <1>6, CountTypes DEF EntriesPrinted
<1>8. r \in 1 .. Ceil(p, EntriesPerRow)
  <2>1. r - 1 \in Nat /\ first < p
    BY <1>3, <1>5, <1>7, <1>1
  <2>2. Ceil(p, EntriesPerRow) \in Nat /\ r - 1 < Ceil(p, EntriesPerRow)
    BY <1>1, <1>7, <2>1, CeilCounts
  <2> QED
    BY <1>5, <2>2
<1>9. e \in DOMAIN Row(range, size, r).entries
  <2>1. p - first \in Int /\ EntriesPerRow \in Int /\ e \in Int
        /\ e <= EntriesPerRow /\ e <= p - first
    BY <1>1, <1>3, <1>5, <1>7
  <2>2. e <= Min({EntriesPerRow, p - first})
    BY <2>1, LesserOfTwo
  <2>3. Min({EntriesPerRow, p - first}) \in Int
    <3>1. Min({EntriesPerRow, p - first}) \in {EntriesPerRow, p - first}
      <4>1. \E z \in {EntriesPerRow, p - first} : \A v \in {EntriesPerRow, p - first} : z =< v
        BY <2>1
      <4> QED
        BY <4>1 DEF Min
    <3> QED
      BY <2>1, <3>1
  <2>4. e \in 1 .. Min({EntriesPerRow, p - first})
    BY <1>5, <2>1, <2>2, <2>3
  <2> QED
    BY <2>4 DEF Row
<1>10. Row(range, size, r).entries[e] = EntryBytes(a, size)
  <2>1. (r - 1) * EntriesPerRow + e - 1 = k
    BY <1>1, <1>5
  <2> QED
    BY <1>9, <2>1 DEF Row
<1>11. a \in Word
  <2>1. s + k * size \in Int
    BY <1>1, <1>6
  <2> QED
    BY <2>1, Wraps DEF Entry
<1>12. Succeeds(a, size)
  BY <1>3, <1>7, CountTypes DEF Failing
<1>13. Cardinality(Reached(a, size)) = size /\ 0 \in Reached(a, size)
  BY <1>1, <1>11, <1>12, ReachedFirst DEF Succeeds, Reached
<1>14. j \in DOMAIN Row(range, size, r).entries[e]
  BY <1>3, <1>10, <1>13 DEF EntryBytes
<1>15. Row(range, size, r).curAddr = s + first * size
  <2>1. first \in 0 .. k
    BY <1>3, <1>5, <1>1
  <2>2. Entry(range, size, first) = s + first * size
    BY <1>3, <1>7, <1>13, <2>1, EntryUnwrapped
  <2>3. (r - 1) * size * EntriesPerRow = first * size
    BY <1>1, <1>5
  <2> QED
    BY <2>2, <2>3 DEF Row, CurAddr, Entry
<1>16. x = Row(range, size, r).curAddr + (e - 1) * size + j - 1
  <2> DEFINE f == (r - 1) * EntriesPerRow
  <2>1. f \in Nat /\ e - 1 \in Nat /\ k = f + (e - 1)
    BY <1>5
  <2> HIDE DEF f
  <2>2. k * size = f * size + (e - 1) * size
    BY <1>1, <2>1
  <2> DEFINE u == f * size
             v == (e - 1) * size
             w == k * size
  <2>3. u \in Nat /\ v \in Nat /\ w = u + v /\ x - s = w + (j - 1) /\ j \in Nat
    BY <1>1, <1>3, <2>1, <2>2
  <2>4. Row(range, size, r).curAddr = s + u
    BY <1>15 DEF f
  <2> HIDE DEF u, v, w, s
  <2>5. x = s + u + v + j - 1
    BY <1>1, <2>3
  <2> QED
    BY <2>4, <2>5 DEF v
<1> QED
  BY <1>8, <1>9, <1>14, <1>16

\* printMemArray shows memory, each byte beside the address it is at, for ranges that
\* leave memory or are no multiple of an entry; a dump that succeeds shows the whole range
\* (src/src/MemoryStore.cpp:128-175).
THEOREM PrintsWhatIsStoredCorrect == Spec => PrintsWhatIsStored
<1>1. StoreInv /\ [Next]_vars
      => [out' # out =>
            /\ \A t \in Printed' : t[2] = LastStored(t[1])
            /\ out'.ok /\ startAddr <= out'.range.start
               => out'.range.start .. out'.range.end - 1 \subseteq {t[1] : t \in Printed'}]_vars
  <2> SUFFICES ASSUME StoreInv, [Next]_vars, out' # out
               PROVE  /\ \A t \in Printed' : t[2] = LastStored(t[1])
                      /\ out'.ok /\ startAddr <= out'.range.start
                         => out'.range.start .. out'.range.end - 1
                              \subseteq {t[1] : t \in Printed'}
    OBVIOUS
  <2>1. CASE out' = NoPrint
    <3>1. Printed' = {}
      BY <2>1 DEF Printed, NoPrint
    <3>2. out'.range.start .. out'.range.end - 1 = {}
      BY <2>1 DEF NoPrint
    <3> QED
      BY <3>1, <3>2
  <2>2. ASSUME NEW range \in Ranges, NEW size \in MemEntrySize, Dump(range, size)
        PROVE  /\ \A t \in Printed' : t[2] = LastStored(t[1])
               /\ out'.ok /\ startAddr <= out'.range.start
                  => out'.range.start .. out'.range.end - 1
                       \subseteq {t[1] : t \in Printed'}
    <3>1. range \in [start : Word, end : Word]
      BY MemoryStoreAssumption
    <3> DEFINE rows == 1 .. Ceil(EntriesPrinted(range, size), EntriesPerRow)
    <3>2. /\ out'.range = range /\ out'.size = size /\ out'.ok = (Failing(range, size) = {})
          /\ out'.rows = [r \in rows |-> Row(range, size, r)]
      BY <2>2, PrintParts DEF Dump
    <3>3. DOMAIN out'.rows = rows /\ \A r \in rows : out'.rows[r] = Row(range, size, r)
      BY <3>2
    <3>4. ASSUME NEW t \in Printed'
          PROVE  t[2] = LastStored(t[1])
      <4>1. PICK r \in DOMAIN out'.rows :
              \E e \in DOMAIN out'.rows[r].entries :
                \E j \in DOMAIN out'.rows[r].entries[e] :
                  t = <<out'.rows[r].curAddr + (e - 1) * out'.size + j - 1,
                        out'.rows[r].entries[e][j]>>
        BY <3>4 DEF Printed
      <4>2. PICK e \in DOMAIN out'.rows[r].entries :
              \E j \in DOMAIN out'.rows[r].entries[e] :
                t = <<out'.rows[r].curAddr + (e - 1) * out'.size + j - 1,
                      out'.rows[r].entries[e][j]>>
        BY <4>1
      <4>3. PICK j \in DOMAIN out'.rows[r].entries[e] :
              t = <<out'.rows[r].curAddr + (e - 1) * out'.size + j - 1,
                    out'.rows[r].entries[e][j]>>
        BY <4>2
      <4>4. /\ r \in rows /\ e \in DOMAIN Row(range, size, r).entries
            /\ j \in DOMAIN Row(range, size, r).entries[e]
            /\ t[1] = Row(range, size, r).curAddr + (e - 1) * size + j - 1
            /\ t[2] = Row(range, size, r).entries[e][j]
        BY <3>2, <3>3, <4>3
      <4> QED
        BY <3>1, <4>4, DumpShows
    <3>5. ASSUME out'.ok, startAddr <= range.start, NEW x \in range.start .. range.end - 1
          PROVE  x \in {t[1] : t \in Printed'}
      <4>1. Failing(range, size) = {}
        BY <3>2, <3>5, Zenon
      <4>2. PICK r \in rows :
              \E e \in DOMAIN Row(range, size, r).entries :
                \E j \in DOMAIN Row(range, size, r).entries[e] :
                  x = Row(range, size, r).curAddr + (e - 1) * size + j - 1
        BY <3>1, <3>5, <4>1, DumpShowsAll, Zenon
      <4>3. PICK e \in DOMAIN Row(range, size, r).entries :
              \E j \in DOMAIN Row(range, size, r).entries[e] :
                x = Row(range, size, r).curAddr + (e - 1) * size + j - 1
        BY <4>2
      <4>4. PICK j \in DOMAIN Row(range, size, r).entries[e] :
              x = Row(range, size, r).curAddr + (e - 1) * size + j - 1
        BY <4>3
      <4> DEFINE t == <<x, Row(range, size, r).entries[e][j]>>
      <4>5. t \in Printed'
        BY <3>2, <3>3, <4>4 DEF Printed
      <4> QED
        BY <4>5
    <3> QED
      BY <3>2, <3>4, <3>5
  <2>3. \/ out' = NoPrint
        \/ \E range \in Ranges, size \in MemEntrySize : Dump(range, size)
    BY DEF Next, vars, NoImage, ReadEntry, ReadPastEnd, loadFromFile, NoFile, Set, Get,
       Aborted
  <2> QED
    BY <2>1, <2>2, <2>3
<1> QED
  BY <1>1, StoreInvariant, PTL DEF Spec, PrintsWhatIsStored
=============================================================================
