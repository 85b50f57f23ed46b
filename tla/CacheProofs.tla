---------------------------- MODULE CacheProofs ----------------------------
(***************************************************************************)
(* Theorems about Cache, for every geometry the constructor of cache.cpp   *)
(* can work with and for any sequence of accesses.                         *)
(***************************************************************************)
EXTENDS CacheLRU, FiniteSetTheorems, TLAPS

-----------------------------------------------------------------------------
(***************************************************************************)
(* Arithmetic: least elements, powers of two, division.                    *)
(***************************************************************************)
LEMMA LeastNat ==
  ASSUME NEW T, T \subseteq Nat, T # {}
  PROVE  \E x \in T : \A y \in T : x <= y
<1>1. IsWellFoundedOn({ss \in Nat \X Nat : ss[1] < ss[2]}, Nat)
  BY NatLessThanWellFounded DEF OpToRel
<1>2. PICK x \in T : \A y \in T : <<y, x>> \notin {ss \in Nat \X Nat : ss[1] < ss[2]}
  BY <1>1, WFMin
<1>3. ASSUME NEW y \in T
      PROVE  x <= y
  <2>1. x \in Nat /\ y \in Nat
    OBVIOUS
  <2>2. ~ (y < x)
    <3>1. ~ (/\ <<y, x>> \in Nat \X Nat
             /\ <<y, x>>[1] < <<y, x>>[2])
      BY <1>2, Zenon
    <3>2. QED
      BY <2>1, <3>1
  <2>3. QED
    BY <2>1, <2>2
<1>4. QED
  BY <1>3

\* Induction, for a set instead of a predicate.
LEMMA UpTo ==
  ASSUME NEW n \in Nat, NEW S, 0 \in S,
         \A k \in 0 .. n - 1 : k \in S => k + 1 \in S
  PROVE  0 .. n \subseteq S
<1> DEFINE T == (0 .. n) \ S
<1>1. SUFFICES ASSUME T # {}
               PROVE  FALSE
  OBVIOUS
<1>2. T \subseteq Nat
  OBVIOUS
<1>3. PICK m \in T : \A k \in T : m <= k
  BY <1>1, <1>2, LeastNat
<1>4. m - 1 \in 0 .. n - 1 /\ m - 1 \notin T /\ (m - 1) + 1 = m
  BY <1>3
<1>5. m - 1 \in S
  BY <1>4
<1>6. QED
  BY <1>3, <1>4, <1>5

Exponent == 0 .. blockSize + numSets

LEMMA NumSetsType == numSets \in Nat \ {0}
<1>1. /\ cacheSize \in Nat /\ blockSize \in Nat \ {0} /\ ways \in Nat \ {0}
      /\ numSets >= 1
  BY CacheAssumption
<1>2. blockSize * ways \in Nat \ {0}
  BY <1>1
<1>3. QED
  BY <1>1, <1>2 DEF numSets

LEMMA PowerAbove ==
  ASSUME NEW n \in Exponent
  PROVE  2^n \in Nat /\ 2^n > n /\ 2^(n + 1) = 2 * 2^n
<1> DEFINE S == {m \in Exponent : 2^m > m}
           top == blockSize + numSets
<1>1. top \in Nat
  BY NumSetsType, CacheAssumption
<1>2. 0 \in S
  BY <1>1, PowersOfTwo DEF Exponent
<1>3. ASSUME NEW k \in 0 .. top - 1, k \in S
      PROVE  k + 1 \in S
  <2>1. 2^k \in Nat /\ 2^(k + 1) = 2 * 2^k /\ k + 1 \in Exponent
    BY <1>1, PowersOfTwo DEF Exponent
  <2>2. QED
    BY <1>3, <2>1
<1>4. 0 .. top \subseteq S
  BY <1>1, <1>2, <1>3, UpTo
<1>5. QED
  BY <1>4, PowersOfTwo DEF Exponent

LEMMA Log2Bounds ==
  ASSUME NEW n \in Exponent, NEW d \in {1, 4}, d <= n
  PROVE  Log2(n, d) \in 0 .. n /\ d * 2^Log2(n, d) <= n
<1> DEFINE T == {k \in 0 .. n : n < d * 2^(k + 1)}
<1>1. n \in Nat /\ 0 .. n \subseteq Exponent
  BY NumSetsType, CacheAssumption DEF Exponent
<1>2. n \in T
  <2>1. 2^n \in Nat /\ 2^n > n /\ 2^(n + 1) = 2 * 2^n
    BY PowerAbove
  <2>2. QED
    BY <1>1, <2>1
<1>3. PICK k \in T : \A j \in T : k <= j
  <2>1. T \subseteq Nat
    OBVIOUS
  <2>2. QED
    BY <1>2, <2>1, LeastNat
<1>4. d * 2^k <= n
  <2>1. CASE k = 0
    BY <2>1, PowersOfTwo
  <2>2. CASE k # 0
    <3>1. k - 1 \in 0 .. n /\ k - 1 \notin T /\ (k - 1) + 1 = k
      BY <1>1, <1>3, <2>2
    <3>2. ~ (n < d * 2^k)
      BY <3>1
    <3>3. 2^k \in Nat
      BY <1>1, PowerAbove
    <3>4. QED
      BY <1>1, <3>2, <3>3
  <2>3. QED
    BY <2>1, <2>2
<1>5. \E j \in 0 .. n : d * 2^j <= n /\ n < d * 2^(j + 1)
  BY <1>3, <1>4
<1>6. QED
  BY <1>5 DEF Log2

LEMMA PowerSum ==
  ASSUME NEW a \in Nat, NEW b \in Nat, a + b \in Exponent
  PROVE  2^(a + b) = 2^a * 2^b
<1> DEFINE S == {m \in 0 .. b : 2^(a + m) = 2^a * 2^m}
<1>1. a \in Exponent /\ 0 .. b \subseteq Exponent /\ \A m \in 0 .. b : a + m \in Exponent
  BY NumSetsType, CacheAssumption DEF Exponent
<1>2. 0 \in S
  BY <1>1, PowersOfTwo, PowerAbove
<1>3. ASSUME NEW k \in 0 .. b - 1, k \in S
      PROVE  k + 1 \in S
  <2>1. /\ 2^a \in Nat /\ 2^k \in Nat /\ 2^(k + 1) = 2 * 2^k
        /\ 2^((a + k) + 1) = 2 * 2^(a + k)
    BY <1>1, PowerAbove
  <2>2. ASSUME NEW x \in Nat, NEW y \in Nat
        PROVE  2 * (x * y) = x * (2 * y)
    OBVIOUS
  <2>3. 2^((a + k) + 1) = 2^a * 2^(k + 1)
    BY <1>3, <2>1, <2>2
  <2>4. (a + k) + 1 = a + (k + 1)
    OBVIOUS
  <2>5. QED
    BY <2>3, <2>4
<1>4. 0 .. b \subseteq S
  BY <1>2, <1>3, UpTo
<1>5. QED
  BY <1>4

BlockBytes == 2^(blockOffset + byteOffset)
SetCount == 2^indexBits

\* The bits of index and offset name existing sets; a block has at least a byte.
LEMMA Geometry ==
  /\ BlockBytes \in Nat \ {0}
  /\ SetCount \in Nat \ {0} /\ SetCount <= numSets
  /\ 2^(blockOffset + byteOffset + indexBits) = BlockBytes * SetCount
<1>1. blockSize \in Nat /\ blockSize >= 4 /\ numSets \in Nat \ {0}
  BY NumSetsType, CacheAssumption
<1>2. /\ blockOffset \in 0 .. blockSize /\ 4 * 2^blockOffset <= blockSize
      /\ indexBits \in 0 .. numSets /\ 2^indexBits <= numSets
  BY <1>1, Log2Bounds DEF blockOffset, indexBits, Exponent
<1>3. 2^blockOffset \in Nat /\ 2^blockOffset > blockOffset
  BY <1>1, <1>2, PowerAbove DEF Exponent
<1>4. /\ blockOffset + byteOffset \in Exponent
      /\ (blockOffset + byteOffset) + indexBits \in Exponent /\ indexBits \in Exponent
  BY <1>1, <1>2, <1>3 DEF byteOffset, Exponent
<1>5. /\ BlockBytes \in Nat /\ BlockBytes > 0 /\ SetCount \in Nat /\ SetCount > 0
  BY <1>4, PowerAbove DEF BlockBytes, SetCount, Exponent
<1>6. 2^(blockOffset + byteOffset + indexBits) = BlockBytes * SetCount
  BY <1>2, <1>4, PowerSum DEF BlockBytes, SetCount, byteOffset
<1>7. QED
  BY <1>1, <1>2, <1>5, <1>6 DEF SetCount

LEMMA DivisionParts ==
  ASSUME NEW x \in Nat, NEW b \in Nat \ {0}
  PROVE  x \div b \in Nat /\ x % b \in 0 .. b - 1
  OBVIOUS

LEMMA DivisionUnique ==
  ASSUME NEW x \in Nat, NEW y \in Nat, NEW b \in Nat \ {0},
         x % b = y % b, x \div b = y \div b
  PROVE  x = y
  OBVIOUS

LEMMA DivisionTwice ==
  ASSUME NEW x \in Nat, NEW b \in Nat \ {0}, NEW c \in Nat \ {0}
  PROVE  x \div (b * c) = (x \div b) \div c
  OBVIOUS

\* An address is read as its block, and the block as its tag and its set.
LEMMA AddressParts ==
  ASSUME NEW address \in Addr
  PROVE  /\ BlockOf(address) \in Nat
         /\ getIndex(address) \in Set
         /\ getIndex(address) = SetOf(BlockOf(address))
         /\ getTag(address) = BlockOf(address) \div SetCount
         /\ getTag(address) \in Nat
<1>1. address \in Nat
  BY CacheAssumption
<1>2. BlockOf(address) \in Nat /\ BlockOf(address) = address \div BlockBytes
  BY <1>1, Geometry, DivisionParts DEF BlockOf, BlockBytes
<1>3. /\ getIndex(address) = BlockOf(address) % SetCount
      /\ getIndex(address) = SetOf(BlockOf(address))
  BY DEF getIndex, BlockOf, SetCount, SetOf
<1>4. BlockOf(address) % SetCount \in 0 .. SetCount - 1
  BY <1>2, Geometry, DivisionParts
<1>5. getTag(address) = (address \div BlockBytes) \div SetCount
  BY <1>1, Geometry, DivisionTwice DEF getTag
<1>6. BlockOf(address) \div SetCount \in Nat
  BY <1>2, Geometry, DivisionParts
<1>7. getIndex(address) \in Set
  BY <1>3, <1>4, Geometry, NumSetsType DEF Set
<1>8. QED
  BY <1>2, <1>3, <1>5, <1>6, <1>7

-----------------------------------------------------------------------------
(***************************************************************************)
(* Type correctness, and the way that an access chooses.                   *)
(***************************************************************************)
LEMMA FirstOfMember ==
  ASSUME NEW W, W \subseteq Way, W # {}
  PROVE  FirstOf(W) \in W
<1>1. W \subseteq Nat
  BY CacheAssumption DEF Way
<1>2. \E i \in W : \A j \in W : i <= j
  BY <1>1, LeastNat
<1>3. QED
  BY <1>2 DEF FirstOf

\* findReplacementBlock returns a way that none is older than.
LEMMA OldestWay ==
  ASSUME NEW ages \in [Way -> 0 .. CounterModulus - 1]
  PROVE  /\ findReplacementBlock(ages) \in Way
         /\ \A w \in Way : ages[w] <= ages[findReplacementBlock(ages)]
<1> DEFINE Youth == {CounterModulus - ages[w] : w \in Way}
           Oldest == {i \in Way : \A j \in Way : ages[j] <= ages[i]}
<1>1. CounterModulus \in Nat /\ 0 \in Way
  BY CacheAssumption DEF Way
<1>2. Youth \subseteq Nat /\ Youth # {}
  BY <1>1
<1>3. PICK y \in Youth : \A z \in Youth : y <= z
  BY <1>2, LeastNat
<1>4. PICK i \in Way : y = CounterModulus - ages[i]
  BY <1>3
<1>5. ASSUME NEW j \in Way
      PROVE  ages[j] <= ages[i]
  <2>1. y <= CounterModulus - ages[j]
    BY <1>3
  <2>2. ages[i] \in Nat /\ ages[j] \in Nat
    OBVIOUS
  <2>3. QED
    BY <1>1, <1>4, <2>1, <2>2
<1>6. FirstOf(Oldest) \in Oldest
  BY <1>5, FirstOfMember
<1>7. QED
  BY <1>6 DEF findReplacementBlock

LEMMA AgedType ==
  ASSUME TypeOK, NEW s \in Set
  PROVE  LRUincr(s) \in [Way -> 0 .. CounterModulus - 1]
<1>1. \A w \in Way : lru[s][w] \in Nat
  BY CacheAssumption DEF TypeOK
<1>2. CounterModulus \in Nat \ {0}
  BY CacheAssumption
<1>3. ASSUME NEW w \in Way
      PROVE  (lru[s][w] + 1) % CounterModulus \in 0 .. CounterModulus - 1
  <2>1. lru[s][w] + 1 \in Nat
    BY <1>1
  <2>2. QED
    BY <1>2, <2>1, DivisionParts
<1>4. QED
  BY <1>3 DEF LRUincr

LEMMA HitTypes ==
  ASSUME TypeOK, NEW address \in Addr, Hit(address)
  PROVE  TypeOK'
<1> DEFINE s == getIndex(address)
           w == FirstOf(HitWays(s, getTag(address)))
<1>1. s \in Set /\ CounterModulus \in Nat \ {0}
  BY AddressParts, CacheAssumption
<1>2. w \in Way
  BY FirstOfMember DEF Hit, HitWays
<1>3. [LRUincr(s) EXCEPT ![w] = 0] \in [Way -> 0 .. CounterModulus - 1]
  BY <1>1, <1>2, AgedType
<1>4. lru' \in [Set -> [Way -> 0 .. CounterModulus - 1]]
  BY <1>1, <1>3 DEF Hit, TypeOK
<1>5. hits' \in 0 .. CounterModulus - 1
  BY <1>1, DivisionParts DEF Hit, TypeOK
<1>6. past' \in Seq(Addr)
  BY DEF Hit, Accessed, TypeOK
<1>7. QED
  BY <1>4, <1>5, <1>6 DEF Hit, TypeOK

LEMMA MissTypes ==
  ASSUME TypeOK, NEW address \in Addr, Miss(address)
  PROVE  TypeOK'
<1> DEFINE s == getIndex(address)
           t == getTag(address)
           w == findReplacementBlock(LRUincr(s))
<1>1. s \in Set /\ t \in Nat /\ CounterModulus \in Nat \ {0}
  BY AddressParts, CacheAssumption
<1>2. w \in Way
  BY <1>1, AgedType, OldestWay
<1>3. [LRUincr(s) EXCEPT ![w] = 0] \in [Way -> 0 .. CounterModulus - 1]
  BY <1>1, <1>2, AgedType
<1>4. lru' \in [Set -> [Way -> 0 .. CounterModulus - 1]]
  BY <1>1, <1>3 DEF Miss, TypeOK
<1>5. cache' \in [Set -> [Way -> CacheEntry]]
  <2>1. [tag |-> t, valid |-> TRUE] \in CacheEntry
    BY <1>1 DEF CacheEntry
  <2>2. [cache[s] EXCEPT ![w] = [tag |-> t, valid |-> TRUE]] \in [Way -> CacheEntry]
    BY <1>1, <1>2, <2>1 DEF TypeOK
  <2>3. cache' = [cache EXCEPT ![s] = [cache[s] EXCEPT ![w] = [tag |-> t, valid |-> TRUE]]]
    BY DEF Miss
  <2>4. QED
    BY <1>1, <2>2, <2>3 DEF TypeOK
<1>6. misses' \in 0 .. CounterModulus - 1
  BY <1>1, DivisionParts DEF Miss, TypeOK
<1>7. past' \in Seq(Addr)
  BY DEF Miss, Accessed, TypeOK
<1>8. QED
  BY <1>4, <1>5, <1>6, <1>7 DEF Miss, TypeOK

\* Tags, ages and the two counters keep their types in every geometry: no access leaves
\* the sets and ways the constructor has made (access in cache.cpp).
THEOREM CacheTypeCorrect == Spec => []TypeOK
<1>1. Init => TypeOK
  BY CacheAssumption DEF Init, TypeOK, EmptyCache, NoAges, CacheEntry
<1>2. TypeOK /\ [Next]_vars => TypeOK'
  <2>1. SUFFICES ASSUME TypeOK, [Next]_vars
                 PROVE  TypeOK'
    OBVIOUS
  <2>2. CASE UNCHANGED vars
    BY <2>1, <2>2 DEF vars, TypeOK
  <2>3. QED
    BY <2>1, <2>2, HitTypes, MissTypes DEF Next, Done
<1>3. QED
  BY <1>1, <1>2, PTL DEF Spec

-----------------------------------------------------------------------------
(***************************************************************************)
(* What an access does, hit or miss: way w of the set comes to hold the    *)
(* block and is the youngest, all other ways of the set age by one.  No    *)
(* age wraps around, since none exceeds the number of accesses.            *)
(***************************************************************************)
AgesBounded ==
  /\ Len(past) <= MaxAccess
  /\ \A s \in Set : \A w \in Way : lru[s][w] <= Len(past)

Holds(s, w, tag) == cache[s][w].valid /\ cache[s][w].tag = tag

AccessTo(address, w) ==
  LET s == getIndex(address) IN
  /\ cache'[s][w].valid /\ cache'[s][w].tag = getTag(address)
  /\ lru'[s][w] = 0
  /\ \A v \in Way \ {w} : cache'[s][v] = cache[s][v] /\ lru'[s][v] = lru[s][v] + 1
  /\ \A r \in Set \ {s} : cache'[r] = cache[r] /\ lru'[r] = lru[r]
  /\ past' = Append(past, address) /\ Len(past) < MaxAccess

Finds(address, w) == Holds(getIndex(address), w, getTag(address))

Replaces(address, w) ==
  LET s == getIndex(address) IN
  /\ \A v \in Way : ~Holds(s, v, getTag(address)) /\ lru[s][v] <= lru[s][w]

LEMMA Aged ==
  ASSUME TypeOK, AgesBounded, Len(past) < MaxAccess, NEW s \in Set, NEW w \in Way
  PROVE  LRUincr(s)[w] = lru[s][w] + 1
<1>1. lru[s][w] \in Nat /\ Len(past) \in Nat /\ lru[s][w] <= Len(past)
  BY CacheAssumption DEF TypeOK, AgesBounded
<1>2. lru[s][w] + 1 \in Nat /\ lru[s][w] + 1 < CounterModulus
  BY <1>1, CacheAssumption
<1>3. (lru[s][w] + 1) % CounterModulus = lru[s][w] + 1
  BY <1>2, CacheAssumption
<1>4. QED
  BY <1>3 DEF LRUincr

LEMMA HitAccess ==
  ASSUME TypeOK, AgesBounded, NEW address \in Addr, Hit(address)
  PROVE  \E w \in Way : AccessTo(address, w) /\ Finds(address, w)
<1> DEFINE s == getIndex(address)
           w == FirstOf(HitWays(s, getTag(address)))
<1>1. s \in Set /\ Len(past) < MaxAccess /\ past' = Append(past, address)
  BY AddressParts DEF Hit, Accessed
<1>2. w \in HitWays(s, getTag(address))
  BY FirstOfMember DEF Hit, HitWays
<1>3. w \in Way /\ Holds(s, w, getTag(address))
  BY <1>2 DEF HitWays, Holds
<1>4. lru' = [lru EXCEPT ![s] = [LRUincr(s) EXCEPT ![w] = 0]] /\ cache' = cache
  BY DEF Hit
<1>5. LRUincr(s) \in [Way -> 0 .. CounterModulus - 1] /\ DOMAIN lru = Set
  BY <1>1, AgedType DEF TypeOK
<1>6. lru'[s][w] = 0 /\ \A v \in Way \ {w} : lru'[s][v] = LRUincr(s)[v]
  BY <1>1, <1>3, <1>4, <1>5
<1>7. \A r \in Set \ {s} : lru'[r] = lru[r]
  BY <1>4, <1>5
<1>8. \A v \in Way : LRUincr(s)[v] = lru[s][v] + 1
  BY <1>1, Aged
<1>9. QED
  BY <1>1, <1>3, <1>4, <1>6, <1>7, <1>8 DEF AccessTo, Finds, Holds

LEMMA MissAccess ==
  ASSUME TypeOK, AgesBounded, NEW address \in Addr, Miss(address)
  PROVE  \E w \in Way : AccessTo(address, w) /\ Replaces(address, w)
<1> DEFINE s == getIndex(address)
           t == getTag(address)
           w == findReplacementBlock(LRUincr(s))
           entry == [tag |-> t, valid |-> TRUE]
<1>1. s \in Set /\ Len(past) < MaxAccess /\ past' = Append(past, address)
  BY AddressParts DEF Miss, Accessed
<1>2. LRUincr(s) \in [Way -> 0 .. CounterModulus - 1] /\ DOMAIN lru = Set
  BY <1>1, AgedType DEF TypeOK
<1>3. w \in Way /\ \A v \in Way : LRUincr(s)[v] <= LRUincr(s)[w]
  BY <1>2, OldestWay
<1>4. /\ lru' = [lru EXCEPT ![s] = [LRUincr(s) EXCEPT ![w] = 0]]
      /\ cache' = [cache EXCEPT ![s] = [cache[s] EXCEPT ![w] = entry]]
  BY DEF Miss
<1>5. lru'[s][w] = 0 /\ \A v \in Way \ {w} : lru'[s][v] = LRUincr(s)[v]
  BY <1>1, <1>2, <1>3, <1>4
<1>6. \A r \in Set \ {s} : lru'[r] = lru[r]
  BY <1>2, <1>4
<1>7. /\ cache'[s][w] = entry /\ \A v \in Way \ {w} : cache'[s][v] = cache[s][v]
      /\ \A r \in Set \ {s} : cache'[r] = cache[r]
  BY <1>1, <1>3, <1>4 DEF TypeOK
<1>8. \A v \in Way : LRUincr(s)[v] = lru[s][v] + 1 /\ lru[s][v] \in Nat
  BY <1>1, Aged, CacheAssumption DEF TypeOK
<1>9. \A v \in Way : lru[s][v] <= lru[s][w]
  BY <1>3, <1>8
<1>10. \A v \in Way : ~Holds(s, v, t)
  BY DEF Miss, HitWays, Holds
<1>11. QED
  BY <1>1, <1>3, <1>5, <1>6, <1>7, <1>8, <1>9, <1>10 DEF AccessTo, Replaces

-----------------------------------------------------------------------------
(***************************************************************************)
(* The order of the ways of a set.                                         *)
(***************************************************************************)
CacheInv == AgesBounded /\ NoDuplicates /\ LRUOrder

LEMMA AccessKeepsOrder ==
  ASSUME TypeOK, TypeOK', CacheInv, NEW address \in Addr, NEW w \in Way,
         AccessTo(address, w), Finds(address, w) \/ Replaces(address, w)
  PROVE  CacheInv'
<1> DEFINE s == getIndex(address)
<1>1. s \in Set
  BY AddressParts
<1>2. \A r \in Set : \A v \in Way : lru[r][v] \in Nat /\ lru'[r][v] \in Nat
  BY CacheAssumption DEF TypeOK
<1>3. Len(past) \in Nat /\ Len(past') = Len(past) + 1
  BY DEF TypeOK, AccessTo
<1>4. AgesBounded'
  <2>1. Len(past') <= MaxAccess
    BY <1>3, CacheAssumption DEF AccessTo
  <2>2. ASSUME NEW r \in Set, NEW v \in Way
        PROVE  lru'[r][v] <= Len(past')
    <3>1. lru[r][v] <= Len(past)
      BY DEF CacheInv, AgesBounded
    <3>2. lru'[r][v] \in {0, lru[r][v], lru[r][v] + 1}
      BY <1>1 DEF AccessTo
    <3>3. QED
      BY <1>2, <1>3, <3>1, <3>2
  <2>3. QED
    BY <2>1, <2>2 DEF AgesBounded
<1>5. NoDuplicates'
  <2>1. SUFFICES ASSUME NEW r \in Set, NEW u \in Way, NEW v \in Way,
                        cache'[r][u].valid, cache'[r][v].valid,
                        cache'[r][u].tag = cache'[r][v].tag
                 PROVE  u = v
    BY DEF NoDuplicates
  <2>2. CASE r # s
    BY <2>1, <2>2 DEF AccessTo, CacheInv, NoDuplicates
  <2>3. CASE r = s
    <3>1. \A x \in Way \ {w} : Holds(s, x, getTag(address)) => Finds(address, w)
      BY DEF Replaces
    <3>2. \A x \in Way \ {w} : ~Holds(s, x, getTag(address))
      BY <1>1, <3>1 DEF Finds, Holds, CacheInv, NoDuplicates
    <3>3. QED
      BY <1>1, <2>1, <2>3, <3>2 DEF AccessTo, Holds, CacheInv, NoDuplicates
  <2>4. QED
    BY <2>2, <2>3
<1>6. LRUOrder'
  <2>1. SUFFICES ASSUME NEW r \in Set, NEW u \in Way, NEW v \in Way,
                        cache'[r][u].valid, u # v
                 PROVE  IF cache'[r][v].valid THEN lru'[r][u] # lru'[r][v]
                        ELSE lru'[r][u] < lru'[r][v]
    BY DEF LRUOrder
  <2>2. CASE r # s
    BY <2>1, <2>2 DEF AccessTo, CacheInv, LRUOrder
  <2>3. CASE r = s /\ w \notin {u, v}
    <3>1. /\ cache'[s][u] = cache[s][u] /\ cache'[s][v] = cache[s][v]
          /\ lru'[s][u] = lru[s][u] + 1 /\ lru'[s][v] = lru[s][v] + 1
      BY <2>3 DEF AccessTo
    <3>2. IF cache[s][v].valid THEN lru[s][u] # lru[s][v] ELSE lru[s][u] < lru[s][v]
      BY <1>1, <2>1, <2>3, <3>1 DEF CacheInv, LRUOrder
    <3>3. QED
      BY <1>1, <1>2, <2>3, <3>1, <3>2
  <2>4. CASE r = s /\ w = u
    <3>1. lru'[s][u] = 0 /\ lru'[s][v] = lru[s][v] + 1
      BY <2>1, <2>4 DEF AccessTo
    <3>2. QED
      BY <1>1, <1>2, <2>4, <3>1
  <2>5. CASE r = s /\ w = v
    <3>1. lru'[s][v] = 0 /\ lru'[s][u] = lru[s][u] + 1 /\ cache'[s][v].valid
      BY <2>1, <2>5 DEF AccessTo
    <3>2. QED
      BY <1>1, <1>2, <2>5, <3>1
  <2>6. QED
    BY <2>2, <2>3, <2>4, <2>5
<1>7. QED
  BY <1>4, <1>5, <1>6 DEF CacheInv

LEMMA CacheInvariant == Spec => []CacheInv
<1>1. Init => CacheInv
  BY CacheAssumption DEF Init, EmptyCache, NoAges, CacheInv, AgesBounded, NoDuplicates,
     LRUOrder
<1>2. TypeOK /\ TypeOK' /\ CacheInv /\ [Next]_vars => CacheInv'
  <2>1. SUFFICES ASSUME TypeOK, TypeOK', CacheInv, [Next]_vars
                 PROVE  CacheInv'
    OBVIOUS
  <2>2. ASSUME NEW address \in Addr, Hit(address) \/ Miss(address)
        PROVE  CacheInv'
    BY <2>1, <2>2, HitAccess, MissAccess, AccessKeepsOrder DEF CacheInv
  <2>3. CASE UNCHANGED vars
    BY <2>1, <2>3 DEF vars, CacheInv, AgesBounded, NoDuplicates, LRUOrder
  <2>4. QED
    BY <2>1, <2>2, <2>3 DEF Next, Done
<1>3. QED
  BY <1>1, <1>2, CacheTypeCorrect, PTL DEF Spec

\* In every geometry, a set never holds a block twice: access in cache.cpp looks at all
\* ways before it replaces one.
THEOREM NoDuplicatesCorrect == Spec => []NoDuplicates
  BY CacheInvariant, PTL DEF CacheInv

\* In every geometry, the ages order the valid ways of a set strictly, and empty ways
\* come before them: LRUincr and the reset to 0 keep the order of use.
THEOREM LRUOrderCorrect == Spec => []LRUOrder
  BY CacheInvariant, PTL DEF CacheInv

-----------------------------------------------------------------------------
(***************************************************************************)
(* The invariant relates the ways to the history of the accesses: a block  *)
(* held has, since its last use, been followed by exactly the blocks of    *)
(* the younger ways; a block that was driven out has been followed by      *)
(* every block its set holds now.                                          *)
(***************************************************************************)
Index == 0 .. SetCount - 1
Younger(s, w) == {v \in Way : cache[s][v].valid /\ lru[s][v] < lru[s][w]}

LastUse ==
  \A s \in Index : \A w \in Way :
    cache[s][w].valid =>
      \E k \in 1 .. Len(past) :
        /\ BlockOf(past[k]) = BlockIn(s, w)
        /\ BlocksSince(k, s) = {BlockIn(s, v) : v \in Younger(s, w)}

Resident(s, block) == \E w \in Way : cache[s][w].valid /\ BlockIn(s, w) = block
AllSince(k, s) ==
  \A w \in Way : cache[s][w].valid /\ BlockIn(s, w) \in BlocksSince(k, s)

DrivenOut ==
  \A s \in Index, block \in Nat : \A k \in 1 .. Len(past) :
    BlockOf(past[k]) = block /\ SetOf(block) = s => Resident(s, block) \/ AllSince(k, s)

LRUInv == LastUse /\ DrivenOut

-----------------------------------------------------------------------------
(***************************************************************************)
(* Blocks: the set and the tag of a way name one.                          *)
(***************************************************************************)
LEMMA IndexInSet == Index \subseteq Set /\ SetCount \in Nat \ {0}
  BY Geometry, NumSetsType DEF Index, Set

LEMMA Recompose ==
  ASSUME NEW n \in Nat \ {0}, NEW q \in Nat, NEW r \in 0 .. n - 1
  PROVE  /\ n * q + r \in Nat
         /\ (n * q + r) \div n = q
         /\ (n * q + r) % n = r
  OBVIOUS

LEMMA BlockInParts ==
  ASSUME TypeOK, NEW s \in Index, NEW w \in Way
  PROVE  /\ BlockIn(s, w) \in Nat
         /\ SetOf(BlockIn(s, w)) = s
         /\ BlockIn(s, w) \div SetCount = cache[s][w].tag
<1>1. cache[s][w].tag \in Nat /\ s \in 0 .. SetCount - 1 /\ SetCount \in Nat \ {0}
  BY IndexInSet DEF TypeOK, CacheEntry, Index
<1>2. QED
  BY <1>1, Recompose DEF BlockIn, SetOf, SetCount

LEMMA BlockHeld ==
  ASSUME TypeOK, NEW address \in Addr, NEW w \in Way
  PROVE  LET s == getIndex(address) IN
         /\ s \in Index /\ s = SetOf(BlockOf(address))
         /\ cache[s][w].tag = getTag(address) <=> BlockIn(s, w) = BlockOf(address)
<1> DEFINE s == getIndex(address)
           b == BlockOf(address)
<1>1. /\ b \in Nat /\ s = b % SetCount /\ s = SetOf(b)
      /\ getTag(address) = b \div SetCount /\ SetCount \in Nat \ {0}
  BY AddressParts, IndexInSet DEF SetOf, SetCount
<1>2. s \in Index
  BY <1>1, DivisionParts DEF Index
<1>3. /\ BlockIn(s, w) \in Nat /\ BlockIn(s, w) % SetCount = s
      /\ BlockIn(s, w) \div SetCount = cache[s][w].tag
  BY <1>2, BlockInParts DEF SetOf, SetCount
<1>4. cache[s][w].tag = getTag(address) => BlockIn(s, w) = b
  BY <1>1, <1>3, DivisionUnique
<1>5. BlockIn(s, w) = b => cache[s][w].tag = getTag(address)
  BY <1>1, <1>3
<1>6. QED
  BY <1>1, <1>2, <1>4, <1>5

LEMMA BlockInUnique ==
  ASSUME TypeOK, NoDuplicates, NEW s \in Index, NEW v \in Way, NEW w \in Way,
         cache[s][v].valid, cache[s][w].valid, BlockIn(s, v) = BlockIn(s, w)
  PROVE  v = w
<1>1. cache[s][v].tag = cache[s][w].tag
  BY BlockInParts
<1>2. QED
  BY <1>1, IndexInSet DEF NoDuplicates

-----------------------------------------------------------------------------
(***************************************************************************)
(* The blocks accessed since a position.                                   *)
(***************************************************************************)
LEMMA SinceAppend ==
  ASSUME TypeOK, NEW address \in Addr, past' = Append(past, address), NEW s,
         NEW k \in 1 .. Len(past)
  PROVE  /\ past'[k] = past[k] /\ k \in 1 .. Len(past')
         /\ SetOf(BlockOf(address)) = s =>
              BlocksSince(k, s)' = BlocksSince(k, s) \cup {BlockOf(address)}
         /\ SetOf(BlockOf(address)) # s => BlocksSince(k, s)' = BlocksSince(k, s)
<1> DEFINE n == Len(past)
           P(i) == SetOf(BlockOf(past[i])) = s
<1>1. /\ n \in Nat /\ Len(past') = n + 1 /\ past'[n + 1] = address
      /\ \A i \in 1 .. n : past'[i] = past[i]
  BY DEF TypeOK
<1>2. BlocksSince(k, s)' =
        {BlockOf(past'[j]) : j \in {i \in k + 1 .. n + 1 : SetOf(BlockOf(past'[i])) = s}}
  BY <1>1 DEF BlocksSince, SetOf, BlockOf
<1>3. \A i \in k + 1 .. n + 1 : i = n + 1 \/ i \in k + 1 .. n
  BY <1>1
<1>4. n + 1 \in k + 1 .. n + 1 /\ k + 1 .. n \subseteq k + 1 .. n + 1
  BY <1>1
<1>5. \A i \in k + 1 .. n : past'[i] = past[i]
  BY <1>1
<1>6. CASE SetOf(BlockOf(address)) = s
  BY <1>1, <1>2, <1>3, <1>4, <1>5, <1>6 DEF BlocksSince
<1>7. CASE SetOf(BlockOf(address)) # s
  BY <1>1, <1>2, <1>3, <1>4, <1>5, <1>7 DEF BlocksSince
<1>8. QED
  BY <1>1, <1>6, <1>7

LEMMA SinceLast ==
  ASSUME TypeOK, NEW address \in Addr, past' = Append(past, address), NEW s,
         NEW k, k = Len(past) + 1
  PROVE  BlocksSince(k, s)' = {}
<1>1. Len(past) \in Nat /\ Len(past') = Len(past) + 1
  BY DEF TypeOK
<1>2. k + 1 .. Len(past') = {}
  BY <1>1
<1>3. QED
  BY <1>1, <1>2 DEF BlocksSince

LEMMA SinceMonotone ==
  ASSUME TypeOK, NEW s, NEW j \in Nat, NEW k \in Nat, j <= k
  PROVE  BlocksSince(k, s) \subseteq BlocksSince(j, s)
<1>1. Len(past) \in Nat
  BY DEF TypeOK
<1>2. k + 1 .. Len(past) \subseteq j + 1 .. Len(past)
  BY <1>1
<1>3. QED
  BY <1>2 DEF BlocksSince

LEMMA SinceFinite ==
  ASSUME TypeOK, NEW s, NEW k \in Nat
  PROVE  IsFiniteSet(BlocksSince(k, s))
<1> DEFINE D == {i \in k + 1 .. Len(past) : SetOf(BlockOf(past[i])) = s}
           f == [j \in D |-> BlockOf(past[j])]
<1>1. Len(past) \in Nat
  BY DEF TypeOK
<1>2. IsFiniteSet(k + 1 .. Len(past))
  BY <1>1, FS_Interval
<1>3. IsFiniteSet(D)
  BY <1>2, FS_Subset
<1>4. f \in Surjection(D, BlocksSince(k, s))
  BY DEF Surjection, BlocksSince
<1>5. QED
  BY <1>3, <1>4, FS_Surjection

-----------------------------------------------------------------------------
(***************************************************************************)
(* The invariant is kept by every access.                                  *)
(***************************************************************************)
\* A set that is not accessed.
LEMMA OtherSet ==
  ASSUME TypeOK, NEW address \in Addr, NEW w \in Way, AccessTo(address, w),
         NEW r \in Index, r # getIndex(address)
  PROVE  /\ cache'[r] = cache[r] /\ lru'[r] = lru[r]
         /\ \A k \in 1 .. Len(past) : BlocksSince(k, r)' = BlocksSince(k, r)
<1>1. r # SetOf(BlockOf(address)) /\ r \in Set
  BY BlockHeld, IndexInSet
<1>2. QED
  BY <1>1, SinceAppend DEF AccessTo

\* The way used holds the block afterwards.
LEMMA BlockBroughtIn ==
  ASSUME NEW address \in Addr, NEW w \in Way, AccessTo(address, w)
  PROVE  BlockIn(getIndex(address), w)' = BlockOf(address)
<1> DEFINE s == getIndex(address)
           t == getTag(address)
           b == BlockOf(address)
<1>1. BlockIn(s, w)' = SetCount * t + s
  BY DEF BlockIn, AccessTo, SetCount
<1>2. b \in Nat /\ t \in Nat /\ t = b \div SetCount /\ s = b % SetCount
  BY AddressParts DEF SetOf, SetCount
<1>3. s \in 0 .. SetCount - 1
  BY <1>2, IndexInSet, DivisionParts
<1>4. /\ SetCount * t + s \in Nat /\ (SetCount * t + s) \div SetCount = b \div SetCount
      /\ (SetCount * t + s) % SetCount = b % SetCount
  BY <1>2, <1>3, IndexInSet, Recompose
<1>5. QED
  BY <1>1, <1>2, <1>4, IndexInSet, DivisionUnique

LEMMA LastUseStep ==
  ASSUME TypeOK, TypeOK', CacheInv, LastUse, NEW address \in Addr, NEW w \in Way,
         AccessTo(address, w), Finds(address, w) \/ Replaces(address, w)
  PROVE  LastUse'
<1> DEFINE s == getIndex(address)
           b == BlockOf(address)
           n == Len(past)
<1>1. /\ s \in Index /\ s \in Set /\ s = SetOf(b)
      /\ past' = Append(past, address)
      /\ n \in Nat /\ Len(past') = n + 1 /\ past'[n + 1] = address
  BY BlockHeld, IndexInSet DEF AccessTo, TypeOK
<1>2. \A r \in Index : \A v \in Way : lru[r][v] \in Nat /\ lru'[r][v] \in Nat
  BY IndexInSet, CacheAssumption DEF TypeOK
<1>3. BlockIn(s, w)' = b
  BY BlockBroughtIn
<1>4. SUFFICES ASSUME NEW r \in Index, NEW u \in Way, cache'[r][u].valid
               PROVE  \E k \in 1 .. Len(past') :
                        /\ BlockOf(past'[k]) = BlockIn(r, u)'
                        /\ BlocksSince(k, r)' = {BlockIn(r, v)' : v \in Younger(r, u)'}
  BY DEF LastUse, BlockOf
<1>5. CASE r # s
  <2>1. /\ cache'[r] = cache[r] /\ lru'[r] = lru[r]
        /\ \A k \in 1 .. n : BlocksSince(k, r)' = BlocksSince(k, r)
    BY <1>5, OtherSet
  <2>2. PICK k \in 1 .. n : /\ BlockOf(past[k]) = BlockIn(r, u)
                            /\ BlocksSince(k, r) = {BlockIn(r, v) : v \in Younger(r, u)}
    BY <1>4, <2>1 DEF LastUse
  <2>3. k \in 1 .. Len(past') /\ past'[k] = past[k]
    BY <1>1, SinceAppend
  <2>4. Younger(r, u)' = Younger(r, u) /\ \A v \in Way : BlockIn(r, v)' = BlockIn(r, v)
    BY <2>1 DEF Younger, BlockIn
  <2>5. {BlockIn(r, v)' : v \in Younger(r, u)'} = {BlockIn(r, v) : v \in Younger(r, u)}
    BY <2>4 DEF Younger
  <2>6. QED
    BY <2>1, <2>2, <2>3, <2>4, <2>5
<1>6. CASE r = s /\ u = w
  <2>1. Younger(s, w)' = {}
    BY <1>1, <1>2 DEF Younger, AccessTo
  <2>2. PICK k \in 1 .. Len(past') : k = n + 1
    BY <1>1
  <2>3. BlocksSince(k, s)' = {}
    BY <1>1, <2>2, SinceLast
  <2>4. {BlockIn(s, v)' : v \in Younger(s, w)'} = {}
    BY <2>1
  <2>5. QED
    BY <1>1, <1>3, <1>6, <2>2, <2>3, <2>4
<1>7. CASE r = s /\ u # w
  <2>1. /\ cache'[s][u] = cache[s][u]
        /\ \A v \in Way \ {w} : cache'[s][v] = cache[s][v] /\ lru'[s][v] = lru[s][v] + 1
        /\ cache'[s][w].valid /\ lru'[s][w] = 0
    BY <1>7 DEF AccessTo
  <2>2. PICK k \in 1 .. n : /\ BlockOf(past[k]) = BlockIn(s, u)
                            /\ BlocksSince(k, s) = {BlockIn(s, v) : v \in Younger(s, u)}
    BY <1>1, <1>4, <1>7, <2>1 DEF LastUse
  <2>3. /\ k \in 1 .. Len(past') /\ past'[k] = past[k]
        /\ BlocksSince(k, s)' = BlocksSince(k, s) \cup {b}
    BY <1>1, SinceAppend
  <2>4. \A v \in Way \ {w} : BlockIn(s, v)' = BlockIn(s, v)
    BY <2>1 DEF BlockIn
  <2>5. Younger(s, u)' = Younger(s, u) \cup {w}
    <3>1. lru'[s][w] < lru'[s][u]
      BY <1>1, <1>2, <1>7, <2>1
    <3>2. \A v \in Way \ {w} : v \in Younger(s, u)' <=> v \in Younger(s, u)
      <4>1. lru'[s][u] = lru[s][u] + 1 /\ lru[s][u] \in Nat
        BY <1>1, <1>2, <1>7, <2>1
      <4>2. ASSUME NEW v \in Way \ {w}
            PROVE  lru'[s][v] < lru'[s][u] <=> lru[s][v] < lru[s][u]
        BY <1>1, <1>2, <2>1, <4>1
      <4>3. QED
        BY <2>1, <4>2 DEF Younger
    <3>3. w \in Younger(s, u)'
      BY <2>1, <3>1 DEF Younger
    <3>4. QED
      BY <3>2, <3>3 DEF Younger
  <2>6. w \in Younger(s, u) => BlockIn(s, w) = b
    <3>1. CASE Finds(address, w)
      BY <3>1, BlockHeld DEF Finds, Holds
    <3>2. CASE Replaces(address, w)
      BY <1>1, <1>2, <3>2 DEF Replaces, Younger
    <3>3. QED
      BY <3>1, <3>2
  <2>7. {BlockIn(s, v)' : v \in Younger(s, u)'}
          = {BlockIn(s, v) : v \in Younger(s, u)} \cup {b}
    <3>1. Younger(s, u) \subseteq Way
      BY DEF Younger
    <3>2. QED
      BY <1>3, <2>4, <2>5, <2>6, <3>1
  <2>8. QED
    BY <1>7, <2>2, <2>3, <2>4, <2>7
<1>8. QED
  BY <1>5, <1>6, <1>7

\* The block driven out now has been followed by those of all other ways.
LEMMA OldestFollowed ==
  ASSUME TypeOK, CacheInv, LastUse, NEW s \in Index, NEW w \in Way,
         cache[s][w].valid, \A v \in Way : lru[s][v] <= lru[s][w],
         NEW k \in 1 .. Len(past), BlockOf(past[k]) = BlockIn(s, w)
  PROVE  \A v \in Way \ {w} : cache[s][v].valid /\ BlockIn(s, v) \in BlocksSince(k, s)
<1>1. s \in Set /\ Len(past) \in Nat /\ \A v \in Way : lru[s][v] \in Nat
  BY IndexInSet, CacheAssumption DEF TypeOK
<1>2. \A v \in Way \ {w} : cache[s][v].valid /\ v \in Younger(s, w)
  BY <1>1 DEF CacheInv, LRUOrder, Younger
<1>3. PICK j \in 1 .. Len(past) :
        BlocksSince(j, s) = {BlockIn(s, v) : v \in Younger(s, w)}
  BY DEF LastUse
<1>4. BlockIn(s, w) \notin BlocksSince(j, s)
  <2>1. SUFFICES ASSUME NEW v \in Younger(s, w), BlockIn(s, v) = BlockIn(s, w)
                 PROVE  FALSE
    BY <1>3
  <2>2. v \in Way /\ cache[s][v].valid /\ lru[s][v] < lru[s][w]
    BY <2>1 DEF Younger
  <2>3. v = w
    BY <2>1, <2>2, BlockInUnique DEF CacheInv
  <2>4. QED
    BY <1>1, <2>2, <2>3
<1>5. k <= j
  <2>1. SUFFICES ASSUME j < k
                 PROVE  FALSE
    BY <1>1
  <2>2. k \in j + 1 .. Len(past) /\ SetOf(BlockOf(past[k])) = s
    BY <1>1, <2>1, BlockInParts
  <2>3. QED
    BY <1>4, <2>2 DEF BlocksSince
<1>6. BlocksSince(j, s) \subseteq BlocksSince(k, s)
  BY <1>1, <1>5, SinceMonotone
<1>7. QED
  BY <1>2, <1>3, <1>6

LEMMA DrivenOutStep ==
  ASSUME TypeOK, TypeOK', CacheInv, LRUInv, NEW address \in Addr, NEW w \in Way,
         AccessTo(address, w), Finds(address, w) \/ Replaces(address, w)
  PROVE  DrivenOut'
<1> DEFINE s == getIndex(address)
           b == BlockOf(address)
           n == Len(past)
<1>1. /\ s \in Index /\ s \in Set /\ s = SetOf(b)
      /\ past' = Append(past, address)
      /\ n \in Nat /\ Len(past') = n + 1 /\ past'[n + 1] = address
      /\ past \in Seq(Addr)
  BY BlockHeld, IndexInSet DEF AccessTo, TypeOK
<1>2. cache'[s][w].valid /\ BlockIn(s, w)' = b
  BY BlockBroughtIn DEF AccessTo
<1>3. SUFFICES ASSUME NEW r \in Index, NEW c \in Nat, NEW k \in 1 .. Len(past'),
                      BlockOf(past'[k]) = c, SetOf(c) = r
               PROVE  Resident(r, c)' \/ AllSince(k, r)'
  BY DEF DrivenOut, BlockOf, SetOf
<1>4. CASE k = n + 1
  BY <1>1, <1>2, <1>3, <1>4 DEF Resident
<1>5. ASSUME k # n + 1
      PROVE  /\ k \in 1 .. n /\ past'[k] = past[k] /\ BlockOf(past[k]) = c
             /\ Resident(r, c) \/ AllSince(k, r)
  <2>1. k \in 1 .. n
    BY <1>1, <1>5
  <2>2. past'[k] = past[k]
    BY <1>1, <2>1, SinceAppend
  <2>3. QED
    BY <1>3, <2>1, <2>2 DEF LRUInv, DrivenOut
<1>6. CASE k # n + 1 /\ r # s
  <2>1. /\ cache'[r] = cache[r] /\ BlocksSince(k, r)' = BlocksSince(k, r)
    BY <1>5, <1>6, OtherSet
  <2>2. \A v \in Way : BlockIn(r, v)' = BlockIn(r, v)
    BY <2>1 DEF BlockIn
  <2>3. QED
    BY <1>5, <1>6, <2>1, <2>2 DEF Resident, AllSince
<1>7. CASE k # n + 1 /\ r = s
  <2>1. BlocksSince(k, s)' = BlocksSince(k, s) \cup {b}
    BY <1>1, <1>5, <1>7, SinceAppend
  <2>2. \A v \in Way \ {w} : cache'[s][v] = cache[s][v] /\ BlockIn(s, v)' = BlockIn(s, v)
    BY DEF BlockIn, AccessTo
  <2>3. CASE AllSince(k, s)
    BY <1>2, <1>7, <2>1, <2>2, <2>3 DEF AllSince
  <2>4. ASSUME NEW v \in Way, v # w, cache[s][v].valid, BlockIn(s, v) = c
        PROVE  Resident(s, c)'
    BY <2>2, <2>4 DEF Resident
  <2>5. CASE cache[s][w].valid /\ BlockIn(s, w) = c
    <3>1. CASE Finds(address, w)
      <4>1. c = b
        BY <2>5, <3>1, BlockHeld DEF Finds, Holds
      <4>2. QED
        BY <1>2, <1>7, <4>1 DEF Resident
    <3>2. CASE Replaces(address, w)
      <4>1. \A v \in Way \ {w} : cache[s][v].valid /\ BlockIn(s, v) \in BlocksSince(k, s)
        BY <1>1, <1>5, <1>7, <2>5, <3>2, OldestFollowed DEF Replaces, LRUInv
      <4>2. QED
        BY <1>2, <1>7, <2>1, <2>2, <4>1 DEF AllSince
    <3>3. QED
      BY <3>1, <3>2
  <2>6. CASE Resident(s, c)
    BY <1>7, <2>4, <2>5, <2>6 DEF Resident
  <2>7. QED
    BY <1>5, <1>7, <2>3, <2>6
<1>8. QED
  BY <1>4, <1>6, <1>7

LEMMA LRUInvariant == Spec => []LRUInv
<1>1. Init => LRUInv
  BY CacheAssumption, IndexInSet DEF Init, EmptyCache, LRUInv, LastUse, DrivenOut
<1>2. TypeOK /\ TypeOK' /\ CacheInv /\ LRUInv /\ [Next]_vars => LRUInv'
  <2>1. SUFFICES ASSUME TypeOK, TypeOK', CacheInv, LRUInv, [Next]_vars
                 PROVE  LRUInv'
    OBVIOUS
  <2>2. ASSUME NEW address \in Addr, Hit(address) \/ Miss(address)
        PROVE  LRUInv'
    <3>1. PICK w \in Way : /\ AccessTo(address, w)
                           /\ Finds(address, w) \/ Replaces(address, w)
      BY <2>1, <2>2, HitAccess, MissAccess DEF CacheInv
    <3>2. QED
      BY <2>1, <3>1, LastUseStep, DrivenOutStep DEF LRUInv
  <2>3. CASE UNCHANGED vars
    <3>1. cache' = cache /\ lru' = lru /\ past' = past
      BY <2>3 DEF vars
    <3>2. /\ \A r, v : BlockIn(r, v)' = BlockIn(r, v) /\ Younger(r, v)' = Younger(r, v)
          /\ \A k, r : BlocksSince(k, r)' = BlocksSince(k, r)
      BY <3>1 DEF BlockIn, Younger, BlocksSince, BlockOf, SetOf
    <3>3. LastUse'
      <4>1. ASSUME NEW r \in Index, NEW u \in Way, cache[r][u].valid
            PROVE  \E k \in 1 .. Len(past) :
                     /\ BlockOf(past[k]) = BlockIn(r, u)'
                     /\ BlocksSince(k, r)' = {BlockIn(r, v)' : v \in Younger(r, u)'}
        BY <2>1, <3>2, <4>1 DEF LRUInv, LastUse
      <4>2. QED
        BY <3>1, <4>1 DEF LastUse, BlockOf
    <3>4. DrivenOut'
      BY <2>1, <3>1, <3>2 DEF LRUInv, DrivenOut, Resident, AllSince, BlockOf, SetOf
    <3>5. QED
      BY <3>3, <3>4 DEF LRUInv
  <2>4. QED
    BY <2>1, <2>2, <2>3 DEF Next, Done
<1>3. QED
  BY <1>1, <1>2, CacheTypeCorrect, CacheInvariant, PTL DEF Spec

-----------------------------------------------------------------------------
(***************************************************************************)
(* Counting: fewer than `ways` blocks since the last use of a block held,  *)
(* at least `ways` since any use of a block that is not.                   *)
(***************************************************************************)
LEMMA WayCount == IsFiniteSet(Way) /\ Cardinality(Way) = ways
<1>1. ways \in Nat \ {0}
  BY CacheAssumption
<1>2. QED
  BY <1>1, FS_Interval DEF Way

LEMMA FewYounger ==
  ASSUME TypeOK, NEW s \in Index, NEW w \in Way
  PROVE  Cardinality({BlockIn(s, v) : v \in Younger(s, w)}) < ways
<1> DEFINE Y == Younger(s, w)
           f == [v \in Y |-> BlockIn(s, v)]
           B == {BlockIn(s, v) : v \in Y}
<1>1. lru[s][w] \in Nat /\ ways \in Nat
  BY IndexInSet, CacheAssumption DEF TypeOK
<1>2. IsFiniteSet(Way \ {w}) /\ Cardinality(Way \ {w}) = ways - 1
  BY WayCount, FS_RemoveElement
<1>3. Y \subseteq Way \ {w}
  BY <1>1 DEF Younger
<1>4. IsFiniteSet(Y) /\ Cardinality(Y) <= ways - 1
  BY <1>2, <1>3, FS_Subset
<1>5. f \in Surjection(Y, B)
  BY DEF Surjection
<1>6. IsFiniteSet(B) /\ Cardinality(B) <= Cardinality(Y)
  BY <1>4, <1>5, FS_Surjection
<1>7. Cardinality(B) \in Nat /\ Cardinality(Y) \in Nat
  BY <1>4, <1>6, FS_CardinalityType
<1>8. QED
  BY <1>1, <1>4, <1>6, <1>7

LEMMA ManySince ==
  ASSUME TypeOK, NoDuplicates, NEW s \in Index, NEW k \in Nat, AllSince(k, s)
  PROVE  ~ (Cardinality(BlocksSince(k, s)) < ways)
<1> DEFINE f == [w \in Way |-> BlockIn(s, w)]
           B == BlocksSince(k, s)
<1>1. f \in Injection(Way, B)
  <2>1. f \in [Way -> B]
    BY DEF AllSince
  <2>2. \A v, w \in Way : f[v] = f[w] => v = w
    BY BlockInUnique DEF AllSince
  <2>3. QED
    BY <2>1, <2>2 DEF Injection, IsInjective
<1>2. IsFiniteSet(B)
  BY SinceFinite
<1>3. ways <= Cardinality(B) /\ Cardinality(B) \in Nat /\ ways \in Nat
  BY <1>1, <1>2, FS_Injection, FS_CardinalityType, WayCount, CacheAssumption
<1>4. QED
  BY <1>3

\* Whether an access hits, said of the accesses before it.
LRUSays(block) ==
  \E k \in {j \in 1 .. Len(past) : BlockOf(past[j]) = block} :
    Cardinality(BlocksSince(k, SetOf(block))) < ways

LEMMA HitSaysLRU ==
  ASSUME TypeOK, LRUInv, NEW address \in Addr, NEW w \in Way, Finds(address, w)
  PROVE  LRUSays(BlockOf(address))
<1> DEFINE s == getIndex(address)
           b == BlockOf(address)
<1>1. s \in Index /\ s = SetOf(b) /\ cache[s][w].valid /\ BlockIn(s, w) = b
  BY BlockHeld DEF Finds, Holds
<1>2. PICK k \in 1 .. Len(past) :
        /\ BlockOf(past[k]) = b
        /\ BlocksSince(k, s) = {BlockIn(s, v) : v \in Younger(s, w)}
  BY <1>1 DEF LRUInv, LastUse
<1>3. Cardinality(BlocksSince(k, s)) < ways
  BY <1>1, <1>2, FewYounger
<1>4. QED
  BY <1>1, <1>2, <1>3 DEF LRUSays

LEMMA MissSaysLRU ==
  ASSUME TypeOK, NoDuplicates, LRUInv, NEW address \in Addr,
         \A w \in Way : ~Finds(address, w)
  PROVE  ~LRUSays(BlockOf(address))
<1> DEFINE s == getIndex(address)
           b == BlockOf(address)
<1>1. s \in Index /\ s = SetOf(b) /\ b \in Nat
  <2>1. 0 \in Way
    BY CacheAssumption DEF Way
  <2>2. QED
    BY <2>1, BlockHeld, AddressParts
<1>2. ~Resident(s, b)
  BY BlockHeld DEF Resident, Finds, Holds
<1>3. SUFFICES ASSUME NEW k \in 1 .. Len(past), BlockOf(past[k]) = b
               PROVE  ~ (Cardinality(BlocksSince(k, s)) < ways)
  BY <1>1 DEF LRUSays
<1>4. AllSince(k, s)
  BY <1>1, <1>2, <1>3 DEF LRUInv, DrivenOut
<1>5. k \in Nat
  OBVIOUS
<1>6. QED
  BY <1>1, <1>4, <1>5, ManySince

LEMMA HitsAsLRUStep ==
  ASSUME TypeOK, CacheInv, LRUInv, [Next]_vars, past' # past
  PROVE  LET block == BlockOf(past'[Len(past')]) IN hits' # hits <=> LRUSays(block)
<1>1. PICK address \in Addr : Hit(address) \/ Miss(address)
  BY DEF Next, Done, vars
<1>2. past' = Append(past, address) /\ Len(past) \in Nat /\ Len(past) < MaxAccess
  BY <1>1 DEF Hit, Miss, Accessed, TypeOK
<1>3. past'[Len(past')] = address
  BY <1>2 DEF TypeOK
<1>4. CASE Hit(address)
  <2>1. hits' # hits
    <3>1. hits \in 0 .. CounterModulus - 1 /\ CounterModulus \in Nat /\ CounterModulus >= 2
      BY <1>2, CacheAssumption DEF TypeOK
    <3>2. CASE hits + 1 < CounterModulus
      BY <1>4, <3>1, <3>2 DEF Hit
    <3>3. CASE hits + 1 = CounterModulus
      <4>1. CounterModulus % CounterModulus = 0
        BY <3>1
      <4>2. QED
        BY <1>4, <3>1, <3>3, <4>1 DEF Hit
    <3>4. QED
      BY <3>1, <3>2, <3>3
  <2>2. LRUSays(BlockOf(address))
    BY <1>4, HitAccess, HitSaysLRU DEF CacheInv
  <2>3. QED
    BY <1>3, <2>1, <2>2
<1>5. CASE Miss(address)
  <2>1. hits' = hits /\ \A w \in Way : ~Finds(address, w)
    BY <1>5 DEF Miss, HitWays, Finds, Holds
  <2>2. ~LRUSays(BlockOf(address))
    BY <2>1, MissSaysLRU DEF CacheInv
  <2>3. QED
    BY <1>3, <2>1, <2>2
<1>6. QED
  BY <1>1, <1>4, <1>5

\* In every geometry and for every sequence of accesses, access in cache.cpp hits if and
\* only if fewer than `ways` other blocks of the set were accessed since the block was.
THEOREM HitsAsLRUCorrect == Spec => HitsAsLRU
<1>1. TypeOK /\ CacheInv /\ LRUInv /\ [Next]_vars
      => [past' # past =>
            LET block == BlockOf(past'[Len(past')])
                before == {k \in 1 .. Len(past) : BlockOf(past[k]) = block}
            IN  hits' # hits <=>
                  \E k \in before : Cardinality(BlocksSince(k, SetOf(block))) < ways
         ]_vars
  BY HitsAsLRUStep DEF LRUSays
<1>2. QED
  BY <1>1, CacheTypeCorrect, CacheInvariant, LRUInvariant, PTL DEF Spec, HitsAsLRU

-----------------------------------------------------------------------------
(***************************************************************************)
(* Lists of ways in the order of their ages.                               *)
(***************************************************************************)
Ordered(q, age) == \A j, k \in DOMAIN q : j < k => age[q[j]] < age[q[k]]

Lists(q, W, age) ==
  /\ q \in Seq(W) /\ Ordered(q, age)
  /\ \A w \in W : \E k \in DOMAIN q : q[k] = w

\* No way is listed twice.
LEMMA OrderedOnce ==
  ASSUME NEW W, NEW age, \A w \in W : age[w] \in Nat, NEW n \in Nat, NEW q \in [1 .. n -> W],
         Ordered(q, age)
  PROVE  q \in Injection(1 .. n, W)
<1>1. ASSUME NEW j \in 1 .. n, NEW k \in 1 .. n, q[j] = q[k]
      PROVE  j = k
  <2>1. age[q[j]] \in Nat
    OBVIOUS
  <2>2. ~(j < k) /\ ~(k < j)
    BY <1>1, <2>1 DEF Ordered
  <2> QED
    BY <2>2
<1> QED
  BY <1>1 DEF Injection, IsInjective

LEMMA ListCounts ==
  ASSUME NEW W, NEW age, \A w \in W : age[w] \in Nat, NEW q, Lists(q, W, age)
  PROVE  Cardinality(W) = Len(q) /\ q \in [1 .. Len(q) -> W] /\ Len(q) \in Nat
<1>1. q \in [1 .. Len(q) -> W] /\ Len(q) \in Nat
  BY DEF Lists
<1>2. q \in Injection(1 .. Len(q), W)
  BY <1>1, OrderedOnce DEF Lists
<1>3. q \in Surjection(1 .. Len(q), W)
  BY <1>1 DEF Lists, Surjection
<1>4. ExistsBijection(1 .. Len(q), W)
  BY <1>2, <1>3 DEF ExistsBijection, Bijection
<1> QED
  BY <1>1, <1>4, FS_CountingElements

\* There is one list only.
LEMMA ListUnique ==
  ASSUME NEW W, NEW age, \A w \in W : age[w] \in Nat,
         NEW q, Lists(q, W, age), NEW r, Lists(r, W, age)
  PROVE  q = r
<1> DEFINE n == Len(q)
           T == {k \in 1 .. n : q[k] # r[k]}
<1>1. /\ n \in Nat /\ Len(r) = n /\ q \in [1 .. n -> W] /\ r \in [1 .. n -> W]
  BY ListCounts
<1>2. SUFFICES ASSUME T # {}
               PROVE  FALSE
  BY <1>1
<1>3. PICK k \in T : \A j \in T : k <= j
  <2>1. T \subseteq Nat
    BY <1>1
  <2> QED
    BY <1>2, <2>1, LeastNat
<1>4. k \in 1 .. n /\ q[k] # r[k] /\ \A j \in 1 .. n : j < k => q[j] = r[j]
  BY <1>1, <1>3
<1>5. PICK j \in 1 .. n : r[j] = q[k]
  BY <1>1, <1>4 DEF Lists
<1>6. PICK i \in 1 .. n : q[i] = r[k]
  BY <1>1, <1>4 DEF Lists
<1>7. age[q[k]] \in Nat /\ age[r[k]] \in Nat
  BY <1>1, <1>4
<1>8. ~(j < k)
  <2>1. SUFFICES ASSUME j < k PROVE FALSE
    OBVIOUS
  <2>2. q[j] = q[k]
    BY <1>4, <1>5, <2>1
  <2>3. DOMAIN q = 1 .. n /\ Ordered(q, age)
    BY <1>1 DEF Lists
  <2>4. age[q[j]] < age[q[k]]
    BY <1>4, <2>1, <2>3 DEF Ordered
  <2> QED
    BY <1>7, <2>2, <2>4
<1>9. ~(i < k)
  <2>1. SUFFICES ASSUME i < k PROVE FALSE
    OBVIOUS
  <2>2. r[i] = r[k]
    BY <1>4, <1>6, <2>1
  <2>3. DOMAIN r = 1 .. n /\ Ordered(r, age)
    BY <1>1 DEF Lists
  <2>4. age[r[i]] < age[r[k]]
    BY <1>4, <2>1, <2>3 DEF Ordered
  <2> QED
    BY <1>7, <2>2, <2>4
<1>10. k < j /\ k < i
  BY <1>4, <1>5, <1>6, <1>8, <1>9
<1>11. age[r[k]] < age[q[k]]
  BY <1>1, <1>4, <1>5, <1>10 DEF Lists, Ordered
<1>12. age[q[k]] < age[r[k]]
  BY <1>1, <1>4, <1>6, <1>10 DEF Lists, Ordered
<1> QED
  BY <1>7, <1>11, <1>12

LEMMA SortedIs ==
  ASSUME NEW W, NEW age, \A w \in W : age[w] \in Nat, IsFiniteSet(W),
         NEW q, Lists(q, W, age)
  PROVE  Sorted(W, age) = q
<1> DEFINE n == Cardinality(W)
           r == Sorted(W, age)
<1>1. q \in [1 .. n -> W] /\ Ordered(q, age) /\ n \in Nat
  BY ListCounts DEF Lists
<1>2. r \in [1 .. n -> W] /\ Ordered(r, age)
  BY <1>1 DEF Sorted, Ordered
<1>3. r \in Injection(1 .. n, W)
  BY <1>1, <1>2, OrderedOnce
<1>4. Cardinality(1 .. n) = n
  BY <1>1, FS_Interval
<1>5. r \in Surjection(1 .. n, W)
  BY <1>3, <1>4, FS_Injection
<1>6. Lists(r, W, age)
  <2>1. r \in Seq(W) /\ DOMAIN r = 1 .. n
    BY <1>1, <1>2
  <2> QED
    BY <1>2, <1>5, <2>1 DEF Lists, Surjection
<1> QED
  BY <1>6, ListUnique

\* A list without its element k.
LEMMA Removed ==
  ASSUME NEW W, NEW q \in Seq(W), NEW k \in 1 .. Len(q)
  PROVE  LET p == LRU!RemoveAt(q, k) IN
         /\ p \in Seq(W) /\ Len(p) = Len(q) - 1
         /\ \A i \in 1 .. Len(q) - 1 : p[i] = IF i < k THEN q[i] ELSE q[i + 1]
<1> DEFINE a == SubSeq(q, 1, k - 1)
           c == SubSeq(q, k + 1, Len(q))
<1>1. a \in Seq(W) /\ Len(a) = k - 1 /\ \A i \in 1 .. k - 1 : a[i] = q[i]
  OBVIOUS
<1>2. c \in Seq(W) /\ Len(c) = Len(q) - k /\ \A i \in 1 .. Len(q) - k : c[i] = q[k + i]
  OBVIOUS
<1>3. LRU!RemoveAt(q, k) = a \o c
  BY DEF LRU!RemoveAt
<1> HIDE DEF a, c
<1>4. a \o c \in Seq(W) /\ Len(a \o c) = Len(q) - 1
  <2>1. a \o c \in Seq(W) /\ Len(a \o c) = Len(a) + Len(c)
    <3>1. a \in Seq(W) /\ c \in Seq(W)
      BY <1>1, <1>2
    <3> QED
      BY <3>1
  <2>2. Len(q) \in Nat /\ k \in Int
    OBVIOUS
  <2> QED
    BY <1>1, <1>2, <2>1, <2>2
<1>5. ASSUME NEW i \in 1 .. Len(q) - 1
      PROVE  (a \o c)[i] = IF i < k THEN q[i] ELSE q[i + 1]
  <2>1. CASE i < k
    BY <1>1, <1>2, <2>1
  <2>2. CASE ~(i < k)
    <3>1. i - (k - 1) \in 1 .. Len(q) - k /\ k + (i - (k - 1)) = i + 1
      BY <2>2
    <3>2. (a \o c)[i] = c[i - (k - 1)]
      BY <1>1, <1>2, <2>2
    <3> QED
      BY <1>2, <2>2, <3>1, <3>2
  <2> QED
    BY <2>1, <2>2
<1> QED
  BY <1>3, <1>4, <1>5

LEMMA Fronted ==
  ASSUME NEW W, NEW p \in Seq(W), NEW w
  PROVE  /\ Len(<<w>> \o p) = Len(p) + 1 /\ (<<w>> \o p)[1] = w
         /\ <<w>> \o p \in Seq(W \cup {w})
         /\ \A k \in 1 .. Len(p) : (<<w>> \o p)[k + 1] = p[k]
         /\ \A k \in 1 .. Len(p) + 1 : k = 1 \/ k - 1 \in 1 .. Len(p)
  OBVIOUS

LEMMA RemovedLists ==
  ASSUME NEW W, NEW age, \A w \in W : age[w] \in Nat,
         NEW q, Lists(q, W, age), NEW k \in 1 .. Len(q)
  PROVE  Lists(LRU!RemoveAt(q, k), W \ {q[k]}, age)
<1> DEFINE p == LRU!RemoveAt(q, k)
           n == Len(q)
<1>1. q \in [1 .. n -> W] /\ n \in Nat /\ q \in Seq(W)
  BY ListCounts DEF Lists
<1>2. /\ p \in Seq(W) /\ Len(p) = n - 1
      /\ \A i \in 1 .. n - 1 : p[i] = IF i < k THEN q[i] ELSE q[i + 1]
  BY <1>1, Removed
<1>3. \A i, j \in 1 .. n : q[i] = q[j] => i = j
  BY <1>1, OrderedOnce DEF Lists, Injection, IsInjective
<1> HIDE DEF p, n
<1>4. k \in 1 .. n
  BY DEF n
<1>5. p \in Seq(W \ {q[k]})
  <2>1. \A i \in 1 .. Len(p) : p[i] \in W \ {q[k]}
    BY <1>1, <1>2, <1>3, <1>4
  <2> QED
    BY <1>2, <2>1
<1>6. Ordered(p, age)
  <2>1. SUFFICES ASSUME NEW i \in 1 .. n - 1, NEW j \in 1 .. n - 1, i < j
                 PROVE  age[p[i]] < age[p[j]]
    BY <1>1, <1>2 DEF Ordered
  <2>2. \A x, y \in 1 .. n : x < y => age[q[x]] < age[q[y]]
    BY <1>1 DEF Lists, Ordered
  <2> DEFINE x == IF i < k THEN i ELSE i + 1
             y == IF j < k THEN j ELSE j + 1
  <2>3. x \in 1 .. n /\ y \in 1 .. n /\ x < y
    BY <1>1, <1>4, <2>1
  <2>4. p[i] = q[x] /\ p[j] = q[y]
    BY <1>2
  <2> HIDE DEF x, y
  <2> QED
    BY <2>2, <2>3, <2>4
<1>7. ASSUME NEW w \in W \ {q[k]}
      PROVE  \E i \in DOMAIN p : p[i] = w
  <2>1. PICK j \in 1 .. n : q[j] = w
    BY <1>1 DEF Lists
  <2>2. j # k
    BY <1>7, <2>1
  <2>3. CASE j < k
    BY <1>1, <1>2, <1>4, <2>1, <2>3
  <2>4. CASE k < j
    <3>1. j - 1 \in 1 .. n - 1 /\ ~(j - 1 < k) /\ (j - 1) + 1 = j
      BY <1>1, <1>4, <2>4
    <3> QED
      BY <1>2, <2>1, <3>1
  <2> QED
    BY <1>1, <1>4, <2>2, <2>3, <2>4
<1> QED
  BY <1>5, <1>6, <1>7 DEF Lists, p

-----------------------------------------------------------------------------
(***************************************************************************)
(* An access puts its way in front.                                        *)
(***************************************************************************)
LEMMA FrontListed ==
  ASSUME TypeOK, NEW address \in Addr, NEW w \in Way, AccessTo(address, w),
         NEW p, Lists(p, Valid(getIndex(address)) \ {w}, lru[getIndex(address)])
  PROVE  LET s == getIndex(address) IN Lists(<<w>> \o p, Valid(s)', lru'[s])
<1> DEFINE s == getIndex(address)
           V == Valid(s)
           q == <<w>> \o p
           n == Len(p)
<1>1. s \in Set
  BY AddressParts
<1>2. \A v \in Way : lru[s][v] \in Nat
  BY <1>1, CacheAssumption DEF TypeOK
<1>3. Valid(s)' = (V \ {w}) \cup {w} /\ V \subseteq Way
  BY DEF AccessTo, Valid
<1>4. /\ lru'[s][w] = 0 /\ \A v \in V \ {w} : lru'[s][v] = lru[s][v] + 1
  BY <1>3 DEF AccessTo
<1>5. /\ p \in Seq(V \ {w}) /\ n \in Nat /\ DOMAIN p = 1 .. n
      /\ \A j, k \in 1 .. n : j < k => lru[s][p[j]] < lru[s][p[k]]
      /\ \A v \in V \ {w} : \E k \in 1 .. n : p[k] = v
  BY DEF Lists, Ordered
<1> HIDE DEF V, n, s
<1>6. /\ Len(q) = n + 1 /\ q[1] = w /\ q \in Seq((V \ {w}) \cup {w})
      /\ \A k \in 1 .. n : q[k + 1] = p[k]
      /\ \A k \in 1 .. n + 1 : k = 1 \/ k - 1 \in 1 .. n
  BY <1>5, Fronted DEF n
<1> HIDE DEF q
<1>7. DOMAIN q = 1 .. n + 1
  BY <1>6
<1>8. Ordered(q, lru'[s])
  <2>1. SUFFICES ASSUME NEW j \in 1 .. n + 1, NEW k \in 1 .. n + 1, j < k
                 PROVE  lru'[s][q[j]] < lru'[s][q[k]]
    BY <1>7 DEF Ordered
  <2>2. k - 1 \in 1 .. n /\ (k - 1) + 1 = k
    BY <1>5, <2>1
  <2>3. /\ q[k] = p[k - 1] /\ p[k - 1] \in V \ {w}
        /\ lru[s][p[k - 1]] \in Nat
    BY <1>2, <1>3, <1>5, <1>6, <2>2
  <2>4. lru'[s][q[k]] = lru[s][p[k - 1]] + 1
    BY <1>4, <2>3
  <2>5. CASE j = 1
    BY <1>4, <1>6, <2>3, <2>4, <2>5
  <2>6. CASE j # 1
    <3>1. j - 1 \in 1 .. n /\ (j - 1) + 1 = j /\ j - 1 < k - 1
      BY <1>5, <2>1, <2>6
    <3>2. /\ q[j] = p[j - 1] /\ p[j - 1] \in V \ {w}
          /\ lru[s][p[j - 1]] \in Nat
      BY <1>2, <1>3, <1>5, <1>6, <3>1
    <3>3. lru'[s][q[j]] = lru[s][p[j - 1]] + 1
      BY <1>4, <3>2
    <3>4. lru[s][p[j - 1]] < lru[s][p[k - 1]]
      BY <1>5, <2>2, <3>1
    <3> QED
      BY <2>3, <2>4, <3>2, <3>3, <3>4
  <2> QED
    BY <2>5, <2>6
<1>9. ASSUME NEW v \in (V \ {w}) \cup {w}
      PROVE  \E k \in 1 .. n + 1 : q[k] = v
  <2>1. CASE v = w
    BY <1>5, <1>6, <2>1
  <2>2. CASE v # w
    <3>1. PICK k \in 1 .. n : p[k] = v
      BY <1>5, <2>2
    <3>2. k + 1 \in 1 .. n + 1 /\ q[k + 1] = v
      BY <1>5, <1>6, <3>1
    <3> QED
      BY <3>2
  <2> QED
    BY <2>1, <2>2
<1>10. Lists(q, (V \ {w}) \cup {w}, lru'[s])
  BY <1>6, <1>7, <1>8, <1>9 DEF Lists
<1> QED
  BY <1>3, <1>10 DEF s, q

\* The blocks of the list that an access leaves behind.
LEMMA FrontBlocks ==
  ASSUME TypeOK, TypeOK', NEW address \in Addr, NEW w \in Way, AccessTo(address, w),
         NEW p \in Seq(Way \ {w})
  PROVE  LET s == getIndex(address)
             q == <<w>> \o p IN
         [k \in DOMAIN q |-> BlockIn(s, q[k])']
           = <<BlockOf(address)>> \o [k \in 1 .. Len(p) |-> BlockIn(s, p[k])]
<1> DEFINE s == getIndex(address)
           q == <<w>> \o p
           n == Len(p)
           f == [k \in 1 .. n |-> BlockIn(s, p[k])]
           L == [k \in DOMAIN q |-> BlockIn(s, q[k])']
           R == <<BlockOf(address)>> \o f
<1>1. s \in Index /\ n \in Nat
  BY BlockHeld
<1>2. BlockIn(s, w)' = BlockOf(address)
  BY BlockBroughtIn
<1>3. \A v \in Way \ {w} : BlockIn(s, v)' = BlockIn(s, v)
  BY DEF BlockIn, AccessTo
<1>4. /\ Len(q) = n + 1 /\ q[1] = w /\ q \in Seq((Way \ {w}) \cup {w})
      /\ \A k \in 1 .. n : q[k + 1] = p[k]
      /\ \A k \in 1 .. n + 1 : k = 1 \/ k - 1 \in 1 .. n
  BY Fronted
<1>5. f \in Seq(Nat) /\ Len(f) = n /\ \A k \in 1 .. n : f[k] = BlockIn(s, p[k])
  <2>1. \A k \in 1 .. n : p[k] \in Way /\ BlockIn(s, p[k]) \in Nat
    BY <1>1, BlockInParts
  <2> QED
    BY <1>1, <2>1
<1>6. \A k \in 1 .. n : p[k] \in Way \ {w}
  OBVIOUS
<1> HIDE DEF f, q, n, s
<1>7. /\ Len(R) = n + 1 /\ R[1] = BlockOf(address) /\ R \in Seq(Nat \cup {BlockOf(address)})
      /\ \A k \in 1 .. n : R[k + 1] = f[k]
  <2> DEFINE b == BlockOf(address)
  <2>1. f \in Seq(Nat) /\ Len(f) = n
    BY <1>5
  <2> HIDE DEF b, L
  <2>2. /\ Len(<<b>> \o f) = Len(f) + 1 /\ (<<b>> \o f)[1] = b
        /\ <<b>> \o f \in Seq(Nat \cup {b})
        /\ \A k \in 1 .. Len(f) : (<<b>> \o f)[k + 1] = f[k]
    BY <2>1, Fronted
  <2> QED
    BY <2>1, <2>2 DEF b
<1> HIDE DEF R
<1>8. DOMAIN L = 1 .. n + 1 /\ DOMAIN R = 1 .. n + 1
  BY <1>1, <1>4, <1>7
<1>9. ASSUME NEW k \in 1 .. n + 1
      PROVE  L[k] = R[k]
  <2>1. L[k] = BlockIn(s, q[k])'
    BY <1>8
  <2>2. CASE k = 1
    BY <1>2, <1>4, <1>7, <2>1, <2>2
  <2>3. CASE k # 1
    <3>1. k - 1 \in 1 .. n /\ (k - 1) + 1 = k
      BY <1>1, <1>4, <2>3
    <3>2. q[k] = p[k - 1] /\ R[k] = BlockIn(s, p[k - 1]) /\ p[k - 1] \in Way \ {w}
      BY <1>4, <1>5, <1>6, <1>7, <3>1
    <3> QED
      BY <1>3, <2>1, <3>2
  <2> QED
    BY <2>2, <2>3
<1>10. L = R
  <2>1. R = [k \in 1 .. n + 1 |-> R[k]]
    BY <1>7, <1>8
  <2>2. L = [k \in 1 .. n + 1 |-> L[k]]
    BY <1>8
  <2> HIDE DEF L
  <2> QED
    BY <1>9, <2>1, <2>2
<1> QED
  BY <1>10 DEF L, R, f, q, n, s

\* The list of a set, and what is left when a way is taken out.
LEMMA RecencyOf ==
  ASSUME TypeOK, NEW s \in Index, NEW q, Lists(q, Valid(s), lru[s])
  PROVE  /\ Recency(s) = [k \in 1 .. Len(q) |-> BlockIn(s, q[k])]
         /\ Recency(s) \in Seq(Nat) /\ Len(Recency(s)) = Len(q)
         /\ q \in Seq(Way) /\ Len(q) = Cardinality(Valid(s))
         /\ \A k \in 1 .. Len(q) : cache[s][q[k]].valid
<1>1. /\ \A w \in Valid(s) : lru[s][w] \in Nat
      /\ Valid(s) \subseteq Way /\ IsFiniteSet(Valid(s))
  <2>1. Valid(s) \subseteq Way
    BY DEF Valid
  <2>2. IsFiniteSet(Valid(s))
    BY <2>1, WayCount, FS_Subset
  <2> QED
    BY <2>1, <2>2, IndexInSet, CacheAssumption DEF TypeOK
<1>2. Sorted(Valid(s), lru[s]) = q /\ Len(q) = Cardinality(Valid(s))
  BY <1>1, SortedIs, ListCounts
<1>3. q \in Seq(Valid(s)) /\ q \in Seq(Way) /\ Len(q) \in Nat /\ DOMAIN q = 1 .. Len(q)
  BY <1>1 DEF Lists
<1>4. Recency(s) = [k \in 1 .. Len(q) |-> BlockIn(s, q[k])]
  BY <1>2, <1>3 DEF Recency
<1>5. \A k \in 1 .. Len(q) : BlockIn(s, q[k]) \in Nat /\ cache[s][q[k]].valid
  BY <1>3, BlockInParts DEF Valid
<1>6. Recency(s) \in Seq(Nat) /\ Len(Recency(s)) = Len(q)
  BY <1>3, <1>4, <1>5
<1> QED
  BY <1>2, <1>3, <1>4, <1>5, <1>6

LEMMA RemovedBlocks ==
  ASSUME TypeOK, NEW s \in Index, NEW q, Lists(q, Valid(s), lru[s]), NEW k \in 1 .. Len(q)
  PROVE  LET p == LRU!RemoveAt(q, k) IN
         [i \in 1 .. Len(p) |-> BlockIn(s, p[i])] = LRU!RemoveAt(Recency(s), k)
<1> DEFINE p == LRU!RemoveAt(q, k)
           R == LRU!RemoveAt(Recency(s), k)
           L == [i \in 1 .. Len(p) |-> BlockIn(s, p[i])]
           n == Len(q)
<1>1. /\ Recency(s) = [i \in 1 .. n |-> BlockIn(s, q[i])]
      /\ Recency(s) \in Seq(Nat) /\ Len(Recency(s)) = n /\ q \in Seq(Way) /\ n \in Nat
  BY RecencyOf
<1>2. /\ Len(p) = n - 1
      /\ \A i \in 1 .. n - 1 : p[i] = IF i < k THEN q[i] ELSE q[i + 1]
  BY <1>1, Removed
<1>3. /\ R \in Seq(Nat) /\ Len(R) = n - 1
      /\ \A i \in 1 .. n - 1 :
           R[i] = IF i < k THEN Recency(s)[i] ELSE Recency(s)[i + 1]
  <2>1. Recency(s) \in Seq(Nat) /\ k \in 1 .. Len(Recency(s)) /\ n = Len(Recency(s))
    BY <1>1
  <2> HIDE DEF L, p, n
  <2>2. /\ R \in Seq(Nat) /\ Len(R) = Len(Recency(s)) - 1
        /\ \A i \in 1 .. Len(Recency(s)) - 1 :
             R[i] = IF i < k THEN Recency(s)[i] ELSE Recency(s)[i + 1]
    BY <2>1, Removed
  <2> QED
    BY <2>1, <2>2
<1> HIDE DEF p, R, n
<1>4. k \in 1 .. n
  BY DEF n
<1>5. ASSUME NEW i \in 1 .. n - 1
      PROVE  BlockIn(s, p[i]) = R[i]
  <2>1. i \in 1 .. n /\ i + 1 \in 1 .. n
    BY <1>1
  <2> QED
    BY <1>1, <1>2, <1>3, <2>1
<1>6. R = [i \in 1 .. n - 1 |-> R[i]]
  BY <1>1, <1>3
<1>7. L = [i \in 1 .. n - 1 |-> R[i]]
  BY <1>2, <1>5
<1> QED
  BY <1>6, <1>7 DEF p, R, n

-----------------------------------------------------------------------------
(***************************************************************************)
(* The refinement.                                                         *)
(***************************************************************************)
ListInv ==
  /\ \A s \in Index : \E q : Lists(q, Valid(s), lru[s])
  /\ hits <= Len(past) /\ misses <= Len(past)

LEMMA OtherSets ==
  ASSUME NEW address \in Addr, NEW w \in Way, AccessTo(address, w),
         NEW r \in Index, r # getIndex(address)
  PROVE  Recency(r)' = Recency(r) /\ Valid(r)' = Valid(r) /\ lru'[r] = lru[r]
<1>1. cache'[r] = cache[r] /\ lru'[r] = lru[r]
  BY IndexInSet DEF AccessTo
<1> QED
  BY <1>1 DEF Recency, Valid, BlockIn

\* An access that takes its way out of the list, if it is there, and puts it in front.
LEMMA AccessMoves ==
  ASSUME TypeOK, TypeOK', ListInv, NEW address \in Addr, NEW w \in Way,
         AccessTo(address, w),
         NEW p, Lists(p, Valid(getIndex(address)) \ {w}, lru[getIndex(address)])
  PROVE  LET s == getIndex(address) IN
         /\ \A r \in Index : \E q : Lists(q, Valid(r)', lru'[r])
         /\ Recency(s)'
              = <<BlockOf(address)>> \o [k \in 1 .. Len(p) |-> BlockIn(s, p[k])]
<1> DEFINE s == getIndex(address)
           q == <<w>> \o p
<1>1. s \in Index
  BY BlockHeld
<1>2. Lists(q, Valid(s)', lru'[s])
  BY FrontListed
<1>3. Sorted(Valid(s)', lru'[s]) = q
  <2>1. \A v \in Valid(s)' : lru'[s][v] \in Nat
    BY <1>1, IndexInSet, CacheAssumption DEF TypeOK, Valid
  <2>2. IsFiniteSet(Valid(s)')
    <3>1. Valid(s)' \subseteq Way
      BY DEF Valid
    <3> QED
      BY <3>1, WayCount, FS_Subset
  <2> QED
    BY <1>2, <2>1, <2>2, SortedIs
<1>4. Recency(s)' = [k \in DOMAIN q |-> BlockIn(s, q[k])']
  BY <1>3 DEF Recency
<1>5. p \in Seq(Way \ {w})
  <2>1. p \in Seq(Valid(s) \ {w}) /\ Valid(s) \ {w} \subseteq Way \ {w}
    BY DEF Lists, Valid
  <2> QED
    BY <2>1
<1>6. [k \in DOMAIN q |-> BlockIn(s, q[k])']
        = <<BlockOf(address)>> \o [k \in 1 .. Len(p) |-> BlockIn(s, p[k])]
  BY <1>5, FrontBlocks
<1>7. ASSUME NEW r \in Index
      PROVE  \E z : Lists(z, Valid(r)', lru'[r])
  <2>1. CASE r = s
    BY <1>2, <2>1
  <2>2. CASE r # s
    BY <2>2, OtherSets DEF ListInv
  <2> QED
    BY <2>1, <2>2
<1> QED
  BY <1>4, <1>6, <1>7

Recencies == [s \in Index |-> Recency(s)]
LastBlock == IF past = <<>> THEN -1 ELSE BlockOf(past[Len(past)])

LEMMA RecenciesMove ==
  ASSUME NEW address \in Addr, NEW w \in Way, AccessTo(address, w),
         NEW R, Recency(getIndex(address))' = R
  PROVE  Recencies' = [Recencies EXCEPT ![getIndex(address)] = R]
<1>1. \A r \in Index : r # getIndex(address) => Recency(r)' = Recency(r)
  BY OtherSets
<1>2. Recencies' = [r \in Index |-> Recency(r)']
  BY DEF Recencies, Index, SetCount
<1>3. \A r \in Index : Recency(r)' = IF r = getIndex(address) THEN R ELSE Recency(r)
  BY <1>1
<1> QED
  BY <1>2, <1>3 DEF Recencies

LEMMA AccessEnds ==
  ASSUME TypeOK, NEW address \in Addr, NEW w \in Way, AccessTo(address, w), ListInv
  PROVE  /\ LastBlock' = BlockOf(address) /\ Len(past') = Len(past) + 1
         /\ Len(past) \in Nat /\ Len(past) < MaxAccess
         /\ hits + 1 = (hits + 1) % CounterModulus
         /\ misses + 1 = (misses + 1) % CounterModulus
         /\ hits \in Nat /\ misses \in Nat
<1>1. /\ past \in Seq(Addr) /\ past' = Append(past, address) /\ Len(past) \in Nat
      /\ Len(past) < MaxAccess /\ MaxAccess < CounterModulus /\ MaxAccess \in Nat
      /\ CounterModulus \in Nat /\ hits \in Nat /\ misses \in Nat
  BY CacheAssumption DEF TypeOK, AccessTo
<1>2. past' # <<>> /\ Len(past') = Len(past) + 1 /\ past'[Len(past')] = address
  BY <1>1
<1>3. LastBlock' = BlockOf(address)
  BY <1>2 DEF LastBlock
<1>4. hits <= Len(past) /\ misses <= Len(past)
  BY DEF ListInv
<1>5. hits + 1 = (hits + 1) % CounterModulus /\ misses + 1 = (misses + 1) % CounterModulus
  BY <1>1, <1>4
<1> QED
  BY <1>1, <1>2, <1>3, <1>5

LEMMA HitMoves ==
  ASSUME TypeOK, TypeOK', CacheInv, ListInv, NEW address \in Addr, Hit(address)
  PROVE  LRU!Hit(BlockOf(address)) /\ ListInv'
<1> DEFINE s == getIndex(address)
           b == BlockOf(address)
<1>1. PICK w \in Way : AccessTo(address, w) /\ Finds(address, w)
  BY HitAccess DEF CacheInv
<1>2. s \in Index /\ s = b % SetCount
  BY BlockHeld DEF SetOf, SetCount
<1>3. w \in Valid(s) /\ BlockIn(s, w) = b
  BY <1>1, BlockHeld DEF Finds, Holds, Valid
<1>4. PICK q : Lists(q, Valid(s), lru[s])
  BY <1>2 DEF ListInv
<1>5. PICK k \in 1 .. Len(q) : q[k] = w
  <2>1. DOMAIN q = 1 .. Len(q)
    BY <1>4 DEF Lists
  <2> QED
    BY <1>3, <1>4, <2>1 DEF Lists
<1> DEFINE p == LRU!RemoveAt(q, k)
           L == [i \in 1 .. Len(p) |-> BlockIn(s, p[i])]
           R == LRU!RemoveAt(Recency(s), k)
<1>6. \A v \in Valid(s) : lru[s][v] \in Nat
  BY <1>2, IndexInSet, CacheAssumption DEF TypeOK, Valid
<1>7. Lists(p, Valid(s) \ {w}, lru[s])
  BY <1>4, <1>5, <1>6, RemovedLists
<1>8. L = R
  BY <1>2, <1>4, RemovedBlocks
<1>9. /\ \A r \in Index : \E z : Lists(z, Valid(r)', lru'[r])
      /\ Recency(s)' = <<b>> \o L
  BY <1>1, <1>7, AccessMoves
<1>10. k \in DOMAIN Recency(s) /\ Recency(s)[k] = b
  BY <1>2, <1>3, <1>4, <1>5, RecencyOf
<1>11. Recencies' = [Recencies EXCEPT ![s] = <<b>> \o R]
  BY <1>1, <1>8, <1>9, RecenciesMove
<1>12. Recencies[s] = Recency(s)
  BY <1>2 DEF Recencies
<1>13. hits' = (hits + 1) % CounterModulus /\ misses' = misses
  BY DEF Hit
<1>14. /\ LastBlock' = b /\ hits' = hits + 1 /\ misses' = misses
  BY <1>1, <1>13, AccessEnds
<1>15. ListInv'
  <2>1. hits' <= Len(past') /\ misses' <= Len(past')
    BY <1>1, <1>14, AccessEnds DEF ListInv
  <2> QED
    BY <1>9, <2>1 DEF ListInv, Index, SetCount
<1> HIDE DEF s, b, p, L
<1>16. LRU!Hit(b)
  <2>1. /\ Recencies' = [Recencies EXCEPT ![b % 2^indexBits] =
                            <<b>> \o LRU!RemoveAt(Recencies[b % 2^indexBits], k)]
        /\ k \in DOMAIN Recencies[b % 2^indexBits]
        /\ Recencies[b % 2^indexBits][k] = b
    BY <1>2, <1>10, <1>11, <1>12 DEF SetCount
  <2> QED
    BY <1>14, <2>1 DEF LRU!Hit, Recencies, LastBlock, Index, SetCount
<1> QED
  BY <1>15, <1>16 DEF b

LEMMA FrontRemoved ==
  ASSUME NEW W, NEW R \in Seq(W), R # <<>>
  PROVE  LRU!Front(R) = LRU!RemoveAt(R, Len(R))
<1> DEFINE n == Len(R)
           a == SubSeq(R, 1, n - 1)
           c == SubSeq(R, n + 1, n)
<1>1. n \in Nat /\ n > 0
  OBVIOUS
<1>2. a \in Seq(W) /\ c = <<>>
  BY <1>1
<1>3. LRU!Front(R) = a /\ LRU!RemoveAt(R, n) = a \o c
  BY DEF LRU!Front, LRU!RemoveAt
<1> HIDE DEF a, c
<1>4. a \o <<>> = a
  BY <1>2
<1> QED
  BY <1>2, <1>3, <1>4

\* The way that a miss replaces is the last of the list of a full set, and not in the
\* list of another.
LEMMA MissList ==
  ASSUME TypeOK, CacheInv, NEW s \in Index, NEW w \in Way,
         \A v \in Way : lru[s][v] <= lru[s][w],
         NEW q, Lists(q, Valid(s), lru[s])
  PROVE  IF Len(q) = ways THEN Len(q) \in 1 .. Len(q) /\ q[Len(q)] = w
                          ELSE w \notin Valid(s)
<1>1. /\ q \in Seq(Way) /\ Len(q) = Cardinality(Valid(s))
      /\ DOMAIN q = 1 .. Len(q) /\ Len(q) \in Nat
  BY RecencyOf
<1>2. Valid(s) \subseteq Way /\ \A v \in Way : lru[s][v] \in Nat
  BY IndexInSet, CacheAssumption DEF Valid, TypeOK
<1>3. CASE Len(q) = ways
  <2>1. Valid(s) = Way
    BY <1>1, <1>2, <1>3, WayCount, FS_Subset
  <2>2. PICK k \in 1 .. Len(q) : q[k] = w
    BY <1>1, <2>1 DEF Lists
  <2>3. Len(q) \in 1 .. Len(q) /\ q[Len(q)] \in Way
    BY <1>1, <2>2
  <2>4. ~(k < Len(q))
    <3>1. SUFFICES ASSUME k < Len(q) PROVE FALSE
      OBVIOUS
    <3>2. lru[s][q[k]] < lru[s][q[Len(q)]]
      BY <1>1, <2>3, <3>1 DEF Lists, Ordered
    <3> QED
      BY <1>2, <2>2, <2>3, <3>2
  <2>5. k = Len(q)
    BY <1>1, <2>4
  <2> QED
    BY <1>3, <2>2, <2>3, <2>5
<1>4. CASE Len(q) # ways
  <2>1. PICK v \in Way : v \notin Valid(s)
    <3>1. Valid(s) # Way
      BY <1>1, <1>4, WayCount
    <3> QED
      BY <1>2, <3>1
  <2>2. w \notin Valid(s)
    <3>1. SUFFICES ASSUME w \in Valid(s) PROVE FALSE
      OBVIOUS
    <3>2. w # v /\ cache[s][w].valid /\ ~cache[s][v].valid
      BY <2>1, <3>1 DEF Valid
    <3>3. lru[s][w] < lru[s][v]
      BY <3>2, IndexInSet DEF CacheInv, LRUOrder
    <3>4. lru[s][v] <= lru[s][w] /\ lru[s][v] \in Nat /\ lru[s][w] \in Nat
      BY <1>2
    <3> QED
      BY <3>3, <3>4
  <2> QED
    BY <1>4, <2>2
<1> QED
  BY <1>3, <1>4

LEMMA MissMoves ==
  ASSUME TypeOK, TypeOK', CacheInv, ListInv, NEW address \in Addr, Miss(address)
  PROVE  LRU!Miss(BlockOf(address)) /\ ListInv'
<1> DEFINE s == getIndex(address)
           b == BlockOf(address)
           R == Recency(s)
           rest == IF Len(R) = ways THEN LRU!Front(R) ELSE R
<1>1. PICK w \in Way : AccessTo(address, w) /\ Replaces(address, w)
  BY MissAccess DEF CacheInv
<1>2. s \in Index /\ s = b % SetCount
  BY BlockHeld DEF SetOf, SetCount
<1>3. PICK q : Lists(q, Valid(s), lru[s])
  BY <1>2 DEF ListInv
<1>4. /\ R = [k \in 1 .. Len(q) |-> BlockIn(s, q[k])] /\ R \in Seq(Nat)
      /\ Len(R) = Len(q) /\ q \in Seq(Way)
      /\ \A k \in 1 .. Len(q) : cache[s][q[k]].valid
  BY <1>2, <1>3, RecencyOf
<1>5. \A v \in Way : lru[s][v] <= lru[s][w]
  BY <1>1 DEF Replaces
<1>6. \A v \in Valid(s) : lru[s][v] \in Nat
  BY <1>2, IndexInSet, CacheAssumption DEF TypeOK, Valid
<1>7. \E p : /\ Lists(p, Valid(s) \ {w}, lru[s])
             /\ [k \in 1 .. Len(p) |-> BlockIn(s, p[k])] = rest
  <2>1. CASE Len(q) = ways
    <3>1. Len(q) \in 1 .. Len(q) /\ q[Len(q)] = w
      BY <1>2, <1>3, <1>5, <2>1, MissList
    <3> DEFINE p == LRU!RemoveAt(q, Len(q))
    <3>2. Lists(p, Valid(s) \ {w}, lru[s])
      BY <1>3, <1>6, <3>1, RemovedLists
    <3>3. [k \in 1 .. Len(p) |-> BlockIn(s, p[k])] = LRU!RemoveAt(R, Len(q))
      BY <1>2, <1>3, <3>1, RemovedBlocks
    <3>4. LRU!Front(R) = LRU!RemoveAt(R, Len(R))
      <4>1. R # <<>>
        BY <1>4, <3>1
      <4> HIDE DEF R
      <4> QED
        BY <1>4, <4>1, FrontRemoved
    <3>5. rest = LRU!RemoveAt(R, Len(q))
      BY <1>4, <2>1, <3>4
    <3> HIDE DEF p, rest, R
    <3> QED
      BY <3>2, <3>3, <3>5
  <2>2. CASE Len(q) # ways
    <3>1. Valid(s) \ {w} = Valid(s)
      BY <1>2, <1>3, <1>5, <2>2, MissList
    <3>2. rest = R
      BY <1>4, <2>2
    <3> HIDE DEF rest, R
    <3> QED
      BY <1>3, <1>4, <3>1, <3>2
  <2> QED
    BY <2>1, <2>2
<1> HIDE DEF rest, R
<1>8. PICK p : /\ Lists(p, Valid(s) \ {w}, lru[s])
               /\ [k \in 1 .. Len(p) |-> BlockIn(s, p[k])] = rest
  BY <1>7
<1>9. /\ \A r \in Index : \E z : Lists(z, Valid(r)', lru'[r])
      /\ Recency(s)' = <<b>> \o rest
  BY <1>1, <1>8, AccessMoves
<1>10. \A k \in DOMAIN R : R[k] # b
  <2>1. DOMAIN R = 1 .. Len(q)
    BY <1>4
  <2>2. SUFFICES ASSUME NEW k \in 1 .. Len(q), R[k] = b
                 PROVE  FALSE
    BY <2>1
  <2>3. q[k] \in Way /\ cache[s][q[k]].valid /\ BlockIn(s, q[k]) = b
    BY <1>4, <2>2
  <2>4. cache[s][q[k]].tag = getTag(address)
    BY <2>3, BlockHeld
  <2> QED
    BY <1>1, <2>3, <2>4 DEF Replaces, Holds
<1>11. Recencies' = [Recencies EXCEPT ![s] = <<b>> \o rest]
  BY <1>1, <1>9, RecenciesMove
<1>12. Recencies[s] = R
  BY <1>2 DEF Recencies, R
<1>13. hits' = hits /\ misses' = (misses + 1) % CounterModulus
  BY DEF Miss
<1>14. /\ LastBlock' = b /\ hits' = hits /\ misses' = misses + 1
  BY <1>1, <1>13, AccessEnds
<1>15. ListInv'
  <2>1. hits' <= Len(past') /\ misses' <= Len(past')
    BY <1>1, <1>14, AccessEnds DEF ListInv
  <2> QED
    BY <1>9, <2>1 DEF ListInv, Index, SetCount
<1> HIDE DEF s, b
<1>16. LRU!Miss(b)
  <2> DEFINE S == Recencies[b % 2^indexBits]
  <2>1. /\ Recencies' = [Recencies EXCEPT ![b % 2^indexBits] =
                            <<b>> \o IF Len(S) = ways THEN LRU!Front(S) ELSE S]
        /\ \A k \in DOMAIN S : S[k] # b
    BY <1>2, <1>10, <1>11, <1>12 DEF SetCount, rest
  <2> QED
    BY <1>14, <2>1 DEF LRU!Miss, Recencies, LastBlock, Index, SetCount
<1> QED
  BY <1>15, <1>16 DEF b

LEMMA ListsAtFirst == Init => ListInv /\ LRU!Init
<1> SUFFICES ASSUME Init
             PROVE  ListInv /\ LRU!Init
  OBVIOUS
<1>1. TypeOK
  BY CacheAssumption DEF Init, EmptyCache, NoAges, TypeOK, CacheEntry
<1>2. /\ hits = 0 /\ misses = 0 /\ past = <<>>
  BY DEF Init
<1>3. ASSUME NEW s \in Index
      PROVE  Lists(<<>>, Valid(s), lru[s]) /\ Recency(s) = <<>>
  <2>1. Valid(s) = {}
    BY IndexInSet DEF Init, EmptyCache, Valid
  <2>2. Lists(<<>>, Valid(s), lru[s])
    BY <2>1 DEF Lists, Ordered
  <2>3. Recency(s) \in Seq(Nat) /\ Len(Recency(s)) = Len(<<>>)
    BY <1>1, <2>2, RecencyOf
  <2> QED
    BY <2>2, <2>3
<1>4. ListInv
  BY <1>2, <1>3 DEF ListInv
<1>5. [s \in Index |-> Recency(s)] = [s \in Index |-> <<>>]
  BY <1>3
<1>6. LRU!Init
  BY <1>2, <1>5 DEF LRU!Init, LRU!NoBlock, Index, SetCount
<1> QED
  BY <1>4, <1>6

LEMMA ListStep ==
  ASSUME TypeOK, TypeOK', CacheInv, ListInv, [Next]_vars
  PROVE  [LRU!Next]_(LRU!vars) /\ ListInv'
<1>1. CASE UNCHANGED vars
  <2>1. ListInv'
    BY <1>1 DEF vars, ListInv, Lists, Ordered, Valid
  <2>2. UNCHANGED <<Recencies, LastBlock, hits, misses>>
    BY <1>1 DEF vars, Recencies, LastBlock, Recency, Valid, BlockIn
  <2>3. UNCHANGED LRU!vars
    BY <2>2 DEF LRU!vars, Recencies, LastBlock, Index, SetCount
  <2> QED
    BY <2>1, <2>3
<1>2. ASSUME NEW address \in Addr, Hit(address) \/ Miss(address)
      PROVE  LRU!Next /\ ListInv'
  <2>1. BlockOf(address) \in {BlockOf(a) : a \in Addr}
    OBVIOUS
  <2>2. (LRU!Hit(BlockOf(address)) \/ LRU!Miss(BlockOf(address))) /\ ListInv'
    BY <1>2, HitMoves, MissMoves
  <2> QED
    BY <2>1, <2>2 DEF LRU!Next
<1>3. CASE Done
  BY <1>1, <1>3 DEF Done
<1> QED
  BY <1>1, <1>2, <1>3 DEF Next

\* In every geometry, the cache is a list of blocks per set, in the order of their last
\* use: the search of the ways in access, the ages kept by LRUincr and the choice of
\* findReplacementBlock move the same blocks to the front and drive the same ones out.
THEOREM ImplementsLRUCorrect == Spec => ImplementsLRU
<1>1. Init => ListInv /\ LRU!Init
  BY ListsAtFirst
<1>2. TypeOK /\ TypeOK' /\ CacheInv /\ ListInv /\ [Next]_vars
        => [LRU!Next]_(LRU!vars) /\ ListInv'
  BY ListStep
<1> QED
  BY <1>1, <1>2, CacheTypeCorrect, CacheInvariant, PTL DEF Spec, LRU!Spec, ImplementsLRU
=============================================================================
