------------------------------- MODULE Cache -------------------------------
(***************************************************************************)
(* The set-associative cache of src/src/cache.cpp: which accesses hit, and *)
(* which block a miss replaces.  It holds tags only, never data.  Reads    *)
(* and writes are the same to it: access() ignores readWrite.              *)
(***************************************************************************)
EXTENDS Integers, Sequences, FiniteSets

CONSTANTS
  cacheSize, blockSize, ways,  \* CacheConfig, sizes in bytes
  Addr,                        \* the addresses accessed
  CounterModulus,              \* 2^32: the counters are uint32_t
  MaxAccess                    \* bound: the number of accesses

numSets == cacheSize \div (blockSize * ways)

\* What (uint32_t)log2((double)n / d) yields for n >= d: the largest such k.
Log2(n, d) == CHOOSE k \in 0 .. n : d * 2^k <= n /\ n < d * 2^(k + 1)

blockOffset == Log2(blockSize, 4)
indexBits == Log2(numSets, 1)
byteOffset == 2

(***************************************************************************)
(* The constructor checks none of this.  With a block of less than a word, *)
(* no way or no set, it divides by zero or takes the logarithm of a number *)
(* below 1.  A size that is no power of two is accepted: the bits of index *)
(* and offset are those of the power of two below it.                      *)
(***************************************************************************)
ASSUME CacheAssumption ==
  /\ cacheSize \in Nat /\ blockSize \in Nat /\ ways \in Nat \ {0}
  /\ blockSize >= 4
  /\ numSets >= 1
  /\ Addr \subseteq Nat
  /\ MaxAccess \in Nat
  /\ CounterModulus \in Nat /\ MaxAccess < CounterModulus

\* What 2^n is, for the exponents that occur here: the provers do not know it.
ASSUME PowersOfTwo ==
  /\ 2^0 = 1
  /\ \A n \in 0 .. blockSize + numSets : 2^n \in Nat /\ 2^(n + 1) = 2 * 2^n

Set == 0 .. numSets - 1
Way == 0 .. ways - 1
CacheEntry == [tag : Nat, valid : BOOLEAN]

getIndex(address) == (address \div 2^(blockOffset + byteOffset)) % 2^indexBits

getTag_short(address) ==                         \* mutant: one bit is lost
  address \div 2^(blockOffset + byteOffset + indexBits + 1)
getTag(address) == address \div 2^(blockOffset + byteOffset + indexBits)

VARIABLES
  cache,    \* cache[s][w]: the entry of way w of set s
  lru,      \* lru[s][w]: the accesses of set s since way w was last used
  hits,
  misses,
  past      \* history: the addresses accessed, in order

vars == <<cache, lru, hits, misses, past>>

-----------------------------------------------------------------------------
EmptyCache == [s \in Set |-> [w \in Way |-> [tag |-> 0, valid |-> FALSE]]]
NoAges == [s \in Set |-> [w \in Way |-> 0]]

Init ==
  /\ cache = EmptyCache
  /\ lru = NoAges
  /\ hits = 0
  /\ misses = 0
  /\ past = <<>>

\* The counters of one set after an access, the way used not yet reset.
LRUincr_none(index) == lru[index]                \* mutant: nothing ages
LRUincr_down(index) == [w \in Way |-> lru[index][w] - 1]              \* mutant
LRUincr(index) == [w \in Way |-> (lru[index][w] + 1) % CounterModulus]

\* The ways that hold the tag.  access() takes the first it finds.
FirstOf(W) == CHOOSE i \in W : \A j \in W : i <= j
HitWays_short(index, tag) ==                     \* mutant: the last way is skipped
  {w \in 0 .. ways - 2 : cache[index][w].valid /\ cache[index][w].tag = tag}
HitWays(index, tag) ==
  {w \in Way : cache[index][w].valid /\ cache[index][w].tag = tag}

\* The first way with the largest counter.
findReplacementBlock(ages) ==
  FirstOf({i \in Way : \A j \in Way : ages[j] <= ages[i]})

Accessed(address) ==
  /\ Len(past) < MaxAccess
  /\ past' = Append(past, address)

Hit_notReset(address) ==                         \* mutant: a hit keeps its age
  LET index == getIndex(address) IN
  /\ HitWays(index, getTag(address)) # {}
  /\ lru' = [lru EXCEPT ![index] = LRUincr(index)]
  /\ hits' = (hits + 1) % CounterModulus
  /\ UNCHANGED <<cache, misses>>
  /\ Accessed(address)

Hit(address) ==
  LET index == getIndex(address)
      found == HitWays(index, getTag(address))
  IN  /\ found # {}
      /\ lru' = [lru EXCEPT ![index] =
                   [LRUincr(index) EXCEPT ![FirstOf(found)] = 0]]
      /\ hits' = (hits + 1) % CounterModulus
      /\ UNCHANGED <<cache, misses>>
      /\ Accessed(address)

Miss(address) ==
  LET index == getIndex(address)
      tag == getTag(address)
      replaceIndex == findReplacementBlock(LRUincr(index))
  IN  /\ HitWays(index, tag) = {}
      /\ misses' = (misses + 1) % CounterModulus
      /\ cache' = [cache EXCEPT ![index][replaceIndex] =
                     [tag |-> tag, valid |-> TRUE]]
      /\ lru' = [lru EXCEPT ![index] = [LRUincr(index) EXCEPT ![replaceIndex] = 0]]
      /\ UNCHANGED hits
      /\ Accessed(address)

\* The simulation is over; the cache is not used any more.
Done == Len(past) = MaxAccess /\ UNCHANGED vars

Next ==
  \/ \E address \in Addr : Hit(address)
  \/ \E address \in Addr : Miss(address)
  \/ Done

Spec == Init /\ [][Next]_vars

-----------------------------------------------------------------------------
(***************************************************************************)
(* Properties.                                                             *)
(***************************************************************************)
TypeOK ==
  /\ cache \in [Set -> [Way -> CacheEntry]]
  /\ lru \in [Set -> [Way -> 0 .. CounterModulus - 1]]
  /\ hits \in 0 .. CounterModulus - 1
  /\ misses \in 0 .. CounterModulus - 1
  /\ past \in Seq(Addr)

\* A block is held once: no two valid ways of a set have the same tag.
NoDuplicates ==
  \A s \in Set : \A v, w \in Way :
    /\ cache[s][v].valid /\ cache[s][w].valid
    /\ cache[s][v].tag = cache[s][w].tag
    => v = w

\* The order of use is total: valid ways of a set never tie, and a way that
\* holds nothing is older than every way that does, so that it is filled first.
LRUOrder ==
  \A s \in Set : \A v, w \in Way :
    /\ cache[s][v].valid /\ v # w
    => IF cache[s][w].valid THEN lru[s][v] # lru[s][w] ELSE lru[s][v] < lru[s][w]

\* The block of memory an address lies in, and the blocks of the same set that
\* were accessed after position k.
BlockOf(address) == address \div 2^(blockOffset + byteOffset)
SetOf(block) == block % 2^indexBits
BlocksSince(k, set) ==
  {BlockOf(past[j]) : j \in {i \in k + 1 .. Len(past) :
                               SetOf(BlockOf(past[i])) = set}}

\* What least recently used means: an access hits if and only if its block was
\* accessed before and fewer than `ways` other blocks of its set since then.
HitsAsLRU ==
  [][past' # past =>
       LET block == BlockOf(past'[Len(past')])
           before == {k \in 1 .. Len(past) : BlockOf(past[k]) = block}
       IN  hits' # hits <=>
             \E k \in before : Cardinality(BlocksSince(k, SetOf(block))) < ways
    ]_vars
=============================================================================
