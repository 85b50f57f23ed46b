------------------------------ MODULE CacheLRU ------------------------------
(***************************************************************************)
(* The refinement of LRUCache by Cache: the valid ways of a set, in the    *)
(* order of the ages that the counters give them, name the blocks of its   *)
(* recency list.                                                           *)
(***************************************************************************)
EXTENDS Cache

Valid(s) == {w \in Way : cache[s][w].valid}

\* The ways in W, the youngest first.
Sorted(W, age) ==
  CHOOSE q \in [1 .. Cardinality(W) -> W] :
    \A j, k \in DOMAIN q : j < k => age[q[j]] < age[q[k]]

BlockIn(s, w) == 2^indexBits * cache[s][w].tag + s

Recency(s) ==
  LET q == Sorted(Valid(s), lru[s]) IN [k \in DOMAIN q |-> BlockIn(s, q[k])]

LRU == INSTANCE LRUCache WITH
         Ways <- ways, Sets <- 2^indexBits, Block <- {BlockOf(a) : a \in Addr},
         last <- IF past = <<>> THEN -1 ELSE BlockOf(past[Len(past)]),
         recency <- [s \in 0 .. 2^indexBits - 1 |-> Recency(s)]

\* The tags, ways and 32-bit ages of the code do what a recency list does.
ImplementsLRU == LRU!Spec
=============================================================================
