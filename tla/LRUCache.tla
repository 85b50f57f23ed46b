------------------------------ MODULE LRUCache ------------------------------
(***************************************************************************)
(* What a cache with the least recently used policy promises: every set    *)
(* keeps its blocks in the order of their last use, and a block that comes *)
(* in drives out the one at the end.  There are no tags, no ways and no    *)
(* counters of age here.                                                   *)
(***************************************************************************)
EXTENDS Integers, Sequences, SequencesExt

CONSTANTS Ways, Sets, Block

VARIABLES recency,  \* recency[s]: the blocks of set s, last used first
          last,     \* the block accessed last, NoBlock before the first access
          hits, misses

vars == <<recency, last, hits, misses>>

NoBlock == -1

Init ==
  /\ recency = [s \in 0 .. Sets - 1 |-> <<>>]
  /\ last = NoBlock
  /\ hits = 0
  /\ misses = 0

\* The block moves to the front of its set.
Hit(block) ==
  LET s == block % Sets IN
  /\ \E k \in DOMAIN recency[s] :
       /\ recency[s][k] = block
       /\ recency' = [recency EXCEPT ![s] = <<block>> \o RemoveAt(recency[s], k)]
  /\ last' = block
  /\ hits' = hits + 1
  /\ UNCHANGED misses

\* It comes in at the front; the last one goes when the set is full.
Miss(block) ==
  LET s == block % Sets
      full == Len(recency[s]) = Ways
  IN  /\ \A k \in DOMAIN recency[s] : recency[s][k] # block
      /\ recency' = [recency EXCEPT ![s] =
                       <<block>> \o IF full THEN Front(recency[s]) ELSE recency[s]]
      /\ last' = block
      /\ misses' = misses + 1
      /\ UNCHANGED hits

Next == \E block \in Block : Hit(block) \/ Miss(block)

Spec == Init /\ [][Next]_vars
=============================================================================
