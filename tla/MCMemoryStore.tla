---------------------------- MODULE MCMemoryStore ----------------------------
(***************************************************************************)
(* An instance of MemoryStore for TLC: words of four 1-bit bytes, a memory *)
(* of six cells, addresses on both sides of its ends and one that wraps.   *)
(***************************************************************************)
EXTENDS MemoryStore

MCAddress == {0, 2, 4, 14}
MCValue == {6, 13}
MCRanges == {[start |-> 0, end |-> 5]}
MCFiles == {<<1>>, <<1, 0, 1, 1, 1, 0, 1>>}
=============================================================================
