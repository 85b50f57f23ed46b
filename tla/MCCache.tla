------------------------------ MODULE MCCache ------------------------------
(***************************************************************************)
(* An instance of Cache for TLC.                                           *)
(***************************************************************************)
EXTENDS CacheLRU

\* Two words of one block, four blocks that meet in one set of three ways, and
\* a block of the other set.
MCAddr == {0, 12, 32, 64, 96, 16}
=============================================================================
