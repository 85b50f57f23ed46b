------------------------------- MODULE Memory -------------------------------
(***************************************************************************)
(* The bytes of MemoryStore and getOrSetValue, its one way to reach them.  *)
(* A value is stored with its most significant byte first.  The loop over  *)
(* the bytes of an access ends at the first one outside memory: what was   *)
(* done before stays done, and the access reports an error.                *)
(***************************************************************************)
EXTENDS Words

CONSTANTS startAddr, MEMORY_SIZE

ASSUME MemoryAssumption ==
  /\ startAddr \in Word
  /\ MEMORY_SIZE \in 0 .. WordModulus - 4

BYTE_SIZE == 1
HALF_SIZE == 2
WORD_SIZE == 4
MemEntrySize == {BYTE_SIZE, HALF_SIZE, WORD_SIZE}

Cell == 0 .. MEMORY_SIZE - 1
MemArr == [Cell -> Byte]
Zeros == [k \in Cell |-> 0]

\* The cell of byte i of an access: unsigned arithmetic, so it wraps.
CellOf(address, i) == (address - startAddr + i) % WordModulus

\* The bytes of an access that are read or written before at() throws.
Reached(address, size) ==
  {i \in 0 .. size - 1 : \A j \in 0 .. i : CellOf(address, j) \in Cell}

Succeeds_first(address, size) ==                 \* mutant: one byte is checked
  0 \in Reached(address, size)
Succeeds(address, size) == size - 1 \in Reached(address, size)

\* Byte i of an access of this size has this weight in its value.
ByteWeight == <<1, ByteModulus, HalfModulus, HalfModulus * ByteModulus>>
Weight_little(size, i) == ByteWeight[i + 1]      \* mutant: the other byte order
Weight(size, i) == ByteWeight[size - i]

getValue(memArr, address, size) ==
  LET part(i) == IF i \in Reached(address, size)
                 THEN memArr[CellOf(address, i)] * Weight(size, i) ELSE 0
  IN  part(0) + part(1) + part(2) + part(3)

\* (value >> shift) & 0xFF
ByteAt_unmasked(value, size, i) == value \div Weight(size, i)         \* mutant
ByteAt(value, size, i) == (value \div Weight(size, i)) % ByteModulus

setValue(memArr, address, value, size) ==
  [k \in Cell |->
     IF \E i \in Reached(address, size) : CellOf(address, i) = k
     THEN ByteAt(value, size,
                 CHOOSE i \in Reached(address, size) : CellOf(address, i) = k)
     ELSE memArr[k]]
=============================================================================
