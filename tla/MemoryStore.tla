----------------------------- MODULE MemoryStore -----------------------------
(***************************************************************************)
(* The life of a MemoryStore (src/src/MemoryStore.cpp): its constructor    *)
(* fills it from the file init_mem_image, if there is one, and from the    *)
(* program file; then the emulator reads and writes it, and printMemArray  *)
(* prints a range of it, at the end for the memory dump.                   *)
(***************************************************************************)
EXTENDS Memory, Sequences

CONSTANTS
  Address, Value,  \* what accesses use
  Files,           \* contents a program file may have, sequences of bytes
  Ranges,          \* the ranges printed: print_mem_range or its default
  EntriesPerRow,   \* 5
  MaxCalls         \* bound: the calls of setMemValue in one life

ASSUME MemoryStoreAssumption ==
  /\ startAddr + MEMORY_SIZE <= WordModulus
  /\ Address \subseteq Word /\ Value \subseteq Word
  /\ \A f \in Files : f \in Seq(Byte) /\ Len(f) <= WordModulus
  /\ Ranges \subseteq [start : Word, end : Word]
  /\ EntriesPerRow \in Nat \ {0}
  /\ MaxCalls \in Nat

VARIABLES
  memArr,
  phase,    \* which part of the constructor comes next, or "ready"
  got,      \* the last getMemValue: its arguments, its value, its return code
  out,      \* the last range printed: its arguments, its rows, its return code
  calls,    \* history: what setMemValue has been asked to store, in order
  image     \* history: the entries of init_mem_image

vars == <<memArr, phase, got, out, calls, image>>

NoGet == [address |-> 0, size |-> 0, value |-> 0, ok |-> TRUE]
NoPrint == [range |-> [start |-> 0, end |-> 0], size |-> 0,
            rows |-> <<>>, ok |-> TRUE]

Ceil(n, d) == (n + d - 1) \div d

-----------------------------------------------------------------------------
Init ==
  /\ memArr = Zeros
  /\ phase = "prepareMemory"
  /\ got = NoGet
  /\ out = NoPrint
  /\ calls = <<>>
  /\ image = <<>>

setMemValue(address, value, size) ==
  /\ memArr' = setValue(memArr, address, value, size)
  /\ calls' = Append(calls, [address |-> address, value |-> value, size |-> size])

\* There is no init_mem_image.
NoImage ==
  /\ phase = "prepareMemory" /\ image = <<>>
  /\ phase' = "loadFromFile"
  /\ UNCHANGED <<memArr, got, out, calls, image>>

\* One turn of the loop in prepareMemory that finds an entry.  An entry that
\* does not fit ends the program: the constructor asserts success.
ReadEntry(addr, curVal) ==
  /\ phase = "prepareMemory"
  /\ Len(calls) < MaxCalls - 1
  /\ setMemValue(addr, curVal, WORD_SIZE)
  /\ image' = Append(image, [address |-> addr, value |-> curVal])
  /\ phase' = IF Succeeds(addr, WORD_SIZE) THEN phase ELSE "aborted"
  /\ UNCHANGED <<got, out>>

ReadPastEnd_keeps ==                   \* mutant: addr keeps the value read last
  /\ phase = "prepareMemory"
  /\ Len(calls) < MaxCalls
  /\ LET addr == IF image = <<>> THEN 0 ELSE image[Len(image)].address
     IN  /\ setMemValue(addr, 0, WORD_SIZE)
         /\ phase' = IF Succeeds(addr, WORD_SIZE) THEN "loadFromFile" ELSE "aborted"
  /\ UNCHANGED <<got, out, image>>

\* The stream is tested before it is read: the turn that runs into the end of
\* the file leaves addr and curVal at 0 and stores them.
ReadPastEnd ==
  /\ phase = "prepareMemory"
  /\ Len(calls) < MaxCalls
  /\ setMemValue(0, 0, WORD_SIZE)
  /\ phase' = IF Succeeds(0, WORD_SIZE) THEN "loadFromFile" ELSE "aborted"
  /\ UNCHANGED <<got, out, image>>

\* Byte i of the file is stored at address i; errors are ignored.
loadFromFile(file) ==
  /\ phase = "loadFromFile"
  /\ memArr' = [k \in Cell |->
                  IF \E i \in DOMAIN file : CellOf(i - 1, 0) = k
                  THEN file[CHOOSE i \in DOMAIN file : CellOf(i - 1, 0) = k]
                  ELSE memArr[k]]
  /\ calls' = calls \o
       [i \in DOMAIN file |->
          [address |-> i - 1, value |-> file[i], size |-> BYTE_SIZE]]
  /\ phase' = "ready"
  /\ UNCHANGED <<got, out, image>>

\* The constructor without a file, or a file that cannot be opened.
NoFile ==
  /\ phase = "loadFromFile"
  /\ phase' = "ready"
  /\ UNCHANGED <<memArr, got, out, calls, image>>

Set(address, value, size) ==
  /\ phase = "ready"
  /\ Len(calls) < MaxCalls
  /\ setMemValue(address, value, size)
  /\ UNCHANGED <<phase, got, out, image>>

Get(address, size) ==
  /\ phase = "ready"
  /\ got' = [address |-> address, size |-> size,
             value |-> getValue(memArr, address, size),
             ok |-> Succeeds(address, size)]
  /\ out' = NoPrint
  /\ UNCHANGED <<memArr, phase, calls, image>>

(***************************************************************************)
(* printMemArray prints rows of EntriesPerRow entries, the last of them    *)
(* shorter, each row after its address.  It stops in the middle of an      *)
(* entry at the first byte outside memory.  relStart, which bytes are read *)
(* with, and curAddr, which is printed, are counted separately.            *)
(***************************************************************************)
CurAddr_entries(range, size, r) ==               \* mutant: one byte per entry
  (range.start + (r - 1) * EntriesPerRow) % WordModulus
CurAddr(range, size, r) ==
  (range.start + (r - 1) * size * EntriesPerRow) % WordModulus

printMemArray(range, size) ==
  LET relStart == (range.start - startAddr) % WordModulus
      relEnd == (range.end - startAddr) % WordModulus
      entry(k) == (range.start + k * size) % WordModulus
      wanted == IF relStart < relEnd THEN Ceil(relEnd - relStart, size) ELSE 0
      failing == {k \in 0 .. wanted - 1 : ~Succeeds(entry(k), size)}
      printed == IF failing = {} THEN wanted ELSE Min(failing) + 1
      bytes(k) == [j \in 1 .. Cardinality(Reached(entry(k), size)) |->
                     memArr[CellOf(entry(k), j - 1)]]
  IN  [range |-> range, size |-> size, ok |-> failing = {},
       rows |-> [r \in 1 .. Ceil(printed, EntriesPerRow) |->
         [curAddr |-> CurAddr(range, size, r),
          entries |-> [e \in 1 .. Min({EntriesPerRow, printed - (r - 1) * EntriesPerRow}) |->
                         bytes((r - 1) * EntriesPerRow + e - 1)]]]]

Dump(range, size) ==
  /\ phase = "ready"
  /\ out' = printMemArray(range, size)
  /\ got' = NoGet
  /\ UNCHANGED <<memArr, phase, calls, image>>

\* The assertion of the constructor has failed.
Aborted == phase = "aborted" /\ UNCHANGED vars

Next ==
  \/ NoImage
  \/ \E addr \in Address, curVal \in Value : ReadEntry(addr, curVal)
  \/ ReadPastEnd
  \/ \E file \in Files : loadFromFile(file)
  \/ NoFile
  \/ \E address \in Address, value \in Value, size \in MemEntrySize :
       Set(address, value, size)
  \/ \E address \in Address, size \in MemEntrySize : Get(address, size)
  \/ \E range \in Ranges, size \in MemEntrySize : Dump(range, size)
  \/ Aborted

Spec == Init /\ [][Next]_vars

-----------------------------------------------------------------------------
(***************************************************************************)
(* Properties.  The reference is the list of calls, not the bytes: the     *)
(* byte at an address is the one the last call that covers it put there.   *)
(***************************************************************************)
TypeOK ==
  /\ memArr \in MemArr
  /\ phase \in {"prepareMemory", "loadFromFile", "ready", "aborted"}
  /\ got \in [address : Word, size : MemEntrySize, value : Word, ok : BOOLEAN]
              \cup {NoGet}

\* A store that begins below memory fails at its first byte.
Covers(c, a) == startAddr <= c.address /\ c.address <= a /\ a < c.address + c.size

\* Byte n of a value, the least significant byte first.
Digit(value, n) ==
  (value \div <<1, ByteModulus, ByteModulus * ByteModulus,
                ByteModulus * ByteModulus * ByteModulus>>[n + 1]) % ByteModulus

LastStored(a) ==
  LET covering == {k \in DOMAIN calls : Covers(calls[k], a)}
      c == calls[CHOOSE k \in covering : \A j \in covering : j <= k]
  IN  IF covering = {} THEN 0 ELSE Digit(c.value, c.address + c.size - 1 - a)

\* A successful read of any size returns, most significant byte first, what was
\* last stored at each of its bytes, by stores of any size and alignment, those
\* that ran over the end of memory included.
ReadsWhatWasStored ==
  [][got'.ok /\ got' # got =>
       \A i \in 0 .. got'.size - 1 :
         Digit(got'.value, got'.size - 1 - i) = LastStored(got'.address + i)]_vars

\* A read reports success exactly if every byte of it lies in memory.
ErrorsAreReported ==
  got # NoGet =>
    (got.ok <=> \A i \in 0 .. got.size - 1 :
                  got.address + i \in startAddr .. startAddr + MEMORY_SIZE - 1)

\* The bytes of the last dump, each with the address that the label of its row
\* and its place in the row say.
Printed ==
  LET Place(r, e, j) == out.rows[r].curAddr + (e - 1) * out.size + j - 1
      InEntry(r, e) == {<<Place(r, e, j), out.rows[r].entries[e][j]>> :
                          j \in DOMAIN out.rows[r].entries[e]}
      InRow(r) == UNION {InEntry(r, e) : e \in DOMAIN out.rows[r].entries}
  IN  UNION {InRow(r) : r \in DOMAIN out.rows}

\* A dump shows memory: every byte in it is what was last stored at the address it
\* is shown for, and unless it failed, it shows each byte of the range.
PrintsWhatIsStored ==
  [][out' # out =>
       /\ \A t \in Printed' : t[2] = LastStored(t[1])
       /\ out'.ok /\ startAddr <= out'.range.start
          => out'.range.start .. out'.range.end - 1 \subseteq {t[1] : t \in Printed'}]_vars

BytesOf(e) == e.address .. e.address + WORD_SIZE - 1

\* Once constructed without a program file, memory holds the entries of init_mem_image,
\* each byte where no later entry covers it.  The word at address 0 is the exception: the
\* turn of the loop that runs into the end of the file sets it to 0.
ImageIsLoaded ==
  phase = "loadFromFile" =>
    \A k \in DOMAIN image : \A a \in BytesOf(image[k]) :
      /\ a >= WORD_SIZE
      /\ \A j \in DOMAIN image : k < j => a \notin BytesOf(image[j])
      => memArr[a - startAddr] = Digit(image[k].value, image[k].address + WORD_SIZE - 1 - a)
=============================================================================
