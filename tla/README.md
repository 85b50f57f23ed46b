# A cycle-accurate MIPS simulator in TLA+

The program (`src/src/`) simulates a MIPS processor with a five-stage pipeline, an
instruction cache and a data cache, and reports cycles, hits, misses and stalls. It
executes an instruction functionally at the moment it fetches it. The pipeline then
only decides *when* things happen: a control unit looks at the stages once per cycle
and picks one of eight signals; the handler of that signal shifts the stages.

## Inventory

| Component | State | Operations | Talks to |
|---|---|---|---|
| Pipeline and control unit (`cycle.cpp`) | five stage words and their data addresses, `info`, three delays, two nop counters, two squash flags, the last branch that stalled, counters | `Control`, one handler per signal in `runCycles` | calls the emulator once per fetch; the I-cache once per fetch; the D-cache for the word in MEM |
| Cache (`cache.cpp`, `cache.h`) | tag and valid bit, age of each way, hits, misses | constructor, `access` | called by the pipeline |
| Emulator (`emulator.cpp`) | registers, PC, `encounteredBranch`, `savedBranch`, `din` | `executeInstruction` | reads and writes MemoryStore |
| MemoryStore (`MemoryStore.cpp`) | a byte array | constructor, `getMemValue`, `setMemValue`, `printMemArray` | called by the emulator and by `dumpMemoryState` |
| Functional driver (`funct.cpp`) | an emulator | `runInstructions`, `runTillHalt` | emulator |
| Whole simulator and its life cycle (`sim_cycle.cpp`, `initSimulator`, `runCycles`, `finalizeSimulator`) | the statics of `cycle.cpp`; the cycles run in a call | initialise, run for n cycles or till the halt word, report | all of the above |
| Printing (`Utilities.cpp`, `dumpMemoryState`) | a static flag: the trace file has been opened | `dumpPipeState`, `printInstr`, `dumpSimStats`, `dumpMemoryState` | called when `runCycles` returns and at the end; files |

There is one thread. What is hard in this program is the *overlap of waiting*: an
I-cache miss, a D-cache miss, a load-use stall, a two-cycle branch stall and the two
nops of an overflow can all be pending at once, each has a counter of its own, and the
order of the tests in `Control` decides which one is served. Every combination takes a
particular program *and* a particular pattern of hits and misses; the tests in
`src/test` are a few fixed programs. The second hard part is the cache: its replacement
depends on counters of age that every access of a set changes. The third is that the
same facts are kept in several places: a word is decoded three times (by the emulator,
by `Control` and by the printer), an address travels beside its word through the stages,
the report combines counters of four owners, and the statics of `cycle.cpp` survive the
simulation they belong to.

What makes each component correct:

- Pipeline: instructions pass the stages in program order, each once; none is lost; one
  that raised an exception is squashed before it has an effect; no interlock is
  skipped; the D-cache sees each load and store once; stalls are counted once and do not
  add up for ever; the program ends.
- Cache: a block is held once, invalid ways are filled first, replacement is least
  recently used.
- Emulator: the delay slot is executed, a branch or an exception in it does what the
  code promises, overflow is decided correctly for each instruction.
- MemoryStore: bytes are big-endian, an access that fails halfway leaves a known state.
- Whole simulator: it executes the same instructions as the functional one; its trace
  and its D-cache accesses are those of that execution; the cycles it reports are the
  sum of the reasons it reports; each simulation a process starts ends.

## Modules

| Module | What it is |
|---|---|
| `Pipeline` | the pipeline registers, the control unit and the handlers, with its properties |
| `MCPipeline` | instruction sets for the checks of `Pipeline` |
| `PipelineProofs` | theorems about `Pipeline`: types and order |
| `HazardProofs` | theorems about `Pipeline`: exceptions, accesses, interlocks, cost and stalls (extends `PipelineProofs`) |
| `Cache` | the set-associative cache |
| `LRUCache` | what such a cache promises: a recency list per set |
| `CacheLRU` | the refinement of `LRUCache` by `Cache`: valid ways in the order of their ages |
| `MCCache` | addresses for the checks of `Cache` and `CacheLRU` |
| `CacheProofs` | theorems about `Cache`: replacement is least recently used; it implements `LRUCache` |
| `Words` | fixed-width integers: sign, sums that wrap, the overflow checks, bitwise operators |
| `Memory` | the bytes of a MemoryStore and the one loop that reads and writes them (extends `Words`) |
| `MemoryStore` | the life of a MemoryStore: its constructor, then reads, writes and dumps (extends `Memory`) |
| `MemoryProofs` | theorems about `Words` and lemmas about `Memory`: overflow, the types of words and bytes |
| `MemoryStoreProofs` | theorems about `MemoryStore`: errors, reads, dumps |
| `MCMemoryStore` | an instance of `MemoryStore` |
| `Emulator` | `executeInstruction`, one action per group of cases of its switch (extends `Memory`) |
| `EmulatorProofs` | lemmas about the actions of `Emulator`, used by the next and by `CycleSimProofs` |
| `FunctSim` | the functional simulator: the emulator driven until it returns `isHalt` |
| `MCFunctSim` | instruction encodings and programs for the checks of `FunctSim` |
| `FunctSimProofs` | theorems about `FunctSim`: exceptions, arithmetic, delay slots, calls |
| `CycleSim` | the whole simulator: `Emulator`, `Pipeline` and two instances of `Cache` composed, with the call and return of `runCycles`, the trace file and `initSimulator`; refines `FunctSim` |
| `MCCycleSim` | an encoding, programs and cache geometries for the checks of `CycleSim` |
| `CycleSimProofs` | theorems about `CycleSim`: it implements `FunctSim`, `Pipeline` and `Cache` |

### Pipeline

One step is one iteration of the loop in `runCycles`, the call of `Control` included.

- `pipe` is `pipeState` and `pipeStateAddr` together, one slot per stage. A slot also
  holds the number of the fetch its word came from (`id`). It is history: no guard
  reads it.
- `info` is what the last `executeInstruction()` returned, reduced to the flags that
  `Control` tests. Handlers of exceptions *write* these flags (lines 480 and 498), and
  so do the actions.
- `ControlSignal` is the cascade of conditions in `Control`, in its order. BRANCH_STALL
  is split into its three origins because each updates different variables on the way.
  The other seven signals have one action each.
- `Less1` is the decrement at the end of `Control`. The handlers run after it, hence
  `Less1(icache_delay)` where they test the delay.
- Every handler that ends with `execute_DCACHE_write_Check` has it as a conjunct. It
  reads the flag of the instruction fetched *last*, as the code does.
- `HALTING` is set to false and never written, so it does not appear.
- `LW`, `LHU` and `LBU` (and the stores; BLEZ and BGTZ; BEQ and BNE) are one class each:
  `Control` treats them alike. `jr` is an R-type word; `j` and `jal` are `Jump`.
- `rs` and `rt` of a word are bits 25..21 and 20..16, *whatever they mean in its
  format*; `Control` reads them without asking. `dst` is the register really written;
  only properties read it.

The emulator and the caches are the environment: a fetch returns any word of `Instr`,
with or without an overflow where the class admits one, and each access hits or misses.
The behaviours therefore cover every program and every cache at once, including
combinations no real memory would produce.

The history variables `raised`, `retired` and `accessed` record which instructions raised an
exception, passed WB and accessed the D-cache. `loadPairs` records each load with the
instruction right behind it (for a branch, up to two places behind) and whether that
instruction *uses* what is loaded. `Uses` takes the registers from the meaning of each
class, not from the bits `Control` compares: an I-type's rt and a store's data are not
among them, nor is register 0. No guard reads these variables.

The model was compared with the program: a trace of the signal, all stages, delays, nop
counters, squash flags and the stall count after each cycle of 400 random programs,
with random cache geometries, was replayed in this specification and agreed everywhere.

### Cache

`Hit` and `Miss` are the two outcomes of `access`. Both age every way of the set first;
a hit resets the first way that matches, a miss overwrites the first way of largest age.
The data are not in the cache and `readWrite` is ignored, as in the code. `Log2`
is the truncated logarithm, so a number of sets that is no power of two leaves sets
unused. `CacheAssumption` states what the constructor needs and does not check.
`PowersOfTwo` says what `2^n` is, which the provers do not know (here and in `Words`).

### Words, Memory and MemoryStore

A word is four bytes of any size (`ByteModulus`); 256 in the program, smaller in the
runs. Unsigned arithmetic wraps at `WordModulus`. The overflow checks compute in 64 bits
after a conversion to `int32_t` or `uint32_t`, which here is arithmetic on integers after
`Signed`. `Reached` is the set of bytes an access touches before `vector::at` throws:
what was read or written before stays, in memory and, for a load, in the register. `getValue` is
the sum of the at most four bytes an access has, each at its `Weight`, and `OfBits` adds
up the bits of a word with a recursive function: in both forms the types can be proved.

`MemoryStore` starts with the constructor. Each turn of the loop over `init_mem_image`
is an action; `ReadPastEnd` is the last turn, which finds nothing and stores a zero word
at address 0. `MemoryStoreAssumption` asks that memory ends within the address space (it
begins at 0 and has 64 KB): a store from below `startAddr` then fails at its first byte.
An entry outside memory ends the program (the constructor asserts).
`loadFromFile` stores byte i of the program at address i and ignores errors. The history
`calls` is the list of all stores asked for; it is what reads and dumps are compared with.

`Dump` is `dumpMemoryState` reduced to the data in it: `printMemArray` goes through a
range entry by entry, a row at a time, and keeps two counts, of the bytes read and of the
address it prints (`curAddr`). `out` is what the last dump printed: for each row its
label and the bytes of its entries. An entry that cannot be read ends the dump in that
row, after the bytes that could be read. `EntriesPerRow` is a constant of the program.

### Emulator and FunctSim

One step is one call of `executeInstruction`. Instructions are fetched from the same
memory that loads and stores use, so a program may overwrite itself; a fetch outside
memory yields the bytes that could be read and zeros, as in the code. `Decode` is the
extraction of the bit fields: a function from words to records, given by the instance.
The mnemonic stands for opcode and funct. `reg` reads register 0 as 0 because the code
clears it before the operands are read (the link register `RA` is another one, 31 in the
program); what a load or an operation writes to register 0
stays there until the next instruction, in the model too.

The history `path` has one record per instruction executed: its address and word, whether
it raised, whether it was in a delay slot, the data address of a load or store (-1 for
other words), its jump or branch target, and whether it wrote `$ra`.

### CycleSim

The composition has no transitions of its own for its parts: an action is a conjunction
of an action of the pipeline, one of the emulator and at most one of each cache, and the
conjunction resolves what the parts leave free on their own.

- `FetchNew` is the handler of FETCH_NEW. `executeInstruction` gives the word, the
  exceptions and the addresses; `I!Hit(PC)` or `I!Miss(PC)` gives `icache_delay`.
- `DCacheStep` gives `dcache_delay`: `D!Hit` or `D!Miss` for the address in MEM in every
  step in which the pipeline accesses the D-cache, and no access in any other.
- `Stall` is any other signal, in which the emulator and the I-cache are not called.
- `CallStep` is the end of an iteration: `runCycles(cycles)` returns at the halt word or
  after `cycles` iterations (0 stands for no limit) and dumps the pipeline state. The
  next step belongs to the next call with the same argument.
- `dumpPipeState` keeps of a line the entry of WB only, and appends it unless it is a
  nop; `fileInit` is the static flag that makes the first dump of a process truncate.
- `flags` is the static `info` of `cycle.cpp`, which the handlers modify; `info` is what
  the emulator returns.

`PipeWord` is a word as the pipeline sees it; `Class` is the second decoder (the macros and
`isLoad`, `isStore`, ... of `cycle.cpp` and `Utilities.h`), `printInstr` the third, with
its own tables of names.

Every step of `CycleSim` is a conjunction with a step of `Pipeline`, so that the properties
of `Pipeline`, which hold for all words, addresses and hits, hold for the composition.

`initSimulator` resets what the function of this name resets. `ProcessSpec` adds it to the
steps: a process that simulates one program after the other. The two programs of this
repository call it once.

## Properties and runs

| Run | Instance | What it shows |
|---|---|---|
| `pipeline_all` | twelve words, three loads among them, one to `$0`; 4 instructions; latencies 2 and 3; 109 000 states | order, completeness, exceptions, accesses, interlocks, cost, the stall count, termination |
| `pipeline_long` | six words that disturb each other; 6 instructions; latencies 1 and 1; 394 000 states | the same questions when two exceptions and several stalls overlap |
| `cache_lru` | 3 ways, 3 sets of which 2 are used, 6 accesses to 5 blocks; 56 000 states | replacement is least recently used; refinement of `LRUCache` |
| `memory_store` | bytes of one bit, 6 cells, 4 addresses (one wraps), 2 values, 3 stores, rows of two entries; 427 000 states | every read and every dump of every size, after stores of any size and alignment; the initial image |
| `functional` | bytes of two bits, 4 registers, 20 368 programs of four words; 137 000 states | delay slots, calls, exceptions, overflow |
| `cycle_sim` | bytes of two bits, 2 916 programs, 10 instructions, I-cache of two blocks (latency 2), D-cache of two ways (latency 3), `runCycles` of 0, 1 and 2; 160 000 states | the refinement of `FunctSim`, the trace, the accesses, the cycle count |
| `zero_register` | loads to `$0` and words that name it; otherwise as `pipeline_all` | disagreement, below |
| `second_simulation` | two programs, one after the other | disagreement, below |
| `miss_latency`, `access_after_illegal`, `branch_after_rtype`, `load_branch_exception` | as `pipeline_all` | disagreements, below |

Pipeline: `ProgramOrder`, `RetiredInOrder` and `AccessedInOrder` (nothing overtakes,
nothing happens twice); `NoneLost` (nothing disappears); `PreciseExceptions` (the victim
of an exception is squashed at the stage the code intends, however long the nops were
delayed); `EveryAccessMade`, `LoadInterlock`, `BranchOperandsReady`; `StallsCounted`; `CycleBound` (an
instruction costs at most one cycle, two stalls and its own misses); `Terminates`.

`LoadInterlock` says that an instruction does not follow a load whose value it *needs* into
EX, and `StallsCounted` bounds the number reported from both sides: at least the uses of a
load that must wait, at most the pairs of a load and an instruction right behind it.
Between the two lies what `Control` decides by comparing bits 20..16 whatever they mean: an
I-type destination, a store's data, a `j`, and register 0 in one of its tests. On these the
two properties take no side; the section on disagreements says what the documents want.

`EveryAccessMade` and `BranchOperandsReady` are stated for as long as no exception has
been raised, and so is `LoadInterlock` for a branch; what happens otherwise is the
subject of two of the findings: `EveryAccessMade` cannot see the test of `info.isValid` of
the wrong instruction, which only `EveryAccessMadeAlways` refutes. (That `LoadInterlock` needs this for a branch was found
by a failing proof: with a D-cache miss pending, an exception behind the branch leaves
nothing of its stall, and it enters EX right behind the load.)
Cache: `NoDuplicates`, `LRUOrder`, `HitsAsLRU` (an access hits if and only if fewer than
`ways` other blocks of its set were used since) and `ImplementsLRU`.

MemoryStore: `ImageIsLoaded` (after the loop over `init_mem_image` each byte of an entry,
from the second word of memory on, is in place); `ReadsWhatWasStored` (each byte of a read is what the last store that covers
it put there, most significant first), `ErrorsAreReported` and `PrintsWhatIsStored` (each
byte of a dump is shown for the address it is stored at, and none is left out). FunctSim: `DelaySlots`
(exactly one instruction is executed between a branch and its target, and an exception in
that place discards the branch), `CallsReturn` (`jr` through the register a `jal` linked
returns behind the delay slot), `ArithmeticIsExact` (an overflow is raised if and only if
the exact result has no representation, signed or unsigned as the instruction asks;
otherwise that result is written) and `ExceptionsHaveNoEffect`.

CycleSim: `SameExecution` is the specification of `FunctSim` with the state of the emulator
mapped to itself: at every step registers, memory, PC and the instructions executed are
those of the functional simulator, and nothing is executed behind the halt word.
`TraceShowsExecution` relates the trace file to `path`: with a dump in every cycle the WB
column lists the instructions executed, in order, each once and without those that raised;
whatever the argument of `runCycles`, the last line shows the halt word.
`DataAccesses` relates the D-cache to `path`: the address used when a word is in MEM is the one
it was executed with, and without exceptions the accesses of a simulation are the data
addresses in `path`, all of them and in order. `CyclesExplained` bounds the cycles reported from both sides by the
other numbers reported; the lower bound is stated for simulations without exceptions,
because the fetch after a squash does not wait for a pending miss and overwrites its delay.

**Bounds.** The longest interplay in the pipeline is between IF and MEM, four words:
four instructions put every combination of classes into four neighbouring stages. An
overflow's nops are followed by a squash at the next fetch, so a second exception that
interferes needs up to six. A latency of 2 and 3 distinguishes the two caches and lets a
miss outlast every other counter (a branch stall and the nops last two); a latency of 1
is the shortest miss. `MaxInstr` is the bound in the guards: the last instruction
fetched is the halt word. `CycleModulus` is 2^32 in the program; in the runs it is 64,
beyond the largest value `CycleBound` allows, and makes a run that never ends visible as
a cycle of states. For the cache, six accesses to four blocks of a three-way
set fill the set, drive out a block, and use it again in every order; the sizes are no
powers of two so that the truncated logarithms matter. For memory, a store, a store that
overlaps it and the stray store of the constructor show which byte comes from which. The
four control words of a program can be a call with a delay slot and a return, a branch in
a delay slot, and an exception in one; seven instructions (`MaxInstr`) let a loop be
entered twice. The operands of arithmetic are set up by instructions on both sides of the
signed and the unsigned boundary; every width is covered by the theorems.

In `cycle_sim` a program is four free words around a fixed frame: `$1` is set to an address
whose word is a pointer into the program, so that stores can overwrite code and loads can
feed branches; loops, an illegal word, an overflow, `ll` and a jump are among the words.
The I-cache block has four words, so that the next fetches hit and a branch reaches ID
while a load before it still waits for the D-cache; the D-cache has one set of two ways and
the programs touch more than two blocks. `MaxInstr` of 10 lets a loop be entered
again; a behaviour that reaches it stops there (`OutOfInstructions`). The quanta 0, 1 and 2
are no limit, a dump in each cycle, and a limit that the halt word meets at either place.

`pipeline_long`, with latencies of 1, never has a miss still pending after the decrement at
the end of `Control`; the branches of the handlers for that case, and a branch stall held
under a miss, are reached in `pipeline_all`, where latencies are longer.

One choice in the instances is deliberate. BLEZ and BGTZ have 0 in their rt bits, as
the MIPS encoding requires; a word with other bits there stalls for one cycle without
being recorded, which the action covers and `StallsCounted` would report.

**Fairness.** `Terminates` is checked under `WF_vars(Next)`: `runTillHalt` is a loop of a
single thread that calls `runCycles(1)` again and again. No fairness is assumed of any
single action: `Control` picks the action. `EverySimulationEnds` is checked under
`ProcessSpec`, which assumes the same of the thread that also calls `initSimulator`. For
one simulation of `CycleSim`, that it ends follows without fairness of the parts from the
absence of deadlock and the upper bound of `CyclesExplained`. A run may stop when the halt word is in
WB (`Halted`); deadlock is checked, and shows that the `throw` in `Control` is never
reached.

## Disagreements between code and its documents

1. `miss_latency`: a load-use stall is chosen before a pending D-cache miss is looked at.
   The instruction that missed leaves MEM at once, and what is left of its latency is
   charged to the next access (`cycle.cpp:275`). In the program, `sw` that misses
   followed by `lw` that misses and its consumer: the store waits no cycle of its
   latency, the load waits for both.
2. `access_after_illegal`: `execute_DCACHE_write_Check` tests the validity of the
   instruction in IF, not of the one in MEM (`cycle.cpp:377`). The access of a load in
   MEM while an illegal word is in IF is never made or counted.
3. `branch_after_rtype`: a branch is compared with rt of the instruction before it. For an
   R-type instruction that is a source, so the branch does not wait
   (`cycle.cpp:218`; the reference trace `test/loaduse_cycle_pipe_state.ref` does).
4. `load_branch_exception`: an exception behind a branch is served before the second cycle
   of its load-branch stall (`cycle.cpp:307`). If the load waits in MEM for a D-cache
   miss, nothing is left of the stall at all.
5. `zero_register`: while a BEQ or BNE waits for the word in EX, `Control` counts a load in
   MEM as a load-use stall if the branch has its register number, and in this test alone
   it does not leave register 0 out (`cycle.cpp:260`). `test/zero_reg1.asm:2` says that
   dependencies on `$zero` do not cause stalls, `TODO.txt:13` the same. For `lw $0`, `addi $2`,
   `beq $2, $0` one stall is reported. (No cycle is lost: only the count is wrong.)
6. `second_simulation`: `initSimulator` resets the pipeline, the counters, the caches and
   the emulator, but not `info`, whose `isHalt` is still set, nor the three delays
   (`cycle.cpp:175`; `cycle.h:8` promises "all info"). The next simulation fetches
   nothing and never ends.

All of these were reproduced with the compiled program. Three further ones have no run of
their own:

7. A store whose data register is loaded by the instruction before it stalls for a cycle,
   because `Control` compares rt of every word in ID (`cycle.cpp:277`); `TODO.txt:3-5` asks for
   a WB->MEM forward "without a stall cycle in between". The same comparison stalls an I-type
   instruction for its *destination*, and a jump for bits of its target.
8. `test/load_stalls.asm:2-4` says that 3 load-use stalls and 2 load-branch stalls should be
   counted. The code has one counter, and it counts two stalls for this program, the
   first use of each load: an instruction two or three places behind a load does not wait.
9. The loop of `prepareMemory` tests the stream before it reads, and its last turn overwrites
   the word at address 0 with 0 (`MemoryStore.cpp:41`), whatever `init_mem_image` says, although
   "if we can't initialise memory appropriately" no MemoryStore should be returned (line 29).
   A program file loaded afterwards hides it. `ImageIsLoaded` holds from the second word on.

## Proofs

Every theorem holds for all values of the constants that meet the named assumptions:
any instruction set and program, any latency, any cache geometry, bytes of any
number of bits. Two have a hypothesis of their own, named and explained below: `PlainWords`
(the stall count: no reserved encoding of BLEZ or BGTZ) and `CyclesFit` (the cycle count). The invariants below were checked with
TLC before they were proved.

**Order** (`PipelineProofs`). `TypeCorrect`: the substance is in the unsigned counters,
a nop counter is decremented only after `Control` has made it positive.
`ProgramOrderCorrect`, `RetiredInOrderCorrect`, `AccessedInOrderCorrect`:
`ProgramOrder` is not inductive, for nothing in it relates the id a fetch hands out to
the ids in flight. `OrderInv` adds that `din` exceeds every id in the stages; that the
retired ids are increasing and below the ids of the stages that have yet to retire; and
that the ids that accessed the D-cache are increasing and at most those of the
instruction that may access next. An access is not repeated because a handler that
leaves an instruction in MEM never calls `execute_DCACHE_write_Check`. Every signal moves
the stages in one of a few ways (`CycleShape`): MEM goes on (`ForwardStep`) or holds
(`HoldingStep`), and the proof goes by these rather than by the eleven disjuncts of `Next`.

**Exceptions** (`HazardProofs`). The code squashes *stages*; the theorems are about
*instructions*. `ExceptionInv` says that there is at most one victim at a time and that an
exception is always in one of five phases, each with its victim in a known stage: an
overflow in IF with its flag set, in ID with one nop to come, in EX with `squashEX` set; an
illegal word in IF with its flag set, in ID with `squashID` set. The delicate part is
the delays: in the later phases no I-cache miss is pending and a branch stall that was
pending before has at most one cycle left, so that nothing moves the victim on by itself.
`PreciseExceptionsCorrect` follows at once. `NoneLostCorrect` needs a further step: a
squash removes an id that is in `raised`, and no other move removes any.
`EveryAccessMadeCorrect` uses that without exceptions the validity of the word in IF,
which the code tests, is that of the word in MEM.

**Interlocks** (`HazardProofs`). `Control` looks for a hazard once: after a branch has been
noted (`lastBranchCycleCount`), the tests are off until the next fetch. `InterlockInv` says
that what the tests would have found is covered by `branch_delay` (`DelayCovers`: 2 while the
load is in EX, 1 while it is in MEM), and that when the noted branch has gone, no pair is
left for the tests to miss (`NothingMissed`). `LoadInterlockCorrect` and
`BranchOperandsReadyCorrect` are action properties that follow from it for each signal.

**Cost** (`HazardProofs`). `CycleBound` is not inductive: between two fetches cycles pass
while the right side stands still. `Owed` is what the pipeline may still take before the
next fetch or the end: both delays, the stalls that the words in IF and ID can still ask
for, the load in ID, the second nop of an overflow, and the stages the halt word has to go.
`CostInv` says that `currentCycle + Owed` is within the bound. Every signal but a fetch pays for
its cycle with something owed (`MovePays`, `HoldPays`, `StallPays`, `StallIFPays`); a fetch
pays with what the instruction it brings adds to the bound (`FetchCost`). This needs two
facts of its own: the halt word is not lost while the pipeline drains (`HaltOnItsWay`), and
a branch is tested only after the fetch behind it (`BranchNotLast`).

**Stalls** (`HazardProofs`). `StallsCountedCorrect` compares what `Control` adds up in four places
with the set of pairs in `loadPairs`, from both sides. From the time a branch is noted
to the next fetch the tests are off (`Off`); `CountInv` says that the pairs `Control` looks for are
in the history if and only if they are off (`Known`), that the history holds no word that
has yet to enter ID (`NotYetInID`), and that a load in MEM which is counted without a look
at its register is counted with the first stall of the branch behind it, so at most once.
A cycle that counts adds as many pairs as stalls, and at least those that are used
(`AllNew`, by the cardinality of sets); one that does not count adds no used pair that is
new (`NoneNew`). The theorem covers loads to `$0`, counted or not. It assumes `PlainWords`: BLEZ
and BGTZ have 0 for rt, all other encodings being reserved; with a second register there a
stall is taken and not counted, and the lower bound fails. `SimulatorStallsCorrect` says the
same of the whole simulator, for runs whose words are plain (`PlainPath`).

**Cache** (`CacheProofs`). `CacheTypeCorrect`, `NoDuplicatesCorrect` and `LRUOrderCorrect` go by
one lemma about an access, hit or miss: one way comes to hold the block and is the
youngest, all others of the set age by one. `Geometry` shows that index and tag together
determine the block although the logarithm is truncated. `HitsAsLRUCorrect` is the
theorem that matters: an access hits exactly if fewer than `ways` other blocks of the set
were accessed since. `LRUInv` relates ways and history: the blocks accessed since the last
use of a block held are exactly those of the younger ways (`LastUse`), and a block that was
driven out has been followed by every block its set holds now (`DrivenOut`, the set is full
then). Counting gives both directions: a block held has fewer than `ways` younger ones, a
block driven out has at least `ways` after it. `ImplementsLRUCorrect` is the refinement
of `LRUCache`. The recency list of a set is *some* sequence that lists its valid ways by age;
it exists in every state (`ListInv`, the part that is invariant) and there is no other
(`ListUnique`: the first place where two such lists differ would order two ages both ways).
So a step needs only to be shown to produce one such list: the way used is taken out of the
old one, if it is there, and put in front (`FrontListed`). `MissList` says which way a
miss takes: the last of the list of a full set, and an empty one otherwise. `ListInv` also
keeps the hits and the misses below the number of accesses, so that the 32-bit counters
are those of `LRUCache`, which do not wrap. Where the code counts or takes a minimum, induction
is over a set instead of a predicate (`UpTo`, from `LeastNat` and `WFMin`), because the
provers cannot instantiate the induction theorems.

**Words** (`MemoryProofs`). `AddOverflow`, `SubOverflow`, `UnsignedOverflow` (a check holds
exactly when the word written is not the exact result) and `OverflowBySigns` (the signed check
is the sign rule of an adder). They follow from two lemmas: the sign bit halves the words
(`SignBitHalves`), and a sum or difference of two words wraps once at most (`WrapsOnce`). The
lemmas about `Memory` give the types: `OfBits` yields a word, the bytes of an access add
up to one.

**MemoryStore** (`MemoryStoreProofs`). The inductive invariant `StoreInv` says that each cell
holds the digit which the *last call* that covers it has put there; `ReachedBytes` turns the
wrapping arithmetic of `CellOf` into an interval, and `DigitsOfFour` reads the digits of a sum
of weighted bytes. `ImageIsLoadedCorrect` adds that while the image is read the calls are its
entries, followed by the store past its end (`ImageInv`). `StoreTypeCorrect`, `ErrorsAreReportedCorrect`, `ReadsWhatWasStoredCorrect` follow, and
`PrintsWhatIsStoredCorrect`: an entry whose first byte is in memory is at the address counted
from the start without a wrap (`EntryUnwrapped`), so each byte stands beside its own address;
the bytes that could be read are the first ones (`ReachedFirst`), so a dump that ends early
shows no byte out of place.

**Emulator** (`EmulatorProofs`, `FunctSimProofs`). `FunctTypeCorrect`,
`ExceptionsHaveNoEffectCorrect` and `ArithmeticIsExactCorrect` (from the theorems about words).
`DelaySlotsCorrect` and `CallsReturnCorrect` rest on `ControlInv`: the pending branch is that of
the last instruction in `path` (`PendingBranch`), the slots are marked where a branch comes
before (`SlotsMarked`), a branch's target is the one its word and the registers gave
(`BranchesGoToTarget`), and the link register holds the return address of the last call for as
long as nothing writes it (`LinkKept`).

**The whole simulator** (`CycleSimProofs`). `SameExecutionCorrect` is the refinement of `FunctSim`:
`CycleSim` implements it for every program, every pair of caches and every argument of
`runCycles`. A fetch is a step of the emulator, any other signal leaves it alone, and
nothing is fetched after the halt word because `flags.isHalt` is `info.isHalt`, whatever
the handlers of exceptions do to the other flags (`SimInv`). `AddressesKeptCorrect`: each
access of the D-cache uses the address its instruction was executed with; the invariant is
that every load or store in a stage carries that address (`Carries`).
`PipelineImplemented` and `CachesImplemented` show that the composition implements its
parts, whose environment is free. By these, and the proof modules taken with `INSTANCE`,
the theorems about the parts are theorems about the simulator: `SimulatorPipelineCorrect`
(order, completeness, precise exceptions, accesses, the bound on cycles), `SimulatorInterlocksCorrect`,
`SimulatorStallsCorrect`, `CachesAreLRU` and `CachesAreLists`.

Three theorems relate what the simulator reports to what it executed. Each compares a list
or a sum over `path` with what has been reported *plus what is still in the pipeline*; the
lists are joined with `FlattenSeq`, whose recursive function is unfolded once, by an
induction over the set of lengths for which it has a solution (`FlattenedUpTo`,
`FlattenAppend`).

- `TraceShowsExecutionCorrect`. `TraceInv`: with a dump in each cycle, the lines reported
  (`Dumped`, to which WB has been added), then those of the words in MEM, EX, ID and IF, are
  `Shown`. A fetch appends the same line to both; another signal moves a line or inserts a nop,
  which has none. A word that raised has no line on either side: `ExceptionInv` shows that it
  is squashed before WB, so that `dumpPipeState` never sees it. For any argument of `runCycles`
  the last line is that of the halt word, which no word passes (`HaltLast`).
- `DataAccessesCorrect`. `DataInv`: without exceptions, the accesses made, then those the words
  in EX, ID and IF will ask for (`Asked`), are `Addresses`.
- `CyclesExplainedCorrect`. From above (`AtMost`): the cycle counter and what is `Due` never exceed
  the right side; `Due` is what the words in the stages may cost in branch stalls and nops,
  and every cycle but a fetch either pays something due or is a load-use stall, which the
  right side counts (`Explained`, `FetchExplained` in `HazardProofs`). From below (`AtLeast`),
  without exceptions, for each of the three kinds of delay: a cycle in which nothing is fetched
  uses up at most one cycle of that kind, even when several kinds pass at the same time
  (`StallsInFull`, from `StallInv`), and a fetch waits until all delays are over (`FetchInFull`).
  The lower bound needs `CyclesFit`: the cycle counter of 32 bits does not wrap in
  `MaxInstr` instructions. `MCCycleSim` assumes it too, so that TLC evaluates it there
  (84 cycles, words of 8 bits).

The proofs rest on the assumptions named in the modules and on nothing else; each is
evaluated by TLC in a run. They ask for what the constructors and the 32-bit types need:
that a byte has a whole, positive number of bits, memory lies in the address space, blocks hold a
word, caches have a set and a way, and the powers of two are what they are.

Model-checked but not proved: `Terminates` (liveness under fairness, out of reach of the
prover). Every other property of a passing run is a theorem.

## Plan

1. (done) `Pipeline`, `Cache`, `LRUCache`; `Words`, `Memory`, `MemoryStore`; `Emulator`,
   `FunctSim`; first proofs.
2. (done) `CycleSim` composes `Pipeline`, two instances of `Cache` and `Emulator`, and
   implements `FunctSim`.
3. (done) Life cycle: `runCycles(n)`, the trace file, a second `initSimulator` in one
   process; dumps of memory.
4. (done) Proofs of the invariants and action properties of `Pipeline`, `Cache`, `FunctSim`
   and `MemoryStore`, and of the refinements of `CycleSim` and `Cache`.
5. (done) Proofs of what the simulator reports: trace, accesses, cycles, stalls.

## Not modelled

- Tokens of `init_mem_image` that are no hexadecimal numbers, or an address without a value;
  a trace file that cannot be opened.
- Wording and layout of what is printed: the operands of an instruction, the register
  dump, the text of the statistics (the numbers in it are `SimulationStats`), the columns
  of the trace other than WB. They depend on no other state than what is modelled.
- The parsing of arguments and of the cache configuration: the caches are constants.
- The copies in `saezdiaz_wj8091_ke1995_kw2689/`: identical to the files modelled.
- `test_memory.cpp`, build files and shell scripts.
- `runInstructions(n)` for n # 1 as an action of its own: it is a sequence of calls with 1, and
  nothing calls it.
- Ages of 2^32 accesses in the cache: `CacheAssumption` excludes them by a bound.
- In `second_simulation`, cache configurations other than those of the first simulation.
