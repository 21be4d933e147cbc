# A verification project for the SE-Lab system emulator

The repository is an emulator of a small AArch64 machine: a five-stage pipelined
processor, a write-back data cache with a miss delay, a paged memory, an ELF loader, a
stand-alone cache simulator that shares the cache code, and a grader that runs two such
simulators as processes. This directory holds TLA+ models of its logic, TLC
configurations that check them on small instances, and proofs that the TLA+ proof system
checks for every instance.

Paths below are relative to the repository's `src/` directory (`src/src/` in the
manifest, whose paths begin at the root of the sources).

## 1. The system

| Component | Files | State | Operations |
|---|---|---|---|
| Cache | `cache/cache.c` | sets of lines (valid, tag, lru, dirty, data), the clock `next_lru`, four counters | `create_cache`, `get_line`, `select_line`, `check_hit`, `handle_miss`, `access_data`, `get_word_cache`, `set_word_cache` |
| Cache simulator | `cache/csim.c` | one cache | replay of a Valgrind trace: load, store, modify |
| Cached memory | `mem.c` built with `CACHE` | pages, cache, `inflight`, `inflight_addr`, `inflight_cycles`, `dmem_status` | `_mem_read_cache`, `_mem_write_cache`, special addresses |
| Page table and plain memory | `ptable.c`, `mem.c` without `CACHE`, `machine.c` | hash table of pages | `get_page`, `add_page`, little- and big-endian accesses, special addresses |
| Pipelined processor | `proc.c`, `hw_elts.c`, `pipe/hazard_control.c`, objects `instr.o`, `pipe/forward.o` | five pipeline registers, `pred_pc`, register file, NZCV | one cycle: write-back, memory, execute, decode, fetch, `handle_hazards`, latching |
| Execute stage | `hw_elts.c` `alu`, `cond_holds`; the flags of `instr.h` | NZCV | eleven operations, flags, conditions |
| Sequential handlers | `instr/*.c` | registers, flags, memory | `decode_X`, `execute_X`, common memory / write-back / update-PC routines. No Makefile builds them: they are the sequential emulator the pipeline replaced, and the only source text that says what an instruction means |
| Emulator program | `archsim.c`, `handle_args.c`, `interface.c`, `err_handler.c`, `elf_loader.c` | options, the log and its two flags, the file | command line, `init`, `loadElf`, `logging`, `finalize` |
| Cache grader | `cache/test-csim.c`, `printSummary` of `csim.c` | marks, the file `.csim_results`, child processes, an alarm | `runtrace`, marking, `sigalrm_handler` |
| Register file | `reg.c` | registers | allocation |

How they interact. `runElf` calls the stages in reverse order once a cycle. Memory calls
`dmem`, which calls the cached memory; a miss answers `IN_FLIGHT` through the global
`dmem_status`, `handle_hazards` reads it and freezes F, D, X and M, and the memory stage
makes the same call again next cycle until it is answered. Every stage that is frozen
runs again as well. Decode reads the outputs of X and M and the input of W of the same
cycle (forwarding); fetch reads the input and the condition of X (misprediction,
return). The instruction memory and the loader reach the pages directly, past the cache.
The grader and its simulators share only a file, which is removed before each run.

Which behaviours are hard. The emulator is sequential C, so nothing is preempted; but the
pipeline is five instructions in flight, and the combinations of hazards, of stalls that
re-run stages, and of a miss that ends at any cycle are far more than the eight test
programs meet. The cache is a long-lived structure whose correctness (LRU by time
stamps, dirty bits) depends on the whole history of calls. The stall protocol is a retry
protocol between two components through three globals. The grader is concurrent: with
the simulator it waits for, with a signal, and with simulators that an earlier grading
left behind.

What makes each component correct.

* Cache: it is LRU; a written block is written back exactly once before it is lost; the
  summary accounts for each block; more associativity never hurts.
* Cached memory: behind all delays and evictions the processor sees one flat array of
  bytes; a stalled call makes progress and completes.
* Plain memory: so it is with pages, whatever their order of creation; no page is
  shadowed by another.
* Pipeline: it computes, instruction by instruction, what the sequential processor does;
  it is held only while it has an access to repeat; fetch always resumes.
* Execute stage: results are those of the sequential handlers, and flags and branches
  mean what the header says, as far as they do.
* Emulator: the guest starts in the image of its file; the log tells what was printed,
  and ends with a fatal message; the run ends whatever the guest does.
* Grader: a test is marked from its own results, with the marks they deserve; a grading
  ends.

## 2. The modules

| Module | Models | Notes |
|---|---|---|
| `Cache` | `cache.c` | operators only: a cache, with its clock and counters, is a record; each C function maps the old record to the new |
| `CacheWords` | `get_word_cache`, `set_word_cache` of `cache.c` | operators only: a word is its bytes, a byte its bits; the `int` in which a word is put together |
| `LruCache` | the promise in the header comment of `cache.c` | abstract: the blocks held, the order of their last use, the dirty ones, four counters |
| `CSim` | `csim.c` | one action per call of `access_data`; an `M` line is two steps with nothing between |
| `CachePair` | two runs of `csim` on one trace | extends `CSim` with a second cache of larger associativity |
| `FlatMemory` | the promise of `mem.h` | abstract: one array of bytes |
| `CachedMemory` | `mem.c` with `CACHE`, its state in `machine.c` | one action is one whole call, with the byte loop, fills and write-backs |
| `PagedMemory` | `ptable.c`, `mem.c` past the cache, the segments of `machine.c` | operators only: a table is a function from buckets to chains of pages |
| `Instructions` | opcodes, fields, conditions | shared by the two processors |
| `Isa` | `instr/*.c` | abstract: one action runs one instruction |
| `Pipeline` | `proc.c`, `hw_elts.c`, `hazard_control.c` | one action is one cycle of `runElf`, on a memory that answers when it likes |
| `System` | the processor built with `CACHE` | `Pipeline` composed with `CachedMemory` |
| `Alu` | `alu`, `cond_holds`, `PACK_CC` and `GET_xF`; the `execute_X` of `instr/` as their specification | one action executes one instruction |
| `Emulator` | `archsim.c`, `handle_args.c`, `interface.c`, `err_handler.c`, `elf_loader.c`, special addresses of `mem.c` | one run of the program, on `PagedMemory` |
| `Grader` | `test-csim.c`, the exits of `csim.c` | grader, simulators, alarm, repeated gradings |
| `CacheProofs` | | lemmas about the operators of `Cache` |
| `CSimProofs` | | theorems of `CSim` and of `CachePair` |
| `AluProofs`, `CachedMemoryProofs`, `PipelineProofs`, `SystemProofs`, `GraderProofs` | | theorems of the module each is named after |
| `EmulatorProofs` | | theorems of `Emulator`, and first the lemmas about the operators of `PagedMemory` |
| `MCCSim`, `MCCachedMemory`, `MCPipeline`, `MCSystem`, `MCAlu`, `MCEmulator`, `MCGrader` | | instances for TLC |

`CSim` extends `Cache`; `CachedMemory` extends `CacheWords`, which extends `Cache`;
`Emulator` extends `PagedMemory`. `CSim` instantiates `LruCache`, `CachedMemory` and
`Emulator` instantiate `FlatMemory`, and `Pipeline` instantiates `Isa`, each under a
refinement mapping, so that the abstract specification is a property of the detailed one.
`System` instantiates `Pipeline` and `CachedMemory` and has `Pipeline`'s specification as
a property.

**Cache and CSim.** `S` and `B` stand for `1 << s` and `1 << b`, shifts and masks become
`\div` and `%`. `Touch` is the hit branch of `check_hit`, `handle_miss` includes the
choice and the counting that `select_line` does on the way, `evicted_line` is what it
reports to the caller.

**CacheWords.** `get_word_cache` ORs the bytes of a word together, each as
`(0xFF & byte) << shift` (`cache.c:270`). The expression is an `int`, the shift goes up to
seven bytes, and the sum is a `word_t`. C leaves the shifts of bytes 4 to 7 undefined. The
model has what the build does at every level of optimisation, a count modulo the width of
an `int`: byte `k` lands where byte `k % 4` does, and a byte 3 with its top bit set becomes
ones above it (`Shifted`, `Assembled`). `Narrow` are the words that come out as they went
in: those whose upper half is zero and that are not negative as an `int`, and the word of
all ones. `INT` and `BITS` are the bytes of an `int` and the bits of a byte, and a word has
two `INT`s. `set_word_cache` shifts a `word_t` down and loses nothing.

**CachedMemory.** `Loop` is the `for` over the bytes of a word; each iteration checks the
cache, counts the fetch down, returns `IN_FLIGHT`, or fills a block and writes back its
victim. `req` is the call a stalled stage has to repeat, `resp` the last answer, `waited`
a history of `IN_FLIGHT` answers. A NULL line in the word access, undefined behaviour in
C, ends the program in the state `CRASH`. Stores to address 0 succeed without effect and
loads from it end the program, as in the code. The module has one width, the processor's.

**PagedMemory and Emulator.** A page appears when it is first touched, by loads as well,
with the protection the code gives it in each case. `Place` says which address a byte of
a value goes to in either byte order, wrapping at the end of the address space;
`TableRead` and `TableWritten` are the loops, page by page. `Emulator` runs `main`: the
options, the failing `fopen` of `-o` after which only the command line is abandoned,
`init`, the loader byte by byte, then cycles. A cycle makes at most one data access and
one fetch; what the guest computes is left open, so any access and any return may come.
`logging` is the filter of `err_handler.c` with its two flags; the lines of level INFO
are left out, and so are what `mem.c:153-155` prints for stores of one byte or four, which
is not logged: `printed` and the log are compared on the 8-byte stores (`mem.c:157-160`).

**Isa.** An instruction is decoded, executed, accesses memory, writes back and updates
the PC in one step. Immediates are the decoded operands, branch immediates the targets,
so sign extension and scaling are not modelled.

**Pipeline.** What a load delivers of the value in memory is a constant, `Loaded`: the
identity without the cache, the conversion of `cache.c:270` with it. `Isa` has the same
constant, so that nothing shown of `Pipeline` rests on loads being exact. `D_in`, `X_in`,
`M_in`, `W_in` are the inputs of the stages; the outputs are functions of them within a
cycle (`M_out`, `X_out`, `D_out`, `F_out`). `handle_hazards` gives the set of stages whose
output is not copied on and of those replaced by a bubble; since each check of the code
begins with `reset()`, the last check that applies decides, which is the order of the IF.
`Latch` is the copying of `proc.c:99-114`. The program's registers start with any values
(`reg.c:62` does not initialise them). A load or store in M may be answered READY or
IN_FLIGHT in any cycle: every miss length, and every coincidence with the other hazards,
is covered. The stage functions exist only as object code; they are modelled from how the
sources use them and from their disassembly, and are marked external.

The refinement mapping of `Pipeline` to `Isa`: an instruction takes effect when it
executes in X. The architectural registers and memory are those of the machine with the
instructions in W and M, and the one in X while the memory holds the pipeline, retired in
order (`Retired`); the architectural PC is that of the oldest instruction that has not
executed, or, when the pipeline is held after X redirected fetch, the address X redirects
it to (`Arch_pc`).

**System.** One action is one cycle: the stages of `Pipeline` (`Stages`), given the answer
of one call of `CachedMemory`, or none when M has no access. Nothing is assumed of the
memory, and nothing of who calls it. A value of the processor is a word: `Encode` says of
which bytes, and as an address value `v` is that of the `v`-th block (`Addr`), of any size
that holds a word. `Pipeline`'s memory is what cache and pages show together at these
addresses (`Shown`), and its `Loaded` is what `get_word_cache` makes of a value
(`CacheLoaded`). So `ImplementsPipeline` says that the cached memory is one of those
`Pipeline` was checked with, and `Pipeline`'s `ImplementsIsa` carries over, of a sequential
machine whose loads lose what `cache.c:270` loses and nothing else.

**Alu.** Words of `w` bits; the bitwise operators of C are those on the sets of bits of
two words (`BitsAssumption` of `MCAlu` compares them with `Bitwise`); shifts by `w` minus
the immediate, as `LSL` is encoded; the half-words of `MOVZ` and `MOVK`. Flags and
condition are computed by the bits of the code. `Meaning` is the `execute_X` routine of
the same instruction; `Agreed` names the four on which the two emulators differ
(`ORR_RR.c` computes an exclusive or, control does not give `MVN` and `ASR` their
operands, `MOVK` does not clear what it writes). The handlers of `ADDS`, `SUBS` and `ANDS`
pack flags of their own, which are not modelled: their carry is always 0 (`ADDS_RR.c:28`),
and `SUBS_RR.c:29` takes its overflow from `a + b + 1`. `FlagsOfSums` is about the flags
of `alu`.

**Grader.** Two kinds of process and a file. The grader is a program counter over the
calls of `runtrace`; a simulator opens the file, writes it, exits or is killed, or stays
where it is for ever. A result is named by program, test and grading, so that a number
read from the wrong one is seen. A simulator may print its usage and exit with 0 before it
has any file (`csim.c:100`); the grader's two command lines (`test-csim.c:52`, `:83`) do
not lead there, but nothing shown rests on that. The alarm may come at any point; it ends
the grader and leaves its simulator running, an orphan that may still hold the file open,
or a file that has since been removed.

## 3. What the runs check

| Run | Checks | Instance |
|---|---|---|
| `csim` | types, distinct lines, clock, eviction accounting, dirty until evicted, refinement of LRU, inclusion and monotone counts against a larger cache | 2 sets of 2 lines beside 2 sets of 3, 5 addresses in 5 blocks of two bytes (4 of one set), all traces of 6 references |
| `memory` | types, clean lines match memory, stall protocol, no NULL line, refinement of flat memory | 2 sets of one 8-byte block, 4-byte words of 2-bit bytes, 2-byte ints, delay 3, 32 bytes, 4 addresses loaded and 2 stored |
| `pipeline` | types, hold, squashing, refinement of the sequential processor | all programs of 5 words from 13 instructions (7 of data, ending in RET, or 7 of control), 2 registers, 6 values, a `Loaded` that changes two of them |
| `system` | types, the call is the access, what is done when the loop ends, refinement of `Pipeline`; liveness: calls complete, fetch resumes, the program returns | programs of 3 free instructions, two NOPs and a RET, 16 values, which are words of two 2-bit bytes with 1-byte ints, a cache of 2 lines for 16 blocks of 4 bytes, delay 2 |
| `alu` | types, results, flags, branches | 4-bit words, operands 0, 1, 7, 8, 15, each immediate |
| `emulator` | types, distinct pages, the image, the log (two properties), refinement of flat memory; liveness: it ends | 16 addresses in 4 pages in 2 buckets, 1- and 3-byte accesses, 3 files and one that is missing, 3 cycles, 2 options |
| `grader` | types, own results, marks; liveness: a grading ends | 2 tests, 2 gradings, 2 measures |
| `memory_write_miss`, `memory_wide_word`, `memory_no_delay`, `pipeline_ret_target`, `alu_flags` | see section 5 | each a counterexample |

What the deeper ones mean:

* `ImplementsLru`: time stamps, valid bits and two linear scans behave as an eviction of
  the block of the set used longest ago. `MoreLinesNeverHurt` and `Inclusion` are the
  stack property of LRU, which no test of one geometry can see.
* `ImplementsFlat` (twice): misses, repeated calls, write-backs and pages that come and go
  are invisible, and an access changes its bytes and no others. In `memory` the words
  loaded are narrow (and all 256 words are compared with `Narrow` when the run starts);
  `memory_wide_word` is the same memory with one that is not.
* `WrongPathSquashed`: when a misprediction is found and the memory does not hold the
  pipeline, X gets a bubble. A cycle later fetch has been redirected and the instruction
  would be of no path at all.
* `ImplementsPipeline`: of sixteen values a load gives back three as they are; the
  processor goes on with what it was given, as an address or a value to store, and agrees.
* `ImplementsIsa`: no result is read before or after its time, no instruction of a path
  not taken has an effect, none is lost, repeated or reordered.
* `Drained`: the loop ends when RET is decoded, whatever is behind it; with two
  instructions that leave registers and memory alone before it, every access is done by
  then, misses included. With fewer, the last store may be lost: that is the reason for
  the nops in the repository's tests.
* `ImageLoaded`: when the guest starts, memory is the image of the file, segments that
  overlap or share pages included; nothing was ever zeroed but by `calloc`.
* `OutputLogged`, `FatalIsLast`: log and standard output agree line for line, unless a
  fatal message closed the log, after which there is nothing in it.
* `OwnResults`, `Marks`: the removal of the file before each run is enough to keep the
  results apart, as long as no simulator of an earlier grading is alive when a grading
  begins.

Why the bounds are enough. LRU errors need a set that fills, a hit that reorders it and
one more miss: four references with two lines, five with three; the traces have six. A
write-back error needs a store, an eviction and a reload, and `MaxHits` leaves room for
several in every order. Four of the five blocks of `csim` fall into one set, and two of
the three of `memory`, one of which has two of the words loaded. Words twice an `int`, of
bytes with a sign and one bit more, have every case of `cache.c:270`: a zero upper half
with and without the sign below it, all ones, and bytes that are ORed into others. A value
travels through the pipeline for at most three instructions, so programs of five words
meet every pair and triple of neighbours, across a branch and around a loop (the program's
last word is followed by its first); values are small because no property compares more
than equality, zero and the wrap of sums. In `system` a load and two stores to words of a
two-line cache reach a dirty eviction with an access behind it. The operands of `alu` are
the ends of both ranges and their neighbours. The pages of `emulator` are two to a bucket,
so each lookup may pass another page, and its accesses cross pages, segments, and the end
of the address space. Two gradings are enough for an orphan, two tests for a neighbour's
result.

Bounds, all named in the modules: `MaxRefs` (references replayed), `MaxHits` (new calls
start below this count of hits), `MaxMisses` (no call is made past this count of misses),
`MaxCalls` in `System` for both (40, more than any of its runs reaches: none is longer than
thirteen cycles), `MaxArgs` (options), `MaxGradings`. `MAX_NUM_INSTR` is the code's own
bound (10000), in `Emulator` 3; `Pipeline` and `System` do not have it: stopping early
breaks no safety property of `Pipeline`, and `System` returns long before.

The programs that `pipeline` leaves out (`Allowed = {}`) are those of the three hazards
the code does not handle: a RET at the target of a conditional branch, a RET right behind
the load of its register, and a callee that reads X30 in its first two instructions. With
any one of them allowed, `ImplementsIsa` fails.

Deadlock checking is off where the program stops: the traces and call sequences are
finite (their bound), the processor stops when main returns, the emulator and the last
grading exit. `alu` never stops and checks for deadlock.

Fairness. `System` and `Emulator` assume weak fairness of `Next`: the main loop goes
round, and a read from standard input gets a line or its end. That a miss is answered is
not assumed but follows, since `CachedMemory` counts the cycles. `System` writes it as
`GoesRound`, which is `WF_vars(Next)` with its ENABLED written out (`CanTurn`), because
TLC takes exponentially long to find out whether a cycle is enabled. The grader assumes
that its own process runs when it can (`WF_vars(GraderStep)`) and that `alarm(20)` rings
(`WF_vars(Alarm)`); no fairness is assumed of a simulator, which may hang at any point, of
the user who starts the grader again, of the trace, or of the guest, which may loop.

Each property has a mutant of the code, in the module it belongs to and named as such,
that the same run finds: a clock that does not tick, a dirty bit cleared by a read,
evictions counted for empty lines, a fetch restarted by each repetition, a loop left
by `break` where it must return, a dropped write-back, oldest-wins forwarding, a missed
load-use hazard, a branch that does not squash, a stalled access that is overwritten, a
carry that counts equality, a lookup that sees only the head of its chain, a loader that
does not advance its header, results removed once instead of twice, an alarm that waits.

## 4. What is proved

TLAPS checks every theorem below, with no step left unproved. They hold for every value
of the constants that satisfies the assumptions named in the modules, and, where a theorem
says so, one of the hypotheses described with it. Each inductive invariant was first
checked by TLC on the instance of the run whose properties it proves.

| Component | Property | Theorem | Hypothesis |
|---|---|---|---|
| `CSim` | `TypeOK` | `TypeCorrect` | |
| | `LinesDistinct` | `LinesStayDistinct` | |
| | `TimesPast` | `ClockStaysAhead` | |
| | `EvictionAccounting` | `SummaryAccounts` | |
| | `DirtyUntilEvicted` (action) | `WrittenBlocksStayDirty` | |
| | `ImplementsLru` (refinement) | `CacheIsLru` | |
| `CachePair` | `Inclusion` | `LargerIncludes` | |
| | `MoreLinesNeverHurt` | `MoreLinesAreNoWorse` | |
| `CachedMemory` | `TypeOK` | `MemoryTyped` | `WithinBlocks` |
| | `CleanLinesMatchMemory` | `CleanLinesDroppable` | `WithinBlocks` |
| | `StallProtocol` | `StallsKeepProtocol` | `WithinBlocks` |
| | `PreconditionHolds` | `WordsAreCached` | `WithinBlocks` |
| | `ImplementsFlat` (refinement) | `MemoryIsFlat` | `WithinBlocks`, `StoresAtBase`, `ImageWhole`, `NarrowWords` |
| | `WaitBounded` | `WaitsBounded` | `WithinBlocks` |
| | `LoadsAssembleMemory` (action) | `LoadsAreAssembled` | `WithinBlocks` |
| | `LoadsReturnMemory` (action) | `LoadsAreOfMemory` | `WithinBlocks`, `StoresAtBase`, `ImageWhole`, `NarrowWords` |
| | which words a load gives back | `NarrowAreIntact` | |
| | `StoresOnlyTheirWord` (action) | `StoresChangeTheirWord` | `WithinBlocks`, `StoresAtBase` |
| `Pipeline` | `TypeOK` | `PipelineTyped` | |
| | `HeldByMemory` | `HoldHasAccess` | |
| | `WrongPathSquashed` (action) | `SquashIsComplete` | `NoRetAtTarget` |
| | `ImplementsIsa` (refinement) | `PipelineIsSequential` | `HazardsHandled` |
| `System` | `TypeOK` | `SystemTyped` | `DELAY > 0` |
| | `CallIsAccess` | `StalledCallIsAccess` | |
| | `Drained` | `SystemDrains` | `DELAY > 0`, `ReturnsPadded` |
| | `ImplementsPipeline` (refinement) | `SystemIsPipeline` | `DELAY > 0` |
| | `Processor!ImplementsIsa` (refinement) | `SystemIsSequential` | `DELAY > 0`, `HazardsHandled` |
| | which values a load gives back | `LoadedAsStored` | |
| `Alu` | `TypeOK` | `AluTyped` | |
| | `ResultsAgree` | `TwoEmulatorsAgree` | |
| | `FlagsOfSums` | `SumsSetFlags` | |
| | `BranchesCompare` | `ComparisonsBranch` | |
| `Emulator` | `TypeOK` | `EmulatorTyped` | |
| | `PagesDistinct` | `PagesStayDistinct` | |
| | `FatalIsLast` | `NothingAfterFatal` | |
| | `OutputLogged` | `OutputIsLogged` | |
| | `ImageLoaded` | `ImageIsLoaded` | `LittleEndian` |
| | `ImplementsFlat` (refinement) | `PagesAreFlat` | `LittleEndian`, `WordsFit` |
| `Grader` | `TypeOK` | `GraderTyped` | |
| | `OwnResults` | `MarksOwnResults` | |
| | `Marks` | `MarksAreDeserved` | |

**The cache and its simulator.** The invariant `CacheInv` (types, no two valid lines of a
set share a tag or a time, every time is in the past) is inductive for all geometries and
traces (`GeometryAssumption`, `BlockAssumption`, `AddrsAssumption`). Its parts need each
other: lines keep distinct times only because the clock is ahead of all of them, and
distinct tags only because a block is filled after no line matched. `PutLine` isolates the
one line a call changes, `StampInv` shows that writing a line with the current time and
ticking the clock keeps the invariant, and `check_hit` and `handle_miss` are two instances
of it (`CacheProofs!AccessDataInv`). `SummaryAccounts` adds that the valid lines are
finitely many and change by one: `handle_miss` fills an invalid line or counts exactly one
eviction. `WrittenBlocksStayDirty` follows a block through the step: a hit never clears a
dirty bit, and a miss takes away one line only, the one that was selected and counted.

`CacheIsLru` maps the lines of a cache to the abstract one: the blocks of the valid lines,
a block before another of its set when its time is smaller, the dirty blocks, the four
counters. `StampHeld`, `StampDirty` and `StampBefore` say what writing one line with the
current time does to the first three: its block enters, the block it held leaves, and the
new one comes after all others of its set. The abstract cache counts the blocks of a set,
the code looks for an invalid line: `FullIs` shows that these are the same, because tags
are distinct. `select_line`'s scan takes the smallest time, so what it evicts is the least
recent. `AccessIsLru` puts the cases together, each with the counter it moves.

**Two caches.** `Inclusion` is not inductive: that the larger cache holds the blocks of
the smaller survives an eviction only if the larger evicts no block the smaller keeps.
`PairInv` says why it does not. Both clocks agree; each valid line of the smaller cache
has a twin in the larger, of the same tag and *the same time*; and a block that only the
larger has is older than all the lines of its set in the smaller, which is full
(`Covers`). So when the larger evicts, its oldest line is one the smaller does not have,
or both evict the same block. The counts need a ledger: the larger cache still *owes* the
blocks that it holds dirty while the smaller has already written them back (`Owed`), and
the dirty evictions of the larger together with its debts never exceed those of the
smaller (`Paid`). Each reference is one of a hit in both, a hit in the larger alone, or a
miss in both, and each keeps the balance (`PaidKept`); the only assumption is `ELarge >=
E`.

**Cached memory.** The inductive invariant `IInv` is the type invariant, the three
invariants of the run and `CallInv`: the call to repeat is one that was made, and has
cycles left to wait. Its heart is one iteration of the byte loop (`LoopBodySound`), which
keeps `Sound`: the cache's invariant, clean lines equal to the pages, and the content that
cache and pages show together. It is carried through the loop by `IterationsExist` and
`LoopIs`: the loop is a recursive function, which exists and keeps an invariant by an
argument from the least element of a set of naturals. `MemoryIsFlat` then maps each step
to one access of `FlatMemory` or to a stutter: misses, fills, write-backs and repetitions
keep the content (`FillContent`), and the word access at the end changes its bytes only
(`SetWordContent`).

What a load answers is in two parts. `LoadsAreAssembled` holds of all words: the answer is
what `cache.c:270` makes, once, of the bytes that cache and pages showed before the call.
`NarrowAreIntact` says which words that conversion keeps, for all widths of byte and
`int`. `MemoryIsFlat` and `LoadsAreOfMemory` put the two together for the words that are
kept. The hypotheses are the calls for which the code keeps its promise:

* `WithinBlocks`: the delay is not 0 and each word lies in one block, as naturally aligned
  words do. Without either half the code is wrong: `memory_no_delay` shows the one,
  section 5 describes the other.
* `StoresAtBase`: stores go to the base of a block, as they do when a block is one word.
  Elsewhere a store that misses fills its line wrongly: `memory_write_miss`. The type
  invariant, the protocol and the invariant of clean lines need no such thing.
* `ImageWhole`: memory begins as a whole array, and no word reaches past its end.
* `NarrowWords`: the words stored, and those of the image that are loaded, are narrow, and
  a load takes a stored word whole or none of it. With one word that is not narrow a load
  returns another: `memory_wide_word`.

**Pipeline.** `HeldByMemory` is inductive by itself: a cycle answered IN_FLIGHT leaves the
inputs of all stages as they were (`HeldCycle`), and a cycle without an access keeps the
status it found, which is READY. `StepIs` reduces a cycle to the cases the hazard logic
distinguishes (`Holds`, `MovesRet`, `MovesSquash`, `MovesLoadUse`, `MovesPlain`), and the
later proofs split on those. The refinement stands on three invariants:

* `TypeInv`: every stage input is a bubble or an instruction at an address of the text.
* `ControlInv`: every instruction in flight is the program's word at its address, and the
  one behind it is where fetch predicted it. So the target of a branch in X is in D when
  the branch is found not taken, and one squash is complete: with READY, what moves on
  into X behind a misprediction is a bubble (`SquashIsComplete`). It is not when that
  target is a RET: the check of RET comes later (`hazard_control.c:87`) and resets what
  the squash asked for. Hence `NoRetAtTarget`; `pipeline_ret_target` is the counterexample
  without it.
* `DataInv`: the operands that the instruction in X uses are those that the instructions
  before it leave behind when they retire (`BeforeX`), which is what forwarding and the
  load-use stall are for (`ForwardIs`, `DecodeReads`); a BL in M is followed by the word
  it calls; an instruction that is held in X sets the flags once.

`PipelineIsSequential` maps each cycle to one step of `Isa` or to none: the step of the
instruction in X when it is executed for the first time. `HazardsHandled` excludes the
programs with one of the three hazards for which the code has no check (section 3), and
nothing else: TLC refutes `ImplementsIsa` when any one of them is allowed.

`EndsDrained` is about the cycle that ends the loop, with a RET in D. `DrainInv` continues
`ControlInv` by one stage: the instruction in M is one the program may run before that in
X, or, when X holds a bubble, before that in D. So what X and M hold behind a RET in D is
among the two instructions in front of it, on the way that was taken, or a bubble. When
those leave registers and memory alone (`ReturnsPadded`), the memory cannot be holding the
pipeline, M and W are left with nothing to write, and what they passed on before is in the
registers and the memory. Nothing else is asked of the program: RETs on paths not taken
end the loop as well.

**System.** `CallIsAccess` needs `CallInv`: while the memory is waited for, M holds an
access and fetch is stalled. Otherwise a cycle without a call would leave the old status
standing, and the call waited for would be nobody's. A held cycle keeps M
(`HeldInM`), so the next call is the same one. Nothing is assumed of program, cache or
delay.

That the cached memory is the memory `Pipeline` assumes is the composition of the two
parts' theorems. `Processor` and `Memory` instantiate their proof modules with the
substitutions of `System`, after `ProcessorFit` and `MemoryFit` have shown that the
constants substituted meet what those modules assume. The definitions an instance brings
are new names to the prover, so `SameCalls`, `SameCycle` and the lemmas before them show
that what `System` calls through `Mem` and `Cpu` is what the theorems are about.
`SystemInv` joins the inductive invariants of both parts with `HeldByMemory` and
`NoValue`: without an access M passes on the `val_mem` it was given, which has to be the 0
that `Pipeline`'s M puts there. `AccessIs` is the step: a load's or store's call is
answered, and then with the conversion of what cache and pages together hold or by
changing that word alone (`CachedMemoryProofs!LoadDone`, `StoreDone`; `LoadedIs` and
`StoredIs` in values), or it is not, and then they show the same as before; either way the
cycle is one of `Pipeline`. `SystemIsSequential` puts `PipelineIsSequential` on top.
`LoadedAsStored` says what that leaves of a load: the values that are kept are the narrow
ones, whatever the cache. The one hypothesis on the memory is `DELAY > 0`: the rest of
`WithinBlocks`, `StoresAtBase` and `ImageWhole` are so because the words of this model
begin their blocks, of any size that holds one. `NarrowWords` is not assumed, since any
value may be stored and loaded here. `HazardsHandled` and `ReturnsPadded` hold of the
programs of the run, as `ProgramsHandled` of `MCSystem` checks. `SystemDrains` carries
`EndsDrained` over in the same way: a `Pipeline` whose memory is what cache and pages show
ends with nothing left to write.

**Execute stage.** `AluInv` says what is in X after any number of instructions: `val_ex` is
what `alu` computes of the last one, the condition is that of the flags, and the flags are
those of the last sum or difference, unless an AND came after it. The rest is arithmetic
for every width. Powers of two are a recursive function, whose laws (`pow2[i + j]`, order,
division) come from least counterexamples. A word has the bits it is the sum of, and no
other word has them (`BitsTellWords`, `BitsOfWord`), so that an OR of a word and a shifted
half-word whose place is empty is what the sequential routine writes there by masking
(`HalfWordInField`, `MovesAgree`). A difference is the sum with the complement and one
(`Difference`); `SumFlags`, `DifferenceCarry` and `DifferenceSign` split on the halves of
the range the operands lie in. `BranchesCompare` needs its limits: against zero the carry
says the opposite, and the overflow is taken from the sum of the operands. TLC finds both
when either is dropped.

**Emulator.** The table is always one of `Tables`: well-typed, each page once and in its
own bucket. `AddedOnce` needs the failed lookup, `WriteByteOnce` that the lookup found that
page (`PageFound`); the loops over the bytes of an access are handled as those of the
cached memory are (`RoundsExist`, `RoundsKeep`). `PagesAreFlat` shows that a byte is read
where it was written, whatever pages come and go in between, wrapping at the end of the
address space. `LittleEndian` is what `init` (`interface.c:32`) always asks for: a word
that crosses from the text segment into the data would otherwise change its order of bytes
on the way. `WordsFit` says that no word is longer than the address space. `ImageInv`
follows the loader: memory is the image of the file up to the byte it is at, and later
segments cover earlier ones; that a segment is shorter than the address space
(`EmulatorAssumption`) is so because `p_filesz` has 64 bits. For the log, `LogInv` adds
that the log is the output so far as long as `terminate` is clear, and that then it has no
fatal message; `LoggingKeepsLog` shows it of `logging` alone, whoever calls it.

**Grader.** A grading that began alone marks a test from its own run or from nothing, for
any number of tests and any finite set of measures (`GraderAssumption`). `Alone` says where
the grader's one simulator can be alive, whose result it computes, and that from its start
until the file is read the file is absent, empty or its own; it rests on the removal
(`Remove`) and on `SimulatorSteps`. `TypeInv` needs `FewOrphans`: a grading leaves at most
one simulator behind. For `Marks`, `MarksInv` says which tests are concluded at each point
of the loop, and that the results of a concluded test are right, or were never read.

Every invariant, action property and refinement that a passing run checks is stated by one
of these theorems. Only model-checked is liveness: `CallsComplete`, `FetchResumes`,
`Returns`, `Terminates` and `GradingEnds` are beyond the prover, which does not reason
about ENABLED. `WaitsBounded` is the safety half of `CallsComplete`.

## 5. Disagreements between the code and what it says

Each has a run that TLC refutes; the counterexample is the behaviour.

1. `mem.c:265`: a store that misses at an offset inside a block fills the line from the
   wrong address (`memory_write_miss`).
2. `cache.c:270`: `get_word_cache` computes a 64-bit word in `int`, though `cache.c:259`
   says "Get 8 bytes" (`memory_wide_word`). Of the build, 0x1122334455667788 stored comes
   back as 0x556677cc, 0x80000000 as 0xffffffff80000000. A word is kept if it is a
   non-negative `int` or all ones (`NarrowAreIntact`). `RET_FROM_MAIN_ADDR` (`mem.c:33`),
   which is -5, comes back as all ones, so a main that saves its X30 and loads it again,
   as one that calls does, never returns with `-DCACHE`.
3. `mem.c:204`: a delay of 0, the default, wraps and never ends (`memory_no_delay`). A
   delay of `d` else answers IN_FLIGHT fewer than `d` times (`WaitBounded`).
4. `pipe/hazard_control.c:87`: a RET at the target of a branch not taken is executed
   (`pipeline_ret_target`). In the run the branch falls through and its target is
   elsewhere: the program returns at the target. The built emulator shows it: with the
   first instruction of `.helper` in `branch_not_taken` replaced by `ret`, the program
   ends without output.
5. `hw_elts.c:104-108`: the overflow of a difference is computed as that of the sum, which
   is what `alu_flags` shows. ANDS sets no flag, because the test of line 104 is for sums
   and differences only. `FlagsOfSums` and `BranchesCompare` say where flags and branches
   are right all the same.

Met on the way and recorded as hazards: a load across a block boundary, which fills the
second block with the bytes of the first (`mem.c:214`); LDUR x30 directly followed by RET;
a callee that returns in its first two instructions (the built emulator aborts on
`ret_hazard` when one of the two `movz` in `helper` is replaced by `ret`); stores lost
when `ret` follows within two instructions; in a cache of one line, a straddling word that
is gone again when `mem.c:232` reads it (words inside their block keep
`PreconditionHolds`); misses counted again at each repetition; a fatal message about `-o`
that does not end the program, though `err_handler.h:23` says it does, and silences the
log; `-o` itself, which `interface.c:29` takes back; an orphaned simulator whose late
write the next grading reads; an empty results file whose numbers are read from
uninitialised variables.

## 6. Not modelled, and the plan

Not modelled: `create_checkpoint` and `display_set`, which nothing calls to effect;
`reg.c`, an allocation whose one effect (registers that start with anything) is in
`Pipeline`; tables of names, formatting and INFO lines; SP and XZR as destinations, HLT
and the byte loads and stores in `Pipeline`, whose stages for them exist only as object
code; text that modifies itself; the flags that the handlers of `ADDS`, `SUBS` and `ANDS`
pack; the prints of narrow stores (`mem.c:153-155`); the read of `mem.c:218`, past the end
of the evicted block and of no consequence, since nothing uses what it reads; widths other
than the processor's behind the cache, and an access that begins with one width and is
repeated with another (no caller does so).

What would come next:

1. Proofs: `SystemIsPipeline` for several words of the program in a block, where
   `StoresAtBase` no longer holds of the stores it makes.
2. `Pipeline` with all flags and the operations of `Alu`, MOVK's source field included.
3. Narrow widths in `CachedMemory`, where `set_word_cache` always writes eight bytes.
