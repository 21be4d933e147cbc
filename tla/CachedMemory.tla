---------------------------- MODULE CachedMemory ----------------------------
(***************************************************************************)
(* src/src/mem.c built with CACHE: the data memory of the processor, a     *)
(* write-back cache in front of the page table, with a delay on a miss.    *)
(*                                                                         *)
(* A call that misses starts a fetch, returns IN_FLIGHT, and is made again *)
(* every cycle by the stalled memory stage (hazard_control.c:91-97 holds   *)
(* M, proc.c:71 runs it again) until the fetch has taken `d' cycles.  One  *)
(* action is one whole call; `req' is the call the stalled stage must      *)
(* repeat.                                                                 *)
(*                                                                         *)
(* Abstractions: the page table is one array that reads as zero where no   *)
(* page exists; the processor calls with width 8 only (hw_elts.c:120),     *)
(* here W.                                                                 *)
(***************************************************************************)
EXTENDS CacheWords

CONSTANTS
    DELAY,                  \* cache->d, cycles a miss takes
    CYCLE_MOD,              \* inflight_cycles is unsigned: 2^64 in the code
    Image,                  \* the pages as the loader leaves them
    Words,                  \* values the processor stores
    ReadAddrs, WriteAddrs,  \* words the processor loads and stores
    NULL_ADDR,              \* the special address of mem.c:31
    MaxHits, MaxMisses      \* bounds: new calls start below the first count of
                            \* hits, no call is made past the second of misses

ASSUME MemoryAssumption ==
    /\ DELAY \in Nat
    /\ CYCLE_MOD \in Nat \ {0} /\ DELAY < CYCLE_MOD
    /\ DOMAIN Image \subseteq Nat /\ Image \in [DOMAIN Image -> Byte]
    /\ Block = [0 .. B - 1 -> Byte]
    /\ Words \subseteq Word
    /\ ReadAddrs \cup WriteAddrs \subseteq Nat

VARIABLES
    mem,                \* the bytes of the page table
    cache,              \* guest.cache and the statistics
    inflight, inflight_addr, inflight_cycles,
    dmem_status,        \* "READY" or "IN_FLIGHT"
    req,                \* the call the stalled stage repeats, or Silent
    resp,               \* the last call that completed
    waited              \* IN_FLIGHT answers req has had (history)

vars == <<mem, cache, inflight, inflight_addr, inflight_cycles,
          dmem_status, req, resp, waited>>

\* No call, no answer yet.
Silent == [op |-> "NONE"]

BlockBase(addr) == addr - (addr % B)

\* A byte of the page table; add_page gives a new page zeros.
_mem_read_byte(m, addr) == IF addr \in DOMAIN m THEN m[addr] ELSE ZeroByte

---------------------------------------------------------------------------
(* The byte loops of _mem_read_cache and _mem_write_cache.  A loop works   *)
(* on a record of the variables it changes; `returned' is its early        *)
(* return.                                                                 *)

\* Mutant: every call starts the fetch again.
CountDownRestarts(r, block) == (DELAY - 1) % CYCLE_MOD

\* The cycle count of a fetch of block: restarted when another was in flight.
CountDown(r, block) ==
    LET restart == r.inflight_addr # block \/ ~r.inflight
    IN  ((IF restart THEN DELAY ELSE r.inflight_cycles) - 1) % CYCLE_MOD

\* mem.c:213-215 reads the block of addr; mem.c:264-266 reads from addr on.
FilledFrom(addr, op) == IF op = "READ" THEN BlockBase(addr) ELSE addr

\* Mutant: what the fill evicts is dropped, dirty or not.
FillDropsDirty(r, addr, a, op) ==
    LET block == [j \in 0 .. B - 1 |-> _mem_read_byte(r.mem, FilledFrom(addr, op) + j)]
    IN  [r EXCEPT !.cache = handle_miss(r.cache, a, op, block)]

\* The fetch is over: fill the block of address a, write back what it evicts.
\* mem.c:218 also reads a word at 8 times the offset of addr in the block, past
\* its end when there is one; the value goes into `data', which line 232
\* overwrites before it is used, and is left out.
Fill(r, addr, a, op) ==
    LET block   == [j \in 0 .. B - 1 |-> _mem_read_byte(r.mem, FilledFrom(addr, op) + j)]
        evicted == evicted_line(r.cache, a)
        victim  == evicted.addr .. evicted.addr + B - 1
    IN  [r EXCEPT
           !.cache = handle_miss(r.cache, a, op, block),
           !.mem = IF evicted.valid /\ evicted.dirty
                   THEN [x \in DOMAIN r.mem \cup victim |->
                            IF x \in victim THEN evicted.data[x - evicted.addr]
                                            ELSE r.mem[x]]
                   ELSE r.mem]

\* One iteration, for byte a of the access at addr.
LoopBody(r, addr, a, op) ==
    LET checked == [r EXCEPT !.cache = check_hit(r.cache, a, op)]
        cycles  == CountDown(r, BlockBase(a))
        fetch   == [checked EXCEPT !.inflight_addr = BlockBase(a),
                                   !.inflight_cycles = cycles]
    IN  IF r.returned              THEN r
        ELSE IF Cached(r.cache, a) THEN checked
        ELSE IF cycles > 0
             THEN [fetch EXCEPT !.inflight = TRUE, !.returned = TRUE]
        ELSE Fill([fetch EXCEPT !.inflight = FALSE], addr, BlockBase(a), op)

\* Mutant: a break, not a return, while the fetch is under way.
LoopBreaks(addr, op) ==
    LET start == [mem |-> mem, cache |-> cache, inflight |-> inflight,
                  inflight_addr |-> inflight_addr,
                  inflight_cycles |-> inflight_cycles, returned |-> FALSE]
        run[i \in 0 .. W] ==
            IF i = 0 THEN start ELSE LoopBody(run[i - 1], addr, addr + i - 1, op)
    IN  [run[W] EXCEPT !.returned = FALSE]

Loop(addr, op) ==
    LET start == [mem |-> mem, cache |-> cache, inflight |-> inflight,
                  inflight_addr |-> inflight_addr,
                  inflight_cycles |-> inflight_cycles, returned |-> FALSE]
        run[i \in 0 .. W] ==
            IF i = 0 THEN start ELSE LoopBody(run[i - 1], addr, addr + i - 1, op)
    IN  run[W]

---------------------------------------------------------------------------
Init ==
    /\ mem = Image
    /\ cache = create_cache
    /\ inflight = FALSE
    /\ inflight_addr = 0
    /\ inflight_cycles = DELAY
    /\ dmem_status = "READY"
    /\ req = Silent
    /\ resp = Silent
    /\ waited = 0

\* The processor exited (a load from NULL) or crashed.
Running == resp.op \notin {"EXIT", "CRASH"}

\* A stalled stage repeats its call; a free one may make any.
Issued(call) ==
    /\ Running
    /\ req \in {Silent, call}
    /\ req = Silent => cache.hit_count < MaxHits
    /\ cache.miss_count < MaxMisses

\* What every call of the two functions does with the loop's result r.
Commit(r) ==
    /\ mem' = r.mem
    /\ inflight' = r.inflight
    /\ inflight_addr' = r.inflight_addr
    /\ inflight_cycles' = r.inflight_cycles

InFlight(call, r) ==
    /\ r.returned
    /\ Commit(r)
    /\ cache' = r.cache
    /\ dmem_status' = "IN_FLIGHT"
    /\ req' = call
    /\ waited' = waited + 1
    /\ UNCHANGED resp

\* get_line returned NULL inside get_word_cache or set_word_cache.
NullLine(r, addr) ==
    /\ ~r.returned
    /\ ~WordCached(r.cache, addr)
    /\ Commit(r)
    /\ cache' = r.cache
    /\ resp' = [op |-> "CRASH"]
    /\ UNCHANGED <<dmem_status, req, waited>>

\* The loop ended, and the word was read or written: cache c, the answer.
Done(r, addr, c, answer) ==
    /\ ~r.returned
    /\ WordCached(r.cache, addr)
    /\ Commit(r)
    /\ cache' = c
    /\ dmem_status' = "READY"
    /\ req' = Silent
    /\ waited' = 0
    /\ resp' = answer

_mem_read_cache(addr) ==
    LET call == [op |-> "READ", addr |-> addr]
    IN  /\ addr # NULL_ADDR
        /\ Issued(call)
        /\ \E r \in {Loop(addr, "READ")} :
              \/ InFlight(call, r)
              \/ NullLine(r, addr)
              \/ Done(r, addr, r.cache,
                      [op |-> "READ", addr |-> addr, val |-> get_word_cache(r.cache, addr)])

_mem_write_cache(addr, val) ==
    LET call == [op |-> "WRITE", addr |-> addr, val |-> val]
    IN  /\ addr # NULL_ADDR
        /\ Issued(call)
        /\ \E r \in {Loop(addr, "WRITE")} :
              \/ InFlight(call, r)
              \/ NullLine(r, addr)
              \/ Done(r, addr, set_word_cache(r.cache, addr, val), call)

\* _mem_write_special: a store to NULL is logged and succeeds.
WriteNull(val) ==
    LET call == [op |-> "WRITE", addr |-> NULL_ADDR, val |-> val]
    IN  /\ Issued(call)
        /\ resp' = call
        /\ UNCHANGED <<mem, cache, inflight, inflight_addr, inflight_cycles,
                       dmem_status, req, waited>>

\* _mem_read_special: a load from NULL ends the program.
ReadNull ==
    /\ Issued([op |-> "READ", addr |-> NULL_ADDR])
    /\ resp' = [op |-> "EXIT"]
    /\ UNCHANGED <<mem, cache, inflight, inflight_addr, inflight_cycles,
                   dmem_status, req, waited>>

Next ==
    \/ \E addr \in ReadAddrs : _mem_read_cache(addr)
    \/ \E addr \in WriteAddrs, val \in Words : _mem_write_cache(addr, val)
    \/ \E val \in Words : WriteNull(val)
    \/ ReadNull

Spec == Init /\ [][Next]_vars

---------------------------------------------------------------------------
(* The variables have their types; the cache under the memory keeps the    *)
(* invariant of Cache.                                                     *)
TypeOK ==
    /\ mem \in [DOMAIN mem -> Byte]
    /\ CacheInv(cache)
    /\ inflight \in BOOLEAN
    /\ inflight_addr \in Nat /\ inflight_cycles \in 0 .. CYCLE_MOD - 1
    /\ dmem_status \in {"READY", "IN_FLIGHT"}
    /\ waited \in Nat

(***************************************************************************)
(* A line whose dirty bit is clear may be dropped (mem.c:220, 270 write    *)
(* back only dirty ones): it must hold exactly what memory holds.          *)
(***************************************************************************)
CleanLinesMatchMemory ==
    \A s \in SetIds : \A i \in LineIds :
        LET line == cache.sets[s][i]
        IN  line.valid /\ ~line.dirty =>
                \A o \in 0 .. B - 1 :
                    line.data[o] = _mem_read_byte(mem, BlockAddr(s, line.tag) + o)

(***************************************************************************)
(* The stall protocol: the status that hazard_control.c:91 reads is        *)
(* IN_FLIGHT exactly while a call has to be repeated; the fetch under way  *)
(* is that of the call's own block, which is not cached yet; and the       *)
(* cycles it has taken and those left add up to the delay, however often   *)
(* the call was made.                                                      *)
(***************************************************************************)
StallProtocol ==
    /\ dmem_status = "IN_FLIGHT" <=> req # Silent
    /\ inflight <=> req # Silent
    /\ req # Silent =>
          /\ inflight_addr = BlockBase(req.addr)
          /\ ~Cached(cache, inflight_addr)
          /\ waited + inflight_cycles = DELAY

(* A miss costs the "cache delay" of cache.h:31: a call is answered         *)
(* IN_FLIGHT fewer than d times, so not at all when d is 0 or 1.            *)
WaitBounded == waited > 0 => waited < DELAY

(* set_word_cache and get_word_cache keep to their precondition (cache.c:  *)
(* 260, 280): "pos is contained within the cache", so no line is NULL; it  *)
(* rests on every earlier exit of the loop being a return.  (A word across *)
(* two blocks breaks it in a cache of one line.)                           *)
PreconditionHolds == resp.op # "CRASH"

(***************************************************************************)
(* Memory as the processor sees it: a cached byte is the line's, any other *)
(* is the page's.                                                          *)
(***************************************************************************)
ByteAt(c, m, a) == IF Cached(c, a) THEN ByteInLine(c, a) ELSE _mem_read_byte(m, a)

WordAt(addr) == [k \in 0 .. W - 1 |-> ByteAt(cache, mem, addr + k)]

View == [a \in DOMAIN Image |-> ByteAt(cache, mem, a)]

Flat == INSTANCE FlatMemory WITH
    flat <- View, SPACE <- Cardinality(DOMAIN Image), Widths <- {W}, Devices <- {}

(* mem.h:43, 55: with its cache and its delays the memory is an array of   *)
(* bytes, for words that get_word_cache returns as they are; in particular  *)
(* a miss, a write-back or a repeated call changes no byte the processor    *)
(* can see.                                                                 *)
ImplementsFlat == Flat!FlatSpec

(* mem.h:43 "Return value read from address", cache.c:259 "Get 8 bytes from *)
(* the cache": a load that completes returns the bytes the processor would  *)
(* have seen before the call.                                               *)
LoadsReturnMemory ==
    [][resp' # resp /\ resp'.op = "READ" =>
          \A k \in 0 .. W - 1 : resp'.val[k] = View[resp'.addr + k]]_vars

(* What a load returns of any word, wide ones included: the conversion of   *)
(* cache.c:270, once, of the bytes that cache and pages held before the     *)
(* call, whatever was filled or written back on the way.                    *)
LoadsAssembleMemory ==
    [][resp' # resp /\ resp'.op = "READ" =>
          resp'.val = Assembled(WordAt(resp'.addr))]_vars

(* mem.h:55 "Write data to address": a completed store changes only the    *)
(* bytes of its word.                                                      *)
StoresOnlyTheirWord ==
    [][\A a \in DOMAIN Image :
          View'[a] # View[a] =>
              resp'.op = "WRITE" /\ a \in resp'.addr .. resp'.addr + W - 1]_vars
============================================================================
