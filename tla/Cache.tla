------------------------------- MODULE Cache -------------------------------
(***************************************************************************)
(* src/src/cache/cache.c: a set-associative, write-back, write-allocate    *)
(* cache with LRU replacement.  The module has no variables: a cache, its  *)
(* LRU clock and its four statistics are one record, and each C function   *)
(* that changes them is an operator from the old record to the new one, so *)
(* that the trace simulator (CSim) and the data memory (CachedMemory) call *)
(* the same code.                                                          *)
(*                                                                         *)
(* Abstractions: S and B stand for 1 << s and 1 << b, so a shift is a      *)
(* \div and a mask is a %; a block's content is an element of Block; the   *)
(* statistics and the clock are naturals (the code has int and uint64_t    *)
(* and never comes near either limit within MAX_NUM_INSTR cycles).         *)
(***************************************************************************)
EXTENDS Integers, FiniteSetsExt

CONSTANTS
    S,          \* number of sets, 1 << cache->s
    B,          \* bytes per block, 1 << cache->b
    E,          \* lines per set, cache->E
    Block,      \* what the data array of a line can hold
    ZeroBlock,  \* the content calloc gives a new line
    NULL        \* the incoming_data of a caller that has no data

ASSUME GeometryAssumption ==
    /\ S \in Nat \ {0}
    /\ B \in Nat \ {0}
    /\ E \in Nat \ {0}

ASSUME BlockAssumption == ZeroBlock \in Block /\ NULL \notin Block

SetIds     == 0 .. S - 1
LineIds    == 0 .. E - 1
Operations == {"READ", "WRITE"}

CacheLine ==
    [valid : BOOLEAN, tag : Nat, lru : Nat, dirty : BOOLEAN, data : Block]

CacheState ==
    [sets : [SetIds -> [LineIds -> CacheLine]],
     next_lru : Nat, hit_count : Nat, miss_count : Nat,
     dirty_eviction_count : Nat, clean_eviction_count : Nat]

---------------------------------------------------------------------------
(* Address arithmetic: (addr >> b) & ((1 << s) - 1) and addr >> (b + s).   *)

SetIndex(addr) == (addr \div B) % S
Tag(addr)      == addr \div (B * S)

\* The address handle_miss rebuilds from a set index and a line's tag.
BlockAddr(s, tag) == s * B + tag * (B * S)

---------------------------------------------------------------------------
(* create_cache *)

EmptyLine ==
    [valid |-> FALSE, tag |-> 0, lru |-> 0, dirty |-> FALSE, data |-> ZeroBlock]

create_cache ==
    [sets |-> [s \in SetIds |-> [i \in LineIds |-> EmptyLine]],
     next_lru |-> 0, hit_count |-> 0, miss_count |-> 0,
     dirty_eviction_count |-> 0, clean_eviction_count |-> 0]

---------------------------------------------------------------------------
(* get_line keeps the last line of the set that matches. *)

Matches(c, addr) ==
    {i \in LineIds : /\ c.sets[SetIndex(addr)][i].valid
                     /\ c.sets[SetIndex(addr)][i].tag = Tag(addr)}

\* Mutant: the search looks at the first line of the set only.
CachedFirstLineOnly(c, addr) == 0 \in Matches(c, addr)

Cached(c, addr) == Matches(c, addr) # {}

get_line(c, addr) == Max(Matches(c, addr))

\* select_line: the first invalid line, else the first of the least lru.
Invalid(lines) == {i \in LineIds : ~lines[i].valid}

Oldest(lines) ==
    {i \in LineIds : \A j \in LineIds : lines[i].lru <= lines[j].lru}

select_line(c, addr) ==
    LET lines == c.sets[SetIndex(addr)]
    IN  IF Invalid(lines) # {} THEN Min(Invalid(lines)) ELSE Min(Oldest(lines))

---------------------------------------------------------------------------
(* check_hit: a miss changes only its counter; the caller asks Cached.     *)

\* The sets with line i of set s replaced.
PutLine(sets, s, i, line) == [sets EXCEPT ![s] = [sets[s] EXCEPT ![i] = line]]

\* Mutants: the clock is not advanced; the dirty bit follows the last
\* operation (cache.c:220, commented out in the code); the line keeps its old
\* time (FIFO).
TouchNoTick(c, addr, operation) ==
    LET s    == SetIndex(addr)
        i    == get_line(c, addr)
        old  == c.sets[s][i]
        line == [old EXCEPT !.dirty = old.dirty \/ operation # "READ",
                            !.lru = c.next_lru]
    IN  [c EXCEPT !.sets = PutLine(c.sets, s, i, line),
                  !.hit_count = c.hit_count + 1]

TouchDirtyIsWrite(c, addr, operation) ==
    LET s    == SetIndex(addr)
        i    == get_line(c, addr)
        old  == c.sets[s][i]
        line == [old EXCEPT !.dirty = operation = "WRITE", !.lru = c.next_lru]
    IN  [c EXCEPT !.sets = PutLine(c.sets, s, i, line),
                  !.next_lru = c.next_lru + 1,
                  !.hit_count = c.hit_count + 1]

TouchKeepsTime(c, addr, operation) ==
    LET s    == SetIndex(addr)
        i    == get_line(c, addr)
        old  == c.sets[s][i]
        line == [old EXCEPT !.dirty = old.dirty \/ operation # "READ"]
    IN  [c EXCEPT !.sets = PutLine(c.sets, s, i, line),
                  !.next_lru = c.next_lru + 1,
                  !.hit_count = c.hit_count + 1]

Touch(c, addr, operation) ==
    LET s    == SetIndex(addr)
        i    == get_line(c, addr)
        old  == c.sets[s][i]
        line == [old EXCEPT !.dirty = old.dirty \/ operation # "READ",
                            !.lru = c.next_lru]
    IN  [c EXCEPT !.sets = PutLine(c.sets, s, i, line),
                  !.next_lru = c.next_lru + 1,
                  !.hit_count = c.hit_count + 1]

check_hit(c, addr, operation) ==
    IF Cached(c, addr)
    THEN Touch(c, addr, operation)
    ELSE [c EXCEPT !.miss_count = c.miss_count + 1]

\* handle_miss.  The line it evicts, as evicted_line_t reports it ...
evicted_line(c, addr) ==
    LET line == c.sets[SetIndex(addr)][select_line(c, addr)]
    IN  [valid |-> line.valid, dirty |-> line.dirty, data |-> line.data,
         addr |-> BlockAddr(SetIndex(addr), line.tag)]

\* Mutants: the data pointer is copied from without a NULL test; an
\* eviction is counted whether or not an invalid line was found.
handle_miss_unchecked(c, addr, operation, incoming_data) ==
    LET line == [valid |-> TRUE, tag |-> Tag(addr), lru |-> c.next_lru,
                 dirty |-> operation = "WRITE", data |-> incoming_data]
    IN  [c EXCEPT !.sets = PutLine(c.sets, SetIndex(addr), select_line(c, addr), line),
                  !.next_lru = c.next_lru + 1]

handle_miss_counts_all(c, addr, operation, incoming_data) ==
    LET s    == SetIndex(addr)
        i    == select_line(c, addr)
        old  == c.sets[s][i]
        line == [valid |-> TRUE, tag |-> Tag(addr), lru |-> c.next_lru,
                 dirty |-> operation = "WRITE", data |-> old.data]
    IN  [c EXCEPT !.sets = PutLine(c.sets, s, i, line),
                  !.next_lru = c.next_lru + 1,
                  !.dirty_eviction_count = @ + IF old.dirty THEN 1 ELSE 0,
                  !.clean_eviction_count = @ + IF old.dirty THEN 0 ELSE 1]

\* ... and the cache it leaves.  select_line counts the eviction.
handle_miss(c, addr, operation, incoming_data) ==
    LET s    == SetIndex(addr)
        i    == select_line(c, addr)
        old  == c.sets[s][i]
        full == Invalid(c.sets[s]) = {}
        line == [valid |-> TRUE, tag |-> Tag(addr), lru |-> c.next_lru,
                 dirty |-> operation = "WRITE",
                 data |-> IF incoming_data = NULL THEN old.data ELSE incoming_data]
    IN  [c EXCEPT
           !.sets = PutLine(c.sets, s, i, line),
           !.next_lru = c.next_lru + 1,
           !.dirty_eviction_count = @ + IF full /\ old.dirty THEN 1 ELSE 0,
           !.clean_eviction_count = @ + IF full /\ ~old.dirty THEN 1 ELSE 0]

\* access_data: one reference of a trace.
access_data(c, addr, operation) ==
    LET checked == check_hit(c, addr, operation)
    IN  IF Cached(c, addr)
        THEN checked
        ELSE handle_miss(checked, addr, operation, NULL)

---------------------------------------------------------------------------
(* What a cache holds, and what every function above keeps true of it.     *)

ValidLines(c)    == {p \in SetIds \X LineIds : c.sets[p[1]][p[2]].valid}
ResidentAddrs(c) == {BlockAddr(p[1], c.sets[p[1]][p[2]].tag) : p \in ValidLines(c)}
DirtyAddrs(c)    ==
    {BlockAddr(p[1], c.sets[p[1]][p[2]].tag) :
        p \in {q \in ValidLines(c) : c.sets[q[1]][q[2]].dirty}}

(***************************************************************************)
(* get_line returns the LAST line that matches and select_line the FIRST   *)
(* line with the least lru: both are the right one only if no two valid    *)
(* lines of a set hold the same tag or carry the same time.                *)
(***************************************************************************)
DistinctLines(c) ==
    \A s \in SetIds : \A i, j \in LineIds :
        /\ c.sets[s][i].valid
        /\ c.sets[s][j].valid
        /\ i # j
        => /\ c.sets[s][i].tag # c.sets[s][j].tag
           /\ c.sets[s][i].lru # c.sets[s][j].lru

\* No line carries a time the clock next_lru (cache.c:37) has yet to give.
PastTimes(c) ==
    \A s \in SetIds : \A i \in LineIds :
        c.sets[s][i].valid => c.sets[s][i].lru < c.next_lru

\* The three together are inductive.
CacheInv(c) == c \in CacheState /\ DistinctLines(c) /\ PastTimes(c)

\* Each miss brought a block in; it is still there, or was evicted and
\* counted once, dirty or clean.
Accounted(c) ==
    c.miss_count = Cardinality(ValidLines(c))
                      + c.dirty_eviction_count + c.clean_eviction_count
============================================================================
