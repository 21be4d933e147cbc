------------------------------ MODULE LruCache ------------------------------
(***************************************************************************)
(* What cache.c:1-5 promises: "statistics such as number of hits, misses,  *)
(* and evictions, both dirty and clean.  The replacement policy is LRU.    *)
(* The cache is a writeback cache."  No lines, clocks or valid bits: there *)
(* are blocks, and for the blocks of a set the order of their last use.    *)
(***************************************************************************)
EXTENDS Integers, FiniteSets

CONSTANTS
    E,          \* blocks a set can hold
    Blocks,     \* the blocks of memory, with
    SetOf(_)    \* the set each maps to

VARIABLES
    held,       \* the blocks in the cache
    before,     \* <<a, b>>: of one set, and a was last used before b was
    dirty,      \* blocks written since they were brought in
    stats       \* the four counters of the summary

lruVars == <<held, before, dirty, stats>>

LruInit ==
    /\ held = {} /\ before = {} /\ dirty = {}
    /\ stats = [hits |-> 0, misses |-> 0, dirty_evictions |-> 0, clean_evictions |-> 0]

InSet(s) == {b \in held : SetOf(b) = s}
Hit(blk) == blk \in held
Full(s)  == Cardinality(InSet(s)) = E

\* The order once blk is used and the blocks of `now' are held: all those of
\* its set come before it, the others stay as they were.
UsedLast(blk, now) ==
    {p \in before : p[1] \in now /\ p[2] \in now /\ blk \notin {p[1], p[2]}}
    \cup {<<b, blk>> : b \in {c \in now \ {blk} : SetOf(c) = SetOf(blk)}}

LeastRecent(s) == {v \in InSet(s) : \A b \in InSet(s) : <<b, v>> \notin before}

HitStep(blk, write) ==
    /\ Hit(blk)
    /\ UNCHANGED held
    /\ before' = UsedLast(blk, held)
    /\ dirty' = IF write THEN dirty \cup {blk} ELSE dirty
    /\ stats' = [stats EXCEPT !.hits = @ + 1]

FillStep(blk, write) ==
    /\ ~Hit(blk)
    /\ ~Full(SetOf(blk))
    /\ held' = held \cup {blk}
    /\ before' = UsedLast(blk, held \cup {blk})
    /\ dirty' = IF write THEN dirty \cup {blk} ELSE dirty
    /\ stats' = [stats EXCEPT !.misses = @ + 1]

EvictStep(blk, write, victim) ==
    /\ ~Hit(blk)
    /\ Full(SetOf(blk))
    /\ held' = (held \ {victim}) \cup {blk}
    /\ before' = UsedLast(blk, (held \ {victim}) \cup {blk})
    /\ dirty' = (dirty \ {victim}) \cup (IF write THEN {blk} ELSE {})
    /\ stats' = [hits |-> stats.hits, misses |-> stats.misses + 1,
                 dirty_evictions |-> stats.dirty_evictions
                                        + IF victim \in dirty THEN 1 ELSE 0,
                 clean_evictions |-> stats.clean_evictions
                                        + IF victim \in dirty THEN 0 ELSE 1]

Access(blk, write) ==
    \/ HitStep(blk, write)
    \/ FillStep(blk, write)
    \/ \E victim \in LeastRecent(SetOf(blk)) : EvictStep(blk, write, victim)

LruNext == \E blk \in Blocks, write \in BOOLEAN : Access(blk, write)

LruSpec == LruInit /\ [][LruNext]_lruVars
============================================================================
