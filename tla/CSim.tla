-------------------------------- MODULE CSim --------------------------------
(***************************************************************************)
(* src/src/cache/csim.c: the trace-driven cache simulator.  It replays a   *)
(* Valgrind trace against one cache of cache.c; the trace is arbitrary, so *)
(* each step takes any operation at any address of Addrs.                  *)
(*                                                                         *)
(* An 'M' line is a load and a store of the same address in one iteration  *)
(* of the loop.  Each call of access_data is a step, and `pending' holds   *)
(* the store an 'M' has still to make, so that nothing comes between its   *)
(* two calls.                                                              *)
(***************************************************************************)
EXTENDS Cache

CONSTANTS
    Addrs,      \* addresses the trace may name
    MaxRefs     \* bound: references replayed, for TLC only

ASSUME AddrsAssumption == Addrs \subseteq Nat

\* pending is NoAddr, or the address whose store an 'M' has yet to make.
NoAddr == -1

VARIABLES cache, pending

vars == <<cache, pending>>

Init ==
    /\ cache = create_cache
    /\ pending = NoAddr

Bounded == cache.hit_count + cache.miss_count < MaxRefs

ReplayStore(addr) ==
    /\ pending = NoAddr /\ Bounded
    /\ cache' = access_data(cache, addr, "WRITE")
    /\ UNCHANGED pending

ReplayLoad(addr) ==
    /\ pending = NoAddr /\ Bounded
    /\ cache' = access_data(cache, addr, "READ")
    /\ UNCHANGED pending

ReplayModifyLoad(addr) ==
    /\ pending = NoAddr /\ Bounded
    /\ cache' = access_data(cache, addr, "READ")
    /\ pending' = addr

ReplayModifyStore ==
    /\ pending # NoAddr
    /\ cache' = access_data(cache, pending, "WRITE")
    /\ pending' = NoAddr

Next ==
    \/ \E addr \in Addrs :
          ReplayStore(addr) \/ ReplayLoad(addr) \/ ReplayModifyLoad(addr)
    \/ ReplayModifyStore

Spec == Init /\ [][Next]_vars

---------------------------------------------------------------------------
(* The state is well formed: what create_cache builds keeps its types.     *)
TypeOK ==
    /\ cache \in CacheState
    /\ pending \in Addrs \cup {NoAddr}

(* get_line's last match is the only one and select_line's first minimum   *)
(* is the only one (cache.c:133-139, 155-172).                             *)
LinesDistinct == DistinctLines(cache)

\* The clock is ahead of every line, so the next touch is the most recent.
TimesPast == PastTimes(cache)

(***************************************************************************)
(* The summary the tests compare (csim.c:159) accounts for every block:    *)
(* misses = blocks still cached + dirty evictions + clean evictions.       *)
(***************************************************************************)
EvictionAccounting == Accounted(cache)

(***************************************************************************)
(* "The cache is a writeback cache" (cache.c:5): a block that was written  *)
(* stays dirty, whatever hits it, until it is evicted, and that eviction   *)
(* is counted as a dirty one.                                              *)
(***************************************************************************)
DirtyUntilEvicted ==
    [][\A a \in DirtyAddrs(cache) :
          \/ a \in DirtyAddrs(cache)'
          \/ /\ a \notin ResidentAddrs(cache)'
             /\ cache'.dirty_eviction_count = cache.dirty_eviction_count + 1]_vars

---------------------------------------------------------------------------
(* A block is named by the address of its first byte.  Of two valid lines  *)
(* of a set, the one with the earlier lru was last used before the other.  *)
BlockOf(a) == BlockAddr(SetIndex(a), Tag(a))

UsedBefore(c) ==
    UNION {{<<BlockAddr(s, c.sets[s][r[1]].tag), BlockAddr(s, c.sets[s][r[2]].tag)>> :
              r \in {q \in LineIds \X LineIds :
                        /\ c.sets[s][q[1]].valid /\ c.sets[s][q[2]].valid
                        /\ c.sets[s][q[1]].lru < c.sets[s][q[2]].lru}} : s \in SetIds}

Stats(c) ==
    [hits |-> c.hit_count, misses |-> c.miss_count,
     dirty_evictions |-> c.dirty_eviction_count,
     clean_evictions |-> c.clean_eviction_count]

Lru == INSTANCE LruCache
          WITH Blocks <- {BlockOf(a) : a \in Addrs}, SetOf <- SetIndex,
               held <- ResidentAddrs(cache), before <- UsedBefore(cache),
               dirty <- DirtyAddrs(cache), stats <- Stats(cache)

(***************************************************************************)
(* cache.c implements LruCache: valid bits, tags, clocks and the two       *)
(* scans of get_line and select_line evict the least recently used block   *)
(* of a full set and no other, and the four statistics count what happens. *)
(***************************************************************************)
ImplementsLru == Lru!LruSpec
============================================================================
