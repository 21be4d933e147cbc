------------------------------ MODULE CachePair ------------------------------
(***************************************************************************)
(* Two runs of csim on one trace, with the same sets and blocks and        *)
(* different associativities: csim -E E and csim -E ELarge (two processes: *)
(* next_lru and the counters are globals of each).  LRU is a stack policy, *)
(* so adding lines to the sets must never cost a hit or a write-back;      *)
(* FIFO, or code that forgets to refresh a line's time, does not have this *)
(* property, and no test of one geometry can see it.                       *)
(***************************************************************************)
EXTENDS CSim

CONSTANT ELarge     \* the larger associativity

ASSUME PairAssumption == ELarge \in Nat /\ E <= ELarge

Large == INSTANCE Cache WITH E <- ELarge

VARIABLE large

pairVars == <<vars, large>>

PairInit == Init /\ large = Large!create_cache

\* The same reference, in the other program.
LargeToo(addr, operation) == large' = Large!access_data(large, addr, operation)

PairNext ==
    \/ \E addr \in Addrs :
          \/ ReplayStore(addr) /\ LargeToo(addr, "WRITE")
          \/ ReplayLoad(addr) /\ LargeToo(addr, "READ")
          \/ ReplayModifyLoad(addr) /\ LargeToo(addr, "READ")
    \/ ReplayModifyStore /\ LargeToo(pending, "WRITE")

PairSpec == PairInit /\ [][PairNext]_pairVars

---------------------------------------------------------------------------
(* Every block the small cache holds, the large one holds too, and a block *)
(* still to be written back by the small cache has not been by the large   *)
(* one (cache.c:164-171, 219: LRU times refreshed by every hit).           *)
Inclusion ==
    /\ ResidentAddrs(cache) \subseteq Large!ResidentAddrs(large)
    /\ DirtyAddrs(cache) \subseteq Large!DirtyAddrs(large)

(* More lines never cost a hit, nor an eviction that writes back: the       *)
(* summaries (csim.c:159) of two geometries compare.                        *)
MoreLinesNeverHurt ==
    /\ large.hit_count >= cache.hit_count
    /\ large.miss_count <= cache.miss_count
    /\ large.dirty_eviction_count <= cache.dirty_eviction_count
============================================================================
