----------------------------- MODULE CSimProofs -----------------------------
(***************************************************************************)
(* The invariants of the trace simulator, for every geometry, every block  *)
(* content, every set of addresses and every length of trace; then those   *)
(* of two simulators on one trace: adding lines never hurts, since LRU is  *)
(* a stack policy, and cache.c, with its clocks and its scans, keeps to it; *)
(* last, that cache.c implements LruCache.                                 *)
(***************************************************************************)
EXTENDS CachePair, CacheProofs

(* The inductive invariant: the cache keeps its types, has no two valid    *)
(* lines of a set with one tag or one time, its clock is ahead of them,    *)
(* and the statistics account for every block.                             *)
IInv ==
    /\ CacheInv(cache)
    /\ Accounted(cache)
    /\ pending \in Addrs \cup {NoAddr}

LEMMA InitIInv == Init => IInv
<1> SUFFICES ASSUME Init PROVE IInv
  OBVIOUS
<1>1. CacheInv(cache)
  BY CreateCacheInv DEF Init
<1>2. ValidLines(cache) = {}
  BY DEF Init, create_cache, EmptyLine, ValidLines
<1>3. Accounted(cache)
  BY <1>2, FS_EmptySet DEF Init, create_cache, Accounted
<1> QED
  BY <1>1, <1>3 DEF Init, IInv

LEMMA NextIInv == IInv /\ [Next]_vars => IInv'
<1> SUFFICES ASSUME IInv, [Next]_vars PROVE IInv'
  OBVIOUS
<1> USE DEF IInv
<1>1. ASSUME NEW addr \in Nat, NEW op \in Operations,
             cache' = access_data(cache, addr, op)
      PROVE  CacheInv(cache') /\ Accounted(cache')
  BY <1>1, AccessDataInv, AccessDataAccounted
<1>2. ASSUME NEW addr \in Addrs, ReplayStore(addr) PROVE IInv'
  <2>1. CacheInv(cache') /\ Accounted(cache')
    BY <1>1, <1>2, AddrsAssumption DEF ReplayStore, Operations
  <2> QED
    BY <1>2, <2>1 DEF ReplayStore
<1>3. ASSUME NEW addr \in Addrs, ReplayLoad(addr) PROVE IInv'
  <2>1. CacheInv(cache') /\ Accounted(cache')
    BY <1>1, <1>3, AddrsAssumption DEF ReplayLoad, Operations
  <2> QED
    BY <1>3, <2>1 DEF ReplayLoad
<1>4. ASSUME NEW addr \in Addrs, ReplayModifyLoad(addr) PROVE IInv'
  <2>1. CacheInv(cache') /\ Accounted(cache')
    BY <1>1, <1>4, AddrsAssumption DEF ReplayModifyLoad, Operations
  <2> QED
    BY <1>4, <2>1 DEF ReplayModifyLoad
<1>5. ASSUME ReplayModifyStore PROVE IInv'
  <2>1. CacheInv(cache') /\ Accounted(cache')
    BY <1>1, <1>5, AddrsAssumption DEF ReplayModifyStore, Operations
  <2> QED
    BY <1>5, <2>1 DEF ReplayModifyStore
<1>6. ASSUME UNCHANGED vars PROVE IInv'
  BY <1>6 DEF vars
<1> QED
  BY <1>2, <1>3, <1>4, <1>5, <1>6 DEF Next

(* The inductive invariant holds of every behaviour.                       *)
THEOREM Inductive == Spec => []IInv
  BY InitIInv, NextIInv, PTL DEF Spec

(* csim's state keeps its types on every trace.                            *)
THEOREM TypeCorrect == Spec => []TypeOK
<1>1. IInv => TypeOK
  BY DEF IInv, CacheInv, TypeOK
<1> QED
  BY <1>1, Inductive, PTL

(* get_line and select_line are never ambiguous (cache.c:133, 155): a      *)
(* block is in one line of its set at most, and no two lines tie as the    *)
(* least recently used.                                                    *)
THEOREM LinesStayDistinct == Spec => []LinesDistinct
<1>1. IInv => LinesDistinct
  BY DEF IInv, CacheInv, LinesDistinct
<1> QED
  BY <1>1, Inductive, PTL

(* The clock (cache.c:37) never falls behind a line: the line a reference  *)
(* touches is younger than every other, so LRU evicts it last.             *)
THEOREM ClockStaysAhead == Spec => []TimesPast
<1>1. IInv => TimesPast
  BY DEF IInv, CacheInv, TimesPast
<1> QED
  BY <1>1, Inductive, PTL

(* The four numbers of the summary (csim.c:159) account for every block    *)
(* ever brought in.                                                        *)
THEOREM SummaryAccounts == Spec => []EvictionAccounting
<1>1. IInv => EvictionAccounting
  BY DEF IInv, EvictionAccounting
<1> QED
  BY <1>1, Inductive, PTL

---------------------------------------------------------------------------
(* Dirty blocks.                                                           *)

(* A dirty address is the block of a valid dirty line.                     *)
LEMMA DirtyLine ==
    ASSUME NEW c, NEW a \in DirtyAddrs(c)
    PROVE  \E s \in SetIds, i \in LineIds :
              /\ c.sets[s][i].valid /\ c.sets[s][i].dirty
              /\ a = BlockAddr(s, c.sets[s][i].tag)
  BY DEF DirtyAddrs, ValidLines

(* ... and the other way round.                                            *)
LEMMA DirtyLineIs ==
    ASSUME NEW c, NEW s \in SetIds, NEW i \in LineIds,
           c.sets[s][i].valid, c.sets[s][i].dirty
    PROVE  BlockAddr(s, c.sets[s][i].tag) \in DirtyAddrs(c)
<1> DEFINE p == <<s, i>>
<1>1. p \in {q \in ValidLines(c) : c.sets[q[1]][q[2]].dirty}
  BY DEF ValidLines
<1> QED
  BY <1>1 DEF DirtyAddrs

(* A hit leaves every dirty block dirty.                                   *)
LEMMA HitKeepsDirty ==
    ASSUME NEW c, NEW d, SameContent(c, d), NEW a \in DirtyAddrs(c)
    PROVE  a \in DirtyAddrs(d)
<1>1. PICK s \in SetIds, i \in LineIds :
         /\ c.sets[s][i].valid /\ c.sets[s][i].dirty
         /\ a = BlockAddr(s, c.sets[s][i].tag)
  BY DirtyLine
<1>2. /\ d.sets[s][i].valid /\ d.sets[s][i].dirty
      /\ d.sets[s][i].tag = c.sets[s][i].tag
  BY <1>1 DEF SameContent
<1> QED
  BY <1>1, <1>2, DirtyLineIs

(* The addresses of two blocks differ.                                     *)
LEMMA BlockAddrInjective ==
    ASSUME NEW s1 \in SetIds, NEW s2 \in SetIds, NEW t1 \in Nat, NEW t2 \in Nat,
           BlockAddr(s1, t1) = BlockAddr(s2, t2)
    PROVE  s1 = s2 /\ t1 = t2
<1>1. 0 \in 0 .. B - 1
  BY GeometryAssumption
<1>2. /\ SetIndex(BlockAddr(s1, t1) + 0) = s1 /\ Tag(BlockAddr(s1, t1) + 0) = t1
      /\ SetIndex(BlockAddr(s2, t2) + 0) = s2 /\ Tag(BlockAddr(s2, t2) + 0) = t2
  BY <1>1, BlockAddrIs
<1> QED
  BY <1>2

(* What a miss adds to the count of dirty evictions.                       *)
LEMMA MissCountsDirty ==
    ASSUME NEW c \in CacheState, NEW addr \in Nat, NEW op \in Operations,
           NEW data \in Block \cup {NULL},
           Invalid(c.sets[SetIndex(addr)]) = {},
           c.sets[SetIndex(addr)][select_line(c, addr)].dirty
    PROVE  handle_miss(c, addr, op, data).dirty_eviction_count =
              c.dirty_eviction_count + 1
<1> DEFINE full == /\ Invalid(c.sets[SetIndex(addr)]) = {}
                   /\ c.sets[SetIndex(addr)][select_line(c, addr)].dirty
<1>1. handle_miss(c, addr, op, data).dirty_eviction_count =
         c.dirty_eviction_count + IF full THEN 1 ELSE 0
  BY DEF handle_miss, CacheState
<1> QED
  BY <1>1

(* A miss leaves a dirty block in place, or evicts it and counts it.       *)
LEMMA MissKeepsDirty ==
    ASSUME NEW c, CacheInv(c), NEW addr \in Nat, ~Cached(c, addr),
           NEW op \in Operations, NEW a \in DirtyAddrs(c),
           NEW d, d = handle_miss(c, addr, op, NULL)
    PROVE  \/ a \in DirtyAddrs(d)
           \/ /\ a \notin ResidentAddrs(d)
              /\ d.dirty_eviction_count = c.dirty_eviction_count + 1
<1> DEFINE s == SetIndex(addr)
           i == select_line(c, addr)
<1>1. PICK s2 \in SetIds, i2 \in LineIds :
         /\ c.sets[s2][i2].valid /\ c.sets[s2][i2].dirty
         /\ a = BlockAddr(s2, c.sets[s2][i2].tag)
  BY DirtyLine
<1>2. /\ s \in SetIds /\ i \in LineIds
      /\ d.sets[s][i] = [valid |-> TRUE, tag |-> Tag(addr),
                         lru |-> c.next_lru, dirty |-> op = "WRITE",
                         data |-> c.sets[s][i].data]
      /\ \A s3 \in SetIds, i3 \in LineIds :
            s3 # s \/ i3 # i => d.sets[s3][i3] = c.sets[s3][i3]
  BY HandleMissLines
<1>3. CASE s2 # s \/ i2 # i
  <2>1. d.sets[s2][i2] = c.sets[s2][i2]
    BY <1>2, <1>3
  <2> QED
    BY <1>1, <2>1, DirtyLineIs
<1>4. CASE s2 = s /\ i2 = i
  <2>1. c \in CacheState /\ c.sets \in [SetIds -> [LineIds -> CacheLine]]
    BY DEF CacheInv, CacheState
  <2>2. i \notin Invalid(c.sets[s])
    BY <1>1, <1>4 DEF Invalid
  <2>3. Invalid(c.sets[s]) = {}
    BY <2>1, <2>2, SelectLineFinds
  <2>4. d.dirty_eviction_count = c.dirty_eviction_count + 1
    BY <1>1, <1>4, <2>1, <2>3, MissCountsDirty
  <2> HIDE DEF s, i
  <2>5. ASSUME a \in ResidentAddrs(d) PROVE FALSE
    <3>1. PICK s3 \in SetIds, i3 \in LineIds :
             d.sets[s3][i3].valid /\ a = BlockAddr(s3, d.sets[s3][i3].tag)
      BY <2>5 DEF ResidentAddrs, ValidLines
    <3>2. c.sets[s][i].tag \in Nat /\ Tag(addr) \in Nat
      BY <1>2, <2>1, AddressTypes DEF CacheLine
    <3>3. Tag(addr) # c.sets[s][i].tag
      BY <1>1, <1>2, <1>4 DEF Cached, Matches, s
    <3>4. CASE s3 = s /\ i3 = i
      <4>1. d.sets[s3][i3].tag = Tag(addr)
        BY <1>2, <3>4
      <4> QED
        BY <1>1, <1>2, <1>4, <3>1, <3>2, <3>3, <4>1, BlockAddrInjective
    <3>5. CASE s3 # s \/ i3 # i
      <4>1. d.sets[s3][i3] = c.sets[s3][i3]
        BY <1>2, <3>5
      <4>2. c.sets[s3][i3].tag \in Nat
        BY <2>1 DEF CacheLine
      <4>3. s3 = s /\ c.sets[s3][i3].tag = c.sets[s][i].tag
        BY <1>1, <1>2, <1>4, <3>1, <3>2, <4>1, <4>2, BlockAddrInjective
      <4> QED
        BY <1>1, <1>2, <1>4, <3>1, <3>5, <4>1, <4>3 DEF CacheInv, DistinctLines
    <3> QED
      BY <3>4, <3>5
  <2> QED
    BY <2>4, <2>5
<1> QED
  BY <1>3, <1>4

(* One reference keeps each dirty block, or evicts it and counts it.       *)
LEMMA AccessKeepsDirty ==
    ASSUME NEW c, CacheInv(c), NEW addr \in Nat, NEW op \in Operations,
           NEW a \in DirtyAddrs(c), NEW d, d = access_data(c, addr, op)
    PROVE  \/ a \in DirtyAddrs(d)
           \/ /\ a \notin ResidentAddrs(d)
              /\ d.dirty_eviction_count = c.dirty_eviction_count + 1
<1>1. CASE Cached(c, addr)
  <2>1. SameContent(c, d)
    BY <1>1, TouchContent DEF access_data, check_hit
  <2> QED
    BY <2>1, HitKeepsDirty
<1>2. CASE ~Cached(c, addr)
  <2> DEFINE e == [c EXCEPT !.miss_count = c.miss_count + 1]
  <2>1. CacheInv(e) /\ SameContent(c, e) /\ e.sets = c.sets
    BY CountMiss
  <2>2. e.dirty_eviction_count = c.dirty_eviction_count
    BY DEF CacheInv, CacheState
  <2>3. d = handle_miss(e, addr, op, NULL)
    BY <1>2 DEF access_data, check_hit
  <2> HIDE DEF e
  <2>4. a \in DirtyAddrs(e) /\ ~Cached(e, addr)
    BY <1>2, <2>1, HitKeepsDirty DEF Cached, Matches
  <2> QED
    BY <2>1, <2>2, <2>3, <2>4, MissKeepsDirty
<1> QED
  BY <1>1, <1>2

(* "The cache is a writeback cache" (cache.c:5): whatever is replayed, a   *)
(* written block leaves the cache only as a counted dirty eviction.        *)
THEOREM WrittenBlocksStayDirty == Spec => DirtyUntilEvicted
<1> DEFINE Kept == \A a \in DirtyAddrs(cache) :
              \/ a \in DirtyAddrs(cache)'
              \/ /\ a \notin ResidentAddrs(cache)'
                 /\ cache'.dirty_eviction_count = cache.dirty_eviction_count + 1
<1>1. ASSUME NEW addr \in Nat, NEW op \in Operations, IInv,
             cache' = access_data(cache, addr, op)
      PROVE  Kept
  <2> SUFFICES ASSUME NEW a \in DirtyAddrs(cache)
               PROVE  \/ a \in DirtyAddrs(cache')
                      \/ /\ a \notin ResidentAddrs(cache')
                         /\ cache'.dirty_eviction_count =
                               cache.dirty_eviction_count + 1
    OBVIOUS
  <2> QED
    BY <1>1, AccessKeepsDirty DEF IInv
<1> HIDE DEF Kept
<1>2. ASSUME IInv, Next PROVE Kept
  <2>1. ASSUME NEW addr \in Addrs, ReplayStore(addr) PROVE Kept
    BY <1>1, <1>2, <2>1, AddrsAssumption DEF ReplayStore, Operations
  <2>2. ASSUME NEW addr \in Addrs, ReplayLoad(addr) PROVE Kept
    BY <1>1, <1>2, <2>2, AddrsAssumption DEF ReplayLoad, Operations
  <2>3. ASSUME NEW addr \in Addrs, ReplayModifyLoad(addr) PROVE Kept
    BY <1>1, <1>2, <2>3, AddrsAssumption DEF ReplayModifyLoad, Operations
  <2>4. ASSUME ReplayModifyStore PROVE Kept
    BY <1>1, <1>2, <2>4, AddrsAssumption DEF ReplayModifyStore, Operations, IInv
  <2> QED
    BY <1>2, <2>1, <2>2, <2>3, <2>4 DEF Next
<1>3. IInv /\ [Next]_vars => [Kept]_vars
  BY <1>2
<1>4. Spec => [][Kept]_vars
  BY <1>3, Inductive, PTL DEF Spec
<1> QED
  BY <1>4 DEF Kept, DirtyUntilEvicted

(***************************************************************************)
(* Two caches of one trace.                                                *)
(***************************************************************************)

(* What one reference does to a cache of n lines a set.                     *)

\* Line i of addr's set holds addr's block.
Holds(c, addr, i) ==
    /\ c.sets[SetIndex(addr)][i].valid
    /\ c.sets[SetIndex(addr)][i].tag = Tag(addr)

\* Line i becomes the youngest, holding addr's block; the others stay.
Stamped(n, c, d, addr, i) ==
    /\ i \in 0 .. n - 1
    /\ Holds(d, addr, i)
    /\ d.sets[SetIndex(addr)][i].lru = c.next_lru
    /\ d.next_lru = c.next_lru + 1
    /\ \A s \in SetIds, j \in 0 .. n - 1 :
          s # SetIndex(addr) \/ j # i => d.sets[s][j] = c.sets[s][j]

HitAt(n, c, d, addr, op, i) ==
    /\ Stamped(n, c, d, addr, i)
    /\ Holds(c, addr, i)
    /\ d.sets[SetIndex(addr)][i].dirty
          <=> c.sets[SetIndex(addr)][i].dirty \/ op = "WRITE"
    /\ d.hit_count = c.hit_count + 1 /\ d.miss_count = c.miss_count
    /\ d.dirty_eviction_count = c.dirty_eviction_count

MissAt(n, c, d, addr, op, i) ==
    /\ Stamped(n, c, d, addr, i)
    /\ \A j \in 0 .. n - 1 : ~Holds(c, addr, j)
    /\ d.sets[SetIndex(addr)][i].dirty <=> op = "WRITE"
    /\ d.hit_count = c.hit_count /\ d.miss_count = c.miss_count + 1

\* A miss into an invalid line, and one into the oldest of valid ones.
FillAt(n, c, d, addr, op, i) ==
    /\ MissAt(n, c, d, addr, op, i)
    /\ ~c.sets[SetIndex(addr)][i].valid
    /\ d.dirty_eviction_count = c.dirty_eviction_count

EvictAt(n, c, d, addr, op, i) ==
    /\ MissAt(n, c, d, addr, op, i)
    /\ \A j \in 0 .. n - 1 :
          /\ c.sets[SetIndex(addr)][j].valid
          /\ c.sets[SetIndex(addr)][i].lru <= c.sets[SetIndex(addr)][j].lru
    /\ d.dirty_eviction_count =
          c.dirty_eviction_count + IF c.sets[SetIndex(addr)][i].dirty THEN 1 ELSE 0

Reference(n, c, d, addr, op) ==
    \E i \in 0 .. n - 1 : \/ HitAt(n, c, d, addr, op, i)
                          \/ FillAt(n, c, d, addr, op, i)
                          \/ EvictAt(n, c, d, addr, op, i)

\* What CacheInv says that the comparison of two geometries needs.
Ordered(n, c) ==
    /\ c.next_lru \in Nat /\ c.hit_count \in Nat /\ c.miss_count \in Nat
    /\ c.dirty_eviction_count \in Nat
    /\ \A s \in SetIds, i \in 0 .. n - 1 :
          /\ c.sets[s][i].lru \in Nat
          /\ c.sets[s][i].valid => c.sets[s][i].lru < c.next_lru
    /\ \A s \in SetIds : \A i, j \in 0 .. n - 1 :
          c.sets[s][i].valid /\ c.sets[s][j].valid /\ i # j =>
             /\ c.sets[s][i].tag # c.sets[s][j].tag
             /\ c.sets[s][i].lru # c.sets[s][j].lru

---------------------------------------------------------------------------
(* Two geometries: c with E lines a set, d with ELarge.                     *)

\* Line j of d has the block of line i of c, as old, and dirty if that is.
Twin(c, d, s, i, j) ==
    /\ d.sets[s][j].valid
    /\ d.sets[s][j].tag = c.sets[s][i].tag
    /\ d.sets[s][j].lru = c.sets[s][i].lru
    /\ c.sets[s][i].dirty => d.sets[s][j].dirty

\* The clocks agree, each block of c is in d, and a block that only d holds is
\* older than all that c holds, of which there are as many as c has lines.
Covers(c, d) ==
    /\ d.next_lru = c.next_lru
    /\ \A s \in SetIds, i \in LineIds :
          c.sets[s][i].valid => \E j \in 0 .. ELarge - 1 : Twin(c, d, s, i, j)
    /\ \A s \in SetIds, j \in 0 .. ELarge - 1 :
          d.sets[s][j].valid =>
             \/ \E i \in LineIds :
                   c.sets[s][i].valid /\ c.sets[s][i].tag = d.sets[s][j].tag
             \/ \A i \in LineIds :
                   c.sets[s][i].valid /\ d.sets[s][j].lru < c.sets[s][i].lru

\* The lines of d still to be written back, whose block c has written back (or
\* holds clean since).
Owed(c, d) ==
    {p \in SetIds \X (0 .. ELarge - 1) :
        /\ d.sets[p[1]][p[2]].valid /\ d.sets[p[1]][p[2]].dirty
        /\ \A i \in LineIds :
              c.sets[p[1]][i].valid /\ c.sets[p[1]][i].tag = d.sets[p[1]][p[2]].tag
                 => ~c.sets[p[1]][i].dirty}

\* Each of them is paid for by a dirty eviction of c that d has not had.
Paid(c, d) ==
    /\ d.hit_count >= c.hit_count /\ d.miss_count <= c.miss_count
    /\ d.dirty_eviction_count + Cardinality(Owed(c, d)) <= c.dirty_eviction_count

---------------------------------------------------------------------------
(* Each call of access_data is such a reference, in both caches.            *)

LEMMA OrderedSmall ==
    ASSUME NEW c, CacheInv(c) PROVE Ordered(E, c)
<1>1. /\ c.sets \in [SetIds -> [LineIds -> CacheLine]]
      /\ c.next_lru \in Nat /\ c.hit_count \in Nat /\ c.miss_count \in Nat
      /\ c.dirty_eviction_count \in Nat
  BY DEF CacheInv, CacheState
<1>2. \A s \in SetIds, i \in LineIds : c.sets[s][i].lru \in Nat
  BY <1>1 DEF CacheLine
<1>3. DistinctLines(c) /\ PastTimes(c)
  BY DEF CacheInv
<1> QED
  BY <1>1, <1>2, <1>3 DEF Ordered, LineIds, DistinctLines, PastTimes

\* d is c with line i of addr's set replaced by one that holds addr's block, and
\* the clock gone on.
Replaces(n, c, d, addr, i, line) ==
    /\ n \in Nat /\ i \in 0 .. n - 1 /\ line \in CacheLine
    /\ c.sets \in [SetIds -> [0 .. n - 1 -> CacheLine]]
    /\ line.valid /\ line.tag = Tag(addr) /\ line.lru = c.next_lru
    /\ d.sets = PutLine(c.sets, SetIndex(addr), i, line)
    /\ d.next_lru = c.next_lru + 1

(* It stamps that line.                                                     *)
LEMMA LineStamped ==
    ASSUME NEW n, NEW c, NEW d, NEW addr \in Nat, NEW i, NEW line,
           Replaces(n, c, d, addr, i, line)
    PROVE  Stamped(n, c, d, addr, i) /\ d.sets[SetIndex(addr)][i] = line
<1> DEFINE s == SetIndex(addr)
<1>1. s \in SetIds /\ n \in Nat /\ i \in 0 .. n - 1
  BY AddressTypes DEF Replaces
<1>2. /\ d.sets = [c.sets EXCEPT ![s] = [c.sets[s] EXCEPT ![i] = line]]
      /\ c.sets \in [SetIds -> [0 .. n - 1 -> CacheLine]] /\ line \in CacheLine
  BY DEF PutLine, Replaces
<1> HIDE DEF s
<1>3. d.sets[s][i] = line
  BY <1>1, <1>2
<1>4. \A s2 \in SetIds, j \in 0 .. n - 1 :
         s2 # s \/ j # i => d.sets[s2][j] = c.sets[s2][j]
  BY <1>1, <1>2
<1>5. Holds(d, addr, i) /\ d.sets[s][i].lru = c.next_lru
  BY <1>3 DEF Holds, s, Replaces
<1>6. d.next_lru = c.next_lru + 1
  BY DEF Replaces
<1> QED
  BY <1>1, <1>3, <1>4, <1>5, <1>6 DEF Stamped, s

(* The line a hit leaves.                                                   *)
LEMMA TouchedLine ==
    ASSUME NEW old \in CacheLine, NEW op \in Operations, NEW t \in Nat
    PROVE  LET line == [old EXCEPT !.dirty = old.dirty \/ op # "READ", !.lru = t]
           IN  /\ line \in CacheLine
               /\ line.tag = old.tag /\ line.valid = old.valid /\ line.lru = t
               /\ line.dirty <=> old.dirty \/ op = "WRITE"
<1> DEFINE line == [old EXCEPT !.dirty = old.dirty \/ op # "READ", !.lru = t]
<1>1. /\ line \in CacheLine
      /\ line.tag = old.tag /\ line.valid = old.valid /\ line.lru = t
  BY DEF CacheLine
<1>2. line.dirty = (old.dirty \/ op # "READ")
  BY Zenon DEF CacheLine
<1>3. op # "READ" <=> op = "WRITE"
  BY DEF Operations
<1> HIDE DEF line
<1>4. line.dirty <=> old.dirty \/ op = "WRITE"
  BY <1>2, <1>3, Zenon
<1> QED
  BY <1>1, <1>4, Zenon DEF line

LEMMA SmallHit ==
    ASSUME NEW c, CacheInv(c), NEW addr \in Nat, NEW op \in Operations,
           Cached(c, addr)
    PROVE  HitAt(E, c, Touch(c, addr, op), addr, op, get_line(c, addr))
<1> DEFINE s    == SetIndex(addr)
           i    == get_line(c, addr)
           old  == c.sets[s][i]
           line == [old EXCEPT !.dirty = old.dirty \/ op # "READ",
                               !.lru = c.next_lru]
           d    == Touch(c, addr, op)
<1>1. s \in SetIds /\ i \in LineIds /\ c \in CacheState /\ Holds(c, addr, i)
  BY AddressTypes, GetLineFinds DEF Matches, CacheInv, Holds
<1>2. old \in CacheLine /\ c.next_lru \in Nat /\ old.valid /\ old.tag = Tag(addr)
  BY <1>1 DEF CacheState, Holds
<1>3. /\ line \in CacheLine
      /\ line.tag = old.tag /\ line.valid = old.valid /\ line.lru = c.next_lru
      /\ line.dirty <=> old.dirty \/ op = "WRITE"
  BY <1>2, TouchedLine
<1>4. /\ d.sets = PutLine(c.sets, s, i, line)
      /\ d.next_lru = c.next_lru + 1
      /\ d.hit_count = c.hit_count + 1 /\ d.miss_count = c.miss_count
      /\ d.dirty_eviction_count = c.dirty_eviction_count
  BY <1>1 DEF Touch, CacheState
<1>5. c.sets \in [SetIds -> [0 .. E - 1 -> CacheLine]] /\ i \in 0 .. E - 1 /\ E \in Nat
  BY <1>1, GeometryAssumption DEF CacheState, LineIds
<1> HIDE DEF i, old, line, d
<1>6. Replaces(E, c, d, addr, i, line)
  <2>1. line.valid
    BY <1>2, <1>3, Zenon
  <2>2. line.tag = Tag(addr) /\ line \in CacheLine /\ line.lru = c.next_lru
    BY <1>2, <1>3
  <2> QED
    BY <1>4, <1>5, <2>1, <2>2 DEF Replaces
<1>7. d.sets[s][i].dirty <=> c.sets[s][i].dirty \/ op = "WRITE"
  <2>1. d.sets[s][i] = line
    BY <1>6, LineStamped
  <2> QED
    BY <1>3, <2>1, Zenon DEF old
<1>8. Stamped(E, c, d, addr, i)
  BY <1>6, LineStamped
<1> QED
  BY <1>1, <1>4, <1>7, <1>8, Zenon DEF HitAt, d, i, s
(* A miss of access_data, in a cache of n lines: it fills line i, or evicts *)
(* it.                                                                      *)
MissesAt(n, c, d, addr, op, i) ==
    FillAt(n, c, d, addr, op, i) \/ EvictAt(n, c, d, addr, op, i)

LEMMA SmallMiss ==
    ASSUME NEW c, CacheInv(c), NEW addr \in Nat, NEW op \in Operations,
           ~Cached(c, addr)
    PROVE  \E i \in 0 .. E - 1 : MissesAt(E, c, access_data(c, addr, op), addr, op, i)
<1> DEFINE e    == [c EXCEPT !.miss_count = c.miss_count + 1]
           s    == SetIndex(addr)
           i    == select_line(e, addr)
           old  == e.sets[s][i]
           line == [valid |-> TRUE, tag |-> Tag(addr), lru |-> e.next_lru,
                    dirty |-> op = "WRITE", data |-> old.data]
           full == Invalid(c.sets[s]) = {}
           d    == handle_miss(e, addr, op, NULL)
<1>1. /\ c \in CacheState /\ s \in SetIds /\ Tag(addr) \in Nat
      /\ c.sets \in [SetIds -> [LineIds -> CacheLine]]
      /\ c.next_lru \in Nat /\ c.dirty_eviction_count \in Nat
  BY AddressTypes DEF CacheInv, CacheState
<1>2. /\ e \in CacheState /\ e.sets = c.sets /\ e.next_lru = c.next_lru
      /\ e.hit_count = c.hit_count /\ e.miss_count = c.miss_count + 1
      /\ e.dirty_eviction_count = c.dirty_eviction_count
  BY <1>1 DEF CacheState
<1>3. d = access_data(c, addr, op)
  BY DEF access_data, check_hit
<1>4. /\ i \in LineIds
      /\ ~full => i \in Invalid(c.sets[s])
      /\ full => i \in Oldest(c.sets[s])
  BY <1>2, SelectLineFinds
<1>5. old \in CacheLine
  BY <1>1, <1>2, <1>4
<1>6. /\ d.sets = PutLine(e.sets, s, i, line) /\ d.next_lru = e.next_lru + 1
      /\ d.hit_count = e.hit_count /\ d.miss_count = e.miss_count
      /\ d.dirty_eviction_count =
            e.dirty_eviction_count + IF full /\ old.dirty THEN 1 ELSE 0
  BY <1>2 DEF handle_miss, CacheState
<1>7. /\ line \in CacheLine /\ line.valid
      /\ line.tag = Tag(addr) /\ line.lru = c.next_lru
  BY <1>1, <1>2, <1>5 DEF CacheLine
<1>8. line.dirty <=> op = "WRITE"
  BY Zenon
<1>9. \A j \in 0 .. E - 1 : ~Holds(c, addr, j)
  BY DEF Cached, Matches, Holds, LineIds
<1>10. E \in Nat /\ LineIds = 0 .. E - 1
  BY GeometryAssumption DEF LineIds
<1> HIDE DEF e, i, line, d, old, s
<1>11. Replaces(E, c, d, addr, i, line)
  BY <1>1, <1>2, <1>4, <1>6, <1>7, <1>10 DEF Replaces, s
<1>12. Stamped(E, c, d, addr, i) /\ d.sets[s][i] = line
  BY <1>11, LineStamped DEF s
<1>13. d.sets[s][i].dirty <=> op = "WRITE"
  BY <1>8, <1>12, Zenon
<1>14. d.hit_count = c.hit_count /\ d.miss_count = c.miss_count + 1
  BY <1>2, <1>6
<1>15. MissAt(E, c, d, addr, op, i)
  BY <1>9, <1>12, <1>13, <1>14 DEF MissAt, s
<1>16. CASE ~full
  <2>1. ~c.sets[s][i].valid
    BY <1>4, <1>16 DEF Invalid
  <2>2. d.dirty_eviction_count = c.dirty_eviction_count
    BY <1>1, <1>2, <1>6, <1>16
  <2>3. FillAt(E, c, d, addr, op, i)
    BY <1>15, <2>1, <2>2 DEF FillAt, s
  <2> QED
    BY <1>3, <1>4, <1>10, <2>3 DEF MissesAt
<1>17. CASE full
  <2>1. \A j \in 0 .. E - 1 :
           c.sets[s][j].valid /\ c.sets[s][i].lru <= c.sets[s][j].lru
    BY <1>4, <1>10, <1>17 DEF Invalid, Oldest
  <2>2. d.dirty_eviction_count =
           c.dirty_eviction_count + IF c.sets[s][i].dirty THEN 1 ELSE 0
    BY <1>2, <1>6, <1>17 DEF old
  <2>3. EvictAt(E, c, d, addr, op, i)
    BY <1>15, <2>1, <2>2 DEF EvictAt, s
  <2> QED
    BY <1>3, <1>4, <1>10, <2>3 DEF MissesAt
<1> QED
  BY <1>16, <1>17
---------------------------------------------------------------------------
(* The same of the other cache.                                             *)

(* The two caches number their sets and blocks alike.                       *)
LEMMA SameNumbers ==
    /\ \A addr : Large!SetIndex(addr) = SetIndex(addr) /\ Large!Tag(addr) = Tag(addr)
    /\ Large!SetIds = SetIds /\ Large!CacheLine = CacheLine
    /\ Large!LineIds = 0 .. ELarge - 1 /\ ELarge \in Nat \ {0}
  BY GeometryAssumption, PairAssumption
  DEF SetIndex, Tag, SetIds, CacheLine, Large!SetIndex, Large!Tag, Large!SetIds,
      Large!CacheLine, Large!LineIds

LEMMA LargeState ==
    Large!CacheState =
       [sets : [SetIds -> [0 .. ELarge - 1 -> CacheLine]],
        next_lru : Nat, hit_count : Nat, miss_count : Nat,
        dirty_eviction_count : Nat, clean_eviction_count : Nat]
  BY SameNumbers DEF Large!CacheState

LEMMA LargeUpdate ==
    ASSUME NEW c \in Large!CacheState,
           NEW sets \in [SetIds -> [0 .. ELarge - 1 -> CacheLine]],
           NEW t \in Nat, NEW h \in Nat, NEW m \in Nat, NEW nd \in Nat, NEW nc \in Nat
    PROVE  /\ [c EXCEPT !.sets = sets, !.next_lru = t, !.hit_count = h]
                 \in Large!CacheState
           /\ [c EXCEPT !.miss_count = m] \in Large!CacheState
           /\ [c EXCEPT !.sets = sets, !.next_lru = t,
                        !.dirty_eviction_count = nd,
                        !.clean_eviction_count = nc] \in Large!CacheState
  BY LargeState

LEMMA LargeGetLine ==
    ASSUME NEW c, NEW addr, Large!Cached(c, addr)
    PROVE  /\ Large!get_line(c, addr) \in 0 .. ELarge - 1
           /\ Holds(c, addr, Large!get_line(c, addr))
<1>1. /\ ELarge - 1 \in Nat
      /\ Large!Matches(c, addr) \in SUBSET (0 .. ELarge - 1)
  BY SameNumbers DEF Large!Matches
<1>2. Large!get_line(c, addr) \in Large!Matches(c, addr)
  BY <1>1, MaxProperty DEF Large!Cached, Large!get_line, Large!Max, Max
<1> QED
  BY <1>1, <1>2, SameNumbers DEF Large!Matches, Holds

LEMMA LargeSelect ==
    ASSUME NEW c \in Large!CacheState, NEW addr \in Nat
    PROVE  LET lines == c.sets[SetIndex(addr)]
               i     == Large!select_line(c, addr)
           IN  /\ i \in 0 .. ELarge - 1
               /\ Large!Invalid(lines) # {} => i \in Large!Invalid(lines)
               /\ Large!Invalid(lines) = {} => i \in Large!Oldest(lines)
<1> DEFINE lines == c.sets[SetIndex(addr)]
           L     == 0 .. ELarge - 1
<1>1. lines \in [L -> CacheLine]
  BY AddressTypes, SameNumbers DEF Large!CacheState
<1>2. /\ L \in SUBSET Nat /\ 0 \in L /\ Large!LineIds = L
      /\ Large!SetIndex(addr) = SetIndex(addr)
  BY SameNumbers
<1>3. /\ Large!Invalid(lines) \in SUBSET L /\ Large!Oldest(lines) \in SUBSET L
      /\ Large!Invalid(lines) \in SUBSET Nat /\ Large!Oldest(lines) \in SUBSET Nat
  BY <1>2 DEF Large!Invalid, Large!Oldest
<1>4. Large!select_line(c, addr) =
         IF Large!Invalid(lines) # {} THEN Min(Large!Invalid(lines))
         ELSE Min(Large!Oldest(lines))
  BY <1>2 DEF Large!select_line, Large!Min, Min
<1>5. CASE Large!Invalid(lines) # {}
  <2>1. Min(Large!Invalid(lines)) \in Large!Invalid(lines)
    BY <1>3, <1>5, MinProperty
  <2> QED
    BY <1>3, <1>4, <1>5, <2>1
<1>6. CASE Large!Invalid(lines) = {}
  <2> DEFINE times == {lines[i].lru : i \in L}
  <2>1. times \in SUBSET Nat /\ times # {}
    BY <1>1, <1>2 DEF CacheLine
  <2>2. PICK t \in times : \A u \in times : t <= u
    BY <2>1, MinExists
  <2>3. Large!Oldest(lines) # {}
    BY <1>2, <2>2 DEF Large!Oldest
  <2>4. Min(Large!Oldest(lines)) \in Large!Oldest(lines)
    BY <1>3, <2>3, MinProperty
  <2> QED
    BY <1>3, <1>4, <1>6, <2>4
<1> QED
  BY <1>5, <1>6

LEMMA LargeHit ==
    ASSUME NEW c \in Large!CacheState, NEW addr \in Nat, NEW op \in Operations,
           Large!Cached(c, addr)
    PROVE  /\ HitAt(ELarge, c, Large!access_data(c, addr, op), addr, op,
                    Large!get_line(c, addr))
           /\ Large!access_data(c, addr, op) \in Large!CacheState
<1> DEFINE s    == SetIndex(addr)
           i    == Large!get_line(c, addr)
           old  == c.sets[s][i]
           line == [old EXCEPT !.dirty = old.dirty \/ op # "READ",
                               !.lru = c.next_lru]
           d    == Large!access_data(c, addr, op)
<1>1. s \in SetIds /\ i \in 0 .. ELarge - 1 /\ Holds(c, addr, i)
  BY AddressTypes, LargeGetLine
<1>2. /\ c.sets \in [SetIds -> [0 .. ELarge - 1 -> CacheLine]]
      /\ c.next_lru \in Nat /\ c.hit_count \in Nat /\ ELarge \in Nat
  BY SameNumbers DEF Large!CacheState
<1>3. old \in CacheLine /\ old.valid /\ old.tag = Tag(addr)
  BY <1>1, <1>2 DEF Holds
<1>4. /\ line \in CacheLine
      /\ line.tag = old.tag /\ line.valid = old.valid /\ line.lru = c.next_lru
      /\ line.dirty <=> old.dirty \/ op = "WRITE"
  BY <1>2, <1>3, TouchedLine
<1>5. d = [c EXCEPT !.sets = PutLine(c.sets, s, i, line),
                    !.next_lru = c.next_lru + 1,
                    !.hit_count = c.hit_count + 1]
  BY SameNumbers
  DEF Large!access_data, Large!check_hit, Large!Touch, Large!PutLine, PutLine
<1> HIDE DEF s, i, old, line, d
<1>6. /\ d.sets = PutLine(c.sets, s, i, line)
      /\ d.next_lru = c.next_lru + 1
      /\ d.hit_count = c.hit_count + 1 /\ d.miss_count = c.miss_count
      /\ d.dirty_eviction_count = c.dirty_eviction_count
  BY <1>5 DEF Large!CacheState
<1>7. PutLine(c.sets, s, i, line) \in [SetIds -> [0 .. ELarge - 1 -> CacheLine]]
  BY <1>1, <1>2, <1>4 DEF PutLine
<1>8. d \in Large!CacheState
  <2> DEFINE sets == PutLine(c.sets, s, i, line)
  <2>1. sets \in [SetIds -> [0 .. ELarge - 1 -> CacheLine]]
    BY <1>7
  <2>2. d = [c EXCEPT !.sets = sets, !.next_lru = c.next_lru + 1,
                      !.hit_count = c.hit_count + 1]
    BY <1>5
  <2> HIDE DEF sets
  <2>3. c.next_lru + 1 \in Nat /\ c.hit_count + 1 \in Nat
    BY <1>2
  <2> QED
    BY <2>1, <2>2, <2>3, LargeUpdate
<1>9. Replaces(ELarge, c, d, addr, i, line)
  <2>1. line.valid
    BY <1>3, <1>4, Zenon
  <2>2. line.tag = Tag(addr) /\ line \in CacheLine /\ line.lru = c.next_lru
    BY <1>3, <1>4
  <2> QED
    BY <1>1, <1>2, <1>6, <2>1, <2>2 DEF Replaces, s
<1>10. Stamped(ELarge, c, d, addr, i) /\ d.sets[s][i] = line
  BY <1>9, LineStamped DEF s
<1>11. d.sets[s][i].dirty <=> c.sets[s][i].dirty \/ op = "WRITE"
  BY <1>4, <1>10, Zenon DEF old
<1> QED
  BY <1>1, <1>6, <1>8, <1>10, <1>11, Zenon DEF HitAt, d, i, s

LEMMA LargeMiss ==
    ASSUME NEW c \in Large!CacheState, NEW addr \in Nat, NEW op \in Operations,
           ~Large!Cached(c, addr)
    PROVE  /\ \E i \in 0 .. ELarge - 1 :
                 MissesAt(ELarge, c, Large!access_data(c, addr, op), addr, op, i)
           /\ Large!access_data(c, addr, op) \in Large!CacheState
<1> DEFINE e    == [c EXCEPT !.miss_count = c.miss_count + 1]
           s    == SetIndex(addr)
           i    == Large!select_line(e, addr)
           old  == e.sets[s][i]
           line == [valid |-> TRUE, tag |-> Tag(addr), lru |-> e.next_lru,
                    dirty |-> op = "WRITE", data |-> old.data]
           full == Large!Invalid(c.sets[s]) = {}
           nd   == e.dirty_eviction_count + IF full /\ old.dirty THEN 1 ELSE 0
           nc   == e.clean_eviction_count + IF full /\ ~old.dirty THEN 1 ELSE 0
           d    == Large!access_data(c, addr, op)
<1>1. /\ s \in SetIds /\ Tag(addr) \in Nat
      /\ c.sets \in [SetIds -> [0 .. ELarge - 1 -> CacheLine]]
      /\ c.next_lru \in Nat /\ c.dirty_eviction_count \in Nat
      /\ c.miss_count \in Nat /\ c.clean_eviction_count \in Nat
  BY AddressTypes, LargeState
<1>2. /\ e.sets = c.sets /\ e.next_lru = c.next_lru
      /\ e.hit_count = c.hit_count /\ e.miss_count = c.miss_count + 1
      /\ e.dirty_eviction_count = c.dirty_eviction_count
      /\ e.clean_eviction_count = c.clean_eviction_count
  BY LargeState
<1>3. e \in Large!CacheState
  <2>1. c.miss_count + 1 \in Nat
    BY <1>1
  <2>2. PICK m \in Nat : m = c.miss_count + 1
    BY <2>1
  <2>3. e = [c EXCEPT !.miss_count = m]
    BY <2>2
  <2> QED
    BY <2>3, LargeState
<1>4. /\ i \in 0 .. ELarge - 1
      /\ ~full => i \in Large!Invalid(c.sets[s])
      /\ full => i \in Large!Oldest(c.sets[s])
  BY <1>2, <1>3, LargeSelect
<1>5. old \in CacheLine
  BY <1>1, <1>2, <1>4
<1>6. d = [e EXCEPT !.sets = PutLine(e.sets, s, i, line), !.next_lru = e.next_lru + 1,
                    !.dirty_eviction_count = nd, !.clean_eviction_count = nc]
  BY <1>2, <1>3, SameNumbers, LargeState
  DEF Large!access_data, Large!check_hit, Large!handle_miss, Large!PutLine, PutLine
<1>7. /\ line \in CacheLine /\ line.valid
      /\ line.tag = Tag(addr) /\ line.lru = c.next_lru
  BY <1>1, <1>2, <1>5 DEF CacheLine
<1>8. line.dirty <=> op = "WRITE"
  BY Zenon
<1>9. \A j \in 0 .. ELarge - 1 : ~Holds(c, addr, j)
  BY SameNumbers DEF Large!Cached, Large!Matches, Holds
<1>10. ELarge \in Nat /\ Large!LineIds = 0 .. ELarge - 1
  BY SameNumbers
<1>11. nd \in Nat /\ nc \in Nat /\ e.next_lru + 1 \in Nat
  BY <1>1, <1>2
<1> HIDE DEF e, i, line, d, old, s
<1>12. PutLine(e.sets, s, i, line) \in [SetIds -> [0 .. ELarge - 1 -> CacheLine]]
  BY <1>1, <1>2, <1>4, <1>7 DEF PutLine
<1>13. d \in Large!CacheState
  <2> HIDE DEF nd, nc
  <2> QED
    BY <1>3, <1>6, <1>11, <1>12, LargeUpdate
<1>14. /\ d.sets = PutLine(e.sets, s, i, line) /\ d.next_lru = e.next_lru + 1
       /\ d.hit_count = e.hit_count /\ d.miss_count = e.miss_count
       /\ d.dirty_eviction_count = nd
  <2> HIDE DEF nd, nc
  <2> QED
    BY <1>3, <1>6, LargeState
<1>15. Replaces(ELarge, c, d, addr, i, line)
  BY <1>1, <1>2, <1>4, <1>7, <1>10, <1>14 DEF Replaces, s
<1>16. Stamped(ELarge, c, d, addr, i) /\ d.sets[s][i] = line
  BY <1>15, LineStamped DEF s
<1>17. d.sets[s][i].dirty <=> op = "WRITE"
  BY <1>8, <1>16, Zenon
<1>18. d.hit_count = c.hit_count /\ d.miss_count = c.miss_count + 1
  BY <1>2, <1>14
<1>19. MissAt(ELarge, c, d, addr, op, i)
  BY <1>9, <1>16, <1>17, <1>18 DEF MissAt, s
<1>20. CASE ~full
  <2>1. ~c.sets[s][i].valid
    BY <1>4, <1>20 DEF Large!Invalid
  <2>2. d.dirty_eviction_count = c.dirty_eviction_count
    BY <1>1, <1>2, <1>14, <1>20
  <2>3. FillAt(ELarge, c, d, addr, op, i)
    BY <1>19, <2>1, <2>2 DEF FillAt, s
  <2> QED
    BY <1>4, <1>13, <2>3 DEF MissesAt, d
<1>21. CASE full
  <2>1. \A j \in 0 .. ELarge - 1 :
           c.sets[s][j].valid /\ c.sets[s][i].lru <= c.sets[s][j].lru
    BY <1>4, <1>10, <1>21 DEF Large!Invalid, Large!Oldest
  <2>2. d.dirty_eviction_count =
           c.dirty_eviction_count + IF c.sets[s][i].dirty THEN 1 ELSE 0
    BY <1>2, <1>14, <1>21 DEF old
  <2>3. EvictAt(ELarge, c, d, addr, op, i)
    BY <1>19, <2>1, <2>2 DEF EvictAt, s
  <2> QED
    BY <1>4, <1>13, <2>3 DEF MissesAt, d
<1> QED
  BY <1>20, <1>21

(* The call, as one of the three.                                           *)
LEMMA SmallRefers ==
    ASSUME NEW c, CacheInv(c), NEW addr \in Nat, NEW op \in Operations
    PROVE  Reference(E, c, access_data(c, addr, op), addr, op)
<1>1. CASE Cached(c, addr)
  <2>1. /\ get_line(c, addr) \in 0 .. E - 1
        /\ access_data(c, addr, op) = Touch(c, addr, op)
    BY <1>1, GetLineFinds DEF Matches, LineIds, access_data, check_hit
  <2>2. HitAt(E, c, access_data(c, addr, op), addr, op, get_line(c, addr))
    BY <1>1, <2>1, SmallHit
  <2> QED
    BY <2>1, <2>2 DEF Reference
<1>2. CASE ~Cached(c, addr)
  BY <1>2, SmallMiss DEF Reference, MissesAt
<1> QED
  BY <1>1, <1>2

LEMMA LargeRefers ==
    ASSUME NEW c \in Large!CacheState, NEW addr \in Nat, NEW op \in Operations
    PROVE  /\ Reference(ELarge, c, Large!access_data(c, addr, op), addr, op)
           /\ Large!access_data(c, addr, op) \in Large!CacheState
<1>1. CASE Large!Cached(c, addr)
  <2>1. Large!get_line(c, addr) \in 0 .. ELarge - 1
    BY <1>1, LargeGetLine
  <2> QED
    BY <1>1, <2>1, LargeHit DEF Reference
<1>2. CASE ~Large!Cached(c, addr)
  BY <1>2, LargeMiss DEF Reference, MissesAt
<1> QED
  BY <1>1, <1>2

---------------------------------------------------------------------------
(* One reference keeps a cache in order.                                    *)

(* No other line of the set holds the block referred to.                    *)
LEMMA NoOther ==
    ASSUME NEW n, NEW c, NEW d, NEW addr \in Nat, NEW op, NEW i, Ordered(n, c),
           HitAt(n, c, d, addr, op, i) \/ MissesAt(n, c, d, addr, op, i)
    PROVE  /\ Stamped(n, c, d, addr, i) /\ i \in 0 .. n - 1
           /\ \A j \in 0 .. n - 1 : j # i => ~Holds(c, addr, j)
<1>1. SetIndex(addr) \in SetIds
  BY AddressTypes
<1>2. CASE HitAt(n, c, d, addr, op, i)
  BY <1>1, <1>2 DEF HitAt, Stamped, Holds, Ordered
<1>3. CASE MissesAt(n, c, d, addr, op, i)
  BY <1>3 DEF MissesAt, FillAt, EvictAt, MissAt, Stamped
<1> QED
  BY <1>2, <1>3

LEMMA OrderKept ==
    ASSUME NEW n, NEW c, NEW d, NEW addr \in Nat, NEW op, NEW i, Ordered(n, c),
           HitAt(n, c, d, addr, op, i) \/ MissesAt(n, c, d, addr, op, i)
    PROVE  Ordered(n, d)
<1> DEFINE s == SetIndex(addr)
<1>1. s \in SetIds
  BY AddressTypes
<1>2. /\ Stamped(n, c, d, addr, i) /\ i \in 0 .. n - 1
      /\ \A j \in 0 .. n - 1 : j # i => ~Holds(c, addr, j)
  BY NoOther
<1>3. /\ d.sets[s][i].valid /\ d.sets[s][i].tag = Tag(addr)
      /\ d.sets[s][i].lru = c.next_lru /\ d.next_lru = c.next_lru + 1
      /\ \A s2 \in SetIds, j \in 0 .. n - 1 :
            s2 # s \/ j # i => d.sets[s2][j] = c.sets[s2][j]
  BY <1>2 DEF Stamped, Holds
<1>4. /\ d.next_lru \in Nat /\ d.hit_count \in Nat /\ d.miss_count \in Nat
      /\ d.dirty_eviction_count \in Nat
  BY <1>3 DEF Ordered, HitAt, MissesAt, FillAt, EvictAt, MissAt
<1> HIDE DEF s
<1>5. ASSUME NEW s2 \in SetIds, NEW j \in 0 .. n - 1
      PROVE  /\ d.sets[s2][j].lru \in Nat
             /\ d.sets[s2][j].valid => d.sets[s2][j].lru < d.next_lru
  <2>1. CASE s2 = s /\ j = i
    BY <1>3, <2>1 DEF Ordered
  <2>2. CASE s2 # s \/ j # i
    <3>1. d.sets[s2][j] = c.sets[s2][j]
      BY <1>3, <2>2
    <3> QED
      BY <1>3, <3>1 DEF Ordered
  <2> QED
    BY <2>1, <2>2
<1>6. ASSUME NEW s2 \in SetIds, NEW j \in 0 .. n - 1, NEW k \in 0 .. n - 1,
             d.sets[s2][j].valid, d.sets[s2][k].valid, j # k
      PROVE  /\ d.sets[s2][j].tag # d.sets[s2][k].tag
             /\ d.sets[s2][j].lru # d.sets[s2][k].lru
  <2>1. ASSUME NEW l \in 0 .. n - 1, s2 = s, l # i, d.sets[s2][l].valid
        PROVE  d.sets[s2][l].tag # Tag(addr) /\ d.sets[s2][l].lru # c.next_lru
    <3>1. d.sets[s2][l] = c.sets[s2][l]
      BY <1>3, <2>1
    <3>2. c.sets[s2][l].lru \in Nat /\ c.sets[s2][l].lru < c.next_lru
      BY <2>1, <3>1 DEF Ordered
    <3> QED
      BY <1>2, <2>1, <3>1, <3>2 DEF Holds, Ordered, s
  <2>2. CASE s2 = s /\ j = i
    BY <1>3, <1>6, <2>1, <2>2
  <2>3. CASE s2 = s /\ k = i
    BY <1>3, <1>6, <2>1, <2>3
  <2>4. CASE s2 # s \/ (j # i /\ k # i)
    <3>1. d.sets[s2][j] = c.sets[s2][j] /\ d.sets[s2][k] = c.sets[s2][k]
      BY <1>3, <2>4
    <3> QED
      BY <1>6, <3>1 DEF Ordered
  <2> QED
    BY <2>2, <2>3, <2>4
<1> QED
  BY <1>4, <1>5, <1>6 DEF Ordered

---------------------------------------------------------------------------
(* One reference to both caches.                                            *)

\* It stamps line i of c and line j of d.
Both(c, c2, d, d2, addr, op, i, j) ==
    /\ Ordered(E, c) /\ Ordered(ELarge, d) /\ Covers(c, d)
    /\ HitAt(E, c, c2, addr, op, i) \/ MissesAt(E, c, c2, addr, op, i)
    /\ HitAt(ELarge, d, d2, addr, op, j) \/ MissesAt(ELarge, d, d2, addr, op, j)

(* What hits the small cache hits the large one.                            *)
LEMMA HitsToo ==
    ASSUME NEW c, NEW c2, NEW d, NEW d2, NEW addr \in Nat, NEW op, NEW i, NEW j,
           Both(c, c2, d, d2, addr, op, i, j), HitAt(E, c, c2, addr, op, i)
    PROVE  HitAt(ELarge, d, d2, addr, op, j)
<1> DEFINE s == SetIndex(addr)
<1>1. s \in SetIds /\ i \in LineIds
  BY AddressTypes DEF HitAt, Stamped, LineIds
<1>2. c.sets[s][i].valid /\ c.sets[s][i].tag = Tag(addr)
  BY DEF HitAt, Holds
<1>3. PICK k \in 0 .. ELarge - 1 : Twin(c, d, s, i, k)
  BY <1>1, <1>2 DEF Both, Covers
<1>4. Holds(d, addr, k)
  BY <1>2, <1>3 DEF Holds, Twin
<1>5. ~MissesAt(ELarge, d, d2, addr, op, j)
  BY <1>4 DEF MissesAt, FillAt, EvictAt, MissAt
<1> QED
  BY <1>5 DEF Both

(* While the small cache has room in a set, so has the large one: they hold *)
(* the same blocks.                                                         *)
LEMMA RoomToo ==
    ASSUME NEW c, NEW d, NEW s \in SetIds, Ordered(ELarge, d), Covers(c, d),
           NEW i \in LineIds, ~c.sets[s][i].valid
    PROVE  \E j \in 0 .. ELarge - 1 : ~d.sets[s][j].valid
<1> SUFFICES ASSUME \A j \in 0 .. ELarge - 1 : d.sets[s][j].valid PROVE FALSE
  OBVIOUS
<1> DEFINE L == 0 .. ELarge - 1
           V == {k \in LineIds : c.sets[s][k].valid}
           f == [k \in V |-> CHOOSE j \in L : d.sets[s][j].tag = c.sets[s][k].tag]
<1>1. \A k \in V : \E j \in L : d.sets[s][j].tag = c.sets[s][k].tag
  BY DEF Covers, Twin
<1>2. f \in [V -> L] /\ \A k \in V : d.sets[s][f[k]].tag = c.sets[s][k].tag
  BY <1>1
<1>3. ASSUME NEW j \in L PROVE \E k \in V : f[k] = j
  <2>1. PICK k \in LineIds : c.sets[s][k].valid /\ c.sets[s][k].tag = d.sets[s][j].tag
    BY <1>3 DEF Covers
  <2>2. k \in V /\ f[k] \in L /\ d.sets[s][f[k]].tag = d.sets[s][j].tag
    BY <1>2, <2>1
  <2>3. f[k] = j
    BY <1>3, <2>2 DEF Ordered
  <2> QED
    BY <2>2, <2>3
<1>4. f \in Surjection(V, L)
  BY <1>2, <1>3 DEF Surjection
<1>5. /\ IsFiniteSet(LineIds) /\ Cardinality(LineIds) = E /\ E \in Nat
      /\ Cardinality(L) = ELarge /\ ELarge \in Nat /\ E <= ELarge
  <2>1. E \in Nat \ {0} /\ ELarge \in Nat \ {0} /\ E <= ELarge
    BY GeometryAssumption, PairAssumption
  <2>2. ASSUME NEW n \in Nat \ {0}
        PROVE  IsFiniteSet(0 .. n - 1) /\ Cardinality(0 .. n - 1) = n
    BY FS_Interval
  <2> QED
    BY <2>1, <2>2 DEF LineIds
<1>6. /\ V \in SUBSET LineIds /\ V # LineIds /\ IsFiniteSet(V)
      /\ Cardinality(V) <= E /\ Cardinality(V) # E /\ Cardinality(V) \in Nat
  <2>1. V \in SUBSET LineIds /\ V # LineIds
    OBVIOUS
  <2> HIDE DEF V
  <2> QED
    BY <1>5, <2>1, FS_Subset, FS_CardinalityType
<1> HIDE DEF V, f, L
<1>7. Cardinality(L) <= Cardinality(V)
  BY <1>4, <1>6, FS_Surjection
<1> QED
  BY <1>5, <1>6, <1>7

\* The lines stamped, and the others.
BothStamped(c, c2, d, d2, addr, i, j) ==
    LET s == SetIndex(addr)
    IN  /\ i \in LineIds /\ c2.sets[s][i].valid
        /\ c2.sets[s][i].tag = Tag(addr) /\ c2.sets[s][i].lru = c.next_lru
        /\ c2.next_lru = c.next_lru + 1
        /\ \A s2 \in SetIds, i2 \in LineIds :
              s2 # s \/ i2 # i => c2.sets[s2][i2] = c.sets[s2][i2]
        /\ \A i2 \in LineIds : i2 # i => ~Holds(c, addr, i2)
        /\ j \in 0 .. ELarge - 1 /\ d2.sets[s][j].valid
        /\ d2.sets[s][j].tag = Tag(addr) /\ d2.sets[s][j].lru = d.next_lru
        /\ d2.next_lru = d.next_lru + 1
        /\ \A s2 \in SetIds, j2 \in 0 .. ELarge - 1 :
              s2 # s \/ j2 # j => d2.sets[s2][j2] = d.sets[s2][j2]
        /\ \A j2 \in 0 .. ELarge - 1 : j2 # j => ~Holds(d, addr, j2)

LEMMA BothStamp ==
    ASSUME NEW c, NEW c2, NEW d, NEW d2, NEW addr \in Nat, NEW op, NEW i, NEW j,
           Both(c, c2, d, d2, addr, op, i, j)
    PROVE  BothStamped(c, c2, d, d2, addr, i, j)
<1>1. /\ Stamped(E, c, c2, addr, i) /\ i \in LineIds
      /\ \A i2 \in LineIds : i2 # i => ~Holds(c, addr, i2)
  BY NoOther DEF Both, LineIds
<1>2. /\ Stamped(ELarge, d, d2, addr, j) /\ j \in 0 .. ELarge - 1
      /\ \A j2 \in 0 .. ELarge - 1 : j2 # j => ~Holds(d, addr, j2)
  BY NoOther DEF Both
<1> QED
  BY <1>1, <1>2 DEF BothStamped, Stamped, Holds, LineIds

(* When the large cache evicts, so does the small one.                      *)
LEMMA EvictsToo ==
    ASSUME NEW c, NEW c2, NEW d, NEW d2, NEW addr \in Nat, NEW op, NEW i, NEW j,
           Both(c, c2, d, d2, addr, op, i, j), EvictAt(ELarge, d, d2, addr, op, j)
    PROVE  EvictAt(E, c, c2, addr, op, i)
<1>1. SetIndex(addr) \in SetIds
  BY AddressTypes
<1>2. ~HitAt(E, c, c2, addr, op, i)
  <2> SUFFICES ASSUME HitAt(E, c, c2, addr, op, i) PROVE FALSE
    OBVIOUS
  <2>1. HitAt(ELarge, d, d2, addr, op, j)
    BY HitsToo
  <2> QED
    BY <2>1 DEF HitAt, EvictAt, MissAt, Stamped
<1>3. ~FillAt(E, c, c2, addr, op, i)
  <2> SUFFICES ASSUME FillAt(E, c, c2, addr, op, i) PROVE FALSE
    OBVIOUS
  <2>1. i \in LineIds /\ ~c.sets[SetIndex(addr)][i].valid
    BY DEF FillAt, MissAt, Stamped, LineIds
  <2>2. \E k \in 0 .. ELarge - 1 : ~d.sets[SetIndex(addr)][k].valid
    BY <1>1, <2>1, RoomToo DEF Both
  <2> QED
    BY <2>2 DEF EvictAt
<1> QED
  BY <1>2, <1>3 DEF Both, MissesAt

(* A line of d that still has a twin in c is not the one evicted.           *)
LEMMA TwinStays ==
    ASSUME NEW c, NEW c2, NEW d, NEW d2, NEW addr \in Nat, NEW op, NEW i, NEW j,
           Both(c, c2, d, d2, addr, op, i, j),
           NEW s2 \in SetIds, NEW i2 \in LineIds, NEW j2 \in 0 .. ELarge - 1,
           c.sets[s2][i2].valid, Twin(c, d, s2, i2, j2),
           s2 # SetIndex(addr) \/ i2 # i
    PROVE  s2 # SetIndex(addr) \/ j2 # j
<1> DEFINE s == SetIndex(addr)
<1> SUFFICES ASSUME s2 = s, j2 = j, i2 # i PROVE FALSE
  OBVIOUS
<1>1. /\ s \in SetIds /\ i \in LineIds /\ j \in 0 .. ELarge - 1
      /\ ~Holds(c, addr, i2)
  BY AddressTypes, NoOther DEF Both, LineIds
<1>2. CASE HitAt(ELarge, d, d2, addr, op, j)
  BY <1>1, <1>2 DEF HitAt, Holds, Twin
<1>3. CASE FillAt(ELarge, d, d2, addr, op, j)
  BY <1>3 DEF FillAt, Twin
<1>4. CASE EvictAt(ELarge, d, d2, addr, op, j)
  <2>1. EvictAt(E, c, c2, addr, op, i)
    BY <1>4, EvictsToo
  <2>2. c.sets[s][i].valid /\ c.sets[s][i].lru <= c.sets[s][i2].lru
    BY <1>1, <2>1 DEF EvictAt, LineIds
  <2>3. PICK k \in 0 .. ELarge - 1 : Twin(c, d, s, i, k)
    BY <1>1, <2>2 DEF Both, Covers
  <2>4. d.sets[s][j].lru <= d.sets[s][k].lru
    BY <1>4, <2>3 DEF EvictAt
  <2>5. /\ d.sets[s][j].lru = c.sets[s][i2].lru
        /\ d.sets[s][k].lru = c.sets[s][i].lru
    BY <2>3 DEF Twin
  <2>6. c.sets[s][i].lru \in Nat /\ c.sets[s][i2].lru \in Nat
    BY <1>1 DEF Both, Ordered, LineIds
  <2>7. c.sets[s][i].lru # c.sets[s][i2].lru
    BY <1>1, <2>2 DEF Both, Ordered, LineIds
  <2> QED
    BY <2>2, <2>4, <2>5, <2>6, <2>7
<1> QED
  BY <1>2, <1>3, <1>4 DEF Both, MissesAt

(* A reference keeps the large cache ahead of the small one.                *)
LEMMA CoversKept ==
    ASSUME NEW c, NEW c2, NEW d, NEW d2, NEW addr \in Nat, NEW op, NEW i, NEW j,
           Both(c, c2, d, d2, addr, op, i, j)
    PROVE  Covers(c2, d2)
<1> DEFINE s == SetIndex(addr)
           L == 0 .. ELarge - 1
<1>0. BothStamped(c, c2, d, d2, addr, i, j)
  BY BothStamp
<1>1. s \in SetIds
  BY AddressTypes
<1>2. /\ i \in LineIds /\ c2.sets[s][i].valid /\ c2.sets[s][i].tag = Tag(addr)
      /\ c2.sets[s][i].lru = c.next_lru /\ c2.next_lru = c.next_lru + 1
      /\ \A s2 \in SetIds, i2 \in LineIds :
            s2 # s \/ i2 # i => c2.sets[s2][i2] = c.sets[s2][i2]
      /\ \A i2 \in LineIds : i2 # i => ~Holds(c, addr, i2)
  BY <1>0 DEF BothStamped
<1>3. /\ j \in L /\ d2.sets[s][j].valid /\ d2.sets[s][j].tag = Tag(addr)
      /\ d2.sets[s][j].lru = d.next_lru /\ d2.next_lru = d.next_lru + 1
      /\ \A s2 \in SetIds, j2 \in L :
            s2 # s \/ j2 # j => d2.sets[s2][j2] = d.sets[s2][j2]
      /\ \A j2 \in L : j2 # j => ~Holds(d, addr, j2)
  BY <1>0 DEF BothStamped
<1>4. d.next_lru = c.next_lru /\ d.next_lru \in Nat
  BY DEF Both, Covers, Ordered
<1>5. c2.sets[s][i].dirty => d2.sets[s][j].dirty
  <2>1. CASE HitAt(E, c, c2, addr, op, i)
    <3>1. HitAt(ELarge, d, d2, addr, op, j)
      BY <2>1, HitsToo
    <3>2. c.sets[s][i].valid /\ c.sets[s][i].tag = Tag(addr)
      BY <2>1 DEF HitAt, Holds
    <3>3. PICK k \in L : Twin(c, d, s, i, k)
      BY <1>1, <1>2, <3>2 DEF Both, Covers
    <3>4. k = j
      BY <1>3, <3>2, <3>3 DEF Twin, Holds
    <3>5. c.sets[s][i].dirty => d.sets[s][j].dirty
      BY <3>3, <3>4 DEF Twin
    <3> QED
      BY <2>1, <3>1, <3>5 DEF HitAt
  <2>2. CASE MissesAt(E, c, c2, addr, op, i)
    BY <2>2 DEF Both, MissesAt, FillAt, EvictAt, MissAt, HitAt
  <2> QED
    BY <2>1, <2>2 DEF Both
<1>6. ASSUME NEW s2 \in SetIds, NEW i2 \in LineIds, c2.sets[s2][i2].valid
      PROVE  \E j2 \in L : Twin(c2, d2, s2, i2, j2)
  <2>1. CASE s2 = s /\ i2 = i
    BY <1>2, <1>3, <1>4, <1>5, <2>1 DEF Twin
  <2>2. CASE s2 # s \/ i2 # i
    <3>1. c2.sets[s2][i2] = c.sets[s2][i2]
      BY <1>2, <2>2
    <3>2. PICK j2 \in L : Twin(c, d, s2, i2, j2)
      BY <1>6, <3>1 DEF Both, Covers
    <3>3. s2 # s \/ j2 # j
      BY <1>6, <2>2, <3>1, <3>2, TwinStays
    <3>4. d2.sets[s2][j2] = d.sets[s2][j2]
      BY <1>3, <3>3
    <3> QED
      BY <3>1, <3>2, <3>4 DEF Twin
  <2> QED
    BY <2>1, <2>2
<1>7. ASSUME NEW s2 \in SetIds, NEW j2 \in L, d2.sets[s2][j2].valid
      PROVE  \/ \E i2 \in LineIds :
                   c2.sets[s2][i2].valid /\ c2.sets[s2][i2].tag = d2.sets[s2][j2].tag
             \/ \A i2 \in LineIds :
                   c2.sets[s2][i2].valid /\ d2.sets[s2][j2].lru < c2.sets[s2][i2].lru
  <2>1. CASE s2 = s /\ j2 = j
    BY <1>2, <1>3, <2>1
  <2>2. CASE s2 # s \/ j2 # j
    <3>1. d2.sets[s2][j2] = d.sets[s2][j2]
      BY <1>3, <2>2
    <3>2. d.sets[s2][j2].lru \in Nat /\ d.sets[s2][j2].lru < c.next_lru
      BY <1>4, <1>7, <3>1 DEF Both, Ordered
    <3>3. ASSUME NEW i2 \in LineIds,
                 c.sets[s2][i2].valid, c.sets[s2][i2].tag = d.sets[s2][j2].tag,
                 s2 # s \/ i2 # i
          PROVE  c2.sets[s2][i2].valid /\ c2.sets[s2][i2].tag = d2.sets[s2][j2].tag
      BY <1>2, <3>1, <3>3
    <3>4. ASSUME s2 = s, c.sets[s][i].valid, c.sets[s][i].tag = d.sets[s][j2].tag
          PROVE  \A i2 \in LineIds :
                    c2.sets[s2][i2].valid /\ d2.sets[s2][j2].lru < c2.sets[s2][i2].lru
      <4>1. ~Holds(d, addr, j2)
        BY <1>3, <2>2, <3>4
      <4>2. ~Holds(c, addr, i)
        BY <1>7, <3>1, <3>4, <4>1 DEF Holds
      <4>3. EvictAt(E, c, c2, addr, op, i)
        BY <3>4, <4>2 DEF Both, MissesAt, FillAt, HitAt
      <4>4. PICK k \in L : Twin(c, d, s, i, k)
        BY <1>1, <1>2, <3>4 DEF Both, Covers
      <4>5. k = j2
        BY <1>1, <1>7, <3>1, <3>4, <4>4 DEF Twin, Both, Ordered
      <4>6. d2.sets[s2][j2].lru = c.sets[s][i].lru
        BY <3>1, <3>4, <4>4, <4>5 DEF Twin
      <4> TAKE i2 \in LineIds
      <4>7. CASE i2 = i
        BY <1>2, <3>1, <3>2, <3>4, <4>7
      <4>8. CASE i2 # i
        <5>1. /\ c.sets[s][i2].valid
              /\ c.sets[s][i].lru <= c.sets[s][i2].lru
          BY <4>3 DEF EvictAt, LineIds
        <5>2. /\ c.sets[s][i2].lru \in Nat /\ c.sets[s][i].lru \in Nat
              /\ c.sets[s][i].lru # c.sets[s][i2].lru
          BY <1>1, <1>2, <3>4, <4>8, <5>1 DEF Both, Ordered, LineIds
        <5>3. c2.sets[s2][i2] = c.sets[s][i2]
          BY <1>1, <1>2, <3>4, <4>8
        <5> QED
          BY <4>6, <5>1, <5>2, <5>3
      <4> QED
        BY <4>7, <4>8
    <3>5. ASSUME \A i2 \in LineIds :
                    c.sets[s2][i2].valid /\ d.sets[s2][j2].lru < c.sets[s2][i2].lru
          PROVE  \A i2 \in LineIds :
                    c2.sets[s2][i2].valid /\ d2.sets[s2][j2].lru < c2.sets[s2][i2].lru
      BY <1>2, <3>1, <3>2, <3>5
    <3>6. \/ \E i2 \in LineIds :
                c.sets[s2][i2].valid /\ c.sets[s2][i2].tag = d.sets[s2][j2].tag
          \/ \A i2 \in LineIds :
                c.sets[s2][i2].valid /\ d.sets[s2][j2].lru < c.sets[s2][i2].lru
      BY <1>7, <3>1 DEF Both, Covers
    <3> QED
      BY <3>3, <3>4, <3>5, <3>6
  <2> QED
    BY <2>1, <2>2
<1>8. d2.next_lru = c2.next_lru
  BY <1>2, <1>3, <1>4
<1> QED
  BY <1>6, <1>7, <1>8 DEF Covers

---------------------------------------------------------------------------
(* What the small cache has written back and the large one has not.         *)

(* Debts O, to which X are added and of which Y are settled.                *)
LEMMA Settled ==
    ASSUME NEW O, NEW O2, NEW X, NEW Y,
           IsFiniteSet(O), IsFiniteSet(X), IsFiniteSet(Y),
           Y \subseteq O \cup X, O2 \subseteq (O \cup X) \ Y
    PROVE  Cardinality(O2) + Cardinality(Y) <= Cardinality(O) + Cardinality(X)
<1> DEFINE Z == O \cup X
<1>1. /\ IsFiniteSet(Z) /\ Cardinality(O \cap X) \in Nat
      /\ Cardinality(Z) = Cardinality(O) + Cardinality(X) - Cardinality(O \cap X)
  <2>1. IsFiniteSet(O \cap X)
    BY FS_Intersection
  <2> QED
    BY <2>1, FS_Union, FS_CardinalityType
<1> HIDE DEF Z
<1>2. Z \cap Y = Y
  BY DEF Z
<1>3. IsFiniteSet(Z \ Y) /\ Cardinality(Z \ Y) = Cardinality(Z) - Cardinality(Y)
  <2>1. /\ IsFiniteSet(Z \ Y)
        /\ Cardinality(Z \ Y) = Cardinality(Z) - Cardinality(Z \cap Y)
    BY <1>1, FS_Difference
  <2> QED
    BY <1>2, <2>1
<1>4. IsFiniteSet(O2) /\ Cardinality(O2) <= Cardinality(Z \ Y)
  BY <1>3, FS_Subset DEF Z
<1>5. /\ Cardinality(O) \in Nat /\ Cardinality(X) \in Nat /\ Cardinality(Y) \in Nat
      /\ Cardinality(Z) \in Nat /\ Cardinality(O2) \in Nat
  BY <1>1, <1>4, FS_CardinalityType
<1> QED
  BY <1>1, <1>3, <1>4, <1>5

\* Line j2 of set s2 was owed before and is not the one replaced, or it is the
\* twin of the dirty line that c evicts.
OldOrNew(c, c2, d, d2, addr, op, i, j, s2, j2) ==
    LET s == SetIndex(addr)
    IN  \/ /\ <<s2, j2>> \in Owed(c, d)
           /\ s2 = s /\ j2 = j => HitAt(ELarge, d, d2, addr, op, j)
        \/ /\ EvictAt(E, c, c2, addr, op, i) /\ c.sets[s][i].dirty
           /\ s2 = s /\ j2 # j /\ Twin(c, d, s, i, j2)

(* A new debt is the block of a dirty line that the small cache evicts.     *)
LEMMA NewDebt ==
    ASSUME NEW c, NEW c2, NEW d, NEW d2, NEW addr \in Nat, NEW op, NEW i, NEW j,
           Both(c, c2, d, d2, addr, op, i, j),
           NEW s2 \in SetIds, NEW j2 \in 0 .. ELarge - 1,
           <<s2, j2>> \in Owed(c2, d2)
    PROVE  OldOrNew(c, c2, d, d2, addr, op, i, j, s2, j2)
<1> DEFINE s == SetIndex(addr)
           L == 0 .. ELarge - 1
<1>0. BothStamped(c, c2, d, d2, addr, i, j)
  BY BothStamp
<1>1. s \in SetIds
  BY AddressTypes
<1>2. /\ i \in LineIds /\ c2.sets[s][i].valid /\ c2.sets[s][i].tag = Tag(addr)
      /\ \A s3 \in SetIds, i2 \in LineIds :
            s3 # s \/ i2 # i => c2.sets[s3][i2] = c.sets[s3][i2]
      /\ \A i2 \in LineIds : i2 # i => ~Holds(c, addr, i2)
  BY <1>0 DEF BothStamped
<1>3. /\ j \in L /\ d2.sets[s][j].valid /\ d2.sets[s][j].tag = Tag(addr)
      /\ \A s3 \in SetIds, j3 \in L :
            s3 # s \/ j3 # j => d2.sets[s3][j3] = d.sets[s3][j3]
      /\ \A j3 \in L : j3 # j => ~Holds(d, addr, j3)
  BY <1>0 DEF BothStamped
<1>4. /\ d2.sets[s2][j2].valid /\ d2.sets[s2][j2].dirty
      /\ \A i2 \in LineIds :
            c2.sets[s2][i2].valid /\ c2.sets[s2][i2].tag = d2.sets[s2][j2].tag
               => ~c2.sets[s2][i2].dirty
  BY DEF Owed
<1>5. CASE s2 = s /\ j2 = j
  <2>1. ~c2.sets[s][i].dirty
    BY <1>2, <1>3, <1>4, <1>5
  <2>2. op # "WRITE"
    BY <2>1 DEF Both, HitAt, MissesAt, FillAt, EvictAt, MissAt
  <2>3. HitAt(ELarge, d, d2, addr, op, j)
    BY <1>4, <1>5, <2>2 DEF Both, MissesAt, FillAt, EvictAt, MissAt
  <2>4. d.sets[s][j].dirty /\ d.sets[s][j].valid /\ d.sets[s][j].tag = Tag(addr)
    BY <1>4, <1>5, <2>2, <2>3 DEF HitAt, Holds
  <2>5. ASSUME NEW i2 \in LineIds, c.sets[s][i2].valid, c.sets[s][i2].tag = Tag(addr)
        PROVE  ~c.sets[s][i2].dirty
    <3>1. Holds(c, addr, i2) /\ i2 = i
      BY <1>2, <2>5 DEF Holds
    <3>2. HitAt(E, c, c2, addr, op, i)
      BY <1>2, <3>1 DEF Both, MissesAt, FillAt, EvictAt, MissAt, LineIds
    <3> QED
      BY <2>1, <3>1, <3>2 DEF HitAt
  <2>6. <<s2, j2>> \in Owed(c, d)
    BY <1>5, <2>4, <2>5 DEF Owed
  <2> QED
    BY <2>3, <2>6 DEF OldOrNew
<1>6. CASE s2 # s \/ j2 # j
  <2>1. d2.sets[s2][j2] = d.sets[s2][j2]
    BY <1>3, <1>6
  <2>2. CASE \A i2 \in LineIds :
                c.sets[s2][i2].valid /\ c.sets[s2][i2].tag = d.sets[s2][j2].tag
                   => ~c.sets[s2][i2].dirty
    <3>1. <<s2, j2>> \in Owed(c, d)
      BY <1>4, <2>1, <2>2 DEF Owed
    <3> QED
      BY <1>6, <3>1 DEF OldOrNew
  <2>3. ASSUME NEW i2 \in LineIds, c.sets[s2][i2].valid,
               c.sets[s2][i2].tag = d.sets[s2][j2].tag, c.sets[s2][i2].dirty
        PROVE  /\ EvictAt(E, c, c2, addr, op, i) /\ c.sets[s][i].dirty
               /\ s2 = s /\ j2 # j /\ Twin(c, d, s, i, j2)
    <3>1. s2 = s /\ i2 = i /\ j2 # j
      BY <1>2, <1>4, <1>6, <2>1, <2>3
    <3>2. ~Holds(d, addr, j2)
      BY <1>3, <3>1
    <3>3. ~Holds(c, addr, i)
      BY <1>4, <2>1, <2>3, <3>1, <3>2 DEF Holds
    <3>4. EvictAt(E, c, c2, addr, op, i)
      BY <2>3, <3>1, <3>3 DEF Both, MissesAt, FillAt, HitAt
    <3>5. PICK k \in L : Twin(c, d, s, i, k)
      BY <1>1, <1>2, <2>3, <3>1 DEF Both, Covers
    <3>6. k = j2
      BY <1>1, <1>4, <2>1, <2>3, <3>1, <3>5 DEF Twin, Both, Ordered
    <3> QED
      BY <2>3, <3>1, <3>4, <3>5, <3>6
  <2> QED
    BY <2>2, <2>3 DEF OldOrNew
<1> QED
  BY <1>5, <1>6 DEF OldOrNew

(* What the large cache writes back was owed, or is evicted by both.        *)
LEMMA OldDebt ==
    ASSUME NEW c, NEW c2, NEW d, NEW d2, NEW addr \in Nat, NEW op, NEW i, NEW j,
           Both(c, c2, d, d2, addr, op, i, j),
           EvictAt(ELarge, d, d2, addr, op, j), d.sets[SetIndex(addr)][j].dirty
    PROVE  \/ <<SetIndex(addr), j>> \in Owed(c, d)
           \/ /\ EvictAt(E, c, c2, addr, op, i) /\ c.sets[SetIndex(addr)][i].dirty
              /\ Twin(c, d, SetIndex(addr), i, j)
<1> DEFINE s == SetIndex(addr)
           L == 0 .. ELarge - 1
<1>1. s \in SetIds /\ i \in LineIds /\ j \in L
  BY AddressTypes, NoOther DEF Both, LineIds
<1>2. EvictAt(E, c, c2, addr, op, i)
  BY EvictsToo
<1>3. d.sets[s][j].valid
  BY <1>1 DEF EvictAt
<1>4. ASSUME NEW i2 \in LineIds, c.sets[s][i2].valid,
             c.sets[s][i2].tag = d.sets[s][j].tag
      PROVE  i2 = i /\ Twin(c, d, s, i, j)
  <2>1. PICK k \in L : Twin(c, d, s, i2, k)
    BY <1>1, <1>4 DEF Both, Covers
  <2>2. k = j
    BY <1>1, <1>3, <1>4, <2>1 DEF Twin, Both, Ordered
  <2>3. i2 = i
    BY <1>1, <1>4, <2>1, <2>2, TwinStays
  <2> QED
    BY <2>1, <2>2, <2>3
<1>5. CASE \E i2 \in LineIds : /\ c.sets[s][i2].valid
                               /\ c.sets[s][i2].tag = d.sets[s][j].tag
                               /\ c.sets[s][i2].dirty
  BY <1>2, <1>4, <1>5
<1>6. CASE ~\E i2 \in LineIds : /\ c.sets[s][i2].valid
                                /\ c.sets[s][i2].tag = d.sets[s][j].tag
                                /\ c.sets[s][i2].dirty
  BY <1>1, <1>3, <1>6 DEF Owed
<1> QED
  BY <1>5, <1>6

(* A reference keeps every dirty eviction of the large cache paid for.      *)
LEMMA PaidKept ==
    ASSUME NEW c, NEW c2, NEW d, NEW d2, NEW addr \in Nat, NEW op, NEW i, NEW j,
           Both(c, c2, d, d2, addr, op, i, j),
           Ordered(E, c), Ordered(ELarge, d), Paid(c, d)
    PROVE  Paid(c2, d2)
<1> DEFINE s   == SetIndex(addr)
           L   == 0 .. ELarge - 1
           new == EvictAt(E, c, c2, addr, op, i) /\ c.sets[s][i].dirty
           old == EvictAt(ELarge, d, d2, addr, op, j) /\ d.sets[s][j].dirty
<1>1. s \in SetIds /\ i \in LineIds /\ j \in L
  BY AddressTypes, BothStamp DEF BothStamped
<1>2. PICK k : new => k \in L /\ Twin(c, d, s, i, k)
  BY <1>1 DEF Both, Covers, EvictAt, LineIds
<1> DEFINE X == IF new THEN {<<s, k>>} ELSE {}
           Y == IF old THEN {<<s, j>>} ELSE {}
<1>3. /\ IsFiniteSet(X) /\ Cardinality(X) = IF new THEN 1 ELSE 0
      /\ IsFiniteSet(Y) /\ Cardinality(Y) = IF old THEN 1 ELSE 0
  BY FS_Singleton, FS_EmptySet
<1>4. IsFiniteSet(Owed(c, d)) /\ IsFiniteSet(Owed(c2, d2))
  <2>1. IsFiniteSet(SetIds) /\ IsFiniteSet(L)
    BY FS_Interval, GeometryAssumption, PairAssumption DEF SetIds
  <2>2. IsFiniteSet(SetIds \X L)
    BY <2>1, FS_Product
  <2>3. Owed(c, d) \in SUBSET (SetIds \X L) /\ Owed(c2, d2) \in SUBSET (SetIds \X L)
    BY DEF Owed
  <2> QED
    BY <2>2, <2>3, FS_Subset
<1>5. Owed(c2, d2) \subseteq (Owed(c, d) \cup X) \ Y
  <2> SUFFICES ASSUME NEW p \in Owed(c2, d2) PROVE p \in (Owed(c, d) \cup X) \ Y
    OBVIOUS
  <2>1. PICK s2 \in SetIds, j2 \in L : p = <<s2, j2>>
    BY DEF Owed
  <2>2. \/ /\ <<s2, j2>> \in Owed(c, d)
           /\ s2 = s /\ j2 = j => HitAt(ELarge, d, d2, addr, op, j)
        \/ /\ new /\ s2 = s /\ j2 # j /\ Twin(c, d, s, i, j2)
    <3>1. <<s2, j2>> \in Owed(c2, d2)
      BY <2>1
    <3>2. OldOrNew(c, c2, d, d2, addr, op, i, j, s2, j2)
      BY <3>1, NewDebt
    <3> QED
      BY <3>2 DEF OldOrNew
  <2>3. old => ~HitAt(ELarge, d, d2, addr, op, j)
    BY DEF EvictAt, MissAt, HitAt, Stamped
  <2>4. CASE /\ <<s2, j2>> \in Owed(c, d)
             /\ s2 = s /\ j2 = j => HitAt(ELarge, d, d2, addr, op, j)
    <3>1. p \notin Y
      BY <2>1, <2>3, <2>4
    <3> QED
      BY <2>1, <2>4, <3>1
  <2>5. CASE new /\ s2 = s /\ j2 # j /\ Twin(c, d, s, i, j2)
    <3>1. j2 = k
      BY <1>1, <1>2, <2>5 DEF Twin, Both, Ordered
    <3>2. p \in X /\ p \notin Y
      BY <2>1, <2>5, <3>1
    <3> QED
      BY <3>2
  <2> QED
    BY <2>2, <2>4, <2>5
<1>6. Y \subseteq Owed(c, d) \cup X
  <2> SUFFICES ASSUME old PROVE <<s, j>> \in Owed(c, d) \cup X
    OBVIOUS
  <2>1. <<s, j>> \in Owed(c, d) \/ (new /\ Twin(c, d, s, i, j))
    BY OldDebt
  <2>2. ASSUME new, Twin(c, d, s, i, j) PROVE j = k
    BY <1>1, <1>2, <2>2 DEF Twin, Both, Ordered
  <2> QED
    BY <2>1, <2>2
<1>7. Cardinality(Owed(c2, d2)) + Cardinality(Y) <= Cardinality(Owed(c, d)) + Cardinality(X)
  <2> HIDE DEF X, Y
  <2> QED
    BY <1>3, <1>4, <1>5, <1>6, Settled
<1>8. Cardinality(Owed(c, d)) \in Nat /\ Cardinality(Owed(c2, d2)) \in Nat
  BY <1>4, FS_CardinalityType
<1>9. c2.dirty_eviction_count = c.dirty_eviction_count + Cardinality(X)
  <2>1. c.dirty_eviction_count \in Nat
    BY DEF Ordered
  <2>2. Cardinality(X) = IF new THEN 1 ELSE 0
    BY <1>3
  <2> HIDE DEF X
  <2>3. CASE EvictAt(E, c, c2, addr, op, i)
    <3>1. new <=> c.sets[s][i].dirty
      BY <2>3
    <3>2. c2.dirty_eviction_count =
             c.dirty_eviction_count + IF c.sets[s][i].dirty THEN 1 ELSE 0
      BY <2>3 DEF EvictAt
    <3> HIDE DEF new, s
    <3> QED
      BY <2>2, <3>1, <3>2
  <2>4. CASE ~EvictAt(E, c, c2, addr, op, i)
    BY <2>1, <2>2, <2>4 DEF Both, MissesAt, HitAt, FillAt
  <2> QED
    BY <2>3, <2>4
<1>10. d2.dirty_eviction_count = d.dirty_eviction_count + Cardinality(Y)
  <2>1. d.dirty_eviction_count \in Nat
    BY DEF Ordered
  <2>2. Cardinality(Y) = IF old THEN 1 ELSE 0
    BY <1>3
  <2> HIDE DEF Y
  <2>3. CASE EvictAt(ELarge, d, d2, addr, op, j)
    <3>1. old <=> d.sets[s][j].dirty
      BY <2>3
    <3>2. d2.dirty_eviction_count =
             d.dirty_eviction_count + IF d.sets[s][j].dirty THEN 1 ELSE 0
      BY <2>3 DEF EvictAt
    <3> HIDE DEF old, s
    <3> QED
      BY <2>2, <3>1, <3>2
  <2>4. CASE ~EvictAt(ELarge, d, d2, addr, op, j)
    BY <2>1, <2>2, <2>4 DEF Both, MissesAt, HitAt, FillAt
  <2> QED
    BY <2>3, <2>4
<1>11. d2.dirty_eviction_count + Cardinality(Owed(c2, d2)) <= c2.dirty_eviction_count
  <2>1. Cardinality(X) \in Nat /\ Cardinality(Y) \in Nat
    BY <1>3
  <2> HIDE DEF X, Y
  <2>2. /\ c.dirty_eviction_count \in Nat /\ d.dirty_eviction_count \in Nat
        /\ d.dirty_eviction_count + Cardinality(Owed(c, d)) <= c.dirty_eviction_count
    BY DEF Ordered, Paid
  <2> QED
    BY <1>7, <1>8, <1>9, <1>10, <2>1, <2>2
<1>12. d2.hit_count >= c2.hit_count /\ d2.miss_count <= c2.miss_count
  <2>1. /\ c.hit_count \in Nat /\ c.miss_count \in Nat
        /\ d.hit_count \in Nat /\ d.miss_count \in Nat
        /\ d.hit_count >= c.hit_count /\ d.miss_count <= c.miss_count
    BY DEF Ordered, Paid
  <2>2. /\ \/ c2.hit_count = c.hit_count + 1 /\ c2.miss_count = c.miss_count
           \/ c2.hit_count = c.hit_count /\ c2.miss_count = c.miss_count + 1
        /\ \/ d2.hit_count = d.hit_count + 1 /\ d2.miss_count = d.miss_count
           \/ d2.hit_count = d.hit_count /\ d2.miss_count = d.miss_count + 1
    BY DEF Both, HitAt, MissesAt, FillAt, EvictAt, MissAt
  <2>3. CASE HitAt(E, c, c2, addr, op, i)
    <3>1. HitAt(ELarge, d, d2, addr, op, j)
      BY <2>3, HitsToo
    <3> QED
      BY <2>1, <2>3, <3>1 DEF HitAt
  <2>4. CASE MissesAt(E, c, c2, addr, op, i)
    <3>1. c2.hit_count = c.hit_count /\ c2.miss_count = c.miss_count + 1
      BY <2>4 DEF MissesAt, FillAt, EvictAt, MissAt
    <3> QED
      BY <2>1, <2>2, <3>1
  <2> QED
    BY <2>3, <2>4 DEF Both
<1> QED
  BY <1>11, <1>12 DEF Paid

---------------------------------------------------------------------------
(* The two programs.                                                        *)

(* The inductive invariant: that of csim for the small cache, the types and *)
(* the order of the large one, and what relates the two.  The inclusion     *)
(* needs the ages: a block that only the large cache holds is older than    *)
(* all of the small one's, or the large one might evict a block that the    *)
(* small one keeps.  The counts need the debts: a block may be dirty in the *)
(* large cache long after the small one has written it back.                *)
PairInv ==
    /\ IInv
    /\ large \in Large!CacheState /\ Ordered(ELarge, large)
    /\ Covers(cache, large)
    /\ Paid(cache, large)

LEMMA PairInvInit == PairInit => PairInv
<1> SUFFICES ASSUME PairInit PROVE PairInv
  OBVIOUS
<1>1. IInv
  BY InitIInv DEF PairInit
<1>2. cache = create_cache /\ large = Large!create_cache
  BY DEF PairInit, Init
<1>3. ELarge \in Nat \ {0} /\ Large!EmptyLine = EmptyLine /\ EmptyLine \in CacheLine
  BY SameNumbers, BlockAssumption DEF Large!EmptyLine, EmptyLine, CacheLine
<1>4. /\ large.sets = [s \in SetIds |-> [i \in 0 .. ELarge - 1 |-> EmptyLine]]
      /\ large.next_lru = 0 /\ large.hit_count = 0 /\ large.miss_count = 0
      /\ large.dirty_eviction_count = 0 /\ large.clean_eviction_count = 0
  BY <1>2, <1>3, SameNumbers DEF Large!create_cache
<1>5. large \in Large!CacheState
  BY <1>2, <1>3, SameNumbers, LargeState DEF Large!create_cache
<1>6. \A s \in SetIds, j \in 0 .. ELarge - 1 :
         ~large.sets[s][j].valid /\ large.sets[s][j].lru = 0
  BY <1>4 DEF EmptyLine
<1>7. \A s \in SetIds, i \in LineIds : ~cache.sets[s][i].valid
  BY <1>2 DEF create_cache, EmptyLine
<1>8. /\ cache.next_lru = 0 /\ cache.hit_count = 0 /\ cache.miss_count = 0
      /\ cache.dirty_eviction_count = 0
  BY <1>2 DEF create_cache
<1>9. Ordered(ELarge, large)
  BY <1>4, <1>6 DEF Ordered
<1>10. Covers(cache, large)
  BY <1>4, <1>6, <1>7, <1>8 DEF Covers
<1>11. Owed(cache, large) = {}
  BY <1>6 DEF Owed
<1>12. Paid(cache, large)
  BY <1>4, <1>8, <1>11, FS_EmptySet DEF Paid
<1> QED
  BY <1>1, <1>5, <1>9, <1>10, <1>12 DEF PairInv

(* The same reference in both programs.                                     *)
LEMMA PairStep ==
    ASSUME PairInv, NEW addr \in Nat, NEW op \in Operations,
           cache' = access_data(cache, addr, op), LargeToo(addr, op)
    PROVE  /\ large' \in Large!CacheState /\ Ordered(ELarge, large')
           /\ Covers(cache', large') /\ Paid(cache', large')
<1>1. CacheInv(cache) /\ Ordered(E, cache)
  BY OrderedSmall DEF PairInv, IInv
<1>2. /\ large \in Large!CacheState /\ Ordered(ELarge, large)
      /\ Covers(cache, large) /\ Paid(cache, large)
  BY DEF PairInv
<1>3. Reference(E, cache, cache', addr, op)
  BY <1>1, SmallRefers
<1>4. Reference(ELarge, large, large', addr, op) /\ large' \in Large!CacheState
  BY <1>2, LargeRefers DEF LargeToo
<1>5. PICK i \in 0 .. E - 1 :
         \/ HitAt(E, cache, cache', addr, op, i)
         \/ MissesAt(E, cache, cache', addr, op, i)
  BY <1>3 DEF Reference, MissesAt
<1>6. PICK j \in 0 .. ELarge - 1 :
         \/ HitAt(ELarge, large, large', addr, op, j)
         \/ MissesAt(ELarge, large, large', addr, op, j)
  BY <1>4 DEF Reference, MissesAt
<1>7. Both(cache, cache', large, large', addr, op, i, j)
  BY <1>1, <1>2, <1>5, <1>6 DEF Both
<1>8. Ordered(ELarge, large')
  BY <1>2, <1>6, OrderKept
<1>9. Covers(cache', large')
  BY <1>7, CoversKept
<1>10. Paid(cache', large')
  BY <1>1, <1>2, <1>7, PaidKept
<1> QED
  BY <1>4, <1>8, <1>9, <1>10

LEMMA PairInvNext == PairInv /\ [PairNext]_pairVars => PairInv'
<1> SUFFICES ASSUME PairInv, [PairNext]_pairVars PROVE PairInv'
  OBVIOUS
<1>1. IInv'
  <2>1. [Next]_vars
    BY DEF PairNext, Next, pairVars
  <2> QED
    BY <2>1, NextIInv DEF PairInv
<1> DEFINE Rest == /\ large \in Large!CacheState /\ Ordered(ELarge, large)
                   /\ Covers(cache, large) /\ Paid(cache, large)
<1>2. ASSUME NEW addr \in Nat, NEW op \in Operations,
             cache' = access_data(cache, addr, op), LargeToo(addr, op)
      PROVE  Rest'
  BY <1>2, PairStep
<1>3. Rest => (UNCHANGED pairVars => Rest')
  BY DEF pairVars, vars
<1>4. Rest
  BY DEF PairInv
<1> HIDE DEF Rest
<1>5. ASSUME NEW addr \in Addrs, ReplayStore(addr), LargeToo(addr, "WRITE") PROVE Rest'
  BY <1>2, <1>5, AddrsAssumption DEF ReplayStore, Operations
<1>6. ASSUME NEW addr \in Addrs, ReplayLoad(addr), LargeToo(addr, "READ") PROVE Rest'
  BY <1>2, <1>6, AddrsAssumption DEF ReplayLoad, Operations
<1>7. ASSUME NEW addr \in Addrs, ReplayModifyLoad(addr), LargeToo(addr, "READ")
      PROVE  Rest'
  BY <1>2, <1>7, AddrsAssumption DEF ReplayModifyLoad, Operations
<1>8. ASSUME ReplayModifyStore, LargeToo(pending, "WRITE") PROVE Rest'
  BY <1>2, <1>8, AddrsAssumption DEF ReplayModifyStore, Operations, PairInv, IInv
<1>9. Rest'
  BY <1>3, <1>4, <1>5, <1>6, <1>7, <1>8 DEF PairNext
<1> QED
  BY <1>1, <1>9 DEF PairInv, Rest

THEOREM PairInductive == PairSpec => []PairInv
  BY PairInvInit, PairInvNext, PTL DEF PairSpec

(* csim -E ELarge holds what csim -E E holds, and has not written back what *)
(* that has still to write back (cache.c:147-172, 219).                     *)
THEOREM LargerIncludes == PairSpec => []Inclusion
<1>1. PairInv => Inclusion
  <2> SUFFICES ASSUME PairInv PROVE Inclusion
    OBVIOUS
  <2>1. ASSUME NEW s \in SetIds, NEW i \in LineIds, cache.sets[s][i].valid
        PROVE  /\ BlockAddr(s, cache.sets[s][i].tag) \in Large!ResidentAddrs(large)
               /\ cache.sets[s][i].dirty =>
                     BlockAddr(s, cache.sets[s][i].tag) \in Large!DirtyAddrs(large)
    <3>1. PICK j \in 0 .. ELarge - 1 : Twin(cache, large, s, i, j)
      BY <2>1 DEF PairInv, Covers
    <3> DEFINE p == <<s, j>>
    <3>2. p \in Large!ValidLines(large) /\ p[1] = s /\ p[2] = j
      BY <3>1, SameNumbers DEF Twin, Large!ValidLines
    <3>3. Large!BlockAddr(p[1], large.sets[p[1]][p[2]].tag) =
             BlockAddr(s, cache.sets[s][i].tag)
      BY <3>1, <3>2 DEF Twin, Large!BlockAddr, BlockAddr
    <3>4. cache.sets[s][i].dirty => large.sets[p[1]][p[2]].dirty
      BY <3>1, <3>2 DEF Twin
    <3> HIDE DEF p
    <3> QED
      BY <3>2, <3>3, <3>4 DEF Large!ResidentAddrs, Large!DirtyAddrs
  <2>2. ASSUME NEW a \in ResidentAddrs(cache) PROVE a \in Large!ResidentAddrs(large)
    <3>1. PICK s \in SetIds, i \in LineIds :
             cache.sets[s][i].valid /\ a = BlockAddr(s, cache.sets[s][i].tag)
      BY <2>2 DEF ResidentAddrs, ValidLines
    <3> QED
      BY <2>1, <3>1
  <2>3. ASSUME NEW a \in DirtyAddrs(cache) PROVE a \in Large!DirtyAddrs(large)
    <3>1. PICK s \in SetIds, i \in LineIds :
             /\ cache.sets[s][i].valid /\ cache.sets[s][i].dirty
             /\ a = BlockAddr(s, cache.sets[s][i].tag)
      BY <2>3, DirtyLine
    <3> QED
      BY <2>1, <3>1
  <2> QED
    BY <2>2, <2>3 DEF Inclusion
<1> QED
  BY <1>1, PairInductive, PTL

(* The summaries of the two programs (csim.c:159) compare: with more lines  *)
(* no fewer hits, no more misses and no more dirty evictions.               *)
THEOREM MoreLinesAreNoWorse == PairSpec => []MoreLinesNeverHurt
<1>1. PairInv => MoreLinesNeverHurt
  <2> SUFFICES ASSUME PairInv PROVE MoreLinesNeverHurt
    OBVIOUS
  <2>1. Paid(cache, large) /\ Ordered(ELarge, large) /\ Ordered(E, cache)
    BY OrderedSmall DEF PairInv, IInv
  <2>2. IsFiniteSet(Owed(cache, large))
    <3>1. IsFiniteSet(SetIds) /\ IsFiniteSet(0 .. ELarge - 1)
      BY FS_Interval, GeometryAssumption, PairAssumption DEF SetIds
    <3>2. IsFiniteSet(SetIds \X (0 .. ELarge - 1))
      BY <3>1, FS_Product
    <3>3. Owed(cache, large) \in SUBSET (SetIds \X (0 .. ELarge - 1))
      BY DEF Owed
    <3> QED
      BY <3>2, <3>3, FS_Subset
  <2>3. Cardinality(Owed(cache, large)) \in Nat
    BY <2>2, FS_CardinalityType
  <2> QED
    BY <2>1, <2>3 DEF Paid, Ordered, MoreLinesNeverHurt
<1> QED
  BY <1>1, PairInductive, PTL

(***************************************************************************)
(* The LRU specification.                                                  *)
(***************************************************************************)

\* The block in line i of set s.
BlockIn(c, s, i) == BlockAddr(s, c.sets[s][i].tag)

(* A block is held in a valid line ...                                     *)
LEMMA HeldIs ==
    ASSUME NEW c, NEW a
    PROVE  a \in ResidentAddrs(c) <=>
              \E s \in SetIds, i \in LineIds :
                 c.sets[s][i].valid /\ a = BlockIn(c, s, i)
<1>1. ASSUME NEW s \in SetIds, NEW i \in LineIds,
             c.sets[s][i].valid, a = BlockIn(c, s, i)
      PROVE  a \in ResidentAddrs(c)
  <2>1. <<s, i>> \in ValidLines(c) /\ <<s, i>>[1] = s /\ <<s, i>>[2] = i
    BY <1>1 DEF ValidLines
  <2> QED
    BY <1>1, <2>1 DEF ResidentAddrs, BlockIn
<1> QED
  BY <1>1 DEF ResidentAddrs, ValidLines, BlockIn

(* ... in one at most.                                                     *)
LEMMA BlockInOne ==
    ASSUME NEW c, CacheInv(c),
           NEW s \in SetIds, NEW i \in LineIds, c.sets[s][i].valid,
           NEW t \in SetIds, NEW j \in LineIds, c.sets[t][j].valid,
           BlockIn(c, s, i) = BlockIn(c, t, j)
    PROVE  s = t /\ i = j
<1>1. c.sets[s][i].tag \in Nat /\ c.sets[t][j].tag \in Nat
  BY DEF CacheInv, CacheState, CacheLine
<1>2. s = t /\ c.sets[s][i].tag = c.sets[t][j].tag
  BY <1>1, BlockAddrInjective DEF BlockIn
<1> QED
  BY <1>2 DEF CacheInv, DistinctLines

(* A block is in the set its address maps to.                              *)
LEMMA BlockInSet ==
    ASSUME NEW c, CacheInv(c), NEW s \in SetIds, NEW i \in LineIds
    PROVE  SetIndex(BlockIn(c, s, i)) = s
<1>1. c.sets[s][i].tag \in Nat /\ 0 \in 0 .. B - 1
  BY GeometryAssumption DEF CacheInv, CacheState, CacheLine
<1>2. SetIndex(BlockIn(c, s, i) + 0) = s /\ BlockIn(c, s, i) \in Nat
  BY <1>1, BlockAddrIs DEF BlockIn
<1> QED
  BY <1>2

LEMMA BeforeIs ==
    ASSUME NEW c, NEW p
    PROVE  p \in UsedBefore(c) <=>
              \E s \in SetIds, i \in LineIds, j \in LineIds :
                 /\ c.sets[s][i].valid /\ c.sets[s][j].valid
                 /\ c.sets[s][i].lru < c.sets[s][j].lru
                 /\ p = <<BlockIn(c, s, i), BlockIn(c, s, j)>>
<1>1. ASSUME NEW s \in SetIds, NEW i \in LineIds, NEW j \in LineIds,
             c.sets[s][i].valid, c.sets[s][j].valid,
             c.sets[s][i].lru < c.sets[s][j].lru,
             p = <<BlockIn(c, s, i), BlockIn(c, s, j)>>
      PROVE  p \in UsedBefore(c)
  <2> DEFINE r == <<i, j>>
  <2>1. r \in LineIds \X LineIds /\ r[1] = i /\ r[2] = j
    OBVIOUS
  <2> HIDE DEF r
  <2>2. r \in {q \in LineIds \X LineIds :
                 /\ c.sets[s][q[1]].valid /\ c.sets[s][q[2]].valid
                 /\ c.sets[s][q[1]].lru < c.sets[s][q[2]].lru}
    BY <1>1, <2>1
  <2>3. p = <<BlockAddr(s, c.sets[s][r[1]].tag), BlockAddr(s, c.sets[s][r[2]].tag)>>
    BY <1>1, <2>1 DEF BlockIn
  <2> QED
    BY <2>2, <2>3 DEF UsedBefore
<1>2. ASSUME p \in UsedBefore(c)
      PROVE  \E s \in SetIds, i \in LineIds, j \in LineIds :
                 /\ c.sets[s][i].valid /\ c.sets[s][j].valid
                 /\ c.sets[s][i].lru < c.sets[s][j].lru
                 /\ p = <<BlockIn(c, s, i), BlockIn(c, s, j)>>
  <2>1. PICK s \in SetIds : \E r \in LineIds \X LineIds :
           /\ c.sets[s][r[1]].valid /\ c.sets[s][r[2]].valid
           /\ c.sets[s][r[1]].lru < c.sets[s][r[2]].lru
           /\ p = <<BlockAddr(s, c.sets[s][r[1]].tag), BlockAddr(s, c.sets[s][r[2]].tag)>>
    BY <1>2 DEF UsedBefore
  <2>2. PICK r \in LineIds \X LineIds :
           /\ c.sets[s][r[1]].valid /\ c.sets[s][r[2]].valid
           /\ c.sets[s][r[1]].lru < c.sets[s][r[2]].lru
           /\ p = <<BlockAddr(s, c.sets[s][r[1]].tag), BlockAddr(s, c.sets[s][r[2]].tag)>>
    BY <2>1
  <2>3. r[1] \in LineIds /\ r[2] \in LineIds
    OBVIOUS
  <2> QED
    BY <2>2, <2>3 DEF BlockIn
<1> QED
  BY <1>1, <1>2

LEMMA DirtyIs ==
    ASSUME NEW c, NEW a
    PROVE  a \in DirtyAddrs(c) <=>
              \E s \in SetIds, i \in LineIds :
                 /\ c.sets[s][i].valid /\ c.sets[s][i].dirty
                 /\ a = BlockIn(c, s, i)
  BY DirtyLine, DirtyLineIs DEF BlockIn

---------------------------------------------------------------------------
(* What a reference that stamps line i does to the blocks and their order. *)

\* The block that was in line i before.
Left(c, addr, i) ==
    IF c.sets[SetIndex(addr)][i].valid THEN {BlockIn(c, SetIndex(addr), i)} ELSE {}

Stamps(c, d, addr, i) ==
    CacheInv(c) /\ CacheInv(d) /\ addr \in Nat /\ Stamped(E, c, d, addr, i)

(* Line i holds the block of addr, and every other line what it held.      *)
LEMMA StampLines ==
    ASSUME NEW c, NEW d, NEW addr, NEW i, Stamps(c, d, addr, i)
    PROVE  /\ SetIndex(addr) \in SetIds /\ i \in LineIds
           /\ d.sets[SetIndex(addr)][i].valid
           /\ BlockIn(d, SetIndex(addr), i) = BlockOf(addr)
           /\ d.sets[SetIndex(addr)][i].lru = c.next_lru
           /\ \A t \in SetIds, j \in LineIds :
                 t # SetIndex(addr) \/ j # i =>
                    /\ d.sets[t][j] = c.sets[t][j]
                    /\ BlockIn(d, t, j) = BlockIn(c, t, j)
  BY AddressTypes DEF Stamps, Stamped, Holds, LineIds, BlockIn, BlockOf

LEMMA StampHeld ==
    ASSUME NEW c, NEW d, NEW addr, NEW i, Stamps(c, d, addr, i)
    PROVE  ResidentAddrs(d) = (ResidentAddrs(c) \ Left(c, addr, i)) \cup {BlockOf(addr)}
<1> DEFINE s == SetIndex(addr)
<1>1. CacheInv(c) /\ CacheInv(d)
  BY DEF Stamps
<1>2. /\ s \in SetIds /\ i \in LineIds /\ d.sets[s][i].valid
      /\ BlockIn(d, s, i) = BlockOf(addr)
      /\ \A t \in SetIds, j \in LineIds :
            t # s \/ j # i => /\ d.sets[t][j] = c.sets[t][j]
                              /\ BlockIn(d, t, j) = BlockIn(c, t, j)
  BY StampLines
<1>3. Left(c, addr, i) = IF c.sets[s][i].valid THEN {BlockIn(c, s, i)} ELSE {}
  BY DEF Left
<1> HIDE DEF s
<1>4. ASSUME NEW a \in ResidentAddrs(d)
      PROVE  a \in (ResidentAddrs(c) \ Left(c, addr, i)) \cup {BlockOf(addr)}
  <2>1. PICK t \in SetIds, j \in LineIds : d.sets[t][j].valid /\ a = BlockIn(d, t, j)
    BY <1>4, HeldIs
  <2>2. CASE t = s /\ j = i
    BY <1>2, <2>1, <2>2
  <2>3. CASE t # s \/ j # i
    <3>1. c.sets[t][j].valid /\ a = BlockIn(c, t, j)
      BY <1>2, <2>1, <2>3
    <3>2. a \in ResidentAddrs(c)
      BY <3>1, HeldIs
    <3>3. a \notin Left(c, addr, i)
      BY <1>1, <1>2, <1>3, <2>3, <3>1, BlockInOne
    <3> QED
      BY <3>2, <3>3
  <2> QED
    BY <2>2, <2>3
<1>5. BlockOf(addr) \in ResidentAddrs(d)
  BY <1>2, HeldIs
<1>6. ASSUME NEW a \in ResidentAddrs(c), a \notin Left(c, addr, i)
      PROVE  a \in ResidentAddrs(d)
  <2>1. PICK t \in SetIds, j \in LineIds : c.sets[t][j].valid /\ a = BlockIn(c, t, j)
    BY <1>6, HeldIs
  <2>2. t # s \/ j # i
    BY <1>3, <1>6, <2>1
  <2>3. d.sets[t][j].valid /\ a = BlockIn(d, t, j)
    BY <1>2, <2>1, <2>2
  <2> QED
    BY <2>3, HeldIs
<1> QED
  BY <1>4, <1>5, <1>6

LEMMA StampDirty ==
    ASSUME NEW c, NEW d, NEW addr, NEW i, Stamps(c, d, addr, i)
    PROVE  DirtyAddrs(d) =
              (DirtyAddrs(c) \ Left(c, addr, i))
                 \cup (IF d.sets[SetIndex(addr)][i].dirty THEN {BlockOf(addr)} ELSE {})
<1> DEFINE s == SetIndex(addr)
           new == IF d.sets[s][i].dirty THEN {BlockOf(addr)} ELSE {}
<1>1. CacheInv(c) /\ CacheInv(d)
  BY DEF Stamps
<1>2. /\ s \in SetIds /\ i \in LineIds /\ d.sets[s][i].valid
      /\ BlockIn(d, s, i) = BlockOf(addr)
      /\ \A t \in SetIds, j \in LineIds :
            t # s \/ j # i => /\ d.sets[t][j] = c.sets[t][j]
                              /\ BlockIn(d, t, j) = BlockIn(c, t, j)
  BY StampLines
<1>3. Left(c, addr, i) = IF c.sets[s][i].valid THEN {BlockIn(c, s, i)} ELSE {}
  BY DEF Left
<1> HIDE DEF s
<1>4. ASSUME NEW a \in DirtyAddrs(d)
      PROVE  a \in (DirtyAddrs(c) \ Left(c, addr, i)) \cup new
  <2>1. PICK t \in SetIds, j \in LineIds :
           d.sets[t][j].valid /\ d.sets[t][j].dirty /\ a = BlockIn(d, t, j)
    BY <1>4, DirtyIs
  <2>2. CASE t = s /\ j = i
    BY <1>2, <2>1, <2>2
  <2>3. CASE t # s \/ j # i
    <3>1. c.sets[t][j].valid /\ c.sets[t][j].dirty /\ a = BlockIn(c, t, j)
      BY <1>2, <2>1, <2>3
    <3>2. a \in DirtyAddrs(c)
      BY <3>1, DirtyIs
    <3>3. a \notin Left(c, addr, i)
      BY <1>1, <1>2, <1>3, <2>3, <3>1, BlockInOne
    <3> QED
      BY <3>2, <3>3
  <2> QED
    BY <2>2, <2>3
<1>5. ASSUME NEW a \in new PROVE a \in DirtyAddrs(d)
  BY <1>2, <1>5, DirtyIs
<1>6. ASSUME NEW a \in DirtyAddrs(c), a \notin Left(c, addr, i)
      PROVE  a \in DirtyAddrs(d)
  <2>1. PICK t \in SetIds, j \in LineIds :
           c.sets[t][j].valid /\ c.sets[t][j].dirty /\ a = BlockIn(c, t, j)
    BY <1>6, DirtyIs
  <2>2. t # s \/ j # i
    BY <1>3, <1>6, <2>1
  <2>3. d.sets[t][j].valid /\ d.sets[t][j].dirty /\ a = BlockIn(d, t, j)
    BY <1>2, <2>1, <2>2
  <2> QED
    BY <2>3, DirtyIs
<1>7. DirtyAddrs(d) = (DirtyAddrs(c) \ Left(c, addr, i)) \cup new
  BY <1>4, <1>5, <1>6
<1> QED
  BY <1>7 DEF s

\* LruCache's UsedLast, of any order.
NowLast(order, blk, now) ==
    {p \in order : p[1] \in now /\ p[2] \in now /\ blk \notin {p[1], p[2]}}
    \cup {<<b, blk>> : b \in {x \in now \ {blk} : SetIndex(x) = SetIndex(blk)}}

LEMMA StampBefore ==
    ASSUME NEW c, NEW d, NEW addr, NEW i, Stamps(c, d, addr, i)
    PROVE  UsedBefore(d) = NowLast(UsedBefore(c), BlockOf(addr), ResidentAddrs(d))
<1> DEFINE s == SetIndex(addr)
           blk == BlockOf(addr)
           now == ResidentAddrs(d)
<1>1. CacheInv(c) /\ CacheInv(d)
  BY DEF Stamps
<1>2. /\ s \in SetIds /\ i \in LineIds /\ d.sets[s][i].valid
      /\ BlockIn(d, s, i) = blk
      /\ d.sets[s][i].lru = c.next_lru
      /\ \A t \in SetIds, j \in LineIds :
            t # s \/ j # i => /\ d.sets[t][j] = c.sets[t][j]
                              /\ BlockIn(d, t, j) = BlockIn(c, t, j)
  BY StampLines
<1>3. \A j \in LineIds : c.sets[s][j].valid => c.sets[s][j].lru < c.next_lru
  BY <1>1, <1>2 DEF CacheInv, PastTimes
<1>4. /\ c.next_lru \in Nat
      /\ \A t \in SetIds, j \in LineIds : c.sets[t][j].lru \in Nat
  BY <1>1 DEF CacheInv, CacheState, CacheLine
<1>5. SetIndex(blk) = s
  BY <1>1, <1>2, BlockInSet
<1> HIDE DEF s, blk, now
<1>6. ASSUME NEW p \in UsedBefore(d) PROVE p \in NowLast(UsedBefore(c), blk, now)
  <2>1. PICK t \in SetIds, j \in LineIds, k \in LineIds :
           /\ d.sets[t][j].valid /\ d.sets[t][k].valid
           /\ d.sets[t][j].lru < d.sets[t][k].lru
           /\ p = <<BlockIn(d, t, j), BlockIn(d, t, k)>>
    BY <1>6, BeforeIs
  <2>2. BlockIn(d, t, j) \in now /\ BlockIn(d, t, k) \in now
    BY <2>1, HeldIs DEF now
  <2>3. CASE t = s /\ k = i
    <3>1. j # i
      BY <1>2, <1>4, <2>1, <2>3
    <3>2. BlockIn(d, t, j) # blk
      BY <1>1, <1>2, <2>1, <2>3, <3>1, BlockInOne
    <3>3. SetIndex(BlockIn(d, t, j)) = SetIndex(blk)
      BY <1>1, <1>5, <2>3, BlockInSet
    <3> QED
      BY <1>2, <2>1, <2>2, <2>3, <3>2, <3>3 DEF NowLast
  <2>4. CASE t = s /\ j = i /\ k # i
    <3>1. d.sets[t][k] = c.sets[t][k]
      BY <1>2, <2>4
    <3> QED
      BY <1>2, <1>3, <1>4, <2>1, <2>4, <3>1
  <2>5. CASE t # s \/ (j # i /\ k # i)
    <3>1. /\ d.sets[t][j] = c.sets[t][j] /\ BlockIn(d, t, j) = BlockIn(c, t, j)
          /\ d.sets[t][k] = c.sets[t][k] /\ BlockIn(d, t, k) = BlockIn(c, t, k)
      BY <1>2, <2>5
    <3>2. p \in UsedBefore(c)
      BY <2>1, <3>1, BeforeIs
    <3>3. BlockIn(d, t, j) # blk /\ BlockIn(d, t, k) # blk
      BY <1>1, <1>2, <2>1, <2>5, BlockInOne
    <3> QED
      BY <2>1, <2>2, <3>2, <3>3 DEF NowLast
  <2> QED
    BY <2>3, <2>4, <2>5
<1>7. ASSUME NEW b \in now, b # blk, SetIndex(b) = SetIndex(blk)
      PROVE  <<b, blk>> \in UsedBefore(d)
  <2>1. PICK t \in SetIds, j \in LineIds : d.sets[t][j].valid /\ b = BlockIn(d, t, j)
    BY <1>7, HeldIs DEF now
  <2>2. t = s
    BY <1>1, <1>5, <1>7, <2>1, BlockInSet
  <2>3. j # i
    BY <1>2, <1>7, <2>1, <2>2
  <2>4. c.sets[s][j].valid /\ d.sets[s][j] = c.sets[s][j]
    BY <1>2, <2>1, <2>2, <2>3
  <2>5. d.sets[s][j].lru < d.sets[s][i].lru
    BY <1>2, <1>3, <2>4
  <2> QED
    BY <1>2, <2>1, <2>2, <2>5, BeforeIs
<1>8. ASSUME NEW p \in UsedBefore(c), p[1] \in now, p[2] \in now, blk \notin {p[1], p[2]}
      PROVE  p \in UsedBefore(d)
  <2>1. PICK t \in SetIds, j \in LineIds, k \in LineIds :
           /\ c.sets[t][j].valid /\ c.sets[t][k].valid
           /\ c.sets[t][j].lru < c.sets[t][k].lru
           /\ p = <<BlockIn(c, t, j), BlockIn(c, t, k)>>
    BY <1>8, BeforeIs
  <2>2. ASSUME NEW l \in LineIds, c.sets[t][l].valid, BlockIn(c, t, l) \in now,
               BlockIn(c, t, l) # blk
        PROVE  d.sets[t][l] = c.sets[t][l] /\ BlockIn(d, t, l) = BlockIn(c, t, l)
    <3>1. PICK t2 \in SetIds, l2 \in LineIds :
             d.sets[t2][l2].valid /\ BlockIn(c, t, l) = BlockIn(d, t2, l2)
      BY <2>2, HeldIs DEF now
    <3>2. t2 # s \/ l2 # i
      BY <1>2, <2>2, <3>1
    <3>3. c.sets[t2][l2].valid /\ BlockIn(c, t2, l2) = BlockIn(c, t, l)
      BY <1>2, <3>1, <3>2
    <3>4. t2 = t /\ l2 = l
      BY <1>1, <2>2, <3>3, BlockInOne
    <3> QED
      BY <1>2, <3>2, <3>4
  <2>3. p[1] = BlockIn(c, t, j) /\ p[2] = BlockIn(c, t, k)
    BY <2>1
  <2>4. /\ d.sets[t][j] = c.sets[t][j] /\ BlockIn(d, t, j) = BlockIn(c, t, j)
        /\ d.sets[t][k] = c.sets[t][k] /\ BlockIn(d, t, k) = BlockIn(c, t, k)
    BY <1>8, <2>1, <2>2, <2>3
  <2> QED
    BY <2>1, <2>4, BeforeIs
<1>9. ASSUME NEW p \in NowLast(UsedBefore(c), blk, now) PROVE p \in UsedBefore(d)
  BY <1>7, <1>8 DEF NowLast
<1>10. UsedBefore(d) = NowLast(UsedBefore(c), blk, now)
  BY <1>6, <1>9
<1> QED
  BY <1>10 DEF blk, now

---------------------------------------------------------------------------
(* A set is full of blocks when it has no invalid line left.               *)
LEMMA FullIs ==
    ASSUME NEW c, CacheInv(c), NEW s \in SetIds
    PROVE  Cardinality({b \in ResidentAddrs(c) : SetIndex(b) = s}) = E
              <=> Invalid(c.sets[s]) = {}
<1> DEFINE valid == {i \in LineIds : c.sets[s][i].valid}
           held  == {b \in ResidentAddrs(c) : SetIndex(b) = s}
           f     == [i \in valid |-> BlockIn(c, s, i)]
<1>1. IsFiniteSet(LineIds) /\ Cardinality(LineIds) = E
  BY FS_Interval, GeometryAssumption DEF LineIds
<1>2. valid \in SUBSET LineIds /\ IsFiniteSet(valid)
  BY <1>1, FS_Subset
<1>3. \A i \in valid : f[i] = BlockIn(c, s, i)
  OBVIOUS
<1>4. f \in [valid -> held]
  <2>1. ASSUME NEW i \in valid PROVE BlockIn(c, s, i) \in held
    BY HeldIs, BlockInSet
  <2> QED
    BY <2>1
<1>5. \A i \in valid, j \in valid : f[i] = f[j] => i = j
  BY <1>3, BlockInOne
<1>6. ASSUME NEW b \in held PROVE \E i \in valid : f[i] = b
  <2>1. PICK t \in SetIds, i \in LineIds : c.sets[t][i].valid /\ b = BlockIn(c, t, i)
    BY HeldIs
  <2>2. t = s
    BY <2>1, BlockInSet
  <2> QED
    BY <1>3, <2>1, <2>2
<1> HIDE DEF f, held
<1>7. f \in Bijection(valid, held)
  <2>1. f \in Injection(valid, held)
    BY <1>4, <1>5 DEF Injection, IsInjective
  <2>2. f \in Surjection(valid, held)
    BY <1>4, <1>6 DEF Surjection
  <2> QED
    BY <2>1, <2>2 DEF Bijection
<1>8. Cardinality(held) = Cardinality(valid)
  BY <1>2, <1>7, FS_Bijection DEF ExistsBijection
<1>9. Cardinality(valid) = E <=> valid = LineIds
  BY <1>1, <1>2, FS_Subset
<1>10. valid = LineIds <=> Invalid(c.sets[s]) = {}
  BY DEF Invalid
<1> QED
  BY <1>8, <1>9, <1>10 DEF held

(* A reference that hits uses its block, and changes nothing else.         *)
LEMMA HitIsLru ==
    ASSUME NEW c, CacheInv(c), NEW addr \in Nat, NEW op \in Operations,
           Cached(c, addr), NEW d, d = access_data(c, addr, op)
    PROVE  /\ BlockOf(addr) \in ResidentAddrs(c)
           /\ ResidentAddrs(d) = ResidentAddrs(c)
           /\ UsedBefore(d) = NowLast(UsedBefore(c), BlockOf(addr), ResidentAddrs(c))
           /\ DirtyAddrs(d) = IF op = "WRITE" THEN DirtyAddrs(c) \cup {BlockOf(addr)}
                                              ELSE DirtyAddrs(c)
           /\ Stats(d) = [Stats(c) EXCEPT !.hits = c.hit_count + 1]
<1> DEFINE s == SetIndex(addr)
           i == get_line(c, addr)
<1>1. d = Touch(c, addr, op) /\ c \in CacheState /\ CacheInv(d)
  BY AccessDataInv DEF access_data, check_hit, CacheInv
<1>2. HitAt(E, c, d, addr, op, i)
  BY <1>1, SmallHit
<1>3. /\ s \in SetIds /\ i \in LineIds
      /\ Stamps(c, d, addr, i) /\ c.sets[s][i].valid /\ c.sets[s][i].tag = Tag(addr)
  BY <1>1, <1>2, AddressTypes DEF HitAt, Stamps, Stamped, Holds, LineIds
<1>4. d.sets[s][i].dirty <=> c.sets[s][i].dirty \/ op = "WRITE"
  BY <1>2, Zenon DEF HitAt
<1>5. Stats(d) = [Stats(c) EXCEPT !.hits = c.hit_count + 1]
  BY <1>1 DEF Touch, CacheState, Stats
<1> HIDE DEF i, s
<1>6. BlockOf(addr) = BlockIn(c, s, i) /\ Left(c, addr, i) = {BlockOf(addr)}
  BY <1>3 DEF BlockOf, BlockIn, Left, s
<1>7. BlockOf(addr) \in ResidentAddrs(c)
  BY <1>3, <1>6, HeldIs
<1>8. ResidentAddrs(d) = ResidentAddrs(c)
  BY <1>3, <1>6, <1>7, StampHeld
<1>9. UsedBefore(d) = NowLast(UsedBefore(c), BlockOf(addr), ResidentAddrs(c))
  BY <1>3, <1>8, StampBefore
<1>10. DirtyAddrs(d) =
          (DirtyAddrs(c) \ {BlockOf(addr)})
             \cup (IF d.sets[s][i].dirty THEN {BlockOf(addr)} ELSE {})
  BY <1>3, <1>6, StampDirty DEF s
<1>11. BlockOf(addr) \in DirtyAddrs(c) <=> c.sets[s][i].dirty
  <2>1. ASSUME BlockOf(addr) \in DirtyAddrs(c) PROVE c.sets[s][i].dirty
    <3>1. PICK t \in SetIds, j \in LineIds :
             c.sets[t][j].valid /\ c.sets[t][j].dirty /\ BlockOf(addr) = BlockIn(c, t, j)
      BY <2>1, DirtyIs
    <3>2. t = s /\ j = i
      <4>1. c.sets[t][j].valid /\ BlockIn(c, s, i) = BlockIn(c, t, j)
        BY <1>6, <3>1, Zenon
      <4>2. s \in SetIds /\ i \in LineIds /\ c.sets[s][i].valid
        BY <1>3
      <4> QED
        BY <4>1, <4>2, BlockInOne
    <3>3. c.sets[t][j].dirty
      BY <3>1
    <3> QED
      BY <3>2, <3>3, Zenon
  <2> QED
    BY <1>3, <1>6, <2>1, DirtyIs
<1>12. DirtyAddrs(d) = IF op = "WRITE" THEN DirtyAddrs(c) \cup {BlockOf(addr)}
                                       ELSE DirtyAddrs(c)
  BY <1>4, <1>10, <1>11
<1> QED
  BY <1>5, <1>7, <1>8, <1>9, <1>12

(* What a miss counts, and which line it takes.                            *)
LEMMA MissTakes ==
    ASSUME NEW c, CacheInv(c), NEW addr \in Nat, NEW op \in Operations,
           ~Cached(c, addr), NEW d, d = access_data(c, addr, op)
    PROVE  LET s    == SetIndex(addr)
               i    == select_line(c, addr)
               full == Invalid(c.sets[s]) = {}
           IN  /\ Stamps(c, d, addr, i)
               /\ d.sets[s][i].dirty <=> op = "WRITE"
               /\ ~full => ~c.sets[s][i].valid
               /\ full => \A j \in LineIds : /\ c.sets[s][j].valid
                                             /\ c.sets[s][i].lru <= c.sets[s][j].lru
               /\ Stats(d) =
                     [hits |-> c.hit_count, misses |-> c.miss_count + 1,
                      dirty_evictions |-> c.dirty_eviction_count
                                + IF full /\ c.sets[s][i].dirty THEN 1 ELSE 0,
                      clean_evictions |-> c.clean_eviction_count
                                + IF full /\ ~c.sets[s][i].dirty THEN 1 ELSE 0]
<1> DEFINE e    == [c EXCEPT !.miss_count = c.miss_count + 1]
           s    == SetIndex(addr)
           i    == select_line(c, addr)
           full == Invalid(c.sets[s]) = {}
           line == [valid |-> TRUE, tag |-> Tag(addr), lru |-> c.next_lru,
                    dirty |-> op = "WRITE", data |-> c.sets[s][i].data]
<1>1. /\ c \in CacheState /\ s \in SetIds /\ CacheInv(d)
      /\ c.sets \in [SetIds -> [LineIds -> CacheLine]]
  BY AddressTypes, AccessDataInv DEF CacheInv, CacheState
<1>2. /\ CacheInv(e) /\ e.sets = c.sets /\ e \in CacheState
      /\ e.next_lru = c.next_lru
      /\ e.hit_count = c.hit_count /\ e.miss_count = c.miss_count + 1
      /\ e.dirty_eviction_count = c.dirty_eviction_count
      /\ e.clean_eviction_count = c.clean_eviction_count
  BY <1>1, CountMiss DEF CacheState, CacheInv
<1>3. d = handle_miss(e, addr, op, NULL)
  BY DEF access_data, check_hit
<1> HIDE DEF e
<1>4. select_line(e, addr) = i /\ ~Cached(e, addr)
  BY <1>2 DEF select_line, Cached, Matches
<1>5. /\ i \in LineIds
      /\ ~full => i \in Invalid(c.sets[s])
      /\ full => i \in Oldest(c.sets[s])
  BY <1>1, SelectLineFinds
<1>6. /\ d.sets[s][i] = [valid |-> TRUE, tag |-> Tag(addr), lru |-> c.next_lru,
                         dirty |-> op = "WRITE", data |-> c.sets[s][i].data]
      /\ \A s2 \in SetIds, i2 \in LineIds :
            s2 # s \/ i2 # i => d.sets[s2][i2] = c.sets[s2][i2]
  BY <1>2, <1>3, <1>4, HandleMissLines
<1>7. /\ d.next_lru = e.next_lru + 1
      /\ d.hit_count = e.hit_count /\ d.miss_count = e.miss_count
      /\ d.dirty_eviction_count = e.dirty_eviction_count
            + IF Invalid(e.sets[s]) = {} /\ e.sets[s][select_line(e, addr)].dirty
              THEN 1 ELSE 0
      /\ d.clean_eviction_count = e.clean_eviction_count
            + IF Invalid(e.sets[s]) = {} /\ ~e.sets[s][select_line(e, addr)].dirty
              THEN 1 ELSE 0
  BY <1>2, <1>3 DEF handle_miss, CacheState
<1>8. ~full => ~c.sets[s][i].valid
  BY <1>5 DEF Invalid
<1>9. full => \A j \in LineIds : /\ c.sets[s][j].valid
                                 /\ c.sets[s][i].lru <= c.sets[s][j].lru
  BY <1>5 DEF Invalid, Oldest
<1>10. Stats(d) =
          [hits |-> c.hit_count, misses |-> c.miss_count + 1,
           dirty_evictions |-> c.dirty_eviction_count
                     + IF full /\ c.sets[s][i].dirty THEN 1 ELSE 0,
           clean_evictions |-> c.clean_eviction_count
                     + IF full /\ ~c.sets[s][i].dirty THEN 1 ELSE 0]
  BY <1>2, <1>4, <1>7 DEF Stats
<1> HIDE DEF s, i, line
<1>11. d.sets[s][i].dirty <=> op = "WRITE"
  <2>1. d.sets[s][i] = line
    BY <1>6 DEF s, i, line
  <2>2. line.dirty <=> op = "WRITE"
    BY Zenon DEF line
  <2> QED
    BY <2>1, <2>2, Zenon
<1>12. Stamps(c, d, addr, i)
  <2>1. Holds(d, addr, i)
    BY <1>6 DEF Holds, s
  <2>2. d.next_lru = c.next_lru + 1 /\ d.sets[s][i].lru = c.next_lru
    BY <1>2, <1>6, <1>7
  <2> QED
    BY <1>1, <1>5, <1>6, <2>1, <2>2 DEF Stamps, Stamped, LineIds, s
<1> QED
  BY <1>8, <1>9, <1>10, <1>11, <1>12 DEF s, i

(* Each reference is an access of LruCache.                                *)
LEMMA AccessIsLru ==
    ASSUME CacheInv(cache), NEW addr \in Nat, NEW op \in Operations,
           cache' = access_data(cache, addr, op)
    PROVE  Lru!Access(BlockOf(addr), op = "WRITE")
<1> DEFINE c == cache
           d == cache'
           s == SetIndex(addr)
           i == select_line(c, addr)
           blk == BlockOf(addr)
           full == Invalid(c.sets[s]) = {}
<1> USE DEF Operations
<1>1. \A now : Lru!UsedLast(blk, now) = NowLast(UsedBefore(c), blk, now)
  BY DEF Lru!UsedLast, NowLast
<1>2. s \in SetIds /\ SetIndex(blk) = s
  <2>1. s \in SetIds /\ Tag(addr) \in Nat /\ 0 \in 0 .. B - 1
    BY AddressTypes, GeometryAssumption
  <2>2. SetIndex(BlockAddr(s, Tag(addr)) + 0) = s /\ BlockAddr(s, Tag(addr)) \in Nat
    BY <2>1, BlockAddrIs
  <2> QED
    BY <2>1, <2>2 DEF BlockOf
<1>3. Lru!Full(SetIndex(blk)) <=> full
  <2>1. Cardinality({b \in ResidentAddrs(c) : SetIndex(b) = s}) = E <=> full
    BY <1>2, FullIs
  <2>2. \A z : Lru!Cardinality(z) = Cardinality(z)
    BY Zenon DEF Lru!Cardinality, Cardinality
  <2> HIDE DEF full, s, blk
  <2>3. SetIndex(blk) = s
    BY <1>2
  <2> QED
    BY <2>1, <2>2, <2>3 DEF Lru!Full, Lru!InSet
<1>4. CASE Cached(c, addr)
  <2>1. /\ blk \in ResidentAddrs(c)
        /\ ResidentAddrs(d) = ResidentAddrs(c)
        /\ UsedBefore(d) = NowLast(UsedBefore(c), blk, ResidentAddrs(c))
        /\ DirtyAddrs(d) = IF op = "WRITE" THEN DirtyAddrs(c) \cup {blk}
                                           ELSE DirtyAddrs(c)
        /\ Stats(d) = [Stats(c) EXCEPT !.hits = c.hit_count + 1]
    BY <1>4, HitIsLru
  <2>2. Stats(c).hits = c.hit_count
    BY DEF Stats
  <2>3. Lru!HitStep(blk, op = "WRITE")
    BY <1>1, <2>1, <2>2 DEF Lru!HitStep, Lru!Hit
  <2> QED
    BY <2>3 DEF Lru!Access
<1>5. CASE ~Cached(c, addr)
  <2>1. /\ Stamps(c, d, addr, i)
        /\ d.sets[s][i].dirty <=> op = "WRITE"
        /\ ~full => ~c.sets[s][i].valid
        /\ full => \A j \in LineIds : /\ c.sets[s][j].valid
                                      /\ c.sets[s][i].lru <= c.sets[s][j].lru
        /\ Stats(d) =
              [hits |-> c.hit_count, misses |-> c.miss_count + 1,
               dirty_evictions |-> c.dirty_eviction_count
                         + IF full /\ c.sets[s][i].dirty THEN 1 ELSE 0,
               clean_evictions |-> c.clean_eviction_count
                         + IF full /\ ~c.sets[s][i].dirty THEN 1 ELSE 0]
    BY <1>5, MissTakes
  <2>2. /\ ResidentAddrs(d) = (ResidentAddrs(c) \ Left(c, addr, i)) \cup {blk}
        /\ UsedBefore(d) = NowLast(UsedBefore(c), blk, ResidentAddrs(d))
        /\ DirtyAddrs(d) = (DirtyAddrs(c) \ Left(c, addr, i))
                              \cup (IF op = "WRITE" THEN {blk} ELSE {})
    BY <2>1, StampHeld, StampBefore, StampDirty
  <2>3. i \in LineIds
    BY <2>1, StampLines
  <2>4. blk \notin ResidentAddrs(c)
    <3>1. ASSUME blk \in ResidentAddrs(c) PROVE FALSE
      <4>1. PICK t \in SetIds, j \in LineIds :
               c.sets[t][j].valid /\ blk = BlockIn(c, t, j)
        BY <3>1, HeldIs
      <4>2. c.sets[t][j].tag \in Nat /\ Tag(addr) \in Nat
        BY AddressTypes DEF CacheInv, CacheState, CacheLine
      <4>3. t = s /\ c.sets[t][j].tag = Tag(addr)
        BY <1>2, <4>1, <4>2, BlockAddrInjective DEF BlockOf, BlockIn
      <4> QED
        BY <1>5, <4>1, <4>3 DEF Cached, Matches
    <3> QED
      BY <3>1
  <2> HIDE DEF s, i, blk, full, c, d
  <2>5. CASE ~full
    <3>1. Left(c, addr, i) = {}
      BY <2>1, <2>5 DEF Left, s
    <3>2. Stats(d) = [Stats(c) EXCEPT !.misses = Stats(c).misses + 1]
      BY <2>1, <2>5 DEF Stats, CacheInv, CacheState, c
    <3>3. DirtyAddrs(d) = IF op = "WRITE" THEN DirtyAddrs(c) \cup {blk}
                                          ELSE DirtyAddrs(c)
      BY <2>2, <3>1
    <3>4. ResidentAddrs(d) = ResidentAddrs(c) \cup {blk}
      BY <2>2, <3>1
    <3>5. Lru!FillStep(blk, op = "WRITE")
      BY <1>1, <1>3, <2>2, <2>4, <2>5, <3>2, <3>3, <3>4
      DEF Lru!FillStep, Lru!Hit, c, d
    <3> QED
      BY <3>5 DEF Lru!Access, blk
  <2>6. CASE full
    <3> DEFINE victim == BlockIn(c, s, i)
    <3>1. c.sets[s][i].valid /\ Left(c, addr, i) = {victim}
      BY <2>1, <2>3, <2>6 DEF Left, s
    <3>2. victim \in ResidentAddrs(c) /\ SetIndex(victim) = s
      BY <1>2, <2>3, <3>1, HeldIs, BlockInSet DEF c
    <3>3. ASSUME NEW b, <<b, victim>> \in UsedBefore(c) PROVE FALSE
      <4>1. PICK t \in SetIds, j \in LineIds, k \in LineIds :
               /\ c.sets[t][j].valid /\ c.sets[t][k].valid
               /\ c.sets[t][j].lru < c.sets[t][k].lru
               /\ <<b, victim>> = <<BlockIn(c, t, j), BlockIn(c, t, k)>>
        BY <3>3, BeforeIs
      <4>2. victim = BlockIn(c, t, k)
        BY <4>1
      <4>3. t = s /\ k = i
        BY <1>2, <2>3, <3>1, <4>1, <4>2, BlockInOne DEF c
      <4>4. c.sets[s][i].lru <= c.sets[s][j].lru
        BY <2>1, <2>6
      <4>5. c.sets[s][i].lru \in Nat /\ c.sets[s][j].lru \in Nat
        BY <1>2, <2>3 DEF CacheInv, CacheState, CacheLine, c
      <4> QED
        BY <4>1, <4>3, <4>4, <4>5
    <3>4. victim \in Lru!LeastRecent(SetIndex(blk))
      BY <1>2, <3>2, <3>3 DEF Lru!LeastRecent, Lru!InSet, c
    <3>5. victim \in DirtyAddrs(c) <=> c.sets[s][i].dirty
      <4>1. ASSUME victim \in DirtyAddrs(c) PROVE c.sets[s][i].dirty
        <5>1. PICK t \in SetIds, j \in LineIds :
                 c.sets[t][j].valid /\ c.sets[t][j].dirty /\ victim = BlockIn(c, t, j)
          BY <4>1, DirtyIs
        <5>2. c.sets[t][j].valid /\ BlockIn(c, s, i) = BlockIn(c, t, j)
          BY <5>1, Zenon
        <5>3. t = s /\ j = i
          BY <1>2, <2>3, <3>1, <5>2, BlockInOne DEF c
        <5>4. c.sets[t][j].dirty
          BY <5>1
        <5> QED
          BY <5>3, <5>4, Zenon
      <4>2. ASSUME c.sets[s][i].dirty PROVE victim \in DirtyAddrs(c)
        BY <1>2, <2>3, <3>1, <4>2, DirtyIs
      <4> QED
        BY <4>1, <4>2, Zenon
    <3> HIDE DEF victim
    <3>6. Stats(d) = [hits |-> c.hit_count, misses |-> c.miss_count + 1,
               dirty_evictions |-> c.dirty_eviction_count
                         + IF victim \in DirtyAddrs(c) THEN 1 ELSE 0,
               clean_evictions |-> c.clean_eviction_count
                         + IF victim \in DirtyAddrs(c) THEN 0 ELSE 1]
      <4>1. CASE victim \in DirtyAddrs(c)
        BY <2>1, <2>6, <3>5, <4>1
      <4>2. CASE victim \notin DirtyAddrs(c)
        BY <2>1, <2>6, <3>5, <4>2
      <4> QED
        BY <4>1, <4>2
    <3>7. Stats(c) = [hits |-> c.hit_count, misses |-> c.miss_count,
                      dirty_evictions |-> c.dirty_eviction_count,
                      clean_evictions |-> c.clean_eviction_count]
      BY Zenon DEF Stats
    <3>8. Stats(d) =
             [hits |-> Stats(c).hits, misses |-> Stats(c).misses + 1,
              dirty_evictions |-> Stats(c).dirty_evictions
                        + IF victim \in DirtyAddrs(c) THEN 1 ELSE 0,
              clean_evictions |-> Stats(c).clean_evictions
                        + IF victim \in DirtyAddrs(c) THEN 0 ELSE 1]
      BY <3>6, <3>7
    <3>9. ResidentAddrs(d) = (ResidentAddrs(c) \ {victim}) \cup {blk}
      BY <2>2, <3>1
    <3>10. DirtyAddrs(d) = (DirtyAddrs(c) \ {victim})
                              \cup (IF op = "WRITE" THEN {blk} ELSE {})
      BY <2>2, <3>1
    <3>11. Lru!EvictStep(blk, op = "WRITE", victim)
      BY <1>1, <1>3, <2>2, <2>4, <2>6, <3>8, <3>9, <3>10
      DEF Lru!EvictStep, Lru!Hit, c, d
    <3> QED
      BY <3>4, <3>11 DEF Lru!Access, blk
  <2> QED
    BY <2>5, <2>6
<1> QED
  BY <1>4, <1>5

(* cache.c keeps its promise (cache.c:1-5): replaying any trace, its valid  *)
(* bits, tags, clocks and scans evict the least recently used block of a    *)
(* full set and no other, keep what was written dirty, and count each hit,  *)
(* miss and eviction: csim implements LruCache.                             *)
THEOREM CacheIsLru == Spec => ImplementsLru
<1>1. Init => Lru!LruInit
  <2> SUFFICES ASSUME Init PROVE Lru!LruInit
    OBVIOUS
  <2>1. \A s \in SetIds, i \in LineIds : ~cache.sets[s][i].valid
    BY DEF Init, create_cache, EmptyLine
  <2>2. ResidentAddrs(cache) = {}
    BY <2>1, HeldIs
  <2>3. DirtyAddrs(cache) = {}
    BY <2>1, DirtyIs
  <2>4. UsedBefore(cache) = {}
    BY <2>1, BeforeIs
  <2>5. Stats(cache) = [hits |-> 0, misses |-> 0, dirty_evictions |-> 0,
                        clean_evictions |-> 0]
    BY DEF Init, create_cache, Stats
  <2> QED
    BY <2>2, <2>3, <2>4, <2>5 DEF Lru!LruInit
<1>2. IInv /\ [Next]_vars => [Lru!LruNext]_(Lru!lruVars)
  <2> SUFFICES ASSUME IInv, [Next]_vars PROVE [Lru!LruNext]_(Lru!lruVars)
    OBVIOUS
  <2>1. ASSUME NEW addr \in Addrs, NEW op \in Operations,
               cache' = access_data(cache, addr, op)
        PROVE  Lru!LruNext
    <3>1. Lru!Access(BlockOf(addr), op = "WRITE")
      BY <2>1, AddrsAssumption, AccessIsLru DEF IInv
    <3>2. BlockOf(addr) \in {BlockOf(a) : a \in Addrs} /\ (op = "WRITE") \in BOOLEAN
      OBVIOUS
    <3> QED
      BY <3>1, <3>2, Zenon DEF Lru!LruNext
  <2>2. ASSUME NEW addr \in Addrs, ReplayStore(addr) PROVE Lru!LruNext
    BY <2>1, <2>2 DEF ReplayStore, Operations
  <2>3. ASSUME NEW addr \in Addrs, ReplayLoad(addr) PROVE Lru!LruNext
    BY <2>1, <2>3 DEF ReplayLoad, Operations
  <2>4. ASSUME NEW addr \in Addrs, ReplayModifyLoad(addr) PROVE Lru!LruNext
    BY <2>1, <2>4 DEF ReplayModifyLoad, Operations
  <2>5. ASSUME ReplayModifyStore PROVE Lru!LruNext
    BY <2>1, <2>5 DEF ReplayModifyStore, Operations, IInv
  <2>6. ASSUME UNCHANGED vars PROVE UNCHANGED Lru!lruVars
    BY <2>6 DEF vars, Lru!lruVars
  <2> QED
    BY <2>2, <2>3, <2>4, <2>5, <2>6 DEF Next
<1> QED
  BY <1>1, <1>2, Inductive, PTL DEF Spec, ImplementsLru, Lru!LruSpec
=============================================================================
