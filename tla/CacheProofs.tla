----------------------------- MODULE CacheProofs -----------------------------
(***************************************************************************)
(* Lemmas about the operators of Cache, for every geometry: the lines that *)
(* get_line and select_line pick exist and are the right ones, and each    *)
(* function keeps CacheInv and Accounted.  CSimProofs and later proofs     *)
(* cite them.                                                              *)
(***************************************************************************)
EXTENDS Cache, FiniteSetTheorems, WellFoundedInduction, TLAPS

(* Every non-empty set of naturals has a least element.                    *)
LEMMA MinExists ==
    ASSUME NEW T \in SUBSET Nat, T # {}
    PROVE  \E x \in T : \A y \in T : x <= y
<1>1. PICK x \in T : \A y \in T : ~(<<y, x>> \in OpToRel(<, Nat))
  BY NatLessThanWellFounded, WFMin
<1>2. \A y \in T : ~(y < x)
  BY <1>1 DEF OpToRel
<1> QED
  BY <1>2

(* What Min returns on a non-empty set of naturals.                        *)
LEMMA MinProperty ==
    ASSUME NEW T \in SUBSET Nat, T # {}
    PROVE  Min(T) \in T /\ \A y \in T : Min(T) <= y
  BY MinExists DEF Min

(* What Max returns on a non-empty set of naturals below a bound.          *)
LEMMA MaxProperty ==
    ASSUME NEW n \in Nat, NEW T \in SUBSET (0 .. n), T # {}
    PROVE  Max(T) \in T /\ \A y \in T : Max(T) >= y
<1> DEFINE U == {n - x : x \in T}
<1>0. \A x \in T : x \in Int /\ n - x \in Nat
  OBVIOUS
<1>1. U \in SUBSET Nat /\ U # {}
  BY <1>0
<1>2. PICK u \in U : \A v \in U : u <= v
  BY <1>1, MinExists
<1>3. PICK x \in T : u = n - x
  BY <1>2
<1>4. ASSUME NEW y \in T PROVE x >= y
  <2>1. n - x <= n - y
    BY <1>2, <1>3
  <2> QED
    BY <1>0, <2>1
<1> QED
  BY <1>4 DEF Max

---------------------------------------------------------------------------
(* An address maps to a set that exists and to a tag.                      *)
LEMMA AddressTypes ==
    ASSUME NEW addr \in Nat
    PROVE  SetIndex(addr) \in SetIds /\ Tag(addr) \in Nat
<1>1. addr \div B \in Nat
  BY GeometryAssumption
<1>2. (addr \div B) % S \in 0 .. S - 1
  BY <1>1, GeometryAssumption
<1>3. B * S \in Nat \ {0}
  BY GeometryAssumption
<1>4. addr \div (B * S) \in Nat
  BY <1>3
<1> QED
  BY <1>2, <1>4 DEF SetIndex, Tag, SetIds

(* On a hit, get_line returns a valid line that holds the address's tag.   *)
LEMMA GetLineFinds ==
    ASSUME NEW c, NEW addr, Cached(c, addr)
    PROVE  get_line(c, addr) \in Matches(c, addr)
<1>1. E - 1 \in Nat /\ Matches(c, addr) \in SUBSET (0 .. E - 1)
  BY GeometryAssumption DEF Matches, LineIds
<1> QED
  BY <1>1, MaxProperty DEF Cached, get_line

(* select_line returns a line of the set, an invalid one if there is one,  *)
(* and otherwise one that no other line is older than.                     *)
LEMMA SelectLineFinds ==
    ASSUME NEW c \in CacheState, NEW addr \in Nat
    PROVE  LET lines == c.sets[SetIndex(addr)]
               i     == select_line(c, addr)
           IN  /\ i \in LineIds
               /\ Invalid(lines) # {} => i \in Invalid(lines)
               /\ Invalid(lines) = {} => i \in Oldest(lines)
<1> DEFINE lines == c.sets[SetIndex(addr)]
<1>1. lines \in [LineIds -> CacheLine]
  BY AddressTypes DEF CacheState
<1>2. LineIds \in SUBSET Nat /\ 0 \in LineIds
  BY GeometryAssumption DEF LineIds
<1>3. CASE Invalid(lines) # {}
  <2>1. Min(Invalid(lines)) \in Invalid(lines)
    BY <1>2, <1>3, MinProperty DEF Invalid
  <2> QED
    BY <1>3, <2>1 DEF select_line, Invalid
<1>4. CASE Invalid(lines) = {}
  <2> DEFINE times == {lines[i].lru : i \in LineIds}
  <2>1. times \in SUBSET Nat /\ times # {}
    BY <1>1, <1>2 DEF CacheLine
  <2>2. PICK t \in times : \A u \in times : t <= u
    BY <2>1, MinExists
  <2>3. Oldest(lines) # {}
    BY <2>2 DEF Oldest
  <2>4. Min(Oldest(lines)) \in Oldest(lines)
    BY <1>2, <2>3, MinProperty DEF Oldest
  <2> QED
    BY <1>4, <2>4 DEF select_line, Oldest
<1> QED
  BY <1>3, <1>4

---------------------------------------------------------------------------
(* A new cache satisfies the invariant and has nothing to account for.     *)
LEMMA CreateCacheInv == CacheInv(create_cache)
<1>1. EmptyLine \in CacheLine
  BY BlockAssumption DEF EmptyLine, CacheLine
<1>2. create_cache \in CacheState
  BY <1>1 DEF create_cache, CacheState
<1>3. \A s \in SetIds, i \in LineIds : ~create_cache.sets[s][i].valid
  BY DEF create_cache, EmptyLine
<1> QED
  BY <1>2, <1>3 DEF CacheInv, DistinctLines, PastTimes

(* Replacing one line leaves every other line as it was.                   *)
LEMMA PutLineIs ==
    ASSUME NEW sets \in [SetIds -> [LineIds -> CacheLine]],
           NEW s \in SetIds, NEW i \in LineIds, NEW line \in CacheLine
    PROVE  /\ PutLine(sets, s, i, line) \in [SetIds -> [LineIds -> CacheLine]]
           /\ PutLine(sets, s, i, line)[s][i] = line
           /\ \A s2 \in SetIds, i2 \in LineIds :
                 s2 # s \/ i2 # i =>
                    PutLine(sets, s, i, line)[s2][i2] = sets[s2][i2]
  BY DEF PutLine

(* The step both Touch and handle_miss make: line i of set s becomes valid *)
(* with the time of the clock and a tag no other line of the set holds,    *)
(* and the clock ticks.                                                    *)
LEMMA StampInv ==
    ASSUME NEW c, CacheInv(c), NEW d \in CacheState,
           NEW s \in SetIds, NEW i \in LineIds, NEW line \in CacheLine,
           d.sets = PutLine(c.sets, s, i, line),
           d.next_lru = c.next_lru + 1,
           line.lru = c.next_lru,
           \A j \in LineIds :
              j # i /\ c.sets[s][j].valid => c.sets[s][j].tag # line.tag
    PROVE  CacheInv(d)
<1>1. c.sets \in [SetIds -> [LineIds -> CacheLine]] /\ c.next_lru \in Nat
  BY DEF CacheInv, CacheState
<1>2. \A s2 \in SetIds, j \in LineIds :
          d.sets[s2][j] = IF s2 = s /\ j = i THEN line ELSE c.sets[s2][j]
  <2> TAKE s2 \in SetIds, j \in LineIds
  <2>1. CASE s2 = s /\ j = i
    BY <1>1, <2>1, PutLineIs
  <2>2. CASE s2 # s \/ j # i
    BY <1>1, <2>2 DEF PutLine
  <2> QED
    BY <2>1, <2>2
<1>0. \A s2 \in SetIds, j \in LineIds : c.sets[s2][j].lru \in Nat
  <2> TAKE s2 \in SetIds, j \in LineIds
  <2>1. c.sets[s2][j] \in CacheLine
    BY <1>1
  <2> QED
    BY <2>1 DEF CacheLine
<1>3. PastTimes(d)
  BY <1>0, <1>1, <1>2 DEF PastTimes, CacheInv
<1>4. DistinctLines(d)
  <2> SUFFICES ASSUME NEW s2 \in SetIds, NEW j \in LineIds, NEW k \in LineIds,
                      d.sets[s2][j].valid, d.sets[s2][k].valid, j # k
               PROVE  /\ d.sets[s2][j].tag # d.sets[s2][k].tag
                      /\ d.sets[s2][j].lru # d.sets[s2][k].lru
    BY DEF DistinctLines
  <2>1. CASE s2 = s /\ j = i
    BY <1>1, <1>2, <2>1 DEF PastTimes, CacheInv
  <2>2. CASE s2 = s /\ k = i
    BY <1>1, <1>2, <2>2 DEF PastTimes, CacheInv
  <2>3. CASE s2 # s \/ (j # i /\ k # i)
    BY <1>2, <2>3 DEF DistinctLines, CacheInv
  <2> QED
    BY <2>1, <2>2, <2>3
<1> QED
  BY <1>3, <1>4 DEF CacheInv

---------------------------------------------------------------------------
(* Updating the lines, the clock and the counters keeps the type.          *)
LEMMA UpdateType ==
    ASSUME NEW c \in CacheState,
           NEW sets \in [SetIds -> [LineIds -> CacheLine]],
           NEW t \in Nat, NEW h \in Nat, NEW nd \in Nat, NEW nc \in Nat
    PROVE  /\ [c EXCEPT !.sets = sets, !.next_lru = t, !.hit_count = h] \in CacheState
           /\ [c EXCEPT !.sets = sets, !.next_lru = t,
                        !.dirty_eviction_count = nd,
                        !.clean_eviction_count = nc] \in CacheState
           /\ [c EXCEPT !.miss_count = h] \in CacheState
  BY DEF CacheState

(* A hit keeps the invariant: the line touched is the only one with its    *)
(* tag, and gets a time no line has.                                       *)
LEMMA TouchInv ==
    ASSUME NEW c, CacheInv(c), NEW addr \in Nat, Cached(c, addr),
           NEW op \in Operations
    PROVE  CacheInv(Touch(c, addr, op))
<1> DEFINE s    == SetIndex(addr)
           i    == get_line(c, addr)
           old  == c.sets[s][i]
           line == [old EXCEPT !.dirty = old.dirty \/ op # "READ",
                               !.lru = c.next_lru]
           d    == Touch(c, addr, op)
<1>1. s \in SetIds /\ i \in LineIds /\ c \in CacheState /\ old.valid
  BY AddressTypes, GetLineFinds DEF Matches, CacheInv
<1>2. old \in CacheLine /\ c.next_lru \in Nat
  BY <1>1 DEF CacheState
<1>3. line \in CacheLine /\ line.tag = old.tag /\ line.lru = c.next_lru
  BY <1>2 DEF CacheLine
<1>4. PutLine(c.sets, s, i, line) \in [SetIds -> [LineIds -> CacheLine]]
  BY <1>1, <1>3, PutLineIs DEF CacheState
<1>8. d = [c EXCEPT !.sets = PutLine(c.sets, s, i, line),
                    !.next_lru = c.next_lru + 1,
                    !.hit_count = c.hit_count + 1]
  BY DEF Touch
<1>6. \A j \in LineIds :
          j # i /\ c.sets[s][j].valid => c.sets[s][j].tag # line.tag
  BY <1>1, <1>3 DEF CacheInv, DistinctLines
<1> HIDE DEF s, i, old, line, d
<1>5. /\ d \in CacheState
      /\ d.sets = PutLine(c.sets, s, i, line)
      /\ d.next_lru = c.next_lru + 1
  <2>1. c.next_lru + 1 \in Nat /\ c.hit_count + 1 \in Nat
    BY <1>1 DEF CacheState
  <2>2. d \in CacheState
    BY <1>1, <1>4, <1>8, <2>1, UpdateType
  <2> QED
    BY <1>1, <1>8, <2>2 DEF CacheState
<1>7. CacheInv(d)
  BY <1>1, <1>3, <1>5, <1>6, StampInv
<1> QED
  BY <1>7 DEF d

(* A miss keeps the invariant: the block was in no line of its set.        *)
LEMMA HandleMissInv ==
    ASSUME NEW c, CacheInv(c), NEW addr \in Nat, ~Cached(c, addr),
           NEW op \in Operations, NEW data \in Block \cup {NULL}
    PROVE  CacheInv(handle_miss(c, addr, op, data))
<1> DEFINE s    == SetIndex(addr)
           i    == select_line(c, addr)
           old  == c.sets[s][i]
           line == [valid |-> TRUE, tag |-> Tag(addr), lru |-> c.next_lru,
                    dirty |-> op = "WRITE",
                    data |-> IF data = NULL THEN old.data ELSE data]
           d    == handle_miss(c, addr, op, data)
<1>1. s \in SetIds /\ i \in LineIds /\ c \in CacheState
  BY AddressTypes, SelectLineFinds DEF CacheInv
<1>2. old \in CacheLine /\ c.next_lru \in Nat
  BY <1>1 DEF CacheState
<1>3. line \in CacheLine /\ line.tag = Tag(addr) /\ line.lru = c.next_lru
  BY <1>2, AddressTypes, BlockAssumption DEF CacheLine
<1>4. PutLine(c.sets, s, i, line) \in [SetIds -> [LineIds -> CacheLine]]
  BY <1>1, <1>3, PutLineIs DEF CacheState
<1>6. \A j \in LineIds : c.sets[s][j].valid => c.sets[s][j].tag # line.tag
  BY <1>1, <1>3 DEF Cached, Matches
<1>8. \E nd, nc \in {0, 1} :
         d = [c EXCEPT !.sets = PutLine(c.sets, s, i, line),
                       !.next_lru = c.next_lru + 1,
                       !.dirty_eviction_count = c.dirty_eviction_count + nd,
                       !.clean_eviction_count = c.clean_eviction_count + nc]
  <2> DEFINE full == Invalid(c.sets[s]) = {}
  <2>1. d = [c EXCEPT
               !.sets = PutLine(c.sets, s, i, line),
               !.next_lru = c.next_lru + 1,
               !.dirty_eviction_count =
                   c.dirty_eviction_count + (IF full /\ old.dirty THEN 1 ELSE 0),
               !.clean_eviction_count =
                   c.clean_eviction_count + (IF full /\ ~old.dirty THEN 1 ELSE 0)]
    BY DEF handle_miss
  <2> HIDE DEF s, i, old, line, d
  <2> QED
    BY <2>1
<1> HIDE DEF s, i, old, line, d
<1>5. /\ d \in CacheState
      /\ d.sets = PutLine(c.sets, s, i, line)
      /\ d.next_lru = c.next_lru + 1
  <2>1. PICK nd, nc \in {0, 1} :
          d = [c EXCEPT !.sets = PutLine(c.sets, s, i, line),
                        !.next_lru = c.next_lru + 1,
                        !.dirty_eviction_count = c.dirty_eviction_count + nd,
                        !.clean_eviction_count = c.clean_eviction_count + nc]
    BY <1>8
  <2>2. /\ c.next_lru + 1 \in Nat
        /\ c.dirty_eviction_count + nd \in Nat
        /\ c.clean_eviction_count + nc \in Nat
    BY <1>1 DEF CacheState
  <2>3. d \in CacheState
    BY <1>1, <1>4, <2>1, <2>2, UpdateType
  <2> QED
    BY <1>1, <2>1, <2>3 DEF CacheState
<1>7. CacheInv(d)
  BY <1>1, <1>3, <1>5, <1>6, StampInv
<1> QED
  BY <1>7 DEF d

(* A lookup keeps the invariant, hit or miss.                              *)
LEMMA CheckHitInv ==
    ASSUME NEW c, CacheInv(c), NEW addr \in Nat, NEW op \in Operations
    PROVE  CacheInv(check_hit(c, addr, op))
<1> DEFINE d == [c EXCEPT !.miss_count = c.miss_count + 1]
<1>1. CASE Cached(c, addr)
  BY <1>1, TouchInv DEF check_hit
<1>2. CASE ~Cached(c, addr)
  <2>1. d \in CacheState /\ d.sets = c.sets /\ d.next_lru = c.next_lru
    BY DEF CacheInv, CacheState
  <2>2. CacheInv(d)
    BY <2>1 DEF CacheInv, DistinctLines, PastTimes
  <2> QED
    BY <1>2, <2>2 DEF check_hit
<1> QED
  BY <1>1, <1>2

(* One reference of a trace keeps the invariant.                           *)
LEMMA AccessDataInv ==
    ASSUME NEW c, CacheInv(c), NEW addr \in Nat, NEW op \in Operations
    PROVE  CacheInv(access_data(c, addr, op))
<1> DEFINE d == check_hit(c, addr, op)
<1>1. CacheInv(d)
  BY CheckHitInv
<1>2. CASE Cached(c, addr)
  BY <1>1, <1>2 DEF access_data
<1>3. CASE ~Cached(c, addr)
  <2>1. d = [c EXCEPT !.miss_count = c.miss_count + 1]
    BY <1>3 DEF check_hit
  <2>2. d.sets = c.sets
    BY <2>1 DEF CacheInv, CacheState
  <2>3. ~Cached(d, addr)
    BY <1>3, <2>2 DEF Cached, Matches
  <2>4. CacheInv(handle_miss(d, addr, op, NULL))
    BY <1>1, <2>3, HandleMissInv
  <2> QED
    BY <1>3, <2>4 DEF access_data
<1> QED
  BY <1>2, <1>3

---------------------------------------------------------------------------
(* The valid lines of a cache are finitely many.                           *)
LEMMA ValidLinesFinite ==
    ASSUME NEW c
    PROVE  IsFiniteSet(ValidLines(c)) /\ Cardinality(ValidLines(c)) \in Nat
<1>1. IsFiniteSet(SetIds) /\ IsFiniteSet(LineIds)
  BY FS_Interval, GeometryAssumption DEF SetIds, LineIds
<1>2. IsFiniteSet(SetIds \X LineIds)
  BY <1>1, FS_Product
<1>3. ValidLines(c) \in SUBSET (SetIds \X LineIds)
  BY DEF ValidLines
<1> QED
  BY <1>2, <1>3, FS_Subset, FS_CardinalityType

(* Replacing a line by a valid one adds it to the valid lines.             *)
LEMMA PutLineValid ==
    ASSUME NEW c \in CacheState, NEW d,
           NEW s \in SetIds, NEW i \in LineIds, NEW line \in CacheLine,
           line.valid, d.sets = PutLine(c.sets, s, i, line)
    PROVE  ValidLines(d) = ValidLines(c) \cup {<<s, i>>}
<1>1. c.sets \in [SetIds -> [LineIds -> CacheLine]]
  BY DEF CacheState
<1>2. ASSUME NEW p \in SetIds \X LineIds
      PROVE  p \in ValidLines(d) <=> p \in ValidLines(c) \cup {<<s, i>>}
  <2>1. p = <<p[1], p[2]>> /\ p[1] \in SetIds /\ p[2] \in LineIds
    OBVIOUS
  <2>2. CASE p[1] = s /\ p[2] = i
    <3>1. d.sets[p[1]][p[2]] = line
      BY <1>1, <2>2, PutLineIs
    <3> QED
      BY <2>1, <2>2, <3>1 DEF ValidLines
  <2>3. CASE p[1] # s \/ p[2] # i
    <3>1. d.sets[p[1]][p[2]] = c.sets[p[1]][p[2]]
      BY <1>1, <2>1, <2>3 DEF PutLine
    <3> QED
      BY <2>1, <2>3, <3>1 DEF ValidLines
  <2> QED
    BY <2>2, <2>3
<1> QED
  BY <1>2 DEF ValidLines

(* A hit brings nothing in and counts no eviction.                         *)
LEMMA TouchAccounted ==
    ASSUME NEW c, CacheInv(c), Accounted(c),
           NEW addr \in Nat, Cached(c, addr), NEW op \in Operations
    PROVE  Accounted(Touch(c, addr, op))
<1> DEFINE s    == SetIndex(addr)
           i    == get_line(c, addr)
           old  == c.sets[s][i]
           line == [old EXCEPT !.dirty = old.dirty \/ op # "READ",
                               !.lru = c.next_lru]
           d    == Touch(c, addr, op)
<1>1. s \in SetIds /\ i \in LineIds /\ c \in CacheState /\ old.valid
  BY AddressTypes, GetLineFinds DEF Matches, CacheInv
<1>2. old \in CacheLine /\ c.next_lru \in Nat
  BY <1>1 DEF CacheState
<1>3. line \in CacheLine /\ line.valid
  BY <1>1, <1>2 DEF CacheLine
<1>4. d = [c EXCEPT !.sets = PutLine(c.sets, s, i, line),
                    !.next_lru = c.next_lru + 1,
                    !.hit_count = c.hit_count + 1]
  BY DEF Touch
<1>5. <<s, i>> \in ValidLines(c)
  BY <1>1 DEF ValidLines
<1> HIDE DEF s, i, old, line, d
<1>6. /\ d.sets = PutLine(c.sets, s, i, line)
      /\ d.miss_count = c.miss_count
      /\ d.dirty_eviction_count = c.dirty_eviction_count
      /\ d.clean_eviction_count = c.clean_eviction_count
  BY <1>1, <1>4 DEF CacheState
<1>7. ValidLines(d) = ValidLines(c)
  <2>1. ValidLines(d) = ValidLines(c) \cup {<<s, i>>}
    BY <1>1, <1>3, <1>6, PutLineValid
  <2> QED
    BY <1>5, <2>1
<1>8. Accounted(d)
  BY <1>6, <1>7 DEF Accounted
<1> QED
  BY <1>8 DEF d

(* A miss brings one block in, into a free line or over one that it counts. *)
LEMMA HandleMissAccounted ==
    ASSUME NEW c \in CacheState, NEW addr \in Nat, NEW op \in Operations,
           NEW data \in Block \cup {NULL},
           c.miss_count = 1 + Cardinality(ValidLines(c))
                            + c.dirty_eviction_count + c.clean_eviction_count
    PROVE  Accounted(handle_miss(c, addr, op, data))
<1> DEFINE s    == SetIndex(addr)
           i    == select_line(c, addr)
           old  == c.sets[s][i]
           full == Invalid(c.sets[s]) = {}
           line == [valid |-> TRUE, tag |-> Tag(addr), lru |-> c.next_lru,
                    dirty |-> op = "WRITE",
                    data |-> IF data = NULL THEN old.data ELSE data]
           d    == handle_miss(c, addr, op, data)
<1>1. s \in SetIds /\ i \in LineIds /\ (~full => i \in Invalid(c.sets[s]))
  BY AddressTypes, SelectLineFinds
<1>2. /\ old \in CacheLine
      /\ c.next_lru \in Nat /\ c.miss_count \in Nat
      /\ c.dirty_eviction_count \in Nat /\ c.clean_eviction_count \in Nat
  BY <1>1 DEF CacheState
<1>3. line \in CacheLine /\ line.valid
  BY <1>2, AddressTypes, BlockAssumption DEF CacheLine
<1>4. d = [c EXCEPT
             !.sets = PutLine(c.sets, s, i, line),
             !.next_lru = c.next_lru + 1,
             !.dirty_eviction_count =
                 c.dirty_eviction_count + (IF full /\ old.dirty THEN 1 ELSE 0),
             !.clean_eviction_count =
                 c.clean_eviction_count + (IF full /\ ~old.dirty THEN 1 ELSE 0)]
  BY DEF handle_miss
<1>5. <<s, i>> \in ValidLines(c) <=> full
  BY <1>1 DEF ValidLines, Invalid
<1> HIDE DEF s, i, old, full, line, d
<1>6. /\ d.sets = PutLine(c.sets, s, i, line)
      /\ d.miss_count = c.miss_count
      /\ d.dirty_eviction_count =
            c.dirty_eviction_count + (IF full /\ old.dirty THEN 1 ELSE 0)
      /\ d.clean_eviction_count =
            c.clean_eviction_count + (IF full /\ ~old.dirty THEN 1 ELSE 0)
  BY <1>4 DEF CacheState
<1>7. ValidLines(d) = ValidLines(c) \cup {<<s, i>>}
  BY <1>1, <1>3, <1>6, PutLineValid
<1>8. /\ Cardinality(ValidLines(c)) \in Nat
      /\ Cardinality(ValidLines(d)) =
            Cardinality(ValidLines(c)) + (IF full THEN 0 ELSE 1)
  <2>1. IsFiniteSet(ValidLines(c)) /\ Cardinality(ValidLines(c)) \in Nat
    BY ValidLinesFinite
  <2>2. Cardinality(ValidLines(c) \cup {<<s, i>>}) =
            IF <<s, i>> \in ValidLines(c) THEN Cardinality(ValidLines(c))
                                          ELSE Cardinality(ValidLines(c)) + 1
    BY <2>1, FS_AddElement
  <2> QED
    BY <1>5, <1>7, <2>1, <2>2
<1>9. Accounted(d)
  <2>1. CASE ~full
    BY <1>2, <1>6, <1>8, <2>1 DEF Accounted
  <2>2. CASE full /\ old.dirty
    BY <1>2, <1>6, <1>8, <2>2 DEF Accounted
  <2>3. CASE full /\ ~old.dirty
    BY <1>2, <1>6, <1>8, <2>3 DEF Accounted
  <2> QED
    BY <2>1, <2>2, <2>3
<1> QED
  BY <1>9 DEF d

(* One reference of a trace keeps the accounts.                            *)
LEMMA AccessDataAccounted ==
    ASSUME NEW c, CacheInv(c), Accounted(c),
           NEW addr \in Nat, NEW op \in Operations
    PROVE  Accounted(access_data(c, addr, op))
<1>1. CASE Cached(c, addr)
  BY <1>1, TouchAccounted DEF access_data, check_hit
<1>2. CASE ~Cached(c, addr)
  <2> DEFINE d == [c EXCEPT !.miss_count = c.miss_count + 1]
  <2>1. /\ c \in CacheState
        /\ c.miss_count \in Nat
        /\ c.dirty_eviction_count \in Nat /\ c.clean_eviction_count \in Nat
    BY DEF CacheInv, CacheState
  <2>2. /\ d \in CacheState
        /\ d.sets = c.sets
        /\ d.miss_count = c.miss_count + 1
        /\ d.dirty_eviction_count = c.dirty_eviction_count
        /\ d.clean_eviction_count = c.clean_eviction_count
    <3>1. c.miss_count + 1 \in Nat
      BY <2>1
    <3>2. d \in CacheState
      BY <2>1, <3>1 DEF CacheState
    <3> QED
      BY <2>1, <3>2 DEF CacheState
  <2>3. access_data(c, addr, op) = handle_miss(d, addr, op, NULL)
    BY <1>2 DEF access_data, check_hit
  <2> HIDE DEF d
  <2>4. ValidLines(d) = ValidLines(c)
    BY <2>2 DEF ValidLines
  <2>5. Cardinality(ValidLines(c)) \in Nat
    BY ValidLinesFinite
  <2>6. d.miss_count = 1 + Cardinality(ValidLines(d))
                         + d.dirty_eviction_count + d.clean_eviction_count
    BY <2>1, <2>2, <2>4, <2>5 DEF Accounted
  <2> QED
    BY <2>2, <2>3, <2>6, HandleMissAccounted
<1> QED
  BY <1>1, <1>2

---------------------------------------------------------------------------
(* Arithmetic of addresses.                                                 *)

(* More whole multiples are more by at least one.                           *)
LEMMA MultipleAbove ==
    ASSUME NEW d \in Nat, NEW p \in Int, NEW q \in Int, p < q
    PROVE  p * d + d <= q * d
<1>1. PICK n \in Nat : q = p + 1 + n
  <2>1. q - p - 1 \in Nat /\ q = p + 1 + (q - p - 1)
    OBVIOUS
  <2> QED
    BY <2>1
<1>2. n * d >= 0
  OBVIOUS
<1>3. q * d = p * d + d + n * d
  BY <1>1
<1>4. p * d \in Int /\ n * d \in Int
  OBVIOUS
<1> QED
  BY <1>2, <1>3, <1>4

(* Quotient and remainder are unique.                                       *)
LEMMA DivisionUnique ==
    ASSUME NEW d \in Nat \ {0}, NEW q \in Nat, NEW r \in 0 .. d - 1
    PROVE  (q * d + r) \div d = q /\ ((q * d + r) % d) = r
<1> DEFINE x == q * d + r
           p == x \div d
           m == x % d
<1>1. x \in Nat /\ q * d \in Nat
  OBVIOUS
<1>2. p \in Int /\ m \in 0 .. d - 1 /\ x = d * p + m
  BY <1>1
<1>3. p * d \in Int /\ d * p = p * d
  BY <1>2
<1> HIDE DEF p, m
<1>4. ~(p < q)
  <2> SUFFICES ASSUME p < q PROVE FALSE
    OBVIOUS
  <2>1. p * d + d <= q * d
    BY <1>2, MultipleAbove
  <2> QED
    BY <1>1, <1>2, <1>3, <2>1
<1>5. ~(q < p)
  <2> SUFFICES ASSUME q < p PROVE FALSE
    OBVIOUS
  <2>1. q * d + d <= p * d
    BY <1>2, MultipleAbove
  <2> QED
    BY <1>1, <1>2, <1>3, <2>1
<1>6. p = q
  BY <1>2, <1>4, <1>5
<1>7. m = r
  BY <1>1, <1>2, <1>3, <1>6
<1> QED
  BY <1>6, <1>7 DEF p, m

(* An address is its block's number and an offset.                          *)
LEMMA DivisionOf ==
    ASSUME NEW d \in Nat \ {0}, NEW x \in Nat
    PROVE  x \div d \in Nat /\ (x % d) \in 0 .. d - 1 /\ x = ((x \div d) * d) + (x % d)
OBVIOUS

(* The tag is what is left of the block's number above the set index.      *)
LEMMA TagOfBlock ==
    ASSUME NEW addr \in Nat PROVE Tag(addr) = (addr \div B) \div S
<1> DEFINE q == addr \div B
           r == addr % B
           t == q \div S
           u == q % S
<1>1. B \in Nat \ {0} /\ S \in Nat \ {0} /\ B * S \in Nat \ {0}
  BY GeometryAssumption
<1>2. q \in Nat /\ r \in 0 .. B - 1 /\ addr = q * B + r
  BY <1>1, DivisionOf
<1>3. t \in Nat /\ u \in 0 .. S - 1 /\ q = t * S + u
  BY <1>1, <1>2, DivisionOf
<1> HIDE DEF q, r, t, u
<1>4. addr = t * (B * S) + (u * B + r)
  BY <1>1, <1>2, <1>3
<1>5. u * B + r \in 0 .. B * S - 1
  <2>1. u * B + B <= S * B
    BY <1>1, <1>3, MultipleAbove
  <2>2. u * B \in Nat /\ S * B = B * S
    BY <1>1, <1>3
  <2> QED
    BY <1>1, <1>2, <2>1, <2>2
<1>6. (t * (B * S) + (u * B + r)) \div (B * S) = t
  BY <1>1, <1>3, <1>5, DivisionUnique
<1> QED
  BY <1>4, <1>6 DEF Tag, t, q

(* BlockAddr undoes SetIndex and Tag.                                       *)
LEMMA BlockAddrIs ==
    ASSUME NEW s \in SetIds, NEW tag \in Nat, NEW o \in 0 .. B - 1
    PROVE  /\ BlockAddr(s, tag) \in Nat /\ BlockAddr(s, tag) + o \in Nat
           /\ SetIndex(BlockAddr(s, tag) + o) = s
           /\ Tag(BlockAddr(s, tag) + o) = tag
           /\ ((BlockAddr(s, tag) + o) % B) = o
<1>1. /\ B \in Nat \ {0} /\ S \in Nat \ {0} /\ s \in 0 .. S - 1 /\ s \in Nat
  BY GeometryAssumption DEF SetIds
<1>2. tag * S + s \in Nat
  BY <1>1
<1>3. BlockAddr(s, tag) = (tag * S + s) * B /\ (tag * S + s) * B \in Nat
  <2>1. s * B + tag * (B * S) = (tag * S + s) * B
    BY <1>1
  <2> QED
    BY <1>1, <1>2, <2>1 DEF BlockAddr
<1>4. /\ (BlockAddr(s, tag) + o) \div B = tag * S + s
      /\ ((BlockAddr(s, tag) + o) % B) = o
  <2> DEFINE q == tag * S + s
  <2>1. q \in Nat /\ o \in 0 .. B - 1 /\ B \in Nat \ {0}
    BY <1>1, <1>2
  <2>2. BlockAddr(s, tag) + o = q * B + o
    BY <1>3
  <2> HIDE DEF q
  <2>3. (q * B + o) \div B = q /\ ((q * B + o) % B) = o
    BY <2>1, DivisionUnique
  <2>4. (BlockAddr(s, tag) + o) \div B = q /\ ((BlockAddr(s, tag) + o) % B) = o
    BY <2>2, <2>3, Zenon
  <2> QED
    BY <2>4 DEF q
<1>5. (tag * S + s) \div S = tag /\ ((tag * S + s) % S) = s
  BY <1>1, DivisionUnique
<1>6. BlockAddr(s, tag) \in Nat /\ BlockAddr(s, tag) + o \in Nat
  BY <1>1, <1>3
<1> QED
  BY <1>4, <1>5, <1>6, TagOfBlock DEF SetIndex

---------------------------------------------------------------------------
(* What a cache holds.                                                      *)

\* d holds what c holds, with at least its dirty bits.
SameContent(c, d) ==
    \A s \in SetIds, i \in LineIds :
        /\ d.sets[s][i].valid = c.sets[s][i].valid
        /\ d.sets[s][i].tag = c.sets[s][i].tag
        /\ d.sets[s][i].data = c.sets[s][i].data
        /\ c.sets[s][i].dirty => d.sets[s][i].dirty

(* The line that holds an address's block is the one get_line returns.      *)
LEMMA LineIs ==
    ASSUME NEW c, DistinctLines(c), NEW x \in Nat, NEW i \in LineIds,
           c.sets[SetIndex(x)][i].valid, c.sets[SetIndex(x)][i].tag = Tag(x)
    PROVE  Cached(c, x) /\ get_line(c, x) = i
<1>1. SetIndex(x) \in SetIds
  BY AddressTypes
<1>2. i \in Matches(c, x) /\ Cached(c, x)
  BY DEF Matches, Cached
<1>3. get_line(c, x) \in Matches(c, x)
  BY <1>2, GetLineFinds
<1>4. \A j \in Matches(c, x) : j = i
  BY <1>1 DEF Matches, DistinctLines
<1> QED
  BY <1>2, <1>3, <1>4

(* Whether and where a block is cached depends on its set and tag only.     *)
LEMMA CachedSameBlock ==
    ASSUME NEW c, NEW addr, NEW x, SetIndex(x) = SetIndex(addr), Tag(x) = Tag(addr)
    PROVE  (Cached(c, x) <=> Cached(c, addr)) /\ get_line(c, x) = get_line(c, addr)
<1>1. Matches(c, x) = Matches(c, addr)
  BY DEF Matches
<1> QED
  BY <1>1 DEF Cached, get_line

(* A hit changes no content, and a hit of a store leaves its line dirty.    *)
LEMMA TouchContent ==
    ASSUME NEW c, CacheInv(c), NEW addr \in Nat, Cached(c, addr),
           NEW op \in Operations
    PROVE  /\ SameContent(c, Touch(c, addr, op))
           /\ op = "WRITE" =>
                 Touch(c, addr, op).sets[SetIndex(addr)][get_line(c, addr)].dirty
<1> DEFINE s    == SetIndex(addr)
           i    == get_line(c, addr)
           old  == c.sets[s][i]
           line == [old EXCEPT !.dirty = old.dirty \/ op # "READ",
                               !.lru = c.next_lru]
           d    == Touch(c, addr, op)
<1>1. s \in SetIds /\ i \in LineIds /\ c \in CacheState /\ old.valid
  BY AddressTypes, GetLineFinds DEF Matches, CacheInv
<1>2. old \in CacheLine /\ c.next_lru \in Nat
  BY <1>1 DEF CacheState
<1>3. /\ line \in CacheLine
      /\ line.tag = old.tag /\ line.valid = old.valid /\ line.data = old.data
  BY <1>2 DEF CacheLine
<1>4. line.dirty = (old.dirty \/ op # "READ")
  BY <1>2, Zenon DEF CacheLine
<1>5. d.sets = PutLine(c.sets, s, i, line)
  BY <1>1 DEF Touch, CacheState
<1> HIDE DEF s, i, old, line, d
<1>6. d.sets[s][i] = line
  BY <1>1, <1>3, <1>5, PutLineIs DEF CacheState
<1>7. SameContent(c, d)
  <2> SUFFICES ASSUME NEW s2 \in SetIds, NEW i2 \in LineIds
               PROVE  /\ d.sets[s2][i2].valid = c.sets[s2][i2].valid
                      /\ d.sets[s2][i2].tag = c.sets[s2][i2].tag
                      /\ d.sets[s2][i2].data = c.sets[s2][i2].data
                      /\ c.sets[s2][i2].dirty => d.sets[s2][i2].dirty
    BY DEF SameContent
  <2>1. CASE s2 = s /\ i2 = i
    <3>1. d.sets[s2][i2] = line /\ c.sets[s2][i2] = old
      BY <1>6, <2>1 DEF old
    <3> QED
      BY <1>3, <1>4, <3>1, Zenon
  <2>2. CASE s2 # s \/ i2 # i
    <3>1. c.sets \in [SetIds -> [LineIds -> CacheLine]]
      BY <1>1 DEF CacheState
    <3>2. d.sets[s2][i2] = c.sets[s2][i2]
      BY <1>1, <1>5, <2>2, <3>1 DEF PutLine
    <3> QED
      BY <3>2
  <2> QED
    BY <2>1, <2>2
<1>8. op = "WRITE" => d.sets[s][i].dirty
  BY <1>4, <1>6
<1> QED
  BY <1>7, <1>8 DEF d, s, i

(* Counting a miss leaves the content alone.                                *)
LEMMA CountMiss ==
    ASSUME NEW c, CacheInv(c)
    PROVE  LET d == [c EXCEPT !.miss_count = c.miss_count + 1]
           IN  CacheInv(d) /\ SameContent(c, d) /\ d.sets = c.sets
<1> DEFINE d == [c EXCEPT !.miss_count = c.miss_count + 1]
<1>1. d \in CacheState /\ d.sets = c.sets /\ d.next_lru = c.next_lru
  BY DEF CacheInv, CacheState
<1> HIDE DEF d
<1>2. CacheInv(d) /\ SameContent(c, d)
  BY <1>1 DEF CacheInv, DistinctLines, PastTimes, SameContent
<1> QED
  BY <1>1, <1>2 DEF d

(* A miss puts a new line in place of the one select_line picked.           *)
LEMMA HandleMissLines ==
    ASSUME NEW c, CacheInv(c), NEW addr \in Nat, ~Cached(c, addr),
           NEW op \in Operations, NEW data \in Block \cup {NULL}
    PROVE  LET s == SetIndex(addr)
               i == select_line(c, addr)
               d == handle_miss(c, addr, op, data)
           IN  /\ s \in SetIds /\ i \in LineIds
               /\ d.sets[s][i] = [valid |-> TRUE, tag |-> Tag(addr),
                                  lru |-> c.next_lru, dirty |-> op = "WRITE",
                                  data |-> IF data = NULL THEN c.sets[s][i].data
                                           ELSE data]
               /\ \A s2 \in SetIds, i2 \in LineIds :
                     s2 # s \/ i2 # i => d.sets[s2][i2] = c.sets[s2][i2]
<1> DEFINE s    == SetIndex(addr)
           i    == select_line(c, addr)
           line == [valid |-> TRUE, tag |-> Tag(addr), lru |-> c.next_lru,
                    dirty |-> op = "WRITE",
                    data |-> IF data = NULL THEN c.sets[s][i].data ELSE data]
           d    == handle_miss(c, addr, op, data)
<1>1. s \in SetIds /\ i \in LineIds /\ c \in CacheState
  BY AddressTypes, SelectLineFinds DEF CacheInv
<1>2. c.sets \in [SetIds -> [LineIds -> CacheLine]] /\ c.next_lru \in Nat
  BY <1>1 DEF CacheState
<1>4. line \in CacheLine
  <2>1. c.sets[s][i].data \in Block
    BY <1>1, <1>2 DEF CacheLine
  <2> QED
    BY <1>2, <2>1, AddressTypes DEF CacheLine
<1>5. d.sets = PutLine(c.sets, s, i, line)
  BY <1>1 DEF handle_miss, CacheState
<1> HIDE DEF s, i, line, d
<1>6. d.sets[s][i] = line
  BY <1>1, <1>2, <1>4, <1>5, PutLineIs
<1>7. \A s2 \in SetIds, i2 \in LineIds :
         s2 # s \/ i2 # i => d.sets[s2][i2] = c.sets[s2][i2]
  BY <1>1, <1>2, <1>5 DEF PutLine
<1> QED
  BY <1>1, <1>6, <1>7 DEF s, i, line, d
============================================================================
