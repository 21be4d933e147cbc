------------------------- MODULE CachedMemoryProofs -------------------------
(***************************************************************************)
(* The cached memory implements an array of bytes, for every geometry of   *)
(* the cache, every delay, image and set of words, and calls without end.  *)
(*                                                                         *)
(* The argument: an address is a set, a tag and an offset (the first       *)
(* lemmas); the byte the processor sees, ByteAt, is not changed by a hit   *)
(* (TouchContent), nor by the fill that ends a fetch and the write-back it *)
(* forces (FillContent), and by a store at its word only (SetWordContent). *)
(* One iteration of the byte loop leaves the access going on or waiting    *)
(* (LoopBodySound), hence the loop does (LoopEnds, by the least iteration  *)
(* that would not).  IInv is inductive: the properties checked, and that a *)
(* call to repeat has cycles left.                                         *)
(*                                                                         *)
(* The theorems are about programs whose words keep to one block           *)
(* (WithinBlocks, which also has a miss take time) and, where they say     *)
(* what a store leaves, are stored at the base of one (StoresAtBase); where*)
(* they say that a load answers with the word in memory, about words that  *)
(* get_word_cache gives back as they are (NarrowWords).  What it makes of  *)
(* other words is LoadsAssembleMemory.  The code needs all of it:          *)
(* memory_no_delay, memory_write_miss and memory_wide_word refute          *)
(* WaitBounded, StoresOnlyTheirWord and LoadsReturnMemory without.         *)
(***************************************************************************)
EXTENDS CachedMemory, CacheProofs

---------------------------------------------------------------------------
\* A word has bytes, and one of them may be zero.
LEMMA WordSize == W \in Nat \ {0} /\ INT \in Nat \ {0} /\ W = 2 * INT
  BY WordAssumption

LEMMA ZeroIsByte == ZeroByte \in Byte
  BY DEF ZeroByte, Byte

---------------------------------------------------------------------------
(* Blocks.                                                                  *)

(* The bytes of a block share set, tag and base.                            *)
LEMMA InBlock ==
    ASSUME NEW addr \in Nat, NEW k \in Nat, (addr % B) + k < B
    PROVE  /\ addr + k \in Nat
           /\ SetIndex(addr + k) = SetIndex(addr) /\ Tag(addr + k) = Tag(addr)
           /\ BlockBase(addr + k) = BlockBase(addr)
           /\ ((addr + k) % B) = ((addr % B) + k)
<1>1. /\ B \in Nat \ {0}
      /\ addr \div B \in Nat /\ (addr % B) \in 0 .. B - 1
      /\ addr = ((addr \div B) * B) + (addr % B)
  BY GeometryAssumption, DivisionOf
<1>2. (addr % B) + k \in 0 .. B - 1
  BY <1>1
<1>3. addr + k = ((addr \div B) * B) + ((addr % B) + k)
  <2>1. (addr \div B) * B \in Nat
    BY <1>1
  <2> QED
    BY <1>1, <2>1
<1>4. (addr + k) \div B = addr \div B /\ ((addr + k) % B) = ((addr % B) + k)
  <2> DEFINE q == addr \div B
             r == (addr % B) + k
  <2>1. q \in Nat /\ r \in 0 .. B - 1 /\ B \in Nat \ {0} /\ addr + k = q * B + r
    BY <1>1, <1>2, <1>3
  <2> HIDE DEF q, r
  <2>2. (q * B + r) \div B = q /\ ((q * B + r) % B) = r
    BY <2>1, DivisionUnique
  <2>3. (addr + k) \div B = q /\ ((addr + k) % B) = r
    BY <2>1, <2>2, Zenon
  <2> QED
    BY <2>3 DEF q, r
<1>5. addr + k \in Nat
  OBVIOUS
<1>6. Tag(addr + k) = Tag(addr)
  BY <1>4, <1>5, TagOfBlock
<1>7. SetIndex(addr + k) = SetIndex(addr)
  BY <1>4 DEF SetIndex
<1>8. BlockBase(addr + k) = BlockBase(addr)
  BY <1>1, <1>4 DEF BlockBase
<1> QED
  BY <1>4, <1>5, <1>6, <1>7, <1>8

(* The base of a block is an address of it, of offset zero.                 *)
LEMMA BaseOfBlock ==
    ASSUME NEW addr \in Nat
    PROVE  /\ BlockBase(addr) \in Nat /\ (BlockBase(addr) % B) = 0
           /\ addr = BlockBase(addr) + (addr % B)
           /\ (addr % B) \in 0 .. B - 1
           /\ SetIndex(BlockBase(addr)) = SetIndex(addr)
           /\ Tag(BlockBase(addr)) = Tag(addr)
           /\ BlockBase(addr) = BlockAddr(SetIndex(addr), Tag(addr))
<1>1. /\ B \in Nat \ {0} /\ S \in Nat \ {0}
      /\ addr \div B \in Nat /\ (addr % B) \in 0 .. B - 1
      /\ addr = ((addr \div B) * B) + (addr % B)
  BY GeometryAssumption, DivisionOf
<1>2. (addr \div B) * B \in Nat
  BY <1>1
<1>3. BlockBase(addr) = (addr \div B) * B + 0 /\ BlockBase(addr) \in Nat
  BY <1>1, <1>2 DEF BlockBase
<1>4. BlockBase(addr) \div B = addr \div B /\ (BlockBase(addr) % B) = 0
  <2> DEFINE q == addr \div B
  <2>1. q \in Nat /\ 0 \in 0 .. B - 1 /\ B \in Nat \ {0} /\ BlockBase(addr) = q * B + 0
    BY <1>1, <1>3
  <2> HIDE DEF q
  <2>2. (q * B + 0) \div B = q /\ ((q * B + 0) % B) = 0
    BY <2>1, DivisionUnique
  <2>3. BlockBase(addr) \div B = q /\ (BlockBase(addr) % B) = 0
    BY <2>1, <2>2, Zenon
  <2> QED
    BY <2>3 DEF q
<1>5. SetIndex(BlockBase(addr)) = SetIndex(addr)
  BY <1>4 DEF SetIndex
<1>6. Tag(BlockBase(addr)) = Tag(addr)
  BY <1>3, <1>4, TagOfBlock
<1>7. addr = BlockBase(addr) + (addr % B)
  BY <1>1, <1>2, <1>3
<1>8. BlockBase(addr) = BlockAddr(SetIndex(addr), Tag(addr))
  <2> DEFINE q == addr \div B
             t == q \div S
             u == q % S
  <2>0. q \in Nat
    BY <1>1
  <2>1. t \in Nat /\ u \in Nat /\ q = t * S + u
    <3> HIDE DEF q
    <3>1. q \div S \in Nat /\ (q % S) \in 0 .. S - 1 /\ q = ((q \div S) * S) + (q % S)
      BY <1>1, <2>0, DivisionOf
    <3> QED
      BY <1>1, <3>1
  <2>2. SetIndex(addr) = u /\ Tag(addr) = t
    BY TagOfBlock DEF SetIndex
  <2>3. BlockBase(addr) = q * B
    BY <1>3, <1>2
  <2> HIDE DEF q, t, u
  <2>4. q * B = u * B + t * (B * S)
    BY <1>1, <2>1
  <2> QED
    BY <2>2, <2>3, <2>4 DEF BlockAddr
<1> QED
  BY <1>1, <1>3, <1>4, <1>5, <1>6, <1>7, <1>8

(* Bytes of one set and tag are bytes of one block.                         *)
LEMMA SameBlock ==
    ASSUME NEW addr \in Nat, NEW x \in Nat,
           SetIndex(x) = SetIndex(addr), Tag(x) = Tag(addr)
    PROVE  BlockBase(x) = BlockBase(addr) /\ x = BlockBase(addr) + (x % B)
<1>1. BlockBase(x) = BlockBase(addr)
  BY BaseOfBlock
<1>2. x = BlockBase(x) + (x % B)
  BY BaseOfBlock
<1> QED
  BY <1>1, <1>2

---------------------------------------------------------------------------
(* A byte of memory with a cache in front of it.                           *)

USE DEF ByteInLine

\* CleanLinesMatchMemory of any cache and memory.
CleanMatch(c, m) ==
    \A s \in SetIds, i \in LineIds :
        c.sets[s][i].valid /\ ~c.sets[s][i].dirty =>
            \A o \in 0 .. B - 1 :
                c.sets[s][i].data[o]
                    = _mem_read_byte(m, BlockAddr(s, c.sets[s][i].tag) + o)

(* The same content is found in the same places.                           *)
LEMMA SameContentFound ==
    ASSUME NEW c, NEW d, SameContent(c, d), NEW x \in Nat
    PROVE  /\ Cached(d, x) <=> Cached(c, x)
           /\ get_line(d, x) = get_line(c, x)
           /\ \A m : ByteAt(d, m, x) = ByteAt(c, m, x)
<1>1. SetIndex(x) \in SetIds
  BY AddressTypes
<1>2. Matches(d, x) = Matches(c, x)
  BY <1>1 DEF Matches, SameContent
<1>3. (Cached(d, x) <=> Cached(c, x)) /\ get_line(d, x) = get_line(c, x)
  BY <1>2 DEF Cached, get_line
<1>4. Cached(c, x) => get_line(c, x) \in LineIds
  BY GetLineFinds DEF Matches
<1>5. ASSUME NEW m PROVE ByteAt(d, m, x) = ByteAt(c, m, x)
  <2>1. CASE Cached(c, x)
    <3>1. d.sets[SetIndex(x)][get_line(c, x)].data = c.sets[SetIndex(x)][get_line(c, x)].data
      BY <1>1, <1>4, <2>1 DEF SameContent
    <3> QED
      BY <1>3, <2>1, <3>1 DEF ByteAt
  <2>2. CASE ~Cached(c, x)
    BY <1>3, <2>2 DEF ByteAt
  <2> QED
    BY <2>1, <2>2
<1> QED
  BY <1>3, <1>5

(* More dirty lines leave fewer clean ones to match.                        *)
LEMMA SameContentClean ==
    ASSUME NEW c, NEW d, SameContent(c, d), NEW m, CleanMatch(c, m)
    PROVE  CleanMatch(d, m)
<1> SUFFICES ASSUME NEW s \in SetIds, NEW i \in LineIds,
                    d.sets[s][i].valid, ~d.sets[s][i].dirty,
                    NEW o \in 0 .. B - 1
             PROVE  d.sets[s][i].data[o]
                       = _mem_read_byte(m, BlockAddr(s, d.sets[s][i].tag) + o)
  BY DEF CleanMatch
<1>1. /\ c.sets[s][i].valid /\ ~c.sets[s][i].dirty
      /\ d.sets[s][i].tag = c.sets[s][i].tag
      /\ d.sets[s][i].data = c.sets[s][i].data
  BY DEF SameContent
<1>2. c.sets[s][i].data[o] = _mem_read_byte(m, BlockAddr(s, c.sets[s][i].tag) + o)
  BY <1>1 DEF CleanMatch
<1> QED
  BY <1>1, <1>2

---------------------------------------------------------------------------
(* The fill that ends a fetch.                                              *)

\* Memory m with the block of set s and tag t replaced by data if back.
WriteBack(m, back, s, t, data) ==
    IF back
    THEN [x \in DOMAIN m \cup (BlockAddr(s, t) .. BlockAddr(s, t) + B - 1) |->
             IF x \in BlockAddr(s, t) .. BlockAddr(s, t) + B - 1
             THEN data[x - BlockAddr(s, t)] ELSE m[x]]
    ELSE m

(* What a write-back leaves at each byte, and that it leaves bytes.         *)
LEMMA WriteBackIs ==
    ASSUME NEW m, m \in [DOMAIN m -> Byte], NEW back \in BOOLEAN,
           NEW s \in SetIds, NEW t \in Nat, NEW data \in Block
    PROVE  /\ WriteBack(m, back, s, t, data)
                 \in [DOMAIN WriteBack(m, back, s, t, data) -> Byte]
           /\ \A x \in Nat :
                 _mem_read_byte(WriteBack(m, back, s, t, data), x) =
                    IF back /\ SetIndex(x) = s /\ Tag(x) = t
                    THEN data[x % B] ELSE _mem_read_byte(m, x)
<1> DEFINE base   == BlockAddr(s, t)
           victim == base .. base + B - 1
           new    == [x \in DOMAIN m \cup victim |->
                         IF x \in victim THEN data[x - base] ELSE m[x]]
<1>1. B \in Nat \ {0} /\ 0 \in 0 .. B - 1
  BY GeometryAssumption
<1>2. base \in Nat
  BY <1>1, BlockAddrIs
<1>3. \A x \in victim : x - base \in 0 .. B - 1 /\ x = base + (x - base)
  BY <1>1, <1>2
<1>4. data \in [0 .. B - 1 -> Byte]
  BY MemoryAssumption
<1>5. CASE ~back
  BY <1>5 DEF WriteBack
<1>6. CASE back
  <2>1. WriteBack(m, back, s, t, data) = new
    BY <1>6 DEF WriteBack
  <2>2. \A x \in Nat : x \in victim <=> SetIndex(x) = s /\ Tag(x) = t
    <3> TAKE x \in Nat
    <3>1. ASSUME x \in victim PROVE SetIndex(x) = s /\ Tag(x) = t
      <4> DEFINE o == x - base
      <4>1. o \in 0 .. B - 1 /\ x = base + o
        BY <1>3, <3>1
      <4> HIDE DEF o
      <4>2. SetIndex(base + o) = s /\ Tag(base + o) = t
        BY <4>1, BlockAddrIs
      <4> QED
        BY <4>1, <4>2
    <3>2. ASSUME SetIndex(x) = s, Tag(x) = t PROVE x \in victim
      <4>1. x = BlockBase(x) + (x % B) /\ (x % B) \in 0 .. B - 1 /\ BlockBase(x) = base
        BY <3>2, BaseOfBlock
      <4> QED
        BY <1>1, <1>2, <4>1
    <3> QED
      BY <3>1, <3>2
  <2>3. \A x \in Nat : x \in victim => x - base = x % B
    <3> TAKE x \in Nat
    <3> HAVE x \in victim
    <3> DEFINE o == x - base
    <3>1. o \in 0 .. B - 1 /\ x = base + o
      BY <1>3
    <3> HIDE DEF o
    <3>2. ((base + o) % B) = o
      BY <3>1, BlockAddrIs
    <3>3. x % B = o
      BY <3>1, <3>2
    <3> QED
      BY <3>3 DEF o
  <2> HIDE DEF base
  <2>4. new \in [DOMAIN new -> Byte]
    BY <1>3, <1>4
  <2>5. \A x \in Nat :
          _mem_read_byte(new, x) =
             IF x \in victim THEN data[x - base] ELSE _mem_read_byte(m, x)
    BY DEF _mem_read_byte
  <2> HIDE DEF new, victim
  <2> QED
    BY <1>6, <2>1, <2>2, <2>3, <2>4, <2>5
<1> QED
  BY <1>5, <1>6

(* Filling the block at b, and writing back what it evicts, keeps the cache *)
(* and its agreement with memory; when the bytes come from b on, no byte    *)
(* the processor sees changes.                                              *)
LEMMA FillContent ==
    ASSUME NEW c, CacheInv(c), NEW m, m \in [DOMAIN m -> Byte], CleanMatch(c, m),
           NEW b \in Nat, b = BlockBase(b), ~Cached(c, b),
           NEW op \in Operations, NEW data \in Block,
           NEW fromb \in BOOLEAN, op = "READ" => fromb,
           fromb => \A o \in 0 .. B - 1 : data[o] = _mem_read_byte(m, b + o)
    PROVE  LET old == c.sets[SetIndex(b)][select_line(c, b)]
               d   == handle_miss(c, b, op, data)
               m2  == WriteBack(m, old.valid /\ old.dirty, SetIndex(b), old.tag, old.data)
           IN  /\ CacheInv(d) /\ m2 \in [DOMAIN m2 -> Byte] /\ CleanMatch(d, m2)
               /\ Cached(d, b)
               /\ op = "WRITE" => d.sets[SetIndex(b)][get_line(d, b)].dirty
               /\ fromb => \A x \in Nat : ByteAt(d, m2, x) = ByteAt(c, m, x)
<1> DEFINE s    == SetIndex(b)
           i    == select_line(c, b)
           old  == c.sets[s][i]
           back == old.valid /\ old.dirty
           d    == handle_miss(c, b, op, data)
           m2   == WriteBack(m, back, s, old.tag, old.data)
           new  == [valid |-> TRUE, tag |-> Tag(b), lru |-> c.next_lru,
                    dirty |-> op = "WRITE", data |-> data]
<1>1. /\ s \in SetIds /\ i \in LineIds
      /\ d.sets[s][i] = new
      /\ \A s2 \in SetIds, i2 \in LineIds :
            s2 # s \/ i2 # i => d.sets[s2][i2] = c.sets[s2][i2]
  <2>1. data # NULL
    BY BlockAssumption
  <2> QED
    BY <2>1, HandleMissLines
<1>2. CacheInv(d) /\ DistinctLines(d)
  BY HandleMissInv DEF CacheInv
<1>3. c.sets \in [SetIds -> [LineIds -> CacheLine]] /\ DistinctLines(c)
  BY DEF CacheInv, CacheState
<1>4. old \in CacheLine /\ old.tag \in Nat /\ old.data \in Block /\ back \in BOOLEAN
  BY <1>1, <1>3 DEF CacheLine
<1>5. /\ m2 \in [DOMAIN m2 -> Byte]
      /\ \A x \in Nat :
            _mem_read_byte(m2, x) =
               IF back /\ SetIndex(x) = s /\ Tag(x) = old.tag
               THEN old.data[x % B] ELSE _mem_read_byte(m, x)
  <2> HIDE DEF back, s, old
  <2> QED
    BY <1>1, <1>4, WriteBackIs
<1>6. \A j \in LineIds : c.sets[s][j].valid => c.sets[s][j].tag # Tag(b)
  BY DEF Cached, Matches
<1>7. Tag(b) \in Nat /\ b = BlockAddr(s, Tag(b))
  BY AddressTypes, BaseOfBlock
<1>8. Cached(d, b) /\ get_line(d, b) = i
  BY <1>1, <1>2, LineIs
<1>9. op = "WRITE" => d.sets[SetIndex(b)][get_line(d, b)].dirty
  <2>1. op = "WRITE" => new.dirty
    OBVIOUS
  <2> HIDE DEF new
  <2> QED
    BY <1>1, <1>8, <2>1
<1>10. CleanMatch(d, m2)
  <2> SUFFICES ASSUME NEW s2 \in SetIds, NEW i2 \in LineIds,
                      d.sets[s2][i2].valid, ~d.sets[s2][i2].dirty,
                      NEW o \in 0 .. B - 1
               PROVE  d.sets[s2][i2].data[o]
                         = _mem_read_byte(m2, BlockAddr(s2, d.sets[s2][i2].tag) + o)
    BY DEF CleanMatch
  <2> DEFINE tag == d.sets[s2][i2].tag
             x   == BlockAddr(s2, tag) + o
  <2>1. CASE s2 = s /\ i2 = i
    <3>0. d.sets[s2][i2] = new
      BY <1>1, <2>1
    <3>1. op # "WRITE" /\ fromb
      <4>1. op = "WRITE" => new.dirty
        OBVIOUS
      <4> HIDE DEF new, d
      <4> QED
        BY <3>0, <4>1 DEF Operations
    <3>2. /\ b + o \in Nat /\ SetIndex(b + o) = s /\ Tag(b + o) = Tag(b)
      BY <1>1, <1>7, BlockAddrIs
    <3>3. ~(back /\ Tag(b + o) = old.tag)
      BY <1>1, <1>6, <3>2
    <3>4. _mem_read_byte(m2, b + o) = _mem_read_byte(m, b + o)
      BY <1>5, <3>2, <3>3
    <3>5. x = b + o
      BY <1>7, <2>1, <3>0
    <3>6. d.sets[s2][i2].data[o] = _mem_read_byte(m, b + o)
      BY <3>0, <3>1
    <3> QED
      BY <3>4, <3>5, <3>6
  <2>2. CASE s2 # s \/ i2 # i
    <3>1. d.sets[s2][i2] = c.sets[s2][i2]
      BY <1>1, <2>2
    <3>2. tag \in Nat
      BY <1>3, <3>1 DEF CacheLine
    <3>3. x \in Nat /\ SetIndex(x) = s2 /\ Tag(x) = tag
      BY <3>2, BlockAddrIs
    <3>4. ~(back /\ SetIndex(x) = s /\ Tag(x) = old.tag)
      BY <1>1, <1>3, <2>2, <3>1, <3>3 DEF DistinctLines
    <3>5. _mem_read_byte(m2, x) = _mem_read_byte(m, x)
      BY <1>5, <3>3, <3>4
    <3>6. c.sets[s2][i2].data[o]
             = _mem_read_byte(m, BlockAddr(s2, c.sets[s2][i2].tag) + o)
      BY <3>1 DEF CleanMatch
    <3> QED
      BY <3>1, <3>5, <3>6
  <2> QED
    BY <2>1, <2>2
<1>11. ASSUME fromb, NEW x \in Nat PROVE ByteAt(d, m2, x) = ByteAt(c, m, x)
  <2>0. SetIndex(x) \in SetIds /\ Tag(x) \in Nat
    BY AddressTypes
  <2>1. CASE SetIndex(x) = s /\ Tag(x) = Tag(b)
    <3>1. Cached(d, x) /\ get_line(d, x) = i /\ ~Cached(c, x)
      BY <1>8, <2>1, CachedSameBlock
    <3>2. x = b + (x % B) /\ (x % B) \in 0 .. B - 1
      BY <2>1, SameBlock, BaseOfBlock
    <3>3. ByteAt(d, m2, x) = data[x % B]
      BY <1>1, <2>1, <3>1 DEF ByteAt
    <3>4. ByteAt(c, m, x) = _mem_read_byte(m, x)
      BY <3>1 DEF ByteAt
    <3>5. data[x % B] = _mem_read_byte(m, b + (x % B))
      BY <1>11, <3>2
    <3> QED
      BY <3>2, <3>3, <3>4, <3>5
  <2>2. CASE SetIndex(x) = s /\ old.valid /\ Tag(x) = old.tag
    <3>1. Cached(c, x) /\ get_line(c, x) = i
      BY <1>1, <1>3, <2>2, LineIs
    <3>2. ByteAt(c, m, x) = old.data[x % B]
      BY <2>2, <3>1 DEF ByteAt
    <3>3. ~Cached(d, x)
      <4>1. ASSUME NEW j \in LineIds, d.sets[s][j].valid, d.sets[s][j].tag = Tag(x)
            PROVE  FALSE
        <5>1. CASE j = i
          BY <1>1, <1>6, <2>2, <4>1, <5>1
        <5>2. CASE j # i
          <6>1. d.sets[s][j] = c.sets[s][j]
            BY <1>1, <5>2
          <6> QED
            BY <1>1, <1>3, <2>2, <4>1, <5>2, <6>1 DEF DistinctLines
        <5> QED
          BY <5>1, <5>2
      <4> QED
        BY <2>2, <4>1 DEF Cached, Matches
    <3>4. ByteAt(d, m2, x) = _mem_read_byte(m2, x)
      BY <3>3 DEF ByteAt
    <3>5. CASE old.dirty
      BY <1>5, <2>2, <3>2, <3>4, <3>5
    <3>6. CASE ~old.dirty
      <4>1. _mem_read_byte(m2, x) = _mem_read_byte(m, x)
        BY <1>5, <3>6
      <4>2. x = BlockAddr(s, old.tag) + (x % B) /\ (x % B) \in 0 .. B - 1
        BY <2>2, BaseOfBlock
      <4>3. old.data[x % B] = _mem_read_byte(m, BlockAddr(s, old.tag) + (x % B))
        BY <1>1, <2>2, <3>6, <4>2 DEF CleanMatch
      <4> QED
        BY <3>2, <3>4, <4>1, <4>2, <4>3
    <3> QED
      BY <3>5, <3>6
  <2>3. CASE /\ ~(SetIndex(x) = s /\ Tag(x) = Tag(b))
             /\ ~(SetIndex(x) = s /\ old.valid /\ Tag(x) = old.tag)
    <3>1. \A j \in LineIds :
             (SetIndex(x) # s \/ j # i) =>
                d.sets[SetIndex(x)][j] = c.sets[SetIndex(x)][j]
      BY <1>1, <2>0
    <3>2. Matches(d, x) = Matches(c, x)
      BY <1>1, <2>3, <3>1 DEF Matches
    <3>3. (Cached(d, x) <=> Cached(c, x)) /\ get_line(d, x) = get_line(c, x)
      BY <3>2 DEF Cached, get_line
    <3>4. _mem_read_byte(m2, x) = _mem_read_byte(m, x)
      BY <1>5, <2>3
    <3>5. CASE Cached(c, x)
      <4>1. get_line(c, x) \in Matches(c, x)
        BY <3>5, GetLineFinds
      <4>2. SetIndex(x) # s \/ get_line(c, x) # i
        BY <2>3, <4>1 DEF Matches
      <4>3. d.sets[SetIndex(x)][get_line(c, x)] = c.sets[SetIndex(x)][get_line(c, x)]
        BY <3>1, <4>1, <4>2 DEF Matches
      <4> QED
        BY <3>3, <3>5, <4>3 DEF ByteAt
    <3>6. CASE ~Cached(c, x)
      BY <3>3, <3>4, <3>6 DEF ByteAt
    <3> QED
      BY <3>5, <3>6
  <2> QED
    BY <2>1, <2>2, <2>3
<1> QED
  BY <1>2, <1>5, <1>8, <1>9, <1>10, <1>11

---------------------------------------------------------------------------
(* One iteration of the byte loop.                                          *)

\* The variables of the loop, as a record.
LoopVars == {"mem", "cache", "inflight", "inflight_addr", "inflight_cycles",
             "returned"}

LoopRecord(r) == r = [v \in LoopVars |-> r[v]]

\* They have their types, and cache and memory agree; when the fill starts
\* at the base of its block, the processor sees what it saw before.
Sound(r, addr, op) ==
    /\ LoopRecord(r)
    /\ r.mem \in [DOMAIN r.mem -> Byte]
    /\ CacheInv(r.cache)
    /\ CleanMatch(r.cache, r.mem)
    /\ r.inflight \in BOOLEAN /\ r.inflight_addr \in Nat
    /\ r.inflight_cycles \in 0 .. CYCLE_MOD - 1
    /\ r.returned \in BOOLEAN
    /\ FilledFrom(addr, op) = BlockBase(addr) =>
          \A x \in Nat : ByteAt(r.cache, r.mem, x) = ByteAt(cache, mem, x)

\* The line of addr is dirty.
DirtyAt(c, addr) == c.sets[SetIndex(addr)][get_line(c, addr)].dirty

\* The access goes on: its block is cached, dirty if it is stored to.
Goes(q, addr, op) ==
    /\ ~q.returned
    /\ Cached(q.cache, addr)
    /\ op = "WRITE" => DirtyAt(q.cache, addr)

\* The access waits: the fetch of its block is under way.
Waits(q, addr, cycles) ==
    /\ q.returned
    /\ ~Cached(q.cache, addr)
    /\ q.inflight /\ q.inflight_addr = BlockBase(addr)
    /\ q.inflight_cycles = cycles

(* The cycle count fits its type.                                           *)
LEMMA CountDownType ==
    ASSUME NEW r, r.inflight_cycles \in Nat, NEW block
    PROVE  CountDown(r, block) \in 0 .. CYCLE_MOD - 1
<1> DEFINE n == IF r.inflight_addr # block \/ ~r.inflight
                THEN DELAY ELSE r.inflight_cycles
<1>1. DELAY \in Nat /\ CYCLE_MOD \in Nat \ {0} /\ n - 1 \in Int
  BY MemoryAssumption
<1>2. CountDown(r, block) = (n - 1) % CYCLE_MOD
  BY DEF CountDown
<1> HIDE DEF n
<1> QED
  BY <1>1, <1>2

(* What a fill does, in the terms of the lemmas above.                      *)
LEMMA FillIs ==
    ASSUME NEW r, LoopRecord(r), NEW addr, NEW a, NEW op
    PROVE  LET old  == r.cache.sets[SetIndex(a)][select_line(r.cache, a)]
               data == [j \in 0 .. B - 1 |->
                           _mem_read_byte(r.mem, FilledFrom(addr, op) + j)]
               q    == Fill(r, addr, a, op)
           IN  /\ LoopRecord(q)
               /\ q.cache = handle_miss(r.cache, a, op, data)
               /\ q.mem = WriteBack(r.mem, old.valid /\ old.dirty,
                                    SetIndex(a), old.tag, old.data)
               /\ q.inflight = r.inflight /\ q.inflight_addr = r.inflight_addr
               /\ q.inflight_cycles = r.inflight_cycles
               /\ q.returned = r.returned
<1> DEFINE old  == r.cache.sets[SetIndex(a)][select_line(r.cache, a)]
           data == [j \in 0 .. B - 1 |->
                       _mem_read_byte(r.mem, FilledFrom(addr, op) + j)]
           c2   == handle_miss(r.cache, a, op, data)
           m2   == WriteBack(r.mem, old.valid /\ old.dirty,
                             SetIndex(a), old.tag, old.data)
           q    == Fill(r, addr, a, op)
<1>1. q = [r EXCEPT !.cache = c2, !.mem = m2]
  BY DEF Fill, evicted_line, WriteBack
<1> HIDE DEF c2, m2, q
<1>2. /\ LoopRecord(q) /\ q.cache = c2 /\ q.mem = m2
      /\ q.inflight = r.inflight /\ q.inflight_addr = r.inflight_addr
      /\ q.inflight_cycles = r.inflight_cycles /\ q.returned = r.returned
  BY <1>1 DEF LoopRecord, LoopVars
<1> QED
  BY <1>2 DEF c2, m2, q

\* The updates an iteration makes, but the fill itself.
HitOf(r, c)      == [r EXCEPT !.cache = c]
FetchOf(r, b, n) == [r EXCEPT !.inflight_addr = b, !.inflight_cycles = n]
WaitOf(r)        == [r EXCEPT !.inflight = TRUE, !.returned = TRUE]
OverOf(r)        == [r EXCEPT !.inflight = FALSE]

\* r is the record of these values.
Fields(r, m, c, f, i, n, t) ==
    /\ LoopRecord(r)
    /\ r.mem = m /\ r.cache = c /\ r.inflight = f /\ r.inflight_addr = i
    /\ r.inflight_cycles = n /\ r.returned = t

(* They set the variables they name, and no other.                          *)
LEMMA LoopUpdates ==
    ASSUME NEW r, NEW m, NEW c0, NEW f, NEW i, NEW n0, NEW t,
           Fields(r, m, c0, f, i, n0, t), NEW c, NEW b, NEW n
    PROVE  /\ Fields(HitOf(r, c), m, c, f, i, n0, t)
           /\ Fields(FetchOf(r, b, n), m, c0, f, b, n, t)
           /\ Fields(WaitOf(r), m, c0, TRUE, i, n0, TRUE)
           /\ Fields(OverOf(r), m, c0, FALSE, i, n0, t)
<1>1. Fields(HitOf(r, c), m, c, f, i, n0, t)
  BY DEF Fields, LoopRecord, LoopVars, HitOf
<1>2. Fields(FetchOf(r, b, n), m, c0, f, b, n, t)
  BY DEF Fields, LoopRecord, LoopVars, FetchOf
<1>3. Fields(WaitOf(r), m, c0, TRUE, i, n0, TRUE)
  BY DEF Fields, LoopRecord, LoopVars, WaitOf
<1>4. Fields(OverOf(r), m, c0, FALSE, i, n0, t)
  BY DEF Fields, LoopRecord, LoopVars, OverOf
<1> QED
  BY <1>1, <1>2, <1>3, <1>4

(* One byte of an access within a block: the access goes on, or waits.      *)
LEMMA LoopBodySound ==
    ASSUME NEW addr \in Nat, NEW op \in Operations, NEW r, Sound(r, addr, op),
           ~r.returned,
           NEW a \in Nat, SetIndex(a) = SetIndex(addr), Tag(a) = Tag(addr)
    PROVE  LET q == LoopBody(r, addr, a, op)
           IN  /\ Sound(q, addr, op)
               /\ Cached(r.cache, addr) =>
                     /\ Goes(q, addr, op)
                     /\ q.inflight = r.inflight
               /\ ~Cached(r.cache, addr) =>
                     \/ /\ CountDown(r, BlockBase(addr)) > 0
                        /\ Waits(q, addr, CountDown(r, BlockBase(addr)))
                     \/ /\ CountDown(r, BlockBase(addr)) = 0
                        /\ Goes(q, addr, op)
                        /\ ~q.inflight
<1> DEFINE b      == BlockBase(addr)
           c      == r.cache
           c1     == check_hit(c, a, op)
           cycles == CountDown(r, b)
           q      == LoopBody(r, addr, a, op)
<1>1. /\ BlockBase(a) = b /\ b \in Nat /\ b = BlockBase(b)
      /\ SetIndex(b) = SetIndex(addr) /\ Tag(b) = Tag(addr)
  <2>1. BlockBase(a) = b
    BY SameBlock
  <2>2. b \in Nat /\ SetIndex(b) = SetIndex(addr) /\ Tag(b) = Tag(addr)
    BY BaseOfBlock
  <2>3. BlockBase(b) = b
    <3> HIDE DEF b
    <3>1. BlockBase(b) = BlockBase(addr)
      BY <2>2, SameBlock
    <3> QED
      BY <3>1 DEF b
  <2> QED
    BY <2>1, <2>2, <2>3
<1>2. /\ LoopRecord(r) /\ CacheInv(c) /\ CleanMatch(c, r.mem)
      /\ r.mem \in [DOMAIN r.mem -> Byte]
      /\ r.inflight \in BOOLEAN /\ r.inflight_addr \in Nat
      /\ r.inflight_cycles \in 0 .. CYCLE_MOD - 1
      /\ FilledFrom(addr, op) = b =>
            \A x \in Nat : ByteAt(c, r.mem, x) = ByteAt(cache, mem, x)
  BY DEF Sound
<1> DEFINE hit   == HitOf(r, c1)
           fetch == FetchOf(hit, b, cycles)
           wait  == WaitOf(fetch)
           over  == OverOf(fetch)
<1>3. /\ Fields(hit, r.mem, c1, r.inflight, r.inflight_addr,
                r.inflight_cycles, r.returned)
      /\ Fields(wait, r.mem, c1, TRUE, b, cycles, TRUE)
      /\ Fields(over, r.mem, c1, FALSE, b, cycles, r.returned)
  <2> DEFINE f == r.inflight
             t == r.returned
  <2>1. Fields(r, r.mem, c, f, r.inflight_addr, r.inflight_cycles, t)
    BY <1>2 DEF Fields
  <2> HIDE DEF b, c, c1, cycles, hit, fetch, wait, over, f, t
  <2>2. Fields(hit, r.mem, c1, f, r.inflight_addr, r.inflight_cycles, t)
    BY <2>1, LoopUpdates DEF hit
  <2>3. Fields(fetch, r.mem, c1, f, b, cycles, t)
    BY <2>2, LoopUpdates DEF fetch
  <2>4. Fields(wait, r.mem, c1, TRUE, b, cycles, TRUE)
    BY <2>3, LoopUpdates DEF wait
  <2>5. Fields(over, r.mem, c1, FALSE, b, cycles, t)
    BY <2>3, LoopUpdates DEF over
  <2> QED
    BY <2>2, <2>4, <2>5 DEF f, t
<1>4. cycles \in 0 .. CYCLE_MOD - 1
  <2>1. r.inflight_cycles \in Nat
    BY <1>2, MemoryAssumption
  <2> QED
    BY <2>1, CountDownType
<1>5. (Cached(c, a) <=> Cached(c, addr)) /\ (Cached(c, b) <=> Cached(c, addr))
  BY <1>1, CachedSameBlock
<1>6. q = IF Cached(c, a) THEN hit
          ELSE IF cycles > 0 THEN wait ELSE Fill(over, addr, b, op)
  BY <1>1 DEF LoopBody, HitOf, FetchOf, WaitOf, OverOf
<1> HIDE DEF b, c, c1, cycles, q, hit, fetch, wait, over
<1>7. CASE Cached(c, addr)
  <2>1. /\ c1 = Touch(c, a, op) /\ CacheInv(c1) /\ SameContent(c, c1)
        /\ op = "WRITE" => c1.sets[SetIndex(a)][get_line(c, a)].dirty
    BY <1>2, <1>5, <1>7, TouchInv, TouchContent DEF check_hit, c1
  <2>2. q = hit
    BY <1>5, <1>6, <1>7
  <2>3. CleanMatch(c1, r.mem)
    BY <1>2, <2>1, SameContentClean
  <2>4. \A x \in Nat : ByteAt(c1, r.mem, x) = ByteAt(c, r.mem, x)
    BY <2>1, SameContentFound
  <2>5. Cached(c1, addr) /\ get_line(c1, addr) = get_line(c, addr)
    BY <1>7, <2>1, SameContentFound
  <2>6. get_line(c, a) = get_line(c, addr)
    BY CachedSameBlock
  <2>7. Sound(q, addr, op)
    BY <1>2, <1>3, <2>1, <2>2, <2>3, <2>4 DEF Sound, Fields, b
  <2>8. Goes(q, addr, op) /\ q.inflight = r.inflight
    BY <1>3, <2>1, <2>2, <2>5, <2>6 DEF Goes, DirtyAt, Fields
  <2> QED
    BY <1>7, <2>7, <2>8 DEF q, c
<1>8. ASSUME ~Cached(c, addr)
      PROVE  /\ c1 = [c EXCEPT !.miss_count = c.miss_count + 1]
             /\ CacheInv(c1) /\ SameContent(c, c1) /\ c1.sets = c.sets
             /\ CleanMatch(c1, r.mem)
             /\ \A x \in Nat : ByteAt(c1, r.mem, x) = ByteAt(c, r.mem, x)
             /\ ~Cached(c1, addr) /\ ~Cached(c1, b)
  <2>1. c1 = [c EXCEPT !.miss_count = c.miss_count + 1]
    BY <1>5, <1>8 DEF check_hit, c1
  <2>2. CacheInv(c1) /\ SameContent(c, c1) /\ c1.sets = c.sets
    BY <1>2, <2>1, CountMiss
  <2>3. CleanMatch(c1, r.mem)
    BY <1>2, <2>2, SameContentClean
  <2>4. \A x \in Nat : ByteAt(c1, r.mem, x) = ByteAt(c, r.mem, x)
    BY <2>2, SameContentFound
  <2>5. ~Cached(c1, addr) /\ ~Cached(c1, b)
    BY <1>1, <1>5, <1>8, <2>2, SameContentFound
  <2> QED
    BY <2>1, <2>2, <2>3, <2>4, <2>5
<1>9. CASE ~Cached(c, addr) /\ cycles > 0
  <2>1. q = wait
    BY <1>5, <1>6, <1>9
  <2>2. Sound(q, addr, op)
    BY <1>1, <1>2, <1>3, <1>4, <1>8, <1>9, <2>1 DEF Sound, Fields, b
  <2>3. Waits(q, addr, cycles)
    BY <1>3, <1>8, <1>9, <2>1 DEF Waits, Fields, b
  <2> QED
    BY <1>9, <2>2, <2>3 DEF q, c, cycles, b
<1>10. CASE ~Cached(c, addr) /\ ~(cycles > 0)
  <2>1. q = Fill(over, addr, b, op)
    BY <1>5, <1>6, <1>10
  <2> DEFINE old  == c1.sets[SetIndex(b)][select_line(c1, b)]
             data == [j \in 0 .. B - 1 |->
                         _mem_read_byte(r.mem, FilledFrom(addr, op) + j)]
             c2   == handle_miss(c1, b, op, data)
             m2   == WriteBack(r.mem, old.valid /\ old.dirty,
                               SetIndex(b), old.tag, old.data)
             fromb == FilledFrom(addr, op) = b
  <2>2. /\ LoopRecord(q) /\ q.cache = c2 /\ q.mem = m2 /\ q.inflight = FALSE
        /\ q.inflight_addr = b /\ q.inflight_cycles = cycles
        /\ q.returned = r.returned
    BY <1>3, <2>1, FillIs DEF Fields
  <2>3. data \in Block
    <3>1. \A x : _mem_read_byte(r.mem, x) \in Byte
      BY <1>2, ZeroIsByte DEF _mem_read_byte
    <3>2. data \in [0 .. B - 1 -> Byte]
      BY <3>1
    <3> QED
      BY <3>2, MemoryAssumption
  <2>4. fromb \in BOOLEAN /\ (op = "READ" => fromb)
    BY DEF FilledFrom, b
  <2>5. fromb => \A o \in 0 .. B - 1 : data[o] = _mem_read_byte(r.mem, b + o)
    OBVIOUS
  <2> HIDE DEF data, fromb
  <2>6. /\ CacheInv(c2) /\ m2 \in [DOMAIN m2 -> Byte] /\ CleanMatch(c2, m2)
        /\ Cached(c2, b)
        /\ op = "WRITE" => c2.sets[SetIndex(b)][get_line(c2, b)].dirty
        /\ fromb => \A x \in Nat : ByteAt(c2, m2, x) = ByteAt(c1, r.mem, x)
    <3>1. /\ CacheInv(c1) /\ CleanMatch(c1, r.mem) /\ ~Cached(c1, b)
          /\ r.mem \in [DOMAIN r.mem -> Byte]
          /\ b \in Nat /\ b = BlockBase(b)
      BY <1>1, <1>2, <1>8, <1>10
    <3> QED
      BY <2>3, <2>4, <2>5, <3>1, FillContent
  <2> HIDE DEF c2, m2
  <2>7. Sound(q, addr, op)
    <3>1. fromb => \A x \in Nat : ByteAt(q.cache, q.mem, x) = ByteAt(cache, mem, x)
      BY <1>2, <1>8, <1>10, <2>2, <2>6 DEF fromb
    <3> QED
      BY <1>1, <1>2, <1>4, <2>2, <2>6, <3>1 DEF Sound, fromb, b
  <2>8. Cached(c2, addr) /\ get_line(c2, addr) = get_line(c2, b)
    BY <1>1, <2>6, CachedSameBlock
  <2>9. Goes(q, addr, op) /\ ~q.inflight
    BY <1>1, <2>2, <2>6, <2>8 DEF Goes, DirtyAt
  <2>10. cycles = 0
    BY <1>4, <1>10
  <2> QED
    BY <1>10, <2>7, <2>9, <2>10 DEF q, c, cycles, b
<1> QED
  BY <1>7, <1>9, <1>10 DEF c

---------------------------------------------------------------------------
(* The byte loop.                                                           *)

LoopStart ==
    [mem |-> mem, cache |-> cache, inflight |-> inflight,
     inflight_addr |-> inflight_addr, inflight_cycles |-> inflight_cycles,
     returned |-> FALSE]

\* run takes the number of an iteration to what it leaves, w iterations long.
Iterations(run, w, addr, op) ==
    run = [i \in 0 .. w |-> IF i = 0 THEN LoopStart
                            ELSE LoopBody(run[i - 1], addr, addr + i - 1, op)]

(* The recursive function of the loop exists.                               *)
LEMMA IterationsExist ==
    ASSUME NEW w \in Nat, NEW addr, NEW op
    PROVE  \E run : Iterations(run, w, addr, op)
<1> DEFINE Is(run, m) == Iterations(run, m, addr, op)
           Bad == {m \in 0 .. w : ~ \E run : Is(run, m)}
<1>1. Bad = {}
  <2> SUFFICES ASSUME Bad # {} PROVE FALSE
    OBVIOUS
  <2>1. PICK m \in Bad : \A n \in Bad : m <= n
    <3>1. Bad \in SUBSET Nat
      OBVIOUS
    <3> HIDE DEF Bad
    <3> QED
      BY <3>1, MinExists
  <2>2. m \in 0 .. w /\ ~ \E run : Is(run, m)
    OBVIOUS
  <2>3. m # 0
    <3> DEFINE g == [i \in 0 .. 0 |-> LoopStart]
    <3>1. Is(g, 0)
      <4>1. \A i \in 0 .. 0 : i = 0
        OBVIOUS
      <4>2. g = [i \in 0 .. 0 |-> IF i = 0 THEN LoopStart
                                  ELSE LoopBody(g[i - 1], addr, addr + i - 1, op)]
        BY <4>1
      <4> QED
        BY <4>2 DEF Iterations
    <3> HIDE DEF Is, g
    <3> QED
      BY <2>2, <3>1
  <2>4. m - 1 \in 0 .. w /\ m - 1 \notin Bad
    <3> HIDE DEF Bad, Is
    <3> QED
      BY <2>1, <2>2, <2>3
  <2>5. PICK g : Is(g, m - 1)
    BY <2>4
  <2> DEFINE h == [i \in 0 .. m |-> IF i = m THEN LoopBody(g[m - 1], addr, addr + m - 1, op)
                                              ELSE g[i]]
  <2>6. ASSUME NEW i \in 0 .. m
        PROVE  h[i] = IF i = 0 THEN LoopStart
                      ELSE LoopBody(h[i - 1], addr, addr + i - 1, op)
    <3>1. CASE i = m
      <4>1. h[i - 1] = g[m - 1]
        BY <2>2, <2>3, <3>1
      <4>2. h[i] = LoopBody(g[m - 1], addr, addr + m - 1, op)
        BY <3>1
      <4> QED
        BY <2>3, <3>1, <4>1, <4>2
    <3>2. CASE i # m
      <4>1. i \in 0 .. m - 1 /\ h[i] = g[i]
        BY <2>2, <3>2
      <4>2. g[i] = IF i = 0 THEN LoopStart
                   ELSE LoopBody(g[i - 1], addr, addr + i - 1, op)
        BY <2>5, <4>1 DEF Iterations
      <4>3. i # 0 => h[i - 1] = g[i - 1]
        BY <2>2, <4>1
      <4> QED
        BY <4>1, <4>2, <4>3
    <3> QED
      BY <3>1, <3>2
  <2>7. h = [i \in 0 .. m |-> h[i]]
    OBVIOUS
  <2> HIDE DEF h
  <2>8. Is(h, m)
    BY <2>6, <2>7 DEF Iterations
  <2> QED
    <3> HIDE DEF Is
    <3> QED
      BY <2>2, <2>8
<1>2. w \notin Bad /\ w \in 0 .. w
  BY <1>1
<1> QED
  BY <1>2

(* The result of the loop is that of its last iteration.                    *)
LEMMA LoopIs ==
    ASSUME NEW addr, NEW op
    PROVE  \E run : /\ Loop(addr, op) = run[W]
                    /\ run[0] = LoopStart
                    /\ \A n \in 1 .. W :
                          run[n] = LoopBody(run[n - 1], addr, addr + n - 1, op)
<1> DEFINE run == CHOOSE g : Iterations(g, W, addr, op)
<1>0. W \in Nat \ {0}
  BY WordSize
<1>1. Iterations(run, W, addr, op)
  BY <1>0, IterationsExist, Zenon
<1>2. Loop(addr, op) = run[W]
  BY Zenon DEF Loop, Iterations, LoopStart
<1> HIDE DEF run
<1>3. /\ run[0] = LoopStart
      /\ \A n \in 1 .. W : run[n] = LoopBody(run[n - 1], addr, addr + n - 1, op)
  BY <1>0, <1>1 DEF Iterations
<1> QED
  BY <1>2, <1>3

\* What the loop leaves: the access goes on with no fetch under way, or
\* waits for the one whose count it was to step.
LoopResult(r, addr, op) ==
    /\ Sound(r, addr, op)
    /\ \/ Goes(r, addr, op) /\ ~r.inflight
       \/ /\ Waits(r, addr, CountDown(LoopStart, BlockBase(addr)))
          /\ CountDown(LoopStart, BlockBase(addr)) > 0

(* An access within one block goes on at every byte, or waits at its first. *)
LEMMA LoopEnds ==
    ASSUME NEW addr \in Nat, NEW op \in Operations, (addr % B) + W <= B,
           Sound(LoopStart, addr, op), Cached(cache, addr) => ~inflight
    PROVE  LoopResult(Loop(addr, op), addr, op)
<1>0. W \in Nat \ {0} /\ B \in Nat \ {0} /\ (addr % B) \in 0 .. B - 1
  BY GeometryAssumption, WordSize
<1>1. PICK run : /\ Loop(addr, op) = run[W]
                 /\ run[0] = LoopStart
                 /\ \A n \in 1 .. W :
                       run[n] = LoopBody(run[n - 1], addr, addr + n - 1, op)
  BY LoopIs
<1>2. ASSUME NEW n \in 1 .. W
      PROVE  /\ addr + n - 1 \in Nat
             /\ SetIndex(addr + n - 1) = SetIndex(addr)
             /\ Tag(addr + n - 1) = Tag(addr)
  <2> DEFINE k == n - 1
  <2>1. k \in Nat /\ (addr % B) + k < B /\ addr + n - 1 = addr + k
    BY <1>0
  <2> HIDE DEF k
  <2>2. addr + k \in Nat /\ SetIndex(addr + k) = SetIndex(addr) /\ Tag(addr + k) = Tag(addr)
    BY <2>1, InBlock
  <2> QED
    BY <2>1, <2>2
<1>3. /\ LoopStart.cache = cache /\ LoopStart.inflight = inflight
      /\ ~LoopStart.returned
  BY DEF LoopStart
<1>4. LoopResult(run[1], addr, op)
  <2> DEFINE q == LoopBody(LoopStart, addr, addr, op)
  <2>1. run[1] = q
    <3>1. 1 \in 1 .. W /\ addr + 1 - 1 = addr
      BY <1>0
    <3> QED
      BY <1>1, <3>1
  <2>2. /\ Sound(q, addr, op)
        /\ Cached(cache, addr) => Goes(q, addr, op) /\ q.inflight = inflight
        /\ ~Cached(cache, addr) =>
              \/ /\ CountDown(LoopStart, BlockBase(addr)) > 0
                 /\ Waits(q, addr, CountDown(LoopStart, BlockBase(addr)))
              \/ Goes(q, addr, op) /\ ~q.inflight
    BY <1>3, LoopBodySound
  <2> HIDE DEF q
  <2> QED
    BY <2>1, <2>2 DEF LoopResult
<1>5. ASSUME NEW n \in 2 .. W, LoopResult(run[n - 1], addr, op)
      PROVE  LoopResult(run[n], addr, op)
  <2> DEFINE r == run[n - 1]
             a == addr + n - 1
             q == LoopBody(r, addr, a, op)
  <2>1. run[n] = q /\ n \in 1 .. W
    BY <1>1
  <2>2. CASE r.returned
    <3>1. q = r
      BY <2>2 DEF LoopBody
    <3> QED
      BY <1>5, <2>1, <3>1
  <2>3. CASE ~r.returned
    <3>1. Sound(r, addr, op) /\ Goes(r, addr, op) /\ ~r.inflight
      BY <1>5, <2>3 DEF LoopResult, Waits
    <3>2. Cached(r.cache, addr)
      BY <3>1 DEF Goes
    <3>3. a \in Nat /\ SetIndex(a) = SetIndex(addr) /\ Tag(a) = Tag(addr)
      BY <1>2, <2>1
    <3> HIDE DEF r, a
    <3>4. Sound(q, addr, op) /\ Goes(q, addr, op) /\ q.inflight = r.inflight
      BY <2>3, <3>1, <3>2, <3>3, LoopBodySound
    <3> QED
      BY <2>1, <3>1, <3>4 DEF LoopResult
  <2> QED
    BY <2>2, <2>3
<1>6. \A n \in 1 .. W : LoopResult(run[n], addr, op)
  <2> DEFINE Bad == {n \in 1 .. W : ~LoopResult(run[n], addr, op)}
  <2> SUFFICES ASSUME Bad # {} PROVE FALSE
    OBVIOUS
  <2>1. PICK m \in Bad : \A n \in Bad : m <= n
    <3>1. Bad \in SUBSET Nat
      OBVIOUS
    <3> HIDE DEF Bad
    <3> QED
      BY <3>1, MinExists
  <2>2. m \in 2 .. W /\ m - 1 \in 1 .. W
    <3>1. m # 1
      BY <1>4
    <3> QED
      BY <1>0, <3>1
  <2>3. LoopResult(run[m - 1], addr, op)
    BY <2>1, <2>2
  <2> QED
    BY <1>5, <2>2, <2>3
<1> QED
  BY <1>0, <1>1, <1>6

---------------------------------------------------------------------------
(* The word moved when the loop is over.                                    *)

\* The bytes of the word at addr that fall on byte o of line i of set s.
WordBytes(c, addr, s, i, o) ==
    {k \in 0 .. W - 1 : /\ SetIndex(addr + k) = s
                        /\ get_line(c, addr + k) = i
                        /\ (addr + k) % B = o}

(* Every byte of a word within one cached block is in the block's line.     *)
LEMMA WordInLine ==
    ASSUME NEW c, NEW addr \in Nat, (addr % B) + W <= B, NEW k \in 0 .. W - 1
    PROVE  /\ addr + k \in Nat
           /\ SetIndex(addr + k) = SetIndex(addr) /\ Tag(addr + k) = Tag(addr)
           /\ ((addr + k) % B) = ((addr % B) + k)
           /\ get_line(c, addr + k) = get_line(c, addr)
           /\ Cached(c, addr + k) <=> Cached(c, addr)
<1>1. k \in Nat /\ (addr % B) + k < B
  <2>1. W \in Nat \ {0} /\ B \in Nat \ {0} /\ (addr % B) \in 0 .. B - 1
    BY GeometryAssumption, WordSize
  <2> QED
    BY <2>1
<1>2. /\ addr + k \in Nat
      /\ SetIndex(addr + k) = SetIndex(addr) /\ Tag(addr + k) = Tag(addr)
      /\ ((addr + k) % B) = ((addr % B) + k)
  BY <1>1, InBlock
<1>3. get_line(c, addr + k) = get_line(c, addr) /\ (Cached(c, addr + k) <=> Cached(c, addr))
  BY <1>2, CachedSameBlock
<1> QED
  BY <1>2, <1>3

(* At most one byte of the word falls on a byte of a line, and only in the  *)
(* line of its block.                                                       *)
LEMMA WordBytesAre ==
    ASSUME NEW c, NEW addr \in Nat, (addr % B) + W <= B,
           NEW s, NEW i, NEW o \in 0 .. B - 1
    PROVE  IF s = SetIndex(addr) /\ i = get_line(c, addr) /\ o - (addr % B) \in 0 .. W - 1
           THEN /\ WordBytes(c, addr, s, i, o) # {}
                /\ Max(WordBytes(c, addr, s, i, o)) = o - (addr % B)
           ELSE WordBytes(c, addr, s, i, o) = {}
<1> DEFINE T == WordBytes(c, addr, s, i, o)
           here == s = SetIndex(addr) /\ i = get_line(c, addr) /\ o - (addr % B) \in 0 .. W - 1
<1>0. W \in Nat \ {0} /\ B \in Nat \ {0} /\ (addr % B) \in 0 .. B - 1
  BY GeometryAssumption, WordSize
<1>1. \A k \in 0 .. W - 1 :
        k \in T <=> s = SetIndex(addr) /\ i = get_line(c, addr) /\ o = (addr % B) + k
  <2> TAKE k \in 0 .. W - 1
  <2>1. /\ SetIndex(addr + k) = SetIndex(addr)
        /\ ((addr + k) % B) = ((addr % B) + k)
        /\ get_line(c, addr + k) = get_line(c, addr)
    BY WordInLine
  <2> QED
    BY <2>1 DEF WordBytes
<1>2. T \in SUBSET (0 .. W - 1)
  BY DEF WordBytes
<1> HIDE DEF T
<1>3. CASE here
  <2> DEFINE k == o - (addr % B)
  <2>1. k \in 0 .. W - 1 /\ o = (addr % B) + k
    BY <1>0, <1>3
  <2>2. k \in T
    BY <1>1, <1>3, <2>1
  <2>3. W - 1 \in Nat /\ T # {}
    BY <1>0, <2>2
  <2>4. Max(T) \in T
    BY <1>2, <2>3, MaxProperty
  <2>5. Max(T) \in 0 .. W - 1 /\ o = (addr % B) + Max(T)
    BY <1>1, <1>2, <2>4
  <2>6. Max(T) = k
    BY <1>0, <2>5
  <2> QED
    BY <1>3, <2>3, <2>6 DEF T
<1>4. CASE ~here
  <2>1. ASSUME NEW k \in T PROVE FALSE
    <3>1. k \in 0 .. W - 1 /\ o - (addr % B) = k /\ s = SetIndex(addr) /\ i = get_line(c, addr)
      BY <1>0, <1>1, <1>2, <2>1
    <3> QED
      BY <1>4, <3>1
  <2>2. T = {}
    BY <2>1
  <2> QED
    BY <1>4, <2>2 DEF T
<1> QED
  BY <1>3, <1>4

\* d is c with word val stored in the line of the block of addr.
WordStored(c, d, addr, val) ==
    /\ d \in CacheState /\ d.next_lru = c.next_lru
    /\ \A s \in SetIds, i \in LineIds :
          /\ d.sets[s][i].valid = c.sets[s][i].valid
          /\ d.sets[s][i].tag = c.sets[s][i].tag
          /\ d.sets[s][i].lru = c.sets[s][i].lru
          /\ d.sets[s][i].dirty = c.sets[s][i].dirty
          /\ \A o \in 0 .. B - 1 :
               d.sets[s][i].data[o] =
                  IF /\ s = SetIndex(addr) /\ i = get_line(c, addr)
                     /\ o - (addr % B) \in 0 .. W - 1
                  THEN val[o - (addr % B)] ELSE c.sets[s][i].data[o]

(* set_word_cache changes data only: that of the word, in the line of its   *)
(* block.                                                                   *)
LEMMA SetWordLines ==
    ASSUME NEW c, CacheInv(c), NEW addr \in Nat, (addr % B) + W <= B,
           NEW val \in Word
    PROVE  WordStored(c, set_word_cache(c, addr, val), addr, val)
<1> DEFINE Byt(s, i, o) == IF WordBytes(c, addr, s, i, o) = {} THEN c.sets[s][i].data[o]
                           ELSE val[Max(WordBytes(c, addr, s, i, o))]
           Dat(s, i) == [o \in 0 .. B - 1 |-> Byt(s, i, o)]
           Line(s, i) == [c.sets[s][i] EXCEPT !.data = Dat(s, i)]
           sets == [s \in SetIds |-> [i \in LineIds |-> Line(s, i)]]
           d == set_word_cache(c, addr, val)
<1>1. d = [c EXCEPT !.sets = sets]
  BY DEF set_word_cache, WordBytes
<1>2. c \in CacheState /\ c.sets \in [SetIds -> [LineIds -> CacheLine]]
  BY DEF CacheInv, CacheState
<1>3. ASSUME NEW s \in SetIds, NEW i \in LineIds, NEW o \in 0 .. B - 1
      PROVE  /\ Byt(s, i, o) \in Byte
             /\ Byt(s, i, o) =
                    IF /\ s = SetIndex(addr) /\ i = get_line(c, addr)
                       /\ o - (addr % B) \in 0 .. W - 1
                    THEN val[o - (addr % B)] ELSE c.sets[s][i].data[o]
  <2>1. c.sets[s][i].data \in [0 .. B - 1 -> Byte]
    BY <1>2, MemoryAssumption DEF CacheLine
  <2>2. IF /\ s = SetIndex(addr) /\ i = get_line(c, addr)
           /\ o - (addr % B) \in 0 .. W - 1
        THEN /\ WordBytes(c, addr, s, i, o) # {}
             /\ Max(WordBytes(c, addr, s, i, o)) = o - (addr % B)
        ELSE WordBytes(c, addr, s, i, o) = {}
    BY WordBytesAre
  <2>3. val \in [0 .. W - 1 -> Byte]
    BY DEF Word
  <2> QED
    BY <2>1, <2>2, <2>3
<1> HIDE DEF Byt
<1>4. ASSUME NEW s \in SetIds, NEW i \in LineIds
      PROVE  /\ Line(s, i) \in CacheLine
             /\ Line(s, i).valid = c.sets[s][i].valid
             /\ Line(s, i).tag = c.sets[s][i].tag
             /\ Line(s, i).lru = c.sets[s][i].lru
             /\ Line(s, i).dirty = c.sets[s][i].dirty
             /\ Line(s, i).data = Dat(s, i)
  <2>1. Dat(s, i) \in Block
    BY <1>3, MemoryAssumption
  <2>2. c.sets[s][i] \in CacheLine
    BY <1>2
  <2> HIDE DEF Dat
  <2> QED
    BY <2>1, <2>2 DEF CacheLine
<1> HIDE DEF Line
<1>5. sets \in [SetIds -> [LineIds -> CacheLine]]
      /\ \A s \in SetIds, i \in LineIds : sets[s][i] = Line(s, i)
  BY <1>4
<1> HIDE DEF sets, d
<1>6. d \in CacheState /\ d.sets = sets /\ d.next_lru = c.next_lru
  BY <1>1, <1>2, <1>5 DEF CacheState
<1>7. ASSUME NEW s \in SetIds, NEW i \in LineIds
      PROVE  /\ d.sets[s][i].valid = c.sets[s][i].valid
             /\ d.sets[s][i].tag = c.sets[s][i].tag
             /\ d.sets[s][i].lru = c.sets[s][i].lru
             /\ d.sets[s][i].dirty = c.sets[s][i].dirty
             /\ \A o \in 0 .. B - 1 :
                   d.sets[s][i].data[o] =
                      IF /\ s = SetIndex(addr) /\ i = get_line(c, addr)
                         /\ o - (addr % B) \in 0 .. W - 1
                      THEN val[o - (addr % B)] ELSE c.sets[s][i].data[o]
  <2>1. d.sets[s][i] = Line(s, i)
    BY <1>5, <1>6
  <2>2. \A o \in 0 .. B - 1 : Dat(s, i)[o] = Byt(s, i, o)
    OBVIOUS
  <2> HIDE DEF Dat
  <2>3. \A o \in 0 .. B - 1 : d.sets[s][i].data[o] = Byt(s, i, o)
    BY <1>4, <2>1, <2>2
  <2>4. /\ d.sets[s][i].valid = c.sets[s][i].valid
        /\ d.sets[s][i].tag = c.sets[s][i].tag
        /\ d.sets[s][i].lru = c.sets[s][i].lru
        /\ d.sets[s][i].dirty = c.sets[s][i].dirty
    BY <1>4, <2>1
  <2> QED
    BY <1>3, <2>3, <2>4
<1> QED
  BY <1>6, <1>7 DEF d, WordStored

\* Storing val at addr takes cache c to d: what stays true, and what the
\* processor sees.
StoreSeen(c, d, addr, val) ==
    /\ CacheInv(d)
    /\ \A m : DirtyAt(c, addr) /\ CleanMatch(c, m) => CleanMatch(d, m)
    /\ \A m : \A x \in Nat :
          ByteAt(d, m, x) = IF x \in addr .. addr + W - 1
                            THEN val[x - addr] ELSE ByteAt(c, m, x)

(* Storing a word in a dirty line keeps the cache and its agreement with    *)
(* memory, and changes what the processor sees at the word's bytes only.    *)
LEMMA SetWordContent ==
    ASSUME NEW c, CacheInv(c), NEW addr \in Nat, (addr % B) + W <= B,
           Cached(c, addr), NEW val \in Word
    PROVE  StoreSeen(c, set_word_cache(c, addr, val), addr, val)
<1> DEFINE d == set_word_cache(c, addr, val)
<1>0. W \in Nat \ {0} /\ B \in Nat \ {0} /\ (addr % B) \in 0 .. B - 1
  BY GeometryAssumption, WordSize
<1>1. /\ d \in CacheState /\ d.next_lru = c.next_lru
      /\ \A s \in SetIds, i \in LineIds :
            /\ d.sets[s][i].valid = c.sets[s][i].valid
            /\ d.sets[s][i].tag = c.sets[s][i].tag
            /\ d.sets[s][i].lru = c.sets[s][i].lru
            /\ d.sets[s][i].dirty = c.sets[s][i].dirty
            /\ \A o \in 0 .. B - 1 :
                 d.sets[s][i].data[o] =
                    IF /\ s = SetIndex(addr) /\ i = get_line(c, addr)
                       /\ o - (addr % B) \in 0 .. W - 1
                    THEN val[o - (addr % B)] ELSE c.sets[s][i].data[o]
  <2>1. WordStored(c, d, addr, val)
    BY SetWordLines
  <2> HIDE DEF d
  <2> QED
    BY <2>1 DEF WordStored
<1> HIDE DEF d
<1>2. CacheInv(d)
  BY <1>1 DEF CacheInv, DistinctLines, PastTimes
<1>3. ASSUME NEW x \in Nat
      PROVE  (Cached(d, x) <=> Cached(c, x)) /\ get_line(d, x) = get_line(c, x)
  <2>1. SetIndex(x) \in SetIds
    BY AddressTypes
  <2>2. Matches(d, x) = Matches(c, x)
    BY <1>1, <2>1 DEF Matches
  <2> QED
    BY <2>2 DEF Cached, get_line
<1>4. ASSUME NEW m, DirtyAt(c, addr), CleanMatch(c, m) PROVE CleanMatch(d, m)
  <2> SUFFICES ASSUME NEW s \in SetIds, NEW i \in LineIds,
                      d.sets[s][i].valid, ~d.sets[s][i].dirty,
                      NEW o \in 0 .. B - 1
               PROVE  d.sets[s][i].data[o]
                         = _mem_read_byte(m, BlockAddr(s, d.sets[s][i].tag) + o)
    BY DEF CleanMatch
  <2>1. c.sets[s][i].valid /\ ~c.sets[s][i].dirty
    BY <1>1
  <2>2. ~(s = SetIndex(addr) /\ i = get_line(c, addr))
    BY <1>4, <2>1 DEF DirtyAt
  <2>3. /\ d.sets[s][i].tag = c.sets[s][i].tag
        /\ d.sets[s][i].data[o] = c.sets[s][i].data[o]
    BY <1>1, <2>2
  <2>4. c.sets[s][i].data[o] = _mem_read_byte(m, BlockAddr(s, c.sets[s][i].tag) + o)
    BY <1>4, <2>1 DEF CleanMatch
  <2> QED
    BY <2>3, <2>4
<1>5. ASSUME NEW x \in Nat, x \in addr .. addr + W - 1
      PROVE  /\ x - addr \in 0 .. W - 1
             /\ SetIndex(x) = SetIndex(addr) /\ get_line(c, x) = get_line(c, addr)
             /\ ((x % B) - (addr % B)) = (x - addr) /\ Cached(c, x)
  <2> DEFINE k == x - addr
  <2>1. k \in 0 .. W - 1 /\ x = addr + k
    BY <1>0, <1>5
  <2> HIDE DEF k
  <2>2. /\ SetIndex(addr + k) = SetIndex(addr) /\ ((addr + k) % B) = ((addr % B) + k)
        /\ get_line(c, addr + k) = get_line(c, addr) /\ Cached(c, addr + k)
    BY <2>1, WordInLine
  <2>3. (x % B) = ((addr % B) + k)
    BY <2>1, <2>2
  <2> QED
    BY <1>0, <2>1, <2>2, <2>3
<1>6. ASSUME NEW m, NEW x \in Nat
      PROVE  ByteAt(d, m, x) = IF x \in addr .. addr + W - 1
                               THEN val[x - addr] ELSE ByteAt(c, m, x)
  <2> DEFINE s == SetIndex(x)
             i == get_line(c, x)
             o == x % B
  <2>1. CASE ~Cached(c, x)
    BY <1>3, <1>5, <2>1 DEF ByteAt
  <2>2. CASE Cached(c, x)
    <3>1. s \in SetIds /\ i \in LineIds /\ o \in 0 .. B - 1
      BY <2>2, AddressTypes, GetLineFinds, BaseOfBlock DEF Matches
    <3>2. ByteAt(d, m, x) = d.sets[s][i].data[o] /\ ByteAt(c, m, x) = c.sets[s][i].data[o]
      BY <1>3, <2>2 DEF ByteAt
    <3>3. CASE x \in addr .. addr + W - 1
      <4>1. s = SetIndex(addr) /\ i = get_line(c, addr)
            /\ o - (addr % B) = x - addr /\ x - addr \in 0 .. W - 1
        BY <1>5, <3>3
      <4> HIDE DEF s, i, o
      <4>2. d.sets[s][i].data[o] = val[o - (addr % B)]
        BY <1>1, <3>1, <4>1
      <4> QED
        BY <3>2, <3>3, <4>1, <4>2
    <3>4. CASE x \notin addr .. addr + W - 1
      <4>1. ~(s = SetIndex(addr) /\ i = get_line(c, addr) /\ o - (addr % B) \in 0 .. W - 1)
        <5> SUFFICES ASSUME s = SetIndex(addr), i = get_line(c, addr),
                            o - (addr % B) \in 0 .. W - 1
                     PROVE  FALSE
          OBVIOUS
        <5>1. i \in Matches(c, x) /\ i \in Matches(c, addr)
          BY <2>2, GetLineFinds
        <5>2. Tag(x) = Tag(addr)
          BY <5>1 DEF Matches
        <5>3. x = BlockBase(addr) + (x % B) /\ addr = BlockBase(addr) + (addr % B)
              /\ BlockBase(addr) \in Nat
          BY <5>2, SameBlock, BaseOfBlock
        <5> HIDE DEF s, i
        <5>4. x - addr = o - (addr % B)
          BY <1>0, <3>1, <5>3
        <5> QED
          BY <1>0, <3>4, <5>4
      <4> HIDE DEF s, i, o
      <4>2. d.sets[s][i].data[o] = c.sets[s][i].data[o]
        BY <1>1, <3>1, <4>1
      <4> QED
        BY <3>2, <3>4, <4>2
    <3> QED
      BY <3>3, <3>4
  <2> QED
    BY <2>1, <2>2
<1> QED
  BY <1>2, <1>4, <1>6 DEF d, StoreSeen

(* The word read is assembled from what the processor sees.                *)
LEMMA GetWordContent ==
    ASSUME NEW c, NEW m, NEW addr \in Nat, (addr % B) + W <= B, Cached(c, addr)
    PROVE  get_word_cache(c, addr)
             = Assembled([k \in 0 .. W - 1 |-> ByteAt(c, m, addr + k)])
<1>1. \A k \in 0 .. W - 1 : Cached(c, addr + k)
  BY WordInLine
<1>2. [k \in 0 .. W - 1 |-> ByteInLine(c, addr + k)]
        = [k \in 0 .. W - 1 |-> ByteAt(c, m, addr + k)]
  BY <1>1 DEF ByteAt
<1> QED
  BY <1>2 DEF get_word_cache

(* A word within one block is cached with its first byte.                   *)
LEMMA WordCachedIs ==
    ASSUME NEW c, NEW addr \in Nat, (addr % B) + W <= B
    PROVE  WordCached(c, addr) <=> Cached(c, addr)
<1>1. 0 \in 0 .. W - 1 /\ addr + 0 = addr
  BY WordSize
<1> QED
  BY <1>1, WordInLine DEF WordCached

---------------------------------------------------------------------------
(* The invariant.                                                           *)

\* A miss takes time, and a word does not cross a block: 8-byte words at
\* multiples of 8 in blocks of at least 8 bytes.
WithinBlocks ==
    /\ DELAY > 0
    /\ \A addr \in ReadAddrs \cup WriteAddrs : (addr % B) + W <= B

\* A call that can be repeated.
Calls ==
    {Silent} \cup [op : {"READ"}, addr : ReadAddrs \ {NULL_ADDR}]
             \cup [op : {"WRITE"}, addr : WriteAddrs \ {NULL_ADDR}, val : Words]

\* The call to repeat has cycles left to wait.
CallInv ==
    /\ req \in Calls
    /\ req # Silent => inflight_cycles > 0
    /\ req = Silent => waited = 0

IInv ==
    /\ TypeOK
    /\ CleanLinesMatchMemory
    /\ StallProtocol
    /\ PreconditionHolds
    /\ CallInv

(* The memory begins with nothing cached and nothing asked.                 *)
LEMMA InitInv == WithinBlocks /\ Init => IInv
<1> SUFFICES ASSUME WithinBlocks, Init PROVE IInv
  OBVIOUS
<1>1. CacheInv(cache)
  BY CreateCacheInv DEF Init
<1>2. TypeOK
  <2>1. mem = Image /\ Image \in [DOMAIN Image -> Byte]
    BY MemoryAssumption DEF Init
  <2>2. mem \in [DOMAIN mem -> Byte]
    BY <2>1, Zenon
  <2>3. inflight_cycles \in 0 .. CYCLE_MOD - 1 /\ inflight_addr \in Nat
    BY MemoryAssumption DEF Init
  <2> QED
    BY <1>1, <2>2, <2>3 DEF Init, TypeOK
<1>3. CleanLinesMatchMemory
  <2>1. \A s \in SetIds : \A i \in LineIds : ~cache.sets[s][i].valid
    BY DEF Init, create_cache, EmptyLine
  <2> QED
    BY <2>1 DEF CleanLinesMatchMemory
<1>4. StallProtocol
  BY DEF Init, StallProtocol
<1>5. PreconditionHolds /\ CallInv
  BY DEF Init, PreconditionHolds, CallInv, Calls, Silent
<1> QED
  BY <1>2, <1>3, <1>4, <1>5 DEF IInv

(* The loop starts from a sound record; a fetch it steps has waited for its *)
(* delay less the cycles left.                                              *)
LEMMA CallStarts ==
    ASSUME IInv, WithinBlocks, NEW addr \in ReadAddrs \cup WriteAddrs,
           NEW op \in Operations, req = Silent \/ req.addr = addr
    PROVE  /\ addr \in Nat /\ (addr % B) + W <= B
           /\ Sound(LoopStart, addr, op)
           /\ Cached(cache, addr) => ~inflight
           /\ waited \in Nat
           /\ CountDown(LoopStart, BlockBase(addr)) > 0 =>
                 waited + 1 + CountDown(LoopStart, BlockBase(addr)) = DELAY
<1>1. addr \in Nat /\ (addr % B) + W <= B /\ waited \in Nat
  BY MemoryAssumption DEF WithinBlocks, IInv, TypeOK
<1>2. /\ LoopStart.mem = mem /\ LoopStart.cache = cache
      /\ LoopStart.inflight = inflight /\ LoopStart.inflight_addr = inflight_addr
      /\ LoopStart.inflight_cycles = inflight_cycles
      /\ LoopStart.returned = FALSE
  BY DEF LoopStart
<1>3. LoopRecord(LoopStart)
  BY DEF LoopRecord, LoopVars, LoopStart
<1>4. CleanMatch(cache, mem)
  BY DEF IInv, CleanLinesMatchMemory, CleanMatch
<1>5. Sound(LoopStart, addr, op)
  BY <1>2, <1>3, <1>4 DEF Sound, IInv, TypeOK
<1>6. Cached(cache, addr) => ~inflight
  <2>1. Cached(cache, BlockBase(addr)) <=> Cached(cache, addr)
    BY <1>1, BaseOfBlock, CachedSameBlock
  <2> QED
    BY <2>1 DEF IInv, StallProtocol
<1>7. CountDown(LoopStart, BlockBase(addr)) > 0 =>
         waited + 1 + CountDown(LoopStart, BlockBase(addr)) = DELAY
  <2>1. DELAY \in Nat /\ DELAY > 0 /\ CYCLE_MOD \in Nat \ {0} /\ DELAY < CYCLE_MOD
    BY MemoryAssumption DEF WithinBlocks
  <2>2. \A n \in 1 .. CYCLE_MOD - 1 : (n - 1) % CYCLE_MOD = n - 1
    BY <2>1
  <2>3. CASE req = Silent
    <3>1. waited = 0 /\ ~inflight
      BY <2>3 DEF IInv, CallInv, StallProtocol
    <3>2. CountDown(LoopStart, BlockBase(addr)) = (DELAY - 1) % CYCLE_MOD
      BY <1>2, <3>1 DEF CountDown
    <3>3. CountDown(LoopStart, BlockBase(addr)) = DELAY - 1
      BY <2>1, <2>2, <3>2
    <3> QED
      BY <2>1, <3>1, <3>3
  <2>4. CASE req # Silent
    <3>1. /\ inflight /\ inflight_addr = BlockBase(addr)
          /\ waited + inflight_cycles = DELAY /\ inflight_cycles > 0
      BY <2>4 DEF IInv, CallInv, StallProtocol
    <3>2. CountDown(LoopStart, BlockBase(addr)) = (inflight_cycles - 1) % CYCLE_MOD
      BY <1>2, <3>1 DEF CountDown
    <3>3. inflight_cycles \in 1 .. CYCLE_MOD - 1
      BY <2>1, <3>1 DEF IInv, TypeOK
    <3>4. CountDown(LoopStart, BlockBase(addr)) = inflight_cycles - 1
      BY <2>2, <3>2, <3>3
    <3> QED
      BY <1>1, <2>1, <3>1, <3>3, <3>4
  <2> QED
    BY <2>3, <2>4
<1> QED
  BY <1>1, <1>5, <1>6, <1>7

(* How the loop of a call can end.                                          *)
LEMMA CallEnds ==
    ASSUME IInv, WithinBlocks, NEW addr \in ReadAddrs \cup WriteAddrs,
           NEW op \in Operations, req = Silent \/ req.addr = addr
    PROVE  LET r == Loop(addr, op)
           IN  /\ addr \in Nat /\ (addr % B) + W <= B
               /\ Sound(r, addr, op)
               /\ ~r.returned => /\ Goes(r, addr, op) /\ ~r.inflight
                                 /\ WordCached(r.cache, addr)
               /\ r.returned => /\ Waits(r, addr, r.inflight_cycles)
                                /\ r.inflight_cycles > 0
                                /\ waited \in Nat
                                /\ waited + 1 + r.inflight_cycles = DELAY
<1> DEFINE r == Loop(addr, op)
           n == CountDown(LoopStart, BlockBase(addr))
<1>1. /\ addr \in Nat /\ (addr % B) + W <= B
      /\ Sound(LoopStart, addr, op) /\ (Cached(cache, addr) => ~inflight)
      /\ waited \in Nat /\ (n > 0 => waited + 1 + n = DELAY)
  BY CallStarts
<1>2. LoopResult(r, addr, op)
  BY <1>1, LoopEnds
<1> HIDE DEF r
<1>3. ~r.returned => Goes(r, addr, op) /\ ~r.inflight /\ WordCached(r.cache, addr)
  BY <1>1, <1>2, WordCachedIs DEF LoopResult, Goes, Waits
<1>4. r.returned => /\ Waits(r, addr, r.inflight_cycles) /\ r.inflight_cycles > 0
                    /\ waited + 1 + r.inflight_cycles = DELAY
  <2> HAVE r.returned
  <2>1. Waits(r, addr, n) /\ n > 0
    BY <1>2 DEF LoopResult, Goes
  <2>2. r.inflight_cycles = n
    BY <2>1 DEF Waits
  <2> QED
    BY <1>1, <2>1, <2>2
<1> QED
  BY <1>1, <1>2, <1>3, <1>4 DEF LoopResult, r

(* A call that must wait keeps the invariant.                               *)
LEMMA InFlightInv ==
    ASSUME IInv, WithinBlocks, NEW addr \in ReadAddrs \cup WriteAddrs,
           NEW op \in Operations, NEW call \in Calls, call # Silent, call.addr = addr,
           req = Silent \/ req.addr = addr, InFlight(call, Loop(addr, op))
    PROVE  IInv'
<1> DEFINE r == Loop(addr, op)
<1>1. /\ addr \in Nat /\ Sound(r, addr, op)
      /\ r.returned => /\ Waits(r, addr, r.inflight_cycles) /\ r.inflight_cycles > 0
                       /\ waited \in Nat /\ waited + 1 + r.inflight_cycles = DELAY
  BY CallEnds
<1>2. /\ r.returned
      /\ mem' = r.mem /\ cache' = r.cache
      /\ inflight_addr' = r.inflight_addr /\ inflight_cycles' = r.inflight_cycles
      /\ dmem_status' = "IN_FLIGHT" /\ req' = call /\ waited' = waited + 1
      /\ resp' = resp
  BY DEF InFlight, Commit
<1>3. inflight' = r.inflight
  BY Zenon DEF InFlight, Commit
<1> HIDE DEF r
<1>4. inflight' = TRUE
  <2>1. r.inflight /\ r.inflight \in BOOLEAN
    BY <1>1, <1>2 DEF Waits, Sound
  <2> QED
    BY <1>3, <2>1
<1>5. TypeOK'
  <2>1. mem' \in [DOMAIN mem' -> Byte]
    BY <1>1, <1>2, Zenon DEF Sound
  <2>2. CacheInv(cache)'
    BY <1>1, <1>2 DEF Sound
  <2>3. inflight_addr' \in Nat /\ inflight_cycles' \in 0 .. CYCLE_MOD - 1 /\ waited' \in Nat
    BY <1>1, <1>2 DEF Sound
  <2> QED
    BY <1>2, <1>4, <2>1, <2>2, <2>3 DEF TypeOK
<1>6. CleanLinesMatchMemory'
  <2>1. CleanMatch(r.cache, r.mem)
    BY <1>1 DEF Sound
  <2>2. CleanMatch(cache', mem')
    BY <1>2, <2>1
  <2> QED
    BY <2>2 DEF CleanMatch, CleanLinesMatchMemory
<1>7. StallProtocol'
  <2>1. inflight_addr' = BlockBase(addr) /\ ~Cached(cache', addr)
    BY <1>1, <1>2 DEF Waits
  <2>2. ~Cached(cache', BlockBase(addr))
    BY <1>1, <2>1, BaseOfBlock, CachedSameBlock
  <2>3. waited' + inflight_cycles' = DELAY
    BY <1>1, <1>2 DEF Sound
  <2> QED
    BY <1>2, <1>4, <2>1, <2>2, <2>3 DEF StallProtocol
<1>8. PreconditionHolds'
  BY <1>2 DEF IInv, PreconditionHolds
<1>9. CallInv'
  BY <1>1, <1>2 DEF CallInv, Calls
<1> QED
  BY <1>5, <1>6, <1>7, <1>8, <1>9 DEF IInv

(* A call that completes keeps the invariant.                               *)
LEMMA DoneInv ==
    ASSUME IInv, WithinBlocks, NEW addr \in ReadAddrs \cup WriteAddrs,
           NEW op \in Operations, req = Silent \/ req.addr = addr,
           NEW c, NEW answer, Done(Loop(addr, op), addr, c, answer),
           CacheInv(c), CleanMatch(c, Loop(addr, op).mem), answer.op # "CRASH"
    PROVE  IInv'
<1> DEFINE r == Loop(addr, op)
<1>1. /\ Sound(r, addr, op) /\ (~r.returned => ~r.inflight)
  BY CallEnds
<1>2. /\ ~r.returned
      /\ mem' = r.mem /\ cache' = c
      /\ inflight_addr' = r.inflight_addr /\ inflight_cycles' = r.inflight_cycles
      /\ dmem_status' = "READY" /\ req' = Silent /\ waited' = 0
      /\ resp' = answer
  BY DEF Done, Commit
<1>3. inflight' = r.inflight
  BY Zenon DEF Done, Commit
<1>0. CleanMatch(c, r.mem)
  OBVIOUS
<1> HIDE DEF r
<1>4. inflight' = FALSE
  <2>1. ~r.inflight /\ r.inflight \in BOOLEAN
    BY <1>1, <1>2 DEF Sound
  <2> QED
    BY <1>3, <2>1
<1>5. TypeOK'
  <2>1. mem' \in [DOMAIN mem' -> Byte]
    BY <1>1, <1>2, Zenon DEF Sound
  <2>2. CacheInv(cache)'
    BY <1>2
  <2>3. inflight_addr' \in Nat /\ inflight_cycles' \in 0 .. CYCLE_MOD - 1 /\ waited' \in Nat
    BY <1>1, <1>2 DEF Sound
  <2> QED
    BY <1>2, <1>4, <2>1, <2>2, <2>3 DEF TypeOK
<1>6. CleanLinesMatchMemory'
  <2>1. CleanMatch(cache', mem')
    BY <1>0, <1>2
  <2> QED
    BY <2>1 DEF CleanMatch, CleanLinesMatchMemory
<1>7. StallProtocol'
  BY <1>2, <1>4 DEF StallProtocol
<1>8. PreconditionHolds'
  BY <1>2 DEF PreconditionHolds
<1>9. CallInv'
  BY <1>2 DEF CallInv, Calls
<1> QED
  BY <1>5, <1>6, <1>7, <1>8, <1>9 DEF IInv

(* What a completed load leaves and answers.                                *)
LEMMA LoadDone ==
    ASSUME IInv, WithinBlocks, NEW addr \in ReadAddrs, addr # NULL_ADDR,
           _mem_read_cache(addr)
    PROVE  /\ IInv'
           /\ \A x \in Nat : ByteAt(cache', mem', x) = ByteAt(cache, mem, x)
           /\ \/ dmem_status' = "IN_FLIGHT" /\ resp' = resp
              \/ /\ dmem_status' = "READY"
                 /\ resp' = [op |-> "READ", addr |-> addr, val |-> Assembled(WordAt(addr))]
<1> DEFINE call == [op |-> "READ", addr |-> addr]
           r    == Loop(addr, "READ")
           answer == [op |-> "READ", addr |-> addr, val |-> get_word_cache(r.cache, addr)]
<1>1. /\ req = Silent \/ req.addr = addr
      /\ \/ InFlight(call, r)
         \/ NullLine(r, addr)
         \/ Done(r, addr, r.cache, answer)
  BY DEF _mem_read_cache, Issued
<1>2. call \in Calls /\ call # Silent /\ call.addr = addr /\ "READ" \in Operations
  BY DEF Calls, Silent, Operations
<1>3. /\ addr \in Nat /\ (addr % B) + W <= B
      /\ Sound(r, addr, "READ")
      /\ ~r.returned => Goes(r, addr, "READ") /\ WordCached(r.cache, addr)
  BY <1>1, <1>2, CallEnds
<1>4. FilledFrom(addr, "READ") = BlockBase(addr)
  BY DEF FilledFrom
<1>5. \A x \in Nat : ByteAt(r.cache, r.mem, x) = ByteAt(cache, mem, x)
  BY <1>3, <1>4 DEF Sound
<1>6. CASE InFlight(call, r)
  <2>1. IInv'
    BY <1>1, <1>2, <1>6, InFlightInv
  <2>2. /\ cache' = r.cache /\ mem' = r.mem /\ resp' = resp
        /\ dmem_status' = "IN_FLIGHT"
    BY <1>6 DEF InFlight, Commit
  <2> HIDE DEF r
  <2> QED
    BY <1>5, <2>1, <2>2
<1>7. CASE NullLine(r, addr)
  BY <1>3, <1>7 DEF NullLine
<1>8. CASE Done(r, addr, r.cache, answer)
  <2>1. /\ cache' = r.cache /\ mem' = r.mem /\ resp' = answer /\ ~r.returned
        /\ dmem_status' = "READY"
    BY <1>8 DEF Done, Commit
  <2>2. CacheInv(r.cache) /\ CleanMatch(r.cache, r.mem) /\ answer.op # "CRASH"
    BY <1>3 DEF Sound
  <2>3. IInv'
    <3> HIDE DEF answer
    <3> QED
      BY <1>1, <1>2, <1>8, <2>2, DoneInv
  <2>4. get_word_cache(r.cache, addr) = Assembled(WordAt(addr))
    <3>1. Cached(r.cache, addr)
      BY <1>3, <2>1 DEF Goes
    <3>2. get_word_cache(r.cache, addr)
            = Assembled([k \in 0 .. W - 1 |-> ByteAt(r.cache, r.mem, addr + k)])
      <4> HIDE DEF r
      <4> QED
        BY <1>3, <3>1, GetWordContent
    <3>3. \A k \in 0 .. W - 1 : addr + k \in Nat
      BY <1>3
    <3> HIDE DEF r
    <3>4. [k \in 0 .. W - 1 |-> ByteAt(r.cache, r.mem, addr + k)] = WordAt(addr)
      BY <1>5, <3>3 DEF WordAt
    <3> QED
      BY <3>2, <3>4
  <2> HIDE DEF r
  <2> QED
    BY <1>5, <2>1, <2>3, <2>4
<1> QED
  BY <1>1, <1>6, <1>7, <1>8

(* What a store leaves; it changes its word only, where it fills its block  *)
(* from the base.                                                           *)
LEMMA StoreDone ==
    ASSUME IInv, WithinBlocks, NEW addr \in WriteAddrs, addr # NULL_ADDR,
           NEW val \in Words, _mem_write_cache(addr, val)
    PROVE  /\ IInv'
           /\ (addr % B) = 0 =>
                 \/ /\ dmem_status' = "IN_FLIGHT" /\ resp' = resp
                    /\ \A x \in Nat : ByteAt(cache', mem', x) = ByteAt(cache, mem, x)
                 \/ /\ dmem_status' = "READY"
                    /\ resp' = [op |-> "WRITE", addr |-> addr, val |-> val]
                    /\ \A x \in Nat :
                         ByteAt(cache', mem', x) =
                            IF x \in addr .. addr + W - 1
                            THEN val[x - addr] ELSE ByteAt(cache, mem, x)
<1> DEFINE call == [op |-> "WRITE", addr |-> addr, val |-> val]
           r    == Loop(addr, "WRITE")
           c    == set_word_cache(r.cache, addr, val)
<1>1. /\ req = Silent \/ req.addr = addr
      /\ \/ InFlight(call, r)
         \/ NullLine(r, addr)
         \/ Done(r, addr, c, call)
  BY DEF _mem_write_cache, Issued
<1>2. call \in Calls /\ call # Silent /\ call.addr = addr /\ "WRITE" \in Operations
  BY DEF Calls, Silent, Operations
<1>3. /\ addr \in Nat /\ (addr % B) + W <= B
      /\ Sound(r, addr, "WRITE")
      /\ ~r.returned => Goes(r, addr, "WRITE") /\ WordCached(r.cache, addr)
  BY <1>1, <1>2, CallEnds
<1>4. val \in Word
  BY MemoryAssumption
<1>5. (addr % B) = 0 => \A x \in Nat : ByteAt(r.cache, r.mem, x) = ByteAt(cache, mem, x)
  <2> HAVE (addr % B) = 0
  <2>1. BlockBase(addr) = addr
    BY <1>3 DEF BlockBase
  <2>2. FilledFrom(addr, "WRITE") = BlockBase(addr)
    BY <2>1 DEF FilledFrom
  <2> QED
    BY <1>3, <2>2 DEF Sound
<1>6. CASE InFlight(call, r)
  <2>1. IInv'
    BY <1>1, <1>2, <1>6, InFlightInv
  <2>2. /\ cache' = r.cache /\ mem' = r.mem /\ resp' = resp
        /\ dmem_status' = "IN_FLIGHT"
    BY <1>6 DEF InFlight, Commit
  <2> HIDE DEF r
  <2> QED
    BY <1>5, <2>1, <2>2
<1>7. CASE NullLine(r, addr)
  BY <1>3, <1>7 DEF NullLine
<1>8. CASE Done(r, addr, c, call)
  <2>1. /\ cache' = c /\ mem' = r.mem /\ resp' = call /\ ~r.returned
        /\ dmem_status' = "READY"
    BY <1>8 DEF Done, Commit
  <2>2. /\ CacheInv(r.cache) /\ CleanMatch(r.cache, r.mem)
        /\ Cached(r.cache, addr) /\ DirtyAt(r.cache, addr) /\ call.op # "CRASH"
    BY <1>3, <2>1 DEF Sound, Goes
  <2>3. /\ CacheInv(c) /\ CleanMatch(c, r.mem)
        /\ \A x \in Nat :
             ByteAt(c, r.mem, x) = IF x \in addr .. addr + W - 1
                                   THEN val[x - addr] ELSE ByteAt(r.cache, r.mem, x)
    <3> HIDE DEF r
    <3>1. StoreSeen(r.cache, c, addr, val)
      BY <1>3, <1>4, <2>2, SetWordContent
    <3> HIDE DEF c
    <3> QED
      BY <2>2, <3>1 DEF StoreSeen
  <2>4. IInv'
    <3> HIDE DEF c, call
    <3> QED
      BY <1>1, <1>2, <1>8, <2>2, <2>3, DoneInv
  <2> HIDE DEF r, c
  <2> QED
    BY <1>5, <2>1, <2>3, <2>4
<1> QED
  BY <1>1, <1>6, <1>7, <1>8

(* A call at NULL changes the answer only.                                  *)
LEMMA NullInv ==
    ASSUME IInv, ReadNull \/ \E val \in Words : WriteNull(val)
    PROVE  IInv'
<1>1. UNCHANGED <<mem, cache, inflight, inflight_addr, inflight_cycles,
                  dmem_status, req, waited>>
  BY DEF ReadNull, WriteNull
<1>2. resp'.op # "CRASH"
  <2>1. CASE ReadNull
    BY <2>1 DEF ReadNull
  <2>2. ASSUME NEW val \in Words, WriteNull(val) PROVE resp'.op # "CRASH"
    BY <2>2 DEF WriteNull
  <2> QED
    BY <2>1, <2>2
<1>3. TypeOK' /\ CleanLinesMatchMemory' /\ StallProtocol' /\ CallInv'
  BY <1>1 DEF IInv, TypeOK, CleanLinesMatchMemory, StallProtocol, CallInv
<1> QED
  BY <1>2, <1>3 DEF IInv, PreconditionHolds

(* The invariant is inductive, for a program whose words keep to a block.   *)
LEMMA InvHolds == WithinBlocks => (Spec => []IInv)
<1> SUFFICES ASSUME WithinBlocks PROVE Spec => []IInv
  OBVIOUS
<1>1. Init => IInv
  BY InitInv
<1>2. IInv /\ [Next]_vars => IInv'
  <2> SUFFICES ASSUME IInv, [Next]_vars PROVE IInv'
    OBVIOUS
  <2>1. CASE \E addr \in ReadAddrs : _mem_read_cache(addr)
    <3>1. PICK addr \in ReadAddrs : _mem_read_cache(addr)
      BY <2>1
    <3>2. addr # NULL_ADDR
      BY <3>1 DEF _mem_read_cache
    <3> QED
      BY <3>1, <3>2, LoadDone
  <2>2. CASE \E addr \in WriteAddrs, val \in Words : _mem_write_cache(addr, val)
    <3>1. PICK addr \in WriteAddrs, val \in Words : _mem_write_cache(addr, val)
      BY <2>2
    <3>2. addr # NULL_ADDR
      BY <3>1 DEF _mem_write_cache
    <3> QED
      BY <3>1, <3>2, StoreDone
  <2>3. CASE ReadNull \/ \E val \in Words : WriteNull(val)
    BY <2>3, NullInv
  <2>4. CASE UNCHANGED vars
    BY <2>4 DEF vars, IInv, TypeOK, CleanLinesMatchMemory, StallProtocol,
                PreconditionHolds, CallInv
  <2> QED
    BY <2>1, <2>2, <2>3, <2>4 DEF Next
<1> QED
  BY <1>1, <1>2, PTL DEF Spec

---------------------------------------------------------------------------
(* For every geometry of the cache, delay, image of memory and values       *)
(* stored, and every sequence of calls whose words keep to a block, the     *)
(* variables keep their types and the cache its invariant.                  *)
THEOREM MemoryTyped == WithinBlocks => (Spec => []TypeOK)
<1> SUFFICES ASSUME WithinBlocks PROVE Spec => []TypeOK
  OBVIOUS
<1>1. IInv => TypeOK
  BY DEF IInv
<1> QED
  BY <1>1, InvHolds, PTL

(* A line that eviction drops without writing it back (mem.c:220, 270) holds *)
(* what memory holds.                                                       *)
THEOREM CleanLinesDroppable == WithinBlocks => (Spec => []CleanLinesMatchMemory)
<1> SUFFICES ASSUME WithinBlocks PROVE Spec => []CleanLinesMatchMemory
  OBVIOUS
<1>1. IInv => CleanLinesMatchMemory
  BY DEF IInv
<1> QED
  BY <1>1, InvHolds, PTL

(* IN_FLIGHT stands exactly while a call has to be repeated, its fetch is    *)
(* that of the call's own block, and what it has waited and what it has to   *)
(* wait add up to the delay.                                                *)
THEOREM StallsKeepProtocol == WithinBlocks => (Spec => []StallProtocol)
<1> SUFFICES ASSUME WithinBlocks PROVE Spec => []StallProtocol
  OBVIOUS
<1>1. IInv => StallProtocol
  BY DEF IInv
<1> QED
  BY <1>1, InvHolds, PTL

(* A call is answered IN_FLIGHT fewer times than the delay (cache.h:31): it  *)
(* completes in the cycle in which the count of mem.c:203 reaches 0.         *)
THEOREM WaitsBounded == WithinBlocks => (Spec => []WaitBounded)
<1> SUFFICES ASSUME WithinBlocks PROVE Spec => []WaitBounded
  OBVIOUS
<1>1. IInv => WaitBounded
  <2> SUFFICES ASSUME IInv PROVE WaitBounded
    OBVIOUS
  <2>1. waited \in Nat /\ inflight_cycles \in Nat /\ DELAY \in Nat
    BY MemoryAssumption DEF IInv, TypeOK
  <2>4. req # Silent => inflight_cycles > 0
    BY DEF IInv, CallInv
  <2>2. req # Silent => waited + inflight_cycles = DELAY
    BY DEF IInv, StallProtocol
  <2>3. req = Silent => waited = 0
    BY DEF IInv, CallInv
  <2> QED
    BY <2>1, <2>2, <2>3, <2>4 DEF WaitBounded
<1> QED
  BY <1>1, InvHolds, PTL

(* get_word_cache and set_word_cache are called with every byte of the word  *)
(* cached: no line is NULL.                                                 *)
THEOREM WordsAreCached == WithinBlocks => (Spec => []PreconditionHolds)
<1> SUFFICES ASSUME WithinBlocks PROVE Spec => []PreconditionHolds
  OBVIOUS
<1>1. IInv => PreconditionHolds
  BY DEF IInv
<1> QED
  BY <1>1, InvHolds, PTL

---------------------------------------------------------------------------
(* The conversion of get_word_cache, cache.c:270.                           *)

\* Where the shift takes byte k.
LEMMA ShiftOf ==
    ASSUME NEW k \in 0 .. W - 1
    PROVE  (k % INT) = IF k < INT THEN k ELSE k - INT
<1>0. W \in Nat /\ INT \in Nat \ {0} /\ W = 2 * INT /\ k \in Nat
  BY WordSize
<1>1. CASE k < INT
  <2>1. (k % INT) = k
    BY <1>0, <1>1
  <2> QED
    BY <1>1, <2>1
<1>2. CASE k >= INT
  <2>1. k - INT \in 0 .. INT - 1 /\ k \in Int /\ INT \in Int /\ INT > 0
    BY <1>0, <1>2
  <2>2. (k % INT) \in 0 .. INT - 1 /\ k = INT * (k \div INT) + (k % INT) /\ (k \div INT) \in Int
    BY <2>1
  <2> DEFINE q == k \div INT
             m == k % INT
  <2>3. q \in Int /\ m \in 0 .. INT - 1 /\ k = INT * q + m /\ INT * q = q * INT
        /\ q * INT \in Int
    BY <1>0, <2>2
  <2> HIDE DEF q, m
  <2>4. ~(q < 1)
    <3> SUFFICES ASSUME q < 1 PROVE FALSE
      OBVIOUS
    <3>1. q * INT + INT <= 1 * INT
      BY <1>0, <2>3, MultipleAbove
    <3> QED
      BY <1>0, <1>2, <2>3, <3>1
  <2>5. ~(1 < q)
    <3> SUFFICES ASSUME 1 < q PROVE FALSE
      OBVIOUS
    <3>1. 1 * INT + INT <= q * INT
      BY <1>0, <2>3, MultipleAbove
    <3> QED
      BY <1>0, <2>1, <2>3, <3>1
  <2>6. q = 1
    BY <2>3, <2>4, <2>5
  <2>7. m = k - INT
    BY <1>0, <2>3, <2>6
  <2> QED
    BY <1>0, <1>2, <2>7 DEF m
<1> QED
  BY <1>0, <1>1, <1>2

\* A word's bytes.
LEMMA BytesOfWord ==
    ASSUME NEW w \in Word, NEW k \in 0 .. W - 1
    PROVE  w[k] \in Byte /\ w[k] \subseteq AllOnes
  BY DEF Word, Byte

\* Each of the lower bytes gets the byte INT places above it as well.
LEMMA LowerByte ==
    ASSUME NEW w \in Word, NEW j \in 0 .. INT - 1
    PROVE  Assembled(w)[j] = w[j] \cup w[j + INT]
<1>0. W \in Nat /\ INT \in Nat \ {0} /\ W = 2 * INT
  BY WordSize
<1>1. j \in 0 .. W - 1 /\ j + INT \in 0 .. W - 1 /\ ~(j >= INT)
  BY <1>0
<1>2. Assembled(w)[j] = UNION {Shifted(w[k], k)[j] : k \in 0 .. W - 1}
  BY <1>1 DEF Assembled
<1>3. ASSUME NEW k \in 0 .. W - 1
      PROVE  Shifted(w[k], k)[j] = IF k = j \/ k = j + INT THEN w[k] ELSE {}
  <2>1. j = (k % INT) <=> k = j \/ k = j + INT
    BY <1>0, <1>1, ShiftOf
  <2> QED
    BY <1>1, <2>1 DEF Shifted, ZeroByte
<1> QED
  BY <1>1, <1>2, <1>3

\* The upper ones are the sign of either of the two bytes that reach the top
\* of the int.
LEMMA UpperByte ==
    ASSUME NEW w \in Word, NEW j \in INT .. W - 1
    PROVE  Assembled(w)[j] = IF Negative(w[INT - 1]) \/ Negative(w[W - 1])
                             THEN AllOnes ELSE ZeroByte
<1>0. W \in Nat /\ INT \in Nat \ {0} /\ W = 2 * INT
  BY WordSize
<1>1. j \in 0 .. W - 1 /\ j >= INT /\ INT - 1 \in 0 .. W - 1 /\ W - 1 \in 0 .. W - 1
  BY <1>0
<1>2. Assembled(w)[j] = UNION {Shifted(w[k], k)[j] : k \in 0 .. W - 1}
  BY <1>1 DEF Assembled
<1>3. ASSUME NEW k \in 0 .. W - 1
      PROVE  Shifted(w[k], k)[j]
               = IF (k = INT - 1 \/ k = W - 1) /\ Negative(w[k]) THEN AllOnes ELSE {}
  <2>1. /\ j # (k % INT)
        /\ (k % INT) = INT - 1 <=> k = INT - 1 \/ k = W - 1
    BY <1>0, <1>1, ShiftOf
  <2> QED
    BY <1>1, <2>1 DEF Shifted, ZeroByte
<1>4. CASE Negative(w[INT - 1]) \/ Negative(w[W - 1])
  BY <1>1, <1>2, <1>3, <1>4
<1>5. CASE ~(Negative(w[INT - 1]) \/ Negative(w[W - 1]))
  <2>1. \A k \in 0 .. W - 1 : Shifted(w[k], k)[j] = {}
    BY <1>3, <1>5
  <2> QED
    BY <1>2, <1>5, <2>1 DEF ZeroByte
<1> QED
  BY <1>4, <1>5

(* get_word_cache gives a word back as it is exactly if it is a non-negative *)
(* int or -1, whatever the widths of a byte and of an int: of the words a    *)
(* processor may store it loses all others (cache.c:269-270).                *)
THEOREM NarrowAreIntact == NarrowIsIntact
<1> SUFFICES ASSUME NEW w \in Word PROVE Assembled(w) = w <=> w \in Narrow
  BY DEF NarrowIsIntact
<1>0. W \in Nat /\ INT \in Nat \ {0} /\ W = 2 * INT /\ BITS \in Nat \ {0}
  BY WordAssumption
<1>1. /\ INT - 1 \in 0 .. INT - 1 /\ INT - 1 \in 0 .. W - 1
      /\ W - 1 \in INT .. W - 1 /\ W - 1 \in 0 .. W - 1
      /\ \A j \in 0 .. INT - 1 : j \in 0 .. W - 1 /\ j + INT \in INT .. W - 1
      /\ \A j \in INT .. W - 1 : j \in 0 .. W - 1
      /\ \A j \in 0 .. W - 1 : j \in 0 .. INT - 1 \/ j \in INT .. W - 1
  BY <1>0
<1>2. Negative(AllOnes) /\ ~Negative(ZeroByte)
  BY <1>0 DEF Negative, AllOnes, ZeroByte
<1>3. \A j \in 0 .. W - 1 : w[j] \subseteq AllOnes
  BY BytesOfWord
<1>4. w = [j \in 0 .. W - 1 |-> w[j]] /\ DOMAIN Assembled(w) = 0 .. W - 1
      /\ Assembled(w) = [j \in 0 .. W - 1 |-> Assembled(w)[j]]
  BY DEF Word, Assembled
<1>5. ASSUME Assembled(w) = w PROVE w \in Narrow
  <2>1. CASE Negative(w[INT - 1]) \/ Negative(w[W - 1])
    <3>1. \A j \in INT .. W - 1 : w[j] = AllOnes
      BY <1>5, <2>1, UpperByte
    <3>2. \A j \in 0 .. INT - 1 : w[j] = AllOnes
      <4> TAKE j \in 0 .. INT - 1
      <4>1. w[j] = w[j] \cup w[j + INT] /\ w[j + INT] = AllOnes
        BY <1>1, <1>5, <3>1, LowerByte
      <4> QED
        BY <1>1, <1>3, <4>1
    <3> QED
      BY <1>1, <3>1, <3>2 DEF Narrow
  <2>2. CASE ~(Negative(w[INT - 1]) \/ Negative(w[W - 1]))
    <3>1. \A j \in INT .. W - 1 : w[j] = ZeroByte
      BY <1>5, <2>2, UpperByte
    <3> QED
      BY <2>2, <3>1 DEF Narrow
  <2> QED
    BY <2>1, <2>2
<1>6. ASSUME w \in Narrow PROVE \A j \in 0 .. W - 1 : Assembled(w)[j] = w[j]
  <2>1. CASE /\ \A j \in INT .. W - 1 : w[j] = ZeroByte
             /\ ~Negative(w[INT - 1])
    <3>1. \A j \in INT .. W - 1 : Assembled(w)[j] = w[j]
      BY <1>1, <1>2, <2>1, UpperByte
    <3>2. \A j \in 0 .. INT - 1 : Assembled(w)[j] = w[j]
      <4> TAKE j \in 0 .. INT - 1
      <4>1. Assembled(w)[j] = w[j] \cup w[j + INT] /\ w[j + INT] = ZeroByte
        BY <1>1, <2>1, LowerByte
      <4> QED
        BY <4>1 DEF ZeroByte
    <3> QED
      BY <1>1, <3>1, <3>2
  <2>2. CASE \A j \in 0 .. W - 1 : w[j] = AllOnes
    <3>1. \A j \in INT .. W - 1 : Assembled(w)[j] = w[j]
      BY <1>1, <1>2, <2>2, UpperByte
    <3>2. \A j \in 0 .. INT - 1 : Assembled(w)[j] = w[j]
      <4> TAKE j \in 0 .. INT - 1
      <4>1. Assembled(w)[j] = w[j] \cup w[j + INT]
            /\ w[j] = AllOnes /\ w[j + INT] = AllOnes
        BY <1>1, <2>2, LowerByte
      <4> QED
        BY <4>1
    <3> QED
      BY <1>1, <3>1, <3>2
  <2> QED
    BY <1>6, <2>1, <2>2 DEF Narrow
<1>7. (\A j \in 0 .. W - 1 : Assembled(w)[j] = w[j]) => Assembled(w) = w
  BY <1>4
<1> QED
  BY <1>5, <1>6, <1>7

\* What is assembled is a word.
LEMMA AssembledIsWord ==
    ASSUME NEW w \in Word PROVE Assembled(w) \in Word
<1>0. W \in Nat /\ INT \in Nat \ {0} /\ W = 2 * INT
  BY WordSize
<1>1. ASSUME NEW j \in 0 .. W - 1 PROVE Assembled(w)[j] \in Byte
  <2>1. CASE j \in 0 .. INT - 1
    <3>1. j + INT \in 0 .. W - 1
      BY <1>0, <2>1
    <3> QED
      BY <2>1, <3>1, LowerByte, BytesOfWord DEF Byte
  <2>2. CASE j \in INT .. W - 1
    BY <2>2, UpperByte DEF Byte, ZeroByte
  <2> QED
    BY <1>0, <2>1, <2>2
<1>2. Assembled(w) = [j \in 0 .. W - 1 |-> Assembled(w)[j]]
  BY DEF Assembled
<1> QED
  BY <1>1, <1>2 DEF Word

(* Cache and pages hold bytes, so what the processor sees at an address is  *)
(* a word.                                                                  *)
LEMMA WordAtIsWord ==
    ASSUME TypeOK, NEW addr \in Nat PROVE WordAt(addr) \in Word
<1>0. W \in Nat
  BY WordSize
<1>1. ASSUME NEW x \in Nat PROVE ByteAt(cache, mem, x) \in Byte
  <2>1. CASE Cached(cache, x)
    <3>1. SetIndex(x) \in SetIds /\ get_line(cache, x) \in LineIds
      BY <2>1, AddressTypes, GetLineFinds DEF Matches
    <3>2. cache.sets \in [SetIds -> [LineIds -> CacheLine]]
      BY DEF TypeOK, CacheInv, CacheState
    <3>3. cache.sets[SetIndex(x)][get_line(cache, x)].data \in [0 .. B - 1 -> Byte]
      BY <3>1, <3>2, MemoryAssumption DEF CacheLine
    <3>4. (x % B) \in 0 .. B - 1
      BY BaseOfBlock
    <3> QED
      BY <2>1, <3>3, <3>4 DEF ByteAt
  <2>2. CASE ~Cached(cache, x)
    <3>1. mem \in [DOMAIN mem -> Byte]
      BY DEF TypeOK
    <3> QED
      BY <2>2, <3>1, ZeroIsByte DEF ByteAt, _mem_read_byte
  <2> QED
    BY <2>1, <2>2
<1>2. \A k \in 0 .. W - 1 : addr + k \in Nat
  BY <1>0
<1> QED
  BY <1>1, <1>2 DEF WordAt, Word

---------------------------------------------------------------------------
(* The refinement of FlatMemory.                                            *)

\* Stores fill their block from its base: without it _mem_write_cache fills
\* the line with the bytes of another address (mem.c:264-266).
StoresAtBase == \A addr \in WriteAddrs : (addr % B) = 0

\* The image is the whole address space, and no word reaches past its end.
ImageWhole ==
    LET size == Cardinality(DOMAIN Image)
    IN  /\ size \in Nat /\ DOMAIN Image = 0 .. size - 1
        /\ \A addr \in ReadAddrs \cup WriteAddrs : addr + W <= size

\* Every word stored, and every word of the image that is loaded, is one that
\* get_word_cache gives back as it is, and no load takes part of a word stored:
\* without it a load returns another word (cache.c:270).
NarrowWords ==
    /\ Words \subseteq Narrow
    /\ \A addr \in ReadAddrs : [k \in 0 .. W - 1 |-> Image[addr + k]] \in Narrow
    /\ \A a \in ReadAddrs, b \in WriteAddrs : a = b \/ a + W <= b \/ b + W <= a

\* Then so it stays.
ReadsNarrow == \A addr \in ReadAddrs : WordAt(addr) \in Narrow

LEMMA NarrowLoads ==
    ASSUME ReadsNarrow, NEW addr \in ReadAddrs
    PROVE  Assembled(WordAt(addr)) = WordAt(addr)
<1>1. WordAt(addr) \in Narrow
  BY DEF ReadsNarrow
<1>2. WordAt(addr) \in Word
  BY <1>1 DEF Narrow
<1> QED
  BY <1>1, <1>2, NarrowAreIntact DEF NarrowIsIntact

(* Nothing is cached at first.                                              *)
LEMMA InitSeen ==
    ASSUME Init, NEW x \in DOMAIN Image PROVE ByteAt(cache, mem, x) = Image[x]
<1>0. x \in Nat
  BY MemoryAssumption
<1>1. ~Cached(cache, x)
  <2> SUFFICES ASSUME NEW i \in Matches(cache, x) PROVE FALSE
    BY DEF Cached
  <2>1. cache = create_cache /\ i \in LineIds /\ cache.sets[SetIndex(x)][i].valid
    BY DEF Init, Matches
  <2>2. SetIndex(x) \in SetIds
    BY <1>0, AddressTypes
  <2> QED
    BY <2>1, <2>2 DEF create_cache, EmptyLine
<1> QED
  BY <1>1 DEF ByteAt, _mem_read_byte, Init

LEMMA NarrowInit ==
    ASSUME ImageWhole, NarrowWords, Init PROVE ReadsNarrow
<1> SUFFICES ASSUME NEW addr \in ReadAddrs PROVE WordAt(addr) \in Narrow
  BY DEF ReadsNarrow
<1>1. ASSUME NEW k \in 0 .. W - 1 PROVE ByteAt(cache, mem, addr + k) = Image[addr + k]
  <2> DEFINE size == Cardinality(DOMAIN Image)
  <2>1. size \in Nat /\ DOMAIN Image = 0 .. size - 1 /\ addr + W <= size /\ addr \in Nat
        /\ W \in Nat
    BY MemoryAssumption, WordSize DEF ImageWhole
  <2> HIDE DEF size
  <2>2. addr + k \in DOMAIN Image
    BY <2>1
  <2> QED
    BY <2>2, InitSeen
<1>2. WordAt(addr) = [k \in 0 .. W - 1 |-> Image[addr + k]]
  BY <1>1 DEF WordAt
<1> QED
  BY <1>2 DEF NarrowWords

(* A store replaces a word that is loaded by a narrow one, or leaves it.    *)
LEMMA NarrowStep ==
    ASSUME WithinBlocks, StoresAtBase, NarrowWords, IInv, ReadsNarrow, [Next]_vars
    PROVE  ReadsNarrow'
<1>0. W \in Nat \ {0} /\ ReadAddrs \cup WriteAddrs \subseteq Nat
  BY WordSize, MemoryAssumption
<1>1. ASSUME \A x \in Nat : ByteAt(cache', mem', x) = ByteAt(cache, mem, x)
      PROVE  ReadsNarrow'
  <2>1. ASSUME NEW addr \in ReadAddrs PROVE WordAt(addr)' = WordAt(addr)
    <3>1. \A k \in 0 .. W - 1 : addr + k \in Nat
      BY <1>0
    <3> QED
      BY <1>1, <3>1 DEF WordAt, ByteAt
  <2> QED
    BY <2>1 DEF ReadsNarrow
<1>2. ASSUME NEW addr \in ReadAddrs, _mem_read_cache(addr) PROVE ReadsNarrow'
  BY <1>1, <1>2, LoadDone DEF _mem_read_cache
<1>3. ASSUME NEW addr \in WriteAddrs, NEW val \in Words, _mem_write_cache(addr, val),
             ~\A x \in Nat : ByteAt(cache', mem', x) = ByteAt(cache, mem, x),
             NEW a \in ReadAddrs
      PROVE  WordAt(a)' \in Narrow
  <2>1. addr # NULL_ADDR /\ (addr % B) = 0
    BY <1>3 DEF _mem_write_cache, StoresAtBase
  <2>2. \A x \in Nat : ByteAt(cache', mem', x) =
           IF x \in addr .. addr + W - 1 THEN val[x - addr] ELSE ByteAt(cache, mem, x)
    BY <1>3, <2>1, StoreDone
  <2>3. WordAt(a)' = [k \in 0 .. W - 1 |-> ByteAt(cache', mem', a + k)]
    BY DEF WordAt, ByteAt
  <2>4. \A k \in 0 .. W - 1 : a + k \in Nat
    BY <1>0
  <2>5. a = addr \/ a + W <= addr \/ addr + W <= a
    BY DEF NarrowWords
  <2>6. CASE a = addr
    <3>1. \A k \in 0 .. W - 1 : addr + k \in addr .. addr + W - 1 /\ (addr + k) - addr = k
      BY <1>0
    <3>2. WordAt(a)' = [k \in 0 .. W - 1 |-> val[k]]
      BY <2>2, <2>3, <2>4, <2>6, <3>1
    <3>3. val \in Narrow /\ val = [k \in 0 .. W - 1 |-> val[k]]
      BY MemoryAssumption DEF NarrowWords, Word
    <3> QED
      BY <3>2, <3>3
  <2>7. CASE a + W <= addr \/ addr + W <= a
    <3>1. \A k \in 0 .. W - 1 : a + k \notin addr .. addr + W - 1
      BY <1>0, <2>7
    <3>2. WordAt(a)' = WordAt(a)
      BY <2>2, <2>3, <2>4, <3>1 DEF WordAt
    <3> QED
      BY <3>2 DEF ReadsNarrow
  <2> QED
    BY <2>5, <2>6, <2>7
<1>4. ASSUME NEW val \in Words, WriteNull(val) PROVE ReadsNarrow'
  BY <1>1, <1>4 DEF WriteNull
<1>5. ASSUME ReadNull PROVE ReadsNarrow'
  BY <1>1, <1>5 DEF ReadNull
<1>6. ASSUME UNCHANGED vars PROVE ReadsNarrow'
  BY <1>1, <1>6 DEF vars
<1>7. ASSUME NEW addr \in WriteAddrs, NEW val \in Words, _mem_write_cache(addr, val)
      PROVE  ReadsNarrow'
  BY <1>1, <1>3, <1>7 DEF ReadsNarrow
<1> QED
  BY <1>2, <1>4, <1>5, <1>6, <1>7 DEF Next

LEMMA NarrowHolds ==
    WithinBlocks /\ StoresAtBase /\ ImageWhole /\ NarrowWords => (Spec => []ReadsNarrow)
<1> SUFFICES ASSUME WithinBlocks, StoresAtBase, ImageWhole, NarrowWords
             PROVE  Spec => []ReadsNarrow
  OBVIOUS
<1>1. Init => ReadsNarrow
  BY NarrowInit
<1>2. IInv /\ ReadsNarrow /\ [Next]_vars => ReadsNarrow'
  BY NarrowStep
<1> QED
  BY <1>1, <1>2, InvHolds, PTL DEF Spec

(* The refinement mapping, now and after a step.                            *)
LEMMA ViewIs ==
    /\ View = [a \in DOMAIN Image |-> ByteAt(cache, mem, a)]
    /\ View' = [a \in DOMAIN Image |-> ByteAt(cache', mem', a)]
  BY DEF View, ByteAt

(* The indices at which a store changes an array of the whole space.        *)
LEMMA WordOffsets ==
    ASSUME NEW size \in Nat, NEW addr \in Nat, NEW w \in Nat \ {0}, addr + w <= size,
           NEW a \in 0 .. size - 1
    PROVE  IF a \in addr .. addr + w - 1
           THEN (a - addr) % size = a - addr /\ a - addr \in 0 .. w - 1
           ELSE (a - addr) % size \notin 0 .. w - 1
<1>1. CASE a >= addr
  <2>1. a - addr \in 0 .. size - 1
    BY <1>1
  <2>2. (a - addr) % size = a - addr
    BY <2>1
  <2> QED
    BY <1>1, <2>1, <2>2
<1>2. CASE a < addr
  <2>1. a - addr + size \in 0 .. size - 1 /\ a - addr + size >= w
    BY <1>2
  <2>2. size \in Nat \ {0} /\ a - addr \in Int
    OBVIOUS
  <2>3. (a - addr) % size \in 0 .. size - 1
        /\ a - addr = size * ((a - addr) \div size) + ((a - addr) % size)
        /\ (a - addr) \div size \in Int
    BY <2>2
  <2> DEFINE q == (a - addr) \div size
             m == (a - addr) % size
  <2>4. q \in Int /\ m \in 0 .. size - 1 /\ a - addr = size * q + m
    BY <2>3
  <2> HIDE DEF q, m
  <2>5. size * q \in Int /\ size * q = q * size
    BY <2>4
  <2>6. ~(-1 < q)
    <3> SUFFICES ASSUME -1 < q PROVE FALSE
      OBVIOUS
    <3>1. -1 * size + size <= q * size
      BY <2>4, MultipleAbove
    <3> QED
      BY <1>2, <2>2, <2>4, <2>5, <3>1
  <2>7. ~(q < -1)
    <3> SUFFICES ASSUME q < -1 PROVE FALSE
      OBVIOUS
    <3>1. q * size + size <= -1 * size
      BY <2>4, MultipleAbove
    <3> QED
      BY <2>1, <2>2, <2>4, <2>5, <3>1
  <2>8. q = -1
    BY <2>4, <2>6, <2>7
  <2>9. m = a - addr + size
    BY <2>2, <2>4, <2>8
  <2> QED
    BY <1>2, <2>1, <2>9 DEF m
<1> QED
  BY <1>1, <1>2

(* Every call is a step of the array of bytes, or one it does not see.      *)
LEMMA StepIsFlat ==
    ASSUME WithinBlocks, StoresAtBase, ImageWhole, IInv, ReadsNarrow, [Next]_vars
    PROVE  [Flat!FlatNext]_<<View, resp>>
<1> DEFINE size == Cardinality(DOMAIN Image)
<1>0. /\ size \in Nat /\ DOMAIN Image = 0 .. size - 1
      /\ \A addr \in ReadAddrs \cup WriteAddrs : addr + W <= size /\ addr \in Nat
      /\ W \in Nat \ {0}
  BY MemoryAssumption, WordSize DEF ImageWhole
<1> HIDE DEF size
<1>1. ASSUME \A x \in Nat : ByteAt(cache', mem', x) = ByteAt(cache, mem, x)
      PROVE  View' = View
  <2>1. DOMAIN Image \subseteq Nat
    BY MemoryAssumption
  <2> QED
    BY <1>1, <2>1, ViewIs
<1>2. ASSUME NEW addr \in ReadAddrs, _mem_read_cache(addr)
      PROVE  [Flat!FlatNext]_<<View, resp>>
  <2>1. addr # NULL_ADDR
    BY <1>2 DEF _mem_read_cache
  <2>2. /\ View' = View
        /\ \/ resp' = resp
           \/ resp' = [op |-> "READ", addr |-> addr,
                       val |-> [k \in 0 .. W - 1 |-> ByteAt(cache, mem, addr + k)]]
    BY <1>1, <1>2, <2>1, LoadDone, NarrowLoads DEF WordAt
  <2>3. CASE resp' = resp
    BY <2>2, <2>3
  <2>4. CASE resp' = [op |-> "READ", addr |-> addr,
                      val |-> [k \in 0 .. W - 1 |-> ByteAt(cache, mem, addr + k)]]
    <3>1. ASSUME NEW k \in 0 .. W - 1
          PROVE  ByteAt(cache, mem, addr + k) = View[(addr + k) % size]
      <4>1. addr + k \in 0 .. size - 1
        BY <1>0
      <4>2. (addr + k) % size = addr + k
        <5> DEFINE a == addr + k
        <5>1. a \in 0 .. size - 1 /\ size \in Nat
          BY <1>0, <4>1
        <5> HIDE DEF a
        <5>2. (a % size) = a
          BY <5>1
        <5> QED
          BY <5>2 DEF a
      <4> QED
        BY <1>0, <4>1, <4>2, ViewIs
    <3>2. Flat!WordAt(addr, W) = [k \in 0 .. W - 1 |-> View[(addr + k) % size]]
      BY DEF Flat!WordAt, size
    <3>3. Flat!WordAt(addr, W) = [k \in 0 .. W - 1 |-> ByteAt(cache, mem, addr + k)]
      BY <3>1, <3>2
    <3>4. Flat!Read(addr, W)
      BY <2>1, <2>2, <2>4, <3>3 DEF Flat!Read
    <3> QED
      BY <3>4 DEF Flat!FlatNext
  <2> QED
    BY <2>2, <2>3, <2>4
<1>3. ASSUME NEW addr \in WriteAddrs, NEW val \in Words, _mem_write_cache(addr, val)
      PROVE  [Flat!FlatNext]_<<View, resp>>
  <2>1. addr # NULL_ADDR /\ (addr % B) = 0
    BY <1>3 DEF _mem_write_cache, StoresAtBase
  <2>2. \/ /\ resp' = resp
           /\ \A x \in Nat : ByteAt(cache', mem', x) = ByteAt(cache, mem, x)
        \/ /\ resp' = [op |-> "WRITE", addr |-> addr, val |-> val]
           /\ \A x \in Nat :
                ByteAt(cache', mem', x) =
                   IF x \in addr .. addr + W - 1
                   THEN val[x - addr] ELSE ByteAt(cache, mem, x)
    BY <1>3, <2>1, StoreDone
  <2>3. CASE resp' = resp /\ \A x \in Nat : ByteAt(cache', mem', x) = ByteAt(cache, mem, x)
    BY <1>1, <2>3
  <2>4. CASE /\ resp' = [op |-> "WRITE", addr |-> addr, val |-> val]
             /\ \A x \in Nat :
                  ByteAt(cache', mem', x) =
                     IF x \in addr .. addr + W - 1
                     THEN val[x - addr] ELSE ByteAt(cache, mem, x)
    <3>1. DOMAIN val = 0 .. W - 1
      BY MemoryAssumption DEF Word
    <3>2. ASSUME NEW a \in DOMAIN Image
          PROVE  View'[a] = LET k == (a - addr) % size
                            IN  IF k \in DOMAIN val THEN val[k] ELSE View[a]
      <4>1. a \in 0 .. size - 1 /\ a \in Nat /\ addr \in Nat /\ addr + W <= size
        BY <1>0
      <4>2. IF a \in addr .. addr + W - 1
            THEN (a - addr) % size = a - addr /\ a - addr \in 0 .. W - 1
            ELSE (a - addr) % size \notin 0 .. W - 1
        BY <1>0, <4>1, WordOffsets
      <4>3. View'[a] = ByteAt(cache', mem', a) /\ View[a] = ByteAt(cache, mem, a)
        BY ViewIs
      <4>4. ByteAt(cache', mem', a) = IF a \in addr .. addr + W - 1
                                      THEN val[a - addr] ELSE ByteAt(cache, mem, a)
        BY <2>4, <4>1
      <4> QED
        BY <3>1, <4>2, <4>3, <4>4
    <3>3. DOMAIN View = DOMAIN Image /\ View' = [a \in DOMAIN Image |-> View'[a]]
      BY ViewIs
    <3>4. View' = [a \in DOMAIN View |->
                     LET k == (a - addr) % size
                     IN  IF k \in DOMAIN val THEN val[k] ELSE View[a]]
      BY <3>2, <3>3
    <3>5. Flat!Write(addr, val)
      BY <2>1, <2>4, <3>4 DEF Flat!Write, size
    <3> QED
      BY <3>5 DEF Flat!FlatNext
  <2> QED
    BY <2>2, <2>3, <2>4
<1>4. ASSUME NEW val \in Words, WriteNull(val) PROVE [Flat!FlatNext]_<<View, resp>>
  <2>1. cache' = cache /\ mem' = mem
    BY <1>4 DEF WriteNull
  <2>2. View' = View
    BY <1>1, <2>1
  <2>3. Flat!NullWrite(val)
    BY <1>4, <2>2 DEF WriteNull, Flat!NullWrite
  <2> QED
    BY <2>3 DEF Flat!FlatNext
<1>5. ASSUME ReadNull PROVE [Flat!FlatNext]_<<View, resp>>
  <2>1. cache' = cache /\ mem' = mem
    BY <1>5 DEF ReadNull
  <2>2. View' = View
    BY <1>1, <2>1
  <2>3. Flat!NullRead
    BY <1>5, <2>2 DEF ReadNull, Flat!NullRead
  <2> QED
    BY <2>3 DEF Flat!FlatNext
<1>6. ASSUME UNCHANGED vars PROVE [Flat!FlatNext]_<<View, resp>>
  <2>1. cache' = cache /\ mem' = mem /\ resp' = resp
    BY <1>6 DEF vars
  <2> QED
    BY <1>1, <2>1
<1> QED
  BY <1>2, <1>3, <1>4, <1>5, <1>6 DEF Next

(* Behind its cache and its delays the memory is an array of bytes (mem.h:43, *)
(* 55), as long as what is loaded is a word that get_word_cache gives back:  *)
(* every completed load returns the bytes last stored, every completed store *)
(* changes the bytes of its word, and a miss, a write-back or a repeated     *)
(* call changes nothing.                                                    *)
THEOREM MemoryIsFlat ==
    WithinBlocks /\ StoresAtBase /\ ImageWhole /\ NarrowWords => (Spec => ImplementsFlat)
<1> SUFFICES ASSUME WithinBlocks, StoresAtBase, ImageWhole, NarrowWords
             PROVE  Spec => ImplementsFlat
  OBVIOUS
<1>1. Init => Flat!FlatInit
  <2> SUFFICES ASSUME Init PROVE Flat!FlatInit
    OBVIOUS
  <2>2. \A a \in DOMAIN Image : ByteAt(cache, mem, a) = Image[a]
    BY InitSeen
  <2>3. View = Image
    BY <2>2, ViewIs, MemoryAssumption
  <2> QED
    BY <2>3 DEF Init, Flat!FlatInit
<1>2. IInv /\ ReadsNarrow /\ [Next]_vars => [Flat!FlatNext]_<<View, resp>>
  BY StepIsFlat
<1> QED
  BY <1>1, <1>2, InvHolds, NarrowHolds, PTL DEF Spec, ImplementsFlat, Flat!FlatSpec, Flat!flatVars

(* A completed load is a call of _mem_read_cache.                           *)
LEMMA LoadIs ==
    ASSUME WithinBlocks, IInv, Next, resp' # resp, resp'.op = "READ"
    PROVE  \E addr \in ReadAddrs :
              resp' = [op |-> "READ", addr |-> addr, val |-> Assembled(WordAt(addr))]
<1>1. PICK addr \in ReadAddrs : _mem_read_cache(addr)
  <2>1. ~ReadNull
    BY DEF ReadNull
  <2>2. \A val \in Words : ~WriteNull(val)
    BY DEF WriteNull
  <2>3. ASSUME NEW addr \in WriteAddrs, NEW val \in Words, _mem_write_cache(addr, val)
        PROVE  FALSE
    <3> DEFINE call == [op |-> "WRITE", addr |-> addr, val |-> val]
    <3>1. resp' = resp \/ resp' = call \/ resp' = [op |-> "CRASH"]
      BY <2>3 DEF _mem_write_cache, InFlight, NullLine, Done
    <3> QED
      BY <3>1
  <2> QED
    BY <2>1, <2>2, <2>3 DEF Next
<1>2. addr # NULL_ADDR
  BY <1>1 DEF _mem_read_cache
<1>3. resp' = [op |-> "READ", addr |-> addr, val |-> Assembled(WordAt(addr))]
  BY <1>1, <1>2, LoadDone
<1> QED
  BY <1>3

(* Whatever the words are and wherever stores go in their blocks, a load     *)
(* that completes returns what the conversion of cache.c:270 makes, once, of *)
(* the bytes the processor saw before the call: the fills, evictions and     *)
(* repetitions on the way add nothing to what the conversion loses.          *)
THEOREM LoadsAreAssembled == WithinBlocks => (Spec => LoadsAssembleMemory)
<1> SUFFICES ASSUME WithinBlocks PROVE Spec => LoadsAssembleMemory
  OBVIOUS
<1> DEFINE Step == resp' # resp /\ resp'.op = "READ" =>
                      resp'.val = Assembled(WordAt(resp'.addr))
<1>1. IInv /\ [Next]_vars => [Step]_vars
  <2> SUFFICES ASSUME IInv, Next, resp' # resp, resp'.op = "READ"
               PROVE  resp'.val = Assembled(WordAt(resp'.addr))
    OBVIOUS
  <2>1. PICK addr \in ReadAddrs :
           resp' = [op |-> "READ", addr |-> addr, val |-> Assembled(WordAt(addr))]
    BY LoadIs
  <2>2. resp'.addr = addr /\ resp'.val = Assembled(WordAt(addr))
    BY <2>1
  <2> QED
    BY <2>2
<1> QED
  BY <1>1, InvHolds, PTL DEF Spec, LoadsAssembleMemory

(* A load of a word that get_word_cache gives back answers with the bytes    *)
(* the processor saw before the call, mem.h:43.                              *)
THEOREM LoadsAreOfMemory ==
    WithinBlocks /\ StoresAtBase /\ ImageWhole /\ NarrowWords => (Spec => LoadsReturnMemory)
<1> SUFFICES ASSUME WithinBlocks, StoresAtBase, ImageWhole, NarrowWords
             PROVE  Spec => LoadsReturnMemory
  OBVIOUS
<1> DEFINE Step == resp' # resp /\ resp'.op = "READ" =>
                      \A k \in 0 .. W - 1 : resp'.val[k] = View[resp'.addr + k]
<1>1. IInv /\ ReadsNarrow /\ [Next]_vars => [Step]_vars
  <2> SUFFICES ASSUME IInv, ReadsNarrow, Next, resp' # resp, resp'.op = "READ",
                      NEW k \in 0 .. W - 1
               PROVE  resp'.val[k] = View[resp'.addr + k]
    OBVIOUS
  <2>1. PICK addr \in ReadAddrs :
           resp' = [op |-> "READ", addr |-> addr, val |-> Assembled(WordAt(addr))]
    BY LoadIs
  <2>2. resp'.addr = addr /\ resp'.val = WordAt(addr)
    BY <2>1, NarrowLoads
  <2>3. addr + k \in DOMAIN Image
    <3> DEFINE size == Cardinality(DOMAIN Image)
    <3>1. size \in Nat /\ DOMAIN Image = 0 .. size - 1 /\ addr + W <= size /\ addr \in Nat
          /\ W \in Nat
      BY MemoryAssumption, WordSize DEF ImageWhole
    <3> HIDE DEF size
    <3> QED
      BY <3>1
  <2>4. View[addr + k] = ByteAt(cache, mem, addr + k)
    BY <2>3, ViewIs
  <2> QED
    BY <2>2, <2>4 DEF WordAt
<1> QED
  BY <1>1, InvHolds, NarrowHolds, PTL DEF Spec, LoadsReturnMemory

(* A step changes a byte the processor sees only by completing the store of *)
(* the word it lies in.                                                     *)
THEOREM StoresChangeTheirWord ==
    WithinBlocks /\ StoresAtBase => (Spec => StoresOnlyTheirWord)
<1> SUFFICES ASSUME WithinBlocks, StoresAtBase PROVE Spec => StoresOnlyTheirWord
  OBVIOUS
<1> DEFINE Step == \A a \in DOMAIN Image :
                      View'[a] # View[a] =>
                         resp'.op = "WRITE" /\ a \in resp'.addr .. resp'.addr + W - 1
<1>1. IInv /\ [Next]_vars => [Step]_vars
  <2> SUFFICES ASSUME IInv, Next, NEW a \in DOMAIN Image, View'[a] # View[a]
               PROVE  resp'.op = "WRITE" /\ a \in resp'.addr .. resp'.addr + W - 1
    OBVIOUS
  <2>1. a \in Nat /\ ByteAt(cache', mem', a) # ByteAt(cache, mem, a)
    BY ViewIs, MemoryAssumption
  <2>2. ~ReadNull /\ \A val \in Words : ~WriteNull(val)
    BY <2>1 DEF ReadNull, WriteNull
  <2>3. \A addr \in ReadAddrs : ~_mem_read_cache(addr)
    BY <2>1, LoadDone DEF _mem_read_cache
  <2>4. PICK addr \in WriteAddrs, val \in Words : _mem_write_cache(addr, val)
    BY <2>2, <2>3 DEF Next
  <2>5. addr # NULL_ADDR /\ (addr % B) = 0
    BY <2>4 DEF _mem_write_cache, StoresAtBase
  <2>6. /\ resp' = [op |-> "WRITE", addr |-> addr, val |-> val]
        /\ \A x \in Nat :
              ByteAt(cache', mem', x) =
                 IF x \in addr .. addr + W - 1
                 THEN val[x - addr] ELSE ByteAt(cache, mem, x)
    BY <2>1, <2>4, <2>5, StoreDone
  <2> QED
    BY <2>1, <2>6
<1> QED
  BY <1>1, InvHolds, PTL DEF Spec, StoresOnlyTheirWord
=============================================================================
