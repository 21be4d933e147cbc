---------------------------- MODULE SystemProofs ----------------------------
(***************************************************************************)
(* The processor and its cached memory together, for every program, cache, *)
(* block of at least a word, encoding of values and delay: the protocol of *)
(* a stalled access; and that the two are the processor of Pipeline, whose *)
(* memory answers late, and a load with what get_word_cache makes of the   *)
(* word stored (cache.c:270).                                              *)
(***************************************************************************)
EXTENDS System, TLAPS

(* A cycle that the memory does not answer holds M, and fetch with it       *)
(* (hazard_control.c:91-97).                                                *)
LEMMA HeldInM ==
    ASSUME NEW m, Cpu!Stages("IN_FLIGHT", m)
    PROVE  M_in' = M_in /\ f_stall' /\ dmem_status' = "IN_FLIGHT"
<1> DEFINE h == [stall |-> {"F", "D", "X", "M"}, bubble |-> {}]
<1>1. Cpu!handle_hazards("IN_FLIGHT") = h
  BY DEF Cpu!handle_hazards
<1>2. /\ M_in' = Cpu!Latch("X", Cpu!handle_hazards("IN_FLIGHT"), Cpu!X_out, M_in)
      /\ f_stall' = ("F" \in Cpu!handle_hazards("IN_FLIGHT").stall)
      /\ dmem_status' = "IN_FLIGHT"
  BY Zenon DEF Cpu!Stages
<1>3. M_in' = Cpu!Latch("X", h, Cpu!X_out, M_in) /\ "X" \in h.stall /\ "F" \in h.stall
  BY <1>1, <1>2
<1>4. M_in' = M_in
  BY <1>3 DEF Cpu!Latch
<1>5. f_stall'
  BY <1>1, <1>2, <1>3, Zenon
<1> QED
  BY <1>2, <1>4, <1>5

\* The memory's status is what the stages are given.
LEMMA StatusGiven ==
    ASSUME NEW status, NEW m, Cpu!Stages(status, m) PROVE dmem_status' = status
  BY Zenon DEF Cpu!Stages

\* What a call of the memory leaves.
CallLeaves(call) ==
    \/ dmem_status' = "IN_FLIGHT" /\ req' = call
    \/ dmem_status' = dmem_status /\ req' = req
    \/ dmem_status' = "READY" /\ req' = Mem!Silent

LEMMA ReadLeaves ==
    ASSUME NEW addr, Mem!_mem_read_cache(addr)
    PROVE  CallLeaves([op |-> "READ", addr |-> addr])
  BY DEF Mem!_mem_read_cache, Mem!InFlight, Mem!NullLine, Mem!Done, CallLeaves

LEMMA WriteLeaves ==
    ASSUME NEW addr, NEW val, Mem!_mem_write_cache(addr, val)
    PROVE  CallLeaves([op |-> "WRITE", addr |-> addr, val |-> val])
  BY DEF Mem!_mem_write_cache, Mem!InFlight, Mem!NullLine, Mem!Done, CallLeaves

(* The inductive invariant: while the memory is waited for, M has an access *)
(* and the memory's call is that one.  Without the access, a cycle without  *)
(* a call would leave the old status, and the call that is waited for would *)
(* be nobody's.                                                             *)
CallInv ==
    /\ dmem_status \in {"READY", "IN_FLIGHT"}
    /\ dmem_status = "IN_FLIGHT" => Cpu!UsesMemory(M_in) /\ f_stall
    /\ CallIsAccess

LEMMA NextCallInv == CallInv /\ [Next]_vars => CallInv'
<1> SUFFICES ASSUME CallInv, [Next]_vars PROVE CallInv'
  OBVIOUS
<1> USE DEF CallInv
<1>1. CASE NoAccess
  <2>1. dmem_status' = dmem_status
    BY <1>1, StatusGiven DEF NoAccess
  <2>2. dmem_status # "IN_FLIGHT"
    BY <1>1 DEF NoAccess
  <2> QED
    BY <2>1, <2>2 DEF CallIsAccess
<1>2. ASSUME NEW call, CallLeaves(call), NEW m, Cpu!Stages(dmem_status', m),
             Cpu!UsesMemory(M_in),
             call.addr = Addr(M_in.val_ex),
             call.op = (IF Cpu!dmem_read(M_in) THEN "READ" ELSE "WRITE"),
             call.op = "WRITE" => call.val = Encode[M_in.val_b]
      PROVE  CallInv'
  <2>1. dmem_status' \in {"READY", "IN_FLIGHT"}
    BY <1>2 DEF CallLeaves
  <2>2. CASE dmem_status' = "IN_FLIGHT"
    <3>1. M_in' = M_in /\ f_stall'
      BY <1>2, <2>2, HeldInM
    <3>2. req' = call \/ (req' = req /\ dmem_status = "IN_FLIGHT")
      BY <1>2, <2>2 DEF CallLeaves
    <3>3. CallIsAccess'
      BY <1>2, <2>2, <3>1, <3>2 DEF CallIsAccess, Cpu!dmem_read
    <3>4. Cpu!UsesMemory(M_in)'
      BY <1>2, <3>1 DEF Cpu!UsesMemory, Cpu!dmem_read, Cpu!dmem_write
    <3> QED
      BY <2>1, <3>1, <3>3, <3>4
  <2>3. CASE dmem_status' = "READY"
    BY <2>3 DEF CallIsAccess
  <2> QED
    BY <2>1, <2>2, <2>3
<1>3. CASE Load
  <2> DEFINE call == [op |-> "READ", addr |-> Addr(M_in.val_ex)]
  <2>1. CallLeaves(call)
    BY <1>3, ReadLeaves DEF Load
  <2>2. /\ call.addr = Addr(M_in.val_ex) /\ call.op = "READ" /\ Cpu!dmem_read(M_in)
        /\ Cpu!UsesMemory(M_in)
    BY <1>3 DEF Load, Cpu!UsesMemory
  <2>3. \E m : Cpu!Stages(dmem_status', m)
    BY <1>3, Zenon DEF Load
  <2> HIDE DEF call
  <2> QED
    BY <1>2, <2>1, <2>2, <2>3
<1>4. CASE Store
  <2> DEFINE call == [op |-> "WRITE", addr |-> Addr(M_in.val_ex), val |-> Encode[M_in.val_b]]
  <2>1. CallLeaves(call)
    BY <1>4, WriteLeaves DEF Store
  <2>2. /\ call.addr = Addr(M_in.val_ex) /\ call.op = "WRITE" /\ call.val = Encode[M_in.val_b]
        /\ ~Cpu!dmem_read(M_in) /\ Cpu!UsesMemory(M_in)
    BY <1>4 DEF Store, Cpu!UsesMemory, Cpu!dmem_read, Cpu!dmem_write
  <2>3. \E m : Cpu!Stages(dmem_status', m)
    BY <1>4, Zenon DEF Store
  <2> HIDE DEF call
  <2> QED
    BY <1>2, <2>1, <2>2, <2>3
<1>5. CASE UNCHANGED vars
  BY <1>5 DEF vars, cpuVars, memVars, CallIsAccess, Cpu!UsesMemory, Cpu!dmem_read,
    Cpu!dmem_write
<1> QED
  BY <1>1, <1>3, <1>4, <1>5 DEF Next

(* mem.c:196-208 rely on the stalled stage to repeat its call: for every    *)
(* program, cache and delay, the call waited for is the access in M.        *)
THEOREM StalledCallIsAccess == Spec => []CallIsAccess
<1>1. Init => CallInv
  BY DEF Init, Mem!Init, CallInv, CallIsAccess
<1>2. CallInv => CallIsAccess
  BY DEF CallInv
<1> QED
  BY <1>1, <1>2, NextCallInv, PTL DEF Spec
---------------------------------------------------------------------------

(* Each part with what its own module proves of it: the substitutions are   *)
(* those of Cpu and Mem in System.  The definitions of Processor and Cpu,   *)
(* and those of Memory and Mem, are the same text twice; the lemmas Same... *)
(* say so of those the proofs below need.                                   *)
Processor == INSTANCE PipelineProofs WITH mem <- Shown, Loaded <- CacheLoaded

Memory == INSTANCE CachedMemoryProofs WITH
    mem <- pages,
    S <- CacheSets, E <- CacheLines, B <- BlockBytes,
    Block <- [0 .. BlockBytes - 1 -> Bytes],
    ZeroBlock <- [k \in 0 .. BlockBytes - 1 |-> {}],
    Words <- {Encode[v] : v \in Values},
    Image <- Segment,
    ReadAddrs <- {Addr(v) : v \in Values}, WriteAddrs <- {Addr(v) : v \in Values},
    NULL_ADDR <- -1,
    MaxHits <- MaxCalls, MaxMisses <- MaxCalls

\* A value is the number of a block of the data segment.
LEMMA ValuesFit == 0 \in Values /\ N \in Nat \ {0} /\ Values \subseteq Nat
  BY ProgramAssumption DEF Values, Addrs

\* Sizes of words and blocks.
LEMMA SizesFit ==
    /\ BlockBytes \in Nat \ {0} /\ W \in Nat \ {0} /\ W <= BlockBytes
    /\ INT \in Nat \ {0} /\ W = 2 * INT /\ BITS \in Nat \ {0}
  BY SystemAssumption

LEMMA WordIs ==
    /\ Memory!Word = [0 .. W - 1 -> Bytes] /\ Memory!Byte = Bytes
    /\ Memory!ZeroByte = {} /\ {} \in Bytes
  BY DEF Memory!Word, Memory!Byte, Memory!AllOnes, Memory!ZeroByte, Bytes

(* Every value is a word, and every word one value.                         *)
LEMMA EncodeIs ==
    /\ \A v \in Values : Encode[v] \in Memory!Word /\ ValueOf(Encode[v]) = v
    /\ \A w \in Memory!Word : ValueOf(w) \in Values /\ Encode[ValueOf(w)] = w
<1>1. \A v \in Values : Encode[v] \in Memory!Word
  BY SystemAssumption, WordIs
<1>2. ASSUME NEW w \in Memory!Word
      PROVE  ValueOf(w) \in Values /\ Encode[ValueOf(w)] = w
  <2>1. \E v \in Values : Encode[v] = w
    BY SystemAssumption, WordIs
  <2> QED
    BY <2>1 DEF ValueOf
<1>3. ASSUME NEW v \in Values PROVE ValueOf(Encode[v]) = v
  <2>1. ValueOf(Encode[v]) \in Values /\ Encode[ValueOf(Encode[v])] = Encode[v]
    BY <1>1, <1>2
  <2> QED
    BY <2>1, SystemAssumption
<1> QED
  BY <1>1, <1>2, <1>3

LEMMA SameAssembled ==
    ASSUME NEW bytes PROVE Mem!Assembled(bytes) = Memory!Assembled(bytes)
  BY Zenon
    DEF Mem!Assembled, Memory!Assembled, Mem!Shifted, Memory!Shifted,
        Mem!Negative, Memory!Negative, Mem!AllOnes, Memory!AllOnes,
        Mem!ZeroByte, Memory!ZeroByte

\* What Cache, CacheWords and CachedMemory assume of their constants.
LEMMA GeometryFit ==
    Memory!GeometryAssumption /\ Memory!BlockAssumption /\ Memory!WordAssumption
<1>1. Memory!GeometryAssumption /\ Memory!WordAssumption
  BY SystemAssumption DEF Memory!GeometryAssumption, Memory!WordAssumption
<1>2. Memory!BlockAssumption
  BY SystemAssumption, WordIs DEF Memory!BlockAssumption
<1> QED
  BY <1>1, <1>2

(* The words of the program lie in blocks of their own, at the base.        *)
LEMMA AddrIs ==
    ASSUME NEW v \in Values
    PROVE  /\ Addr(v) \in Nat /\ (Addr(v) % BlockBytes) = 0
           /\ Addr(v) + BlockBytes <= BlockBytes * N
           /\ \A u \in Values : u < v => Addr(u) + BlockBytes <= Addr(v)
<1>0. BlockBytes \in Nat \ {0} /\ v \in Nat /\ N \in Nat /\ v < N /\ 0 \in 0 .. BlockBytes - 1
  BY SizesFit, ValuesFit DEF Values
<1>1. Addr(v) = v * BlockBytes + 0 /\ Addr(v) \in Nat
  BY <1>0 DEF Addr
<1>2. ((v * BlockBytes + 0) % BlockBytes) = 0
  BY <1>0, Memory!DivisionUnique DEF Memory!DivisionUnique
<1>3. v * BlockBytes + BlockBytes <= N * BlockBytes
  BY <1>0, Memory!MultipleAbove DEF Memory!MultipleAbove
<1>4. ASSUME NEW u \in Values, u < v PROVE Addr(u) + BlockBytes <= Addr(v)
  <2>1. u * BlockBytes + BlockBytes <= v * BlockBytes /\ u \in Nat
    BY <1>0, <1>4, ValuesFit, Memory!MultipleAbove DEF Memory!MultipleAbove
  <2>2. Addr(u) = u * BlockBytes
    BY <1>0, <2>1 DEF Addr
  <2>3. u * BlockBytes \in Nat /\ v * BlockBytes \in Nat
    BY <1>0, <2>1
  <2> QED
    BY <1>0, <1>1, <2>1, <2>2, <2>3
<1>5. N * BlockBytes = BlockBytes * N
  BY <1>0
<1> QED
  BY <1>0, <1>1, <1>2, <1>3, <1>4, <1>5

LEMMA SegmentIs == Segment \in [0 .. BlockBytes * N - 1 -> Bytes]
<1> SUFFICES ASSUME NEW a \in 0 .. BlockBytes * N - 1 PROVE Segment[a] \in Bytes
  BY DEF Segment
<1>1. a \in Nat /\ BlockBytes \in Nat \ {0} /\ W \in Nat /\ N \in Nat \ {0}
  BY SizesFit, ValuesFit
<1>2. (a \div BlockBytes) \in Nat /\ (a % BlockBytes) \in Nat
  BY <1>1
<1>3. (((a \div BlockBytes) + 1) % N) \in Values
  BY <1>1, <1>2 DEF Values
<1>4. (a % BlockBytes) < W => (a % BlockBytes) \in 0 .. W - 1
  BY <1>1, <1>2
<1>5. \A v \in Values, k \in 0 .. W - 1 : Encode[v][k] \in Bytes
  BY SystemAssumption
<1>6. Segment[a] = IF (a % BlockBytes) < W
                   THEN Encode[((a \div BlockBytes) + 1) % N][a % BlockBytes] ELSE {}
  BY DEF Segment
<1> QED
  BY <1>3, <1>4, <1>5, <1>6, WordIs

LEMMA MemoryFit ==
    /\ Memory!GeometryAssumption /\ Memory!BlockAssumption /\ Memory!WordAssumption
    /\ Memory!MemoryAssumption
<1>1. /\ {Addr(v) : v \in Values} \subseteq Nat
      /\ {Encode[v] : v \in Values} \subseteq Memory!Word
  BY AddrIs, EncodeIs
<1>2. DOMAIN Segment \subseteq Nat /\ Segment \in [DOMAIN Segment -> Memory!Byte]
  BY SegmentIs, WordIs
<1>3. [0 .. BlockBytes - 1 -> Bytes] = [0 .. BlockBytes - 1 -> Memory!Byte]
  BY WordIs
<1>4. Memory!MemoryAssumption
  BY <1>1, <1>2, <1>3, SystemAssumption DEF Memory!MemoryAssumption
<1> QED
  BY <1>4, GeometryFit

\* What Pipeline assumes of its constants; that a word is loaded as a word is
\* Memory's AssembledIsWord.
LEMMA ProcessorFit ==
    /\ Processor!ProgramAssumption
    /\ Processor!ProgramsAssumption
    /\ Processor!LoadedAssumption
<1>1. Processor!ProgramAssumption
  BY ProgramAssumption
    DEF Processor!ProgramAssumption, ProgramAssumption, Processor!Values,
        Values, Processor!Addrs, Addrs, Processor!Instruction, Instruction,
        Processor!Opcodes, Opcodes, Processor!LINK, LINK
<1>2. Processor!ProgramsAssumption
  BY SystemAssumption DEF Processor!ProgramsAssumption, Processor!Addrs, Addrs
<1>3. \A v \in Values : ValueOf(Mem!Assembled(Encode[v])) \in Values
  <2> TAKE v \in Values
  <2>1. Mem!Assembled(Encode[v]) = Memory!Assembled(Encode[v])
    BY SameAssembled
  <2>2. Memory!Assembled(Encode[v]) \in Memory!Word
    BY EncodeIs, MemoryFit, Memory!AssembledIsWord DEF Memory!AssembledIsWord
  <2> QED
    BY <2>1, <2>2, EncodeIs
<1>4. Processor!LoadedAssumption
  BY <1>3 DEF Processor!LoadedAssumption, CacheLoaded, Processor!Values, Values
<1> QED
  BY <1>1, <1>2, <1>4

---------------------------------------------------------------------------
\* The memory: Mem and Memory.
LEMMA SameCached ==
    ASSUME NEW c, NEW a
    PROVE  /\ Mem!Cached(c, a) <=> Memory!Cached(c, a)
           /\ Mem!get_line(c, a) = Memory!get_line(c, a)
  BY
    DEF Mem!Cached, Memory!Cached, Mem!get_line, Memory!get_line, Mem!Matches,
        Memory!Matches, Mem!SetIndex, Memory!SetIndex, Mem!Tag, Memory!Tag,
        Mem!LineIds, Memory!LineIds, Mem!Max, Memory!Max

LEMMA SameCheck ==
    ASSUME NEW c, NEW a, NEW op
    PROVE  Mem!check_hit(c, a, op) = Memory!check_hit(c, a, op)
  BY Zenon
    DEF Mem!check_hit, Memory!check_hit, Mem!Touch, Memory!Touch, Mem!PutLine,
        Memory!PutLine, Mem!Cached, Memory!Cached, Mem!get_line,
        Memory!get_line, Mem!Matches, Memory!Matches, Mem!SetIndex,
        Memory!SetIndex, Mem!Tag, Memory!Tag, Mem!LineIds, Memory!LineIds,
        Mem!Max, Memory!Max

LEMMA SameMiss ==
    ASSUME NEW c, NEW a, NEW op, NEW d
    PROVE  Mem!handle_miss(c, a, op, d) = Memory!handle_miss(c, a, op, d)
  BY Zenon
    DEF Mem!handle_miss, Memory!handle_miss, Mem!select_line,
        Memory!select_line, Mem!Invalid, Memory!Invalid, Mem!Oldest,
        Memory!Oldest, Mem!PutLine, Memory!PutLine, Mem!SetIndex,
        Memory!SetIndex, Mem!Tag, Memory!Tag, Mem!LineIds, Memory!LineIds,
        Mem!Min, Memory!Min

LEMMA SameEvicted ==
    ASSUME NEW c, NEW a
    PROVE  Mem!evicted_line(c, a) = Memory!evicted_line(c, a)
  BY Zenon
    DEF Mem!evicted_line, Memory!evicted_line, Mem!BlockAddr, Memory!BlockAddr,
        Mem!select_line, Memory!select_line, Mem!Invalid, Memory!Invalid,
        Mem!Oldest, Memory!Oldest, Mem!SetIndex, Memory!SetIndex, Mem!LineIds,
        Memory!LineIds, Mem!Min, Memory!Min

\* Fill, given the line evicted and the cache that handle_miss leaves.
FillOf(r, evicted, filled) ==
    LET victim == evicted.addr .. evicted.addr + BlockBytes - 1
    IN  [r EXCEPT
           !.cache = filled,
           !.mem = IF evicted.valid /\ evicted.dirty
                   THEN [x \in DOMAIN r.mem \cup victim |->
                            IF x \in victim THEN evicted.data[x - evicted.addr]
                                            ELSE r.mem[x]]
                   ELSE r.mem]

LEMMA SameFill ==
    ASSUME NEW r, NEW addr, NEW a, NEW op
    PROVE  Mem!Fill(r, addr, a, op) = Memory!Fill(r, addr, a, op)
<1> DEFINE block == [j \in 0 .. BlockBytes - 1 |->
                       Mem!_mem_read_byte(r.mem, Mem!FilledFrom(addr, op) + j)]
           same  == [j \in 0 .. BlockBytes - 1 |->
                       Memory!_mem_read_byte(r.mem, Memory!FilledFrom(addr, op) + j)]
<1>1. block = same
  BY Zenon
  DEF Mem!FilledFrom, Memory!FilledFrom, Mem!BlockBase, Memory!BlockBase,
      Mem!_mem_read_byte, Memory!_mem_read_byte, Mem!ZeroByte, Memory!ZeroByte
<1>2. Mem!Fill(r, addr, a, op)
        = FillOf(r, Mem!evicted_line(r.cache, a),
                 Mem!handle_miss(r.cache, a, op, block))
  BY Zenon DEF Mem!Fill, FillOf
<1>3. Memory!Fill(r, addr, a, op)
        = FillOf(r, Memory!evicted_line(r.cache, a),
                 Memory!handle_miss(r.cache, a, op, same))
  BY Zenon DEF Memory!Fill, FillOf
<1> HIDE DEF block, same
<1> QED
  BY <1>1, <1>2, <1>3, SameEvicted, SameMiss

LEMMA SameBody ==
    ASSUME NEW r, NEW addr, NEW a, NEW op
    PROVE  Mem!LoopBody(r, addr, a, op) = Memory!LoopBody(r, addr, a, op)
<1>1. /\ Mem!BlockBase(a) = Memory!BlockBase(a)
      /\ Mem!CountDown(r, Mem!BlockBase(a))
           = Memory!CountDown(r, Memory!BlockBase(a))
  BY Zenon DEF Mem!CountDown, Memory!CountDown, Mem!BlockBase, Memory!BlockBase
<1> QED
  BY <1>1, SameFill, SameCheck, SameCached DEF Mem!LoopBody, Memory!LoopBody

LEMMA SameLoop ==
    ASSUME NEW addr \in Nat, NEW op
    PROVE  Mem!Loop(addr, op) = Memory!Loop(addr, op)
<1> DEFINE start == [mem |-> pages, cache |-> cache, inflight |-> inflight,
                  inflight_addr |-> inflight_addr,
                  inflight_cycles |-> inflight_cycles, returned |-> FALSE]
           Is(run)    == run = [i \in 0 .. W |->
                           IF i = 0 THEN start
                           ELSE Mem!LoopBody(run[i - 1], addr, addr + i - 1, op)]
           IsToo(run) == run = [i \in 0 .. W |->
                           IF i = 0 THEN start
                           ELSE Memory!LoopBody(run[i - 1], addr, addr + i - 1, op)]
<1>1. Mem!Loop(addr, op) = (CHOOSE run : Is(run))[W]
  BY Zenon DEF Mem!Loop
<1>2. Memory!Loop(addr, op) = (CHOOSE run : IsToo(run))[W]
  BY Zenon DEF Memory!Loop
<1>3. \A run : Is(run) <=> IsToo(run)
  <2> HIDE DEF start
  <2> QED
    BY SameBody
<1> HIDE DEF Is, IsToo
<1>4. (CHOOSE run : Is(run)) = (CHOOSE run : IsToo(run))
  BY <1>3, Zenon
<1> QED
  BY <1>1, <1>2, <1>4

LEMMA SameWord ==
    ASSUME NEW c, NEW a, NEW v
    PROVE  /\ Mem!get_word_cache(c, a) = Memory!get_word_cache(c, a)
           /\ Mem!set_word_cache(c, a, v) = Memory!set_word_cache(c, a, v)
<1>1. Mem!get_word_cache(c, a) = Memory!get_word_cache(c, a)
  BY Zenon
    DEF Mem!WordCached, Memory!WordCached, Mem!Cached, Memory!Cached,
        Mem!get_line, Memory!get_line, Mem!Matches, Memory!Matches,
        Mem!SetIndex, Memory!SetIndex, Mem!Tag, Memory!Tag, Mem!LineIds,
        Memory!LineIds, Mem!Max, Memory!Max, Mem!get_word_cache,
        Memory!get_word_cache, Mem!ByteInLine, Memory!ByteInLine,
        Mem!Assembled, Memory!Assembled, Mem!Shifted, Memory!Shifted,
        Mem!Negative, Memory!Negative, Mem!AllOnes, Memory!AllOnes,
        Mem!ZeroByte, Memory!ZeroByte
<1>2. Mem!set_word_cache(c, a, v) = Memory!set_word_cache(c, a, v)
  BY Zenon
    DEF Mem!WordCached, Memory!WordCached, Mem!Cached, Memory!Cached,
        Mem!get_line, Memory!get_line, Mem!Matches, Memory!Matches,
        Mem!SetIndex, Memory!SetIndex, Mem!Tag, Memory!Tag, Mem!LineIds,
        Memory!LineIds, Mem!Max, Memory!Max, Mem!set_word_cache,
        Memory!set_word_cache, Mem!SetIds, Memory!SetIds
<1> QED
  BY <1>1, <1>2

\* The ways in which a call ends.
LEMMA SameEnds ==
    ASSUME NEW call, NEW r, NEW addr, NEW c
    PROVE  /\ Mem!Issued(call) <=> Memory!Issued(call)
           /\ Mem!InFlight(call, r) <=> Memory!InFlight(call, r)
           /\ Mem!NullLine(r, addr) <=> Memory!NullLine(r, addr)
           /\ Mem!Done(r, addr, c, call) <=> Memory!Done(r, addr, c, call)
<1>1. Mem!Issued(call) <=> Memory!Issued(call)
  BY Zenon
    DEF Mem!Issued, Memory!Issued, Mem!Running, Memory!Running, Mem!Silent,
        Memory!Silent
<1>2. Mem!InFlight(call, r) <=> Memory!InFlight(call, r)
  BY Zenon DEF Mem!InFlight, Memory!InFlight, Mem!Commit, Memory!Commit
<1>3. Mem!NullLine(r, addr) <=> Memory!NullLine(r, addr)
  BY Zenon
    DEF Mem!NullLine, Memory!NullLine, Mem!Commit, Memory!Commit,
        Mem!WordCached, Memory!WordCached, Mem!Cached, Memory!Cached,
        Mem!get_line, Memory!get_line, Mem!Matches, Memory!Matches,
        Mem!SetIndex, Memory!SetIndex, Mem!Tag, Memory!Tag, Mem!LineIds,
        Memory!LineIds, Mem!Max, Memory!Max
<1>4. Mem!Done(r, addr, c, call) <=> Memory!Done(r, addr, c, call)
  BY Zenon
    DEF Mem!Done, Memory!Done, Mem!Commit, Memory!Commit, Mem!Silent,
        Memory!Silent, Mem!WordCached, Memory!WordCached, Mem!Cached,
        Memory!Cached, Mem!get_line, Memory!get_line, Mem!Matches,
        Memory!Matches, Mem!SetIndex, Memory!SetIndex, Mem!Tag, Memory!Tag,
        Mem!LineIds, Memory!LineIds, Mem!Max, Memory!Max
<1> QED
  BY <1>1, <1>2, <1>3, <1>4

LEMMA SameCalls ==
    ASSUME NEW addr \in Nat, NEW val
    PROVE  /\ Mem!_mem_read_cache(addr) <=> Memory!_mem_read_cache(addr)
           /\ Mem!_mem_write_cache(addr, val) <=> Memory!_mem_write_cache(addr, val)
<1>1. Mem!_mem_read_cache(addr) <=> Memory!_mem_read_cache(addr)
  BY SameWord, SameEnds, SameLoop
    DEF Mem!_mem_read_cache, Memory!_mem_read_cache
<1>2. Mem!_mem_write_cache(addr, val) <=> Memory!_mem_write_cache(addr, val)
  BY SameWord, SameEnds, SameLoop
    DEF Mem!_mem_write_cache, Memory!_mem_write_cache
<1> QED
  BY <1>1, <1>2

\* What the memory shows, word by word: Memory's WordAt.
LEMMA SameWordAt ==
    ASSUME NEW a
    PROVE  /\ Mem!WordAt(a) = Memory!WordAt(a)
           /\ Mem!WordAt(a)' = Memory!WordAt(a)'
  BY Zenon
    DEF Mem!WordAt, Memory!WordAt, Mem!ByteAt, Memory!ByteAt, Mem!ByteInLine,
        Memory!ByteInLine, Mem!Cached, Memory!Cached, Mem!get_line,
        Memory!get_line, Mem!SetIndex, Memory!SetIndex, Mem!Matches,
        Memory!Matches, Mem!Tag, Memory!Tag, Mem!LineIds, Memory!LineIds,
        Mem!Max, Memory!Max, Mem!_mem_read_byte, Memory!_mem_read_byte,
        Mem!ZeroByte, Memory!ZeroByte

LEMMA SameMemory ==
    /\ Mem!Init <=> Memory!Init
    /\ Mem!TypeOK <=> Memory!TypeOK
<1>1. Mem!Init <=> Memory!Init
  BY Zenon
    DEF Mem!Init, Memory!Init, Mem!create_cache, Memory!create_cache,
        Mem!EmptyLine, Memory!EmptyLine, Mem!SetIds, Memory!SetIds, Mem!LineIds,
        Memory!LineIds, Mem!Silent, Memory!Silent
<1>2. Mem!TypeOK <=> Memory!TypeOK
  BY Zenon
    DEF Mem!TypeOK, Memory!TypeOK, Mem!Byte, Memory!Byte, Mem!AllOnes,
        Memory!AllOnes, Mem!CacheInv, Memory!CacheInv,
        Mem!CacheState, Memory!CacheState, Mem!DistinctLines,
        Memory!DistinctLines, Mem!PastTimes, Memory!PastTimes, Mem!SetIds,
        Memory!SetIds, Mem!LineIds, Memory!LineIds, Mem!CacheLine,
        Memory!CacheLine
<1> QED
  BY <1>1, <1>2

---------------------------------------------------------------------------
\* The processor: Cpu and Processor.
LEMMA SameStages ==
    ASSUME NEW status, NEW m
    PROVE  Cpu!Stages(status, m) <=> Processor!Stages(status, m)
  BY Zenon
    DEF Cpu!Stages, Processor!Stages, Cpu!D_out, Processor!D_out,
        Cpu!handle_hazards, Processor!handle_hazards, Cpu!predict_PC,
        Processor!predict_PC, Cpu!F_out, Processor!F_out, Cpu!F_pred_PC,
        Processor!F_pred_PC, Cpu!w_enable, Processor!w_enable, Cpu!dst,
        Processor!dst, Cpu!dst_sel, Processor!dst_sel, Cpu!wval_sel,
        Processor!wval_sel, Cpu!W_wval, Processor!W_wval, Cpu!X_zf,
        Processor!X_zf, Cpu!Latch, Processor!Latch, Cpu!X_out, Processor!X_out,
        Cpu!Returned, Processor!Returned, Cpu!alu, Processor!alu, Cpu!X_condval,
        Processor!X_condval, Cpu!cond_holds, Processor!cond_holds, Cpu!regfile,
        Processor!regfile, Cpu!forward_reg, Processor!forward_reg,
        Cpu!select_PC, Processor!select_PC, Cpu!bubble_insn,
        Processor!bubble_insn, Cpu!BUBBLE_PC, Processor!BUBBLE_PC, Cpu!XZR,
        Processor!XZR, Cpu!LINK, Processor!LINK, Cpu!Succ, Processor!Succ,
        Cpu!src1, Processor!src1, Cpu!src2, Processor!src2,
        Cpu!check_load_use_hazard, Processor!check_load_use_hazard,
        Cpu!check_mispred_branch_hazard, Processor!check_mispred_branch_hazard,
        Cpu!check_ret_hazard, Processor!check_ret_hazard, Cpu!C_EQ,
        Processor!C_EQ, Cpu!C_NE, Processor!C_NE, Cpu!C_AL, Processor!C_AL

LEMMA SameCycle ==
    ASSUME NEW status PROVE Cpu!Cycle(status) <=> Processor!Cycle(status)
<1>1. /\ Cpu!M_out(status) = Processor!M_out(status)
      /\ Cpu!dmem(status) <=> Processor!dmem(status)
  BY Zenon
    DEF Cpu!M_out, Processor!M_out, Cpu!M_val_mem, Processor!M_val_mem,
        Cpu!dmem, Processor!dmem, Cpu!dmem_read, Processor!dmem_read,
        Cpu!dmem_write, Processor!dmem_write
<1> QED
  BY <1>1, SameStages DEF Cpu!Cycle, Processor!Cycle

LEMMA SameProcessor ==
    /\ Cpu!Init <=> Processor!Init
    /\ Cpu!Next <=> Processor!Next
    /\ Cpu!TypeOK <=> Processor!TypeOK
    /\ Cpu!UsesMemory(M_in) <=> Processor!UsesMemory(M_in)
<1>1. Cpu!Init <=> Processor!Init
  BY Zenon
    DEF Cpu!Init, Processor!Init, Cpu!bubble_insn, Processor!bubble_insn,
        Cpu!BUBBLE_PC, Processor!BUBBLE_PC, Cpu!XZR, Processor!XZR, Cpu!LINK,
        Processor!LINK, Cpu!Values, Processor!Values
<1>2. Cpu!TypeOK <=> Processor!TypeOK
  BY Zenon
    DEF Cpu!TypeOK, Processor!TypeOK, Cpu!StageInput, Processor!StageInput,
        Cpu!bubble_insn, Processor!bubble_insn, Cpu!BUBBLE_PC,
        Processor!BUBBLE_PC, Cpu!XZR, Processor!XZR, Cpu!Values,
        Processor!Values, Cpu!Addrs, Processor!Addrs
<1>3. Cpu!UsesMemory(M_in) <=> Processor!UsesMemory(M_in)
  BY
    DEF Cpu!UsesMemory, Processor!UsesMemory, Cpu!dmem_read,
        Processor!dmem_read, Cpu!dmem_write, Processor!dmem_write
<1>4. Cpu!Next <=> Processor!Next
  BY <1>3, SameCycle DEF Cpu!Next, Processor!Next
<1> QED
  BY <1>1, <1>2, <1>3, <1>4

---------------------------------------------------------------------------
(* Only M sets val_mem, and in its output (hw_elts.c:117-121): in every     *)
(* input up to M's it is 0.  M without an access passes its input on, where *)
(* Pipeline's M puts a 0: the two agree because of this.                    *)
NoValue == D_in.val_mem = 0 /\ X_in.val_mem = 0 /\ M_in.val_mem = 0

(* The inductive invariant: that of either part, the processor held by its  *)
(* memory alone, and NoValue.                                               *)
SystemInv ==
    /\ Processor!TypeInv
    /\ Processor!HeldByMemory
    /\ Memory!IInv
    /\ NoValue

(* A delay of a cycle at least is what the memory needs to answer right     *)
(* (the run memory_no_delay shows it without); that a word stays in its     *)
(* block, the other half, holds of a word at the base of a block.           *)
LEMMA CallsFit == DELAY > 0 => Memory!WithinBlocks
<1>1. ASSUME NEW v \in Values PROVE (Addr(v) % BlockBytes) + W <= BlockBytes
  BY AddrIs, SizesFit
<1> QED
  BY <1>1 DEF Memory!WithinBlocks

(* The refinement mapping, by Memory's words, now and after a step.         *)
LEMMA ShownIs ==
    /\ Shown = [v \in Values |-> ValueOf(Memory!WordAt(Addr(v)))]
    /\ Shown' = [v \in Values |-> ValueOf(Memory!WordAt(Addr(v))')]
<1>1. ASSUME NEW v \in Values
      PROVE  /\ Mem!WordAt(Addr(v)) = Memory!WordAt(Addr(v))
             /\ Mem!WordAt(Addr(v))' = Memory!WordAt(Addr(v))'
  BY SameWordAt
<1>2. Shown = [v \in Values |-> ValueOf(Mem!WordAt(Addr(v)))]
  BY DEF Shown
<1>3. Shown' = [v \in Values |-> ValueOf(Mem!WordAt(Addr(v))')]
  BY DEF Shown, ValueOf, Addr
<1> QED
  BY <1>1, <1>2, <1>3

LEMMA WordAtIs ==
    ASSUME NEW a
    PROVE  /\ Memory!WordAt(a)
                = [k \in 0 .. W - 1 |-> Memory!ByteAt(cache, pages, a + k)]
           /\ Memory!WordAt(a)'
                = [k \in 0 .. W - 1 |-> Memory!ByteAt(cache', pages', a + k)]
  BY Zenon
    DEF Memory!WordAt, Memory!ByteAt, Memory!ByteInLine, Memory!Cached,
        Memory!get_line, Memory!SetIndex, Memory!Matches, Memory!Tag,
        Memory!LineIds, Memory!Max, Memory!_mem_read_byte, Memory!ZeroByte

LEMMA InitSystem == DELAY > 0 /\ Init => SystemInv
<1> SUFFICES ASSUME DELAY > 0, Init PROVE SystemInv
  OBVIOUS
<1>1. Processor!Init /\ Memory!Init
  BY SameProcessor, SameMemory DEF Init
<1>2. Processor!TypeInv
  BY <1>1, Processor!TypeInit, ProcessorFit DEF Processor!TypeInit
<1>3. Memory!IInv
  BY <1>1, CallsFit, Memory!InitInv, MemoryFit DEF Memory!InitInv
<1>4. Processor!HeldByMemory /\ NoValue
  BY <1>1
    DEF Processor!Init, Processor!HeldByMemory, NoValue, Processor!bubble_insn
<1> QED
  BY <1>2, <1>3, <1>4 DEF SystemInv

LEMMA SameShown ==
    ASSUME \A x \in Nat :
              Memory!ByteAt(cache', pages', x) = Memory!ByteAt(cache, pages, x)
    PROVE  Shown' = Shown
<1>1. ASSUME NEW v \in Values
      PROVE  Memory!WordAt(Addr(v))' = Memory!WordAt(Addr(v))
  <2>1. \A k \in 0 .. W - 1 : Addr(v) + k \in Nat
    BY AddrIs, SizesFit
  <2>2. [k \in 0 .. W - 1 |-> Memory!ByteAt(cache', pages', Addr(v) + k)]
          = [k \in 0 .. W - 1 |-> Memory!ByteAt(cache, pages, Addr(v) + k)]
    BY <2>1
  <2> QED
    BY <2>2, WordAtIs, Zenon
<1> QED
  BY <1>1, ShownIs

(* A load that is answered: of value v's word, get_word_cache makes         *)
(* CacheLoaded[v].                                                          *)
LEMMA LoadedIs ==
    ASSUME Memory!TypeOK, NEW v \in Values
    PROVE  ValueOf(Memory!Assembled(Memory!WordAt(Addr(v)))) = CacheLoaded[Shown[v]]
<1> DEFINE w == Memory!WordAt(Addr(v))
<1>1. w \in Memory!Word
  BY AddrIs, GeometryFit, MemoryFit, Memory!WordAtIsWord DEF Memory!WordAtIsWord
<1>2. Shown[v] = ValueOf(w)
  BY ShownIs
<1> HIDE DEF w
<1>3. Shown[v] \in Values /\ Encode[Shown[v]] = w
  BY <1>1, <1>2, EncodeIs
<1>4. CacheLoaded[Shown[v]] = ValueOf(Mem!Assembled(Encode[Shown[v]]))
  BY <1>3 DEF CacheLoaded
<1>5. Mem!Assembled(w) = Memory!Assembled(w)
  BY SameAssembled
<1> QED
  BY <1>3, <1>4, <1>5 DEF w

(* A store that is done changes the value of its word, and no other.        *)
LEMMA StoredIs ==
    ASSUME NEW v \in Values, NEW val \in Values,
           \A x \in Nat :
              Memory!ByteAt(cache', pages', x) =
                 IF x \in Addr(v) .. Addr(v) + W - 1
                 THEN Encode[val][x - Addr(v)]
                 ELSE Memory!ByteAt(cache, pages, x)
    PROVE  Shown' = [Shown EXCEPT ![v] = val]
<1>0. W \in Nat \ {0} /\ BlockBytes \in Nat /\ W <= BlockBytes
  BY SizesFit
<1>1. Addr(v) \in Nat /\ v \in Nat
  BY AddrIs, ValuesFit
<1>2. Encode[val] = [k \in 0 .. W - 1 |-> Encode[val][k]] /\ ValueOf(Encode[val]) = val
  BY EncodeIs, WordIs
<1>3. Memory!WordAt(Addr(v))' = Encode[val]
  <2>1. ASSUME NEW k \in 0 .. W - 1
        PROVE  Memory!ByteAt(cache', pages', Addr(v) + k) = Encode[val][k]
    <3> DEFINE x == Addr(v) + k
    <3>1. x \in Nat /\ x \in Addr(v) .. Addr(v) + W - 1 /\ x - Addr(v) = k
      BY <1>0, <1>1
    <3> HIDE DEF x
    <3>2. Memory!ByteAt(cache', pages', x) = Encode[val][x - Addr(v)]
      BY <3>1
    <3> QED
      BY <3>1, <3>2 DEF x
  <2> QED
    BY <1>2, <2>1, WordAtIs
<1>4. ASSUME NEW u \in Values, u # v
      PROVE  Memory!WordAt(Addr(u))' = Memory!WordAt(Addr(u))
  <2>1. Addr(u) \in Nat /\ u \in Nat
    BY AddrIs, ValuesFit
  <2>2. Addr(u) + BlockBytes <= Addr(v) \/ Addr(v) + BlockBytes <= Addr(u)
    <3>1. u < v \/ v < u
      BY <1>1, <1>4, <2>1
    <3> QED
      BY <3>1, AddrIs
  <2>3. \A k \in 0 .. W - 1 :
           Addr(u) + k \in Nat /\ Addr(u) + k \notin Addr(v) .. Addr(v) + W - 1
    BY <1>0, <1>1, <2>1, <2>2
  <2>4. \A k \in 0 .. W - 1 :
           Memory!ByteAt(cache', pages', Addr(u) + k)
              = Memory!ByteAt(cache, pages, Addr(u) + k)
    BY <2>3
  <2>5. [k \in 0 .. W - 1 |-> Memory!ByteAt(cache', pages', Addr(u) + k)]
          = [k \in 0 .. W - 1 |-> Memory!ByteAt(cache, pages, Addr(u) + k)]
    BY <2>4
  <2> QED
    BY <2>5, WordAtIs, Zenon
<1> QED
  BY <1>2, <1>3, <1>4, ShownIs

(* A cycle with the cached memory is a cycle of Pipeline: the memory shows  *)
(* it answered, with the conversion of the value in it or with the store    *)
(* done, or shows it held and itself unchanged (mem.c:196-231,              *)
(* hw_elts.c:117-121).                                                      *)
LEMMA AccessIs ==
    ASSUME SystemInv, DELAY > 0, Next
    PROVE  \E status \in {"READY", "IN_FLIGHT"} :
              /\ Processor!Cycle(status)
              /\ status = "IN_FLIGHT" => Processor!UsesMemory(M_in)
              /\ ~Processor!UsesMemory(M_in) => status = dmem_status
              /\ Memory!IInv'
<1> DEFINE addr == Addr(M_in.val_ex)
<1>1. /\ M_in \in Processor!StageInput /\ dmem_status \in {"READY", "IN_FLIGHT"}
      /\ M_in.val_mem = 0
  BY DEF SystemInv, Processor!TypeInv, Processor!TypeOK, NoValue
<1>2. /\ M_in.val_ex \in Values /\ M_in.val_b \in Values
      /\ addr \in Nat /\ addr # -1 /\ addr \in {Addr(v) : v \in Values}
      /\ (addr % BlockBytes) = 0
  <2>1. M_in.val_ex \in Values /\ M_in.val_b \in Values
    BY <1>1 DEF Processor!StageInput, Processor!Values, Values
  <2> QED
    BY <2>1, AddrIs
<1> HIDE DEF addr
<1>3. Memory!IInv /\ Memory!WithinBlocks
  BY CallsFit DEF SystemInv
<1>4. CASE NoAccess
  <2>1. /\ ~Processor!UsesMemory(M_in) /\ Processor!Stages(dmem_status, M_in)
        /\ UNCHANGED memVars
    BY <1>4, SameProcessor, SameStages DEF NoAccess
  <2>2. dmem_status = "READY"
    BY <1>1, <2>1 DEF SystemInv, Processor!HeldByMemory
  <2>3. Processor!M_out(dmem_status) = M_in
    <3>1. Processor!M_out(dmem_status) = [M_in EXCEPT !.val_mem = 0]
      BY <2>1 DEF Processor!M_out, Processor!M_val_mem, Processor!UsesMemory
    <3> QED
      BY <1>1, <3>1 DEF Processor!StageInput
  <2>4. Shown' = Shown
    BY <2>1, SameShown DEF memVars
  <2>5. Processor!dmem(dmem_status)
    BY <2>1, <2>4 DEF Processor!dmem, Processor!UsesMemory
  <2>6. Memory!IInv'
    BY <1>3, <2>1
      DEF memVars, Memory!IInv, Memory!TypeOK, Memory!CleanLinesMatchMemory,
          Memory!StallProtocol, Memory!PreconditionHolds, Memory!CallInv
  <2>7. Processor!Cycle(dmem_status)
    BY <2>1, <2>3, <2>5 DEF Processor!Cycle
  <2> QED
    BY <2>1, <2>2, <2>6, <2>7
<1>5. CASE Load
  <2> DEFINE val == IF dmem_status' = "READY" THEN ValueOf(resp'.val) ELSE 0
  <2>1. /\ Processor!dmem_read(M_in) /\ ~Processor!dmem_write(M_in)
        /\ Processor!Stages(dmem_status', [M_in EXCEPT !.val_mem = val])
    <3>1. Cpu!dmem_read(M_in) /\ Cpu!Stages(dmem_status', [M_in EXCEPT !.val_mem = val])
      BY <1>5 DEF Load
    <3> QED
      BY <3>1, SameStages
        DEF Cpu!dmem_read, Processor!dmem_read, Processor!dmem_write
  <2>2. Memory!_mem_read_cache(addr)
    BY <1>2, <1>5, SameCalls DEF Load, addr
  <2>3. /\ Memory!IInv'
        /\ \A x \in Nat :
              Memory!ByteAt(cache', pages', x) = Memory!ByteAt(cache, pages, x)
        /\ \/ dmem_status' = "IN_FLIGHT" /\ resp' = resp
           \/ /\ dmem_status' = "READY"
              /\ resp' = [op |-> "READ", addr |-> addr,
                          val |-> Memory!Assembled(Memory!WordAt(addr))]
    BY <1>2, <1>3, <2>2, Memory!LoadDone, MemoryFit DEF Memory!LoadDone
  <2>4. Shown' = Shown
    BY <2>3, SameShown
  <2>5. dmem_status' = "READY" => val = CacheLoaded[Shown[M_in.val_ex]]
    <3>1. dmem_status' = "READY" => val = ValueOf(Memory!Assembled(Memory!WordAt(addr)))
      BY <2>3
    <3>2. ValueOf(Memory!Assembled(Memory!WordAt(addr))) = CacheLoaded[Shown[M_in.val_ex]]
      BY <1>2, <1>3, LoadedIs DEF addr, Memory!IInv
    <3> QED
      BY <3>1, <3>2
  <2>6. Processor!M_out(dmem_status') = [M_in EXCEPT !.val_mem = val]
    BY <2>1, <2>5 DEF Processor!M_out, Processor!M_val_mem
  <2>7. Processor!Cycle(dmem_status')
    BY <2>1, <2>4, <2>6 DEF Processor!Cycle, Processor!dmem
  <2> QED
    BY <2>1, <2>3, <2>7 DEF Processor!UsesMemory
<1>6. CASE Store
  <2>1. /\ Processor!dmem_write(M_in) /\ ~Processor!dmem_read(M_in)
        /\ Processor!Stages(dmem_status', [M_in EXCEPT !.val_mem = 0])
    BY <1>6, SameStages
      DEF Store, Cpu!dmem_write, Processor!dmem_read, Processor!dmem_write
  <2>2. /\ Memory!_mem_write_cache(addr, Encode[M_in.val_b])
        /\ Encode[M_in.val_b] \in {Encode[v] : v \in Values}
    BY <1>2, <1>6, SameCalls DEF Store, addr
  <2>3. /\ Memory!IInv'
        /\ \/ /\ dmem_status' = "IN_FLIGHT"
              /\ \A x \in Nat :
                    Memory!ByteAt(cache', pages', x) = Memory!ByteAt(cache, pages, x)
           \/ /\ dmem_status' = "READY"
              /\ \A x \in Nat :
                    Memory!ByteAt(cache', pages', x) =
                       IF x \in addr .. addr + W - 1
                       THEN Encode[M_in.val_b][x - addr]
                       ELSE Memory!ByteAt(cache, pages, x)
    BY <1>2, <1>3, <2>2, Memory!StoreDone, MemoryFit DEF Memory!StoreDone
  <2>4. Processor!M_out(dmem_status') = [M_in EXCEPT !.val_mem = 0]
    BY <2>1 DEF Processor!M_out, Processor!M_val_mem
  <2>5. CASE dmem_status' = "IN_FLIGHT"
    <3>1. Shown' = Shown
      BY <2>3, <2>5, SameShown
    <3> QED
      BY <2>1, <2>3, <2>4, <2>5, <3>1
        DEF Processor!Cycle, Processor!dmem, Processor!UsesMemory
  <2>6. CASE dmem_status' = "READY"
    <3>1. Shown' = [Shown EXCEPT ![M_in.val_ex] = M_in.val_b]
      BY <1>2, <2>3, <2>6, StoredIs DEF addr
    <3> QED
      BY <2>1, <2>3, <2>4, <2>6, <3>1
        DEF Processor!Cycle, Processor!dmem, Processor!UsesMemory
  <2> QED
    BY <2>3, <2>5, <2>6
<1> QED
  BY <1>4, <1>5, <1>6 DEF Next

LEMMA NextSystem == DELAY > 0 /\ SystemInv /\ [Next]_vars => SystemInv'
<1> SUFFICES ASSUME DELAY > 0, SystemInv, [Next]_vars PROVE SystemInv'
  OBVIOUS
<1>1. CASE UNCHANGED vars
  <2>1. UNCHANGED cpuVars /\ UNCHANGED memVars
    BY <1>1 DEF vars
  <2>2. Shown' = Shown
    BY <2>1, SameShown DEF memVars
  <2>3. Memory!IInv'
    BY <2>1
      DEF memVars, SystemInv, Memory!IInv, Memory!TypeOK,
          Memory!CleanLinesMatchMemory, Memory!StallProtocol,
          Memory!PreconditionHolds, Memory!CallInv
  <2>4. Processor!TypeInv'
    BY <2>1, <2>2
      DEF cpuVars, memVars, SystemInv, Processor!TypeInv, Processor!TypeOK,
          Processor!Real
  <2>5. Processor!HeldByMemory' /\ NoValue'
    BY <2>1
      DEF cpuVars, memVars, SystemInv, Processor!HeldByMemory,
          Processor!UsesMemory, Processor!dmem_read, Processor!dmem_write,
          NoValue
  <2> QED
    BY <2>3, <2>4, <2>5 DEF SystemInv
<1>2. CASE Next
  <2>1. PICK status \in {"READY", "IN_FLIGHT"} :
           /\ Processor!Cycle(status)
           /\ status = "IN_FLIGHT" => Processor!UsesMemory(M_in)
           /\ ~Processor!UsesMemory(M_in) => status = dmem_status
           /\ Memory!IInv'
    BY <1>2, AccessIs
  <2>2. Processor!TypeInv'
    BY <2>1, Processor!TypeStep, ProcessorFit DEF SystemInv, Processor!TypeStep
  <2>3. Processor!Next
    BY <2>1 DEF Processor!Next
  <2>4. Processor!HeldByMemory'
    BY <2>3, Processor!HeldStep, ProcessorFit DEF SystemInv, Processor!HeldStep
  <2>5. NoValue'
    <3> DEFINE h == Processor!handle_hazards(status)
    <3>1. /\ D_in' = Processor!Latch("F", h, Processor!F_out, D_in)
          /\ X_in' = Processor!Latch("D", h,
                                     Processor!D_out(Processor!M_out(status)), X_in)
          /\ M_in' = Processor!Latch("X", h, Processor!X_out, M_in)
      BY <2>1, Processor!CycleIs, ProcessorFit DEF Processor!CycleIs
    <3>2. /\ Processor!F_out.val_mem = 0 /\ Processor!bubble_insn.val_mem = 0
          /\ Processor!D_out(Processor!M_out(status)).val_mem = D_in.val_mem
          /\ Processor!X_out.val_mem = X_in.val_mem
      <4>1. D_in \in Processor!StageInput /\ X_in \in Processor!StageInput
        BY DEF SystemInv, Processor!TypeInv, Processor!TypeOK
      <4> QED
        BY <4>1
          DEF Processor!F_out, Processor!bubble_insn, Processor!D_out,
              Processor!X_out, Processor!StageInput
    <3> HIDE DEF h
    <3> QED
      BY <3>1, <3>2 DEF SystemInv, NoValue, Processor!Latch
  <2> QED
    BY <2>1, <2>2, <2>4, <2>5 DEF SystemInv
<1> QED
  BY <1>1, <1>2

LEMMA SystemInvariant == DELAY > 0 => (Spec => []SystemInv)
<1> SUFFICES ASSUME DELAY > 0 PROVE Spec => []SystemInv
  OBVIOUS
<1>1. Init => SystemInv
  BY InitSystem
<1>2. SystemInv /\ [Next]_vars => SystemInv'
  BY NextSystem
<1> QED
  BY <1>1, <1>2, PTL DEF Spec

(* No cycle takes a variable of either part out of its type, whatever the   *)
(* program, the cache and a delay of at least a cycle (mem.c:196-269,       *)
(* hw_elts.c:17-142).                                                       *)
THEOREM SystemTyped == DELAY > 0 => (Spec => []TypeOK)
<1> SUFFICES ASSUME DELAY > 0 PROVE Spec => []TypeOK
  OBVIOUS
<1>1. SystemInv => TypeOK
  BY SameProcessor, SameMemory
    DEF SystemInv, Processor!TypeInv, Memory!IInv, TypeOK
<1> QED
  BY <1>1, SystemInvariant, PTL

LEMMA StepIsCycle ==
    DELAY > 0 /\ SystemInv /\ [Next]_vars => [Cpu!Next]_Cpu!vars
<1> SUFFICES ASSUME DELAY > 0, SystemInv, [Next]_vars PROVE [Cpu!Next]_Cpu!vars
  OBVIOUS
<1>1. CASE UNCHANGED vars
  <2>1. UNCHANGED cpuVars /\ UNCHANGED memVars
    BY <1>1 DEF vars
  <2>2. Shown' = Shown
    BY <2>1, SameShown DEF memVars
  <2>3. UNCHANGED Cpu!vars
    BY <2>1, <2>2 DEF cpuVars, memVars, Cpu!vars, Cpu!pipes
  <2> QED
    BY <2>3
<1>2. CASE Next
  <2>1. Processor!Next
    BY <1>2, AccessIs DEF Processor!Next
  <2> QED
    BY <2>1, SameProcessor
<1> QED
  BY <1>1, <1>2

(* Of the cache the processor sees what cache.c:270 does to a word, and     *)
(* nothing else: for every program, every number of sets and lines, every   *)
(* size of block and every delay of at least a cycle, misses, write-backs   *)
(* and the calls repeated while M is held (mem.c:196-231,                   *)
(* hazard_control.c:91-97) show it a memory that holds what the last store  *)
(* left, and answers a load with the conversion of that, made once.         *)
THEOREM SystemIsPipeline == DELAY > 0 => (Spec => ImplementsPipeline)
<1> SUFFICES ASSUME DELAY > 0 PROVE Spec => ImplementsPipeline
  OBVIOUS
<1>1. Init => Cpu!Init
  BY DEF Init
<1>2. SystemInv /\ [Next]_vars => [Cpu!Next]_Cpu!vars
  BY StepIsCycle
<1> QED
  BY <1>1, <1>2, SystemInvariant, PTL DEF Spec, ImplementsPipeline, Cpu!Spec

(* Which values come back from the cache as they went in (cache.c:266-272): *)
(* those whose upper half is zero, and the sign of whose lower half too,    *)
(* and the one of all ones; no others, whatever the cache.                  *)
THEOREM LoadedAsStored ==
    \A v \in Values : CacheLoaded[v] = v <=> Encode[v] \in Memory!Narrow
<1> TAKE v \in Values
<1>1. Encode[v] \in Memory!Word /\ ValueOf(Encode[v]) = v
  BY EncodeIs
<1>2. Memory!Assembled(Encode[v]) \in Memory!Word
  BY <1>1, MemoryFit, Memory!AssembledIsWord DEF Memory!AssembledIsWord
<1>3. Memory!Assembled(Encode[v]) = Encode[v] <=> Encode[v] \in Memory!Narrow
  BY <1>1, MemoryFit, Memory!NarrowAreIntact
    DEF Memory!NarrowAreIntact, Memory!NarrowIsIntact
<1>4. CacheLoaded[v] = ValueOf(Memory!Assembled(Encode[v]))
  BY SameAssembled DEF CacheLoaded
<1>5. ValueOf(Memory!Assembled(Encode[v])) = v
         => Memory!Assembled(Encode[v]) = Encode[v]
  BY <1>2, EncodeIs
<1> QED
  BY <1>1, <1>3, <1>4, <1>5

LEMMA SameSpec == Cpu!Spec => Processor!Spec
<1>1. Cpu!Init <=> Processor!Init
  BY SameProcessor
<1>2. [Cpu!Next]_Cpu!vars => [Processor!Next]_Processor!vars
  BY SameProcessor DEF Cpu!vars, Processor!vars, Cpu!pipes, Processor!pipes
<1> QED
  BY <1>1, <1>2, PTL DEF Cpu!Spec, Processor!Spec

(* With what PipelineProofs shows of the processor, both steps together:    *)
(* the processor with its cache computes what its program says, taken one   *)
(* instruction at a time, each LDUR leaving CacheLoaded of the value in     *)
(* memory (LoadedAsStored: the value itself, if an int and not negative, or *)
(* -1), for the programs that meet none of the three hazards that           *)
(* handle_hazards leaves alone (hazard_control.c:63-97).                    *)
THEOREM SystemIsSequential ==
    DELAY > 0 /\ Processor!HazardsHandled => (Spec => Processor!ImplementsIsa)
<1> SUFFICES ASSUME DELAY > 0, Processor!HazardsHandled
             PROVE  Spec => Processor!ImplementsIsa
  OBVIOUS
<1>1. Processor!Spec => Processor!ImplementsIsa
  BY Processor!PipelineIsSequential, ProcessorFit DEF Processor!PipelineIsSequential
<1>2. Spec => ImplementsPipeline
  BY SystemIsPipeline
<1> QED
  BY <1>1, <1>2, SameSpec DEF ImplementsPipeline

(* The loop of a program with two idle instructions in front of each RET    *)
(* ends (proc.c:119) with every store in cache or memory and every load in  *)
(* its register, whatever was missed on the way.                            *)
THEOREM SystemDrains ==
    DELAY > 0 /\ Processor!ReturnsPadded => (Spec => []Drained)
<1> SUFFICES ASSUME DELAY > 0, Processor!ReturnsPadded PROVE Spec => []Drained
  OBVIOUS
<1> DEFINE Ended == done => /\ Processor!Retired = [regs |-> regs, mem |-> Shown]
                            /\ dmem_status = "READY"
<1>1. Processor!Spec => []Ended
  BY Processor!EndsDrained, ProcessorFit DEF Processor!EndsDrained
<1>2. Cpu!Retired = Processor!Retired
  BY Zenon
    DEF Cpu!Retired, Processor!Retired, Cpu!Retire, Processor!Retire,
        Cpu!Executed, Processor!Executed, Cpu!Real, Processor!Real,
        Cpu!BUBBLE_PC, Processor!BUBBLE_PC, Cpu!X_out, Processor!X_out,
        Cpu!alu, Processor!alu, Cpu!W_wval, Processor!W_wval, Cpu!dst,
        Processor!dst, Cpu!dst_sel, Processor!dst_sel, Cpu!wval_sel,
        Processor!wval_sel, Cpu!w_enable, Processor!w_enable, Cpu!dmem_write,
        Processor!dmem_write, Cpu!LINK, Processor!LINK
<1>3. Ended => Drained
  BY <1>2 DEF Drained
<1> HIDE DEF Ended
<1>4. Spec => ImplementsPipeline
  BY SystemIsPipeline
<1> QED
  BY <1>1, <1>3, <1>4, SameSpec, PTL DEF ImplementsPipeline
=============================================================================
