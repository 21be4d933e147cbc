------------------------------- MODULE System -------------------------------
(***************************************************************************)
(* The processor built with CACHE: the stages of Pipeline on the data      *)
(* memory of CachedMemory.  Neither is left to itself: the memory is       *)
(* called by M alone (hw_elts.c:117-121), once a cycle while the access is *)
(* there, and its dmem_status alone holds the stages                       *)
(* (hazard_control.c:91).  One action is one cycle of the main loop.       *)
(*                                                                         *)
(* A value of the processor is a word_t, and Encode says of which bytes:   *)
(* stores put them into the cache, and a load takes what get_word_cache    *)
(* makes of them (cache.c:270).  As an address, value v is that of the     *)
(* v-th block: the words of the program begin their blocks, whatever the   *)
(* block size, because a store elsewhere in its block loses other words    *)
(* when it misses (mem.c:264-266).                                         *)
(***************************************************************************)
EXTENDS Instructions

CONSTANTS
    Programs,           \* the programs run
    CacheSets, CacheLines, BlockBytes, \* -s and -b (as numbers), and -E
    W, INT, BITS,       \* bytes per word and per int, bits per byte
    Encode,             \* the bytes of a value
    DELAY,              \* -d
    CYCLE_MOD,          \* inflight_cycles is unsigned: 2^64 in the code
    NULL,               \* get_line found no line
    MaxCalls            \* bound: hits, and misses, of one run

VARIABLES
    prog, pred_pc, F_in, f_stall, D_in, X_in, M_in, W_in,
    regs, zf, done,                             \* as in Pipeline
    pages, cache, inflight, inflight_addr, inflight_cycles,
    dmem_status, req, resp, waited              \* as in CachedMemory, mem as pages

cpuVars == <<prog, pred_pc, F_in, f_stall, D_in, X_in, M_in, W_in, regs, zf, done>>
memVars == <<pages, cache, inflight, inflight_addr, inflight_cycles,
             dmem_status, req, resp, waited>>
vars    == <<cpuVars, memVars>>

Bytes == SUBSET (0 .. BITS - 1)

\* The address of the word that a value means.
Addr(v) == BlockBytes * v

\* The data segment before the program runs: a word of the initial memory
\* differs from its neighbours.
Segment ==
    [a \in 0 .. BlockBytes * N - 1 |->
        LET v == a \div BlockBytes
            k == a % BlockBytes
        IN  IF k < W THEN Encode[(v + 1) % N][k] ELSE {}]

\* The program uses the words of one data segment, none of which is NULL.
Mem == INSTANCE CachedMemory WITH
    mem <- pages,
    S <- CacheSets, E <- CacheLines, B <- BlockBytes,
    Block <- [0 .. BlockBytes - 1 -> Bytes],
    ZeroBlock <- [k \in 0 .. BlockBytes - 1 |-> {}],
    Words <- {Encode[v] : v \in Values},
    Image <- Segment,
    ReadAddrs <- {Addr(v) : v \in Values}, WriteAddrs <- {Addr(v) : v \in Values},
    NULL_ADDR <- -1,
    MaxHits <- MaxCalls, MaxMisses <- MaxCalls

\* Every word is one value.
ASSUME SystemAssumption ==
    /\ Programs \subseteq [Addrs -> Instrs]
    /\ CacheSets \in Nat \ {0} /\ CacheLines \in Nat \ {0} /\ BlockBytes \in Nat \ {0}
    /\ INT \in Nat \ {0} /\ W = 2 * INT /\ BITS \in Nat \ {0} /\ W <= BlockBytes
    /\ Encode \in [Values -> [0 .. W - 1 -> Bytes]]
    /\ \A v, u \in Values : Encode[v] = Encode[u] => v = u
    /\ \A w \in [0 .. W - 1 -> Bytes] : \E v \in Values : Encode[v] = w
    /\ DELAY \in Nat /\ CYCLE_MOD \in Nat \ {0} /\ DELAY < CYCLE_MOD
    /\ NULL \notin [0 .. BlockBytes - 1 -> Bytes]

ValueOf(w) == CHOOSE v \in Values : Encode[v] = w

\* What get_word_cache makes of a value.
CacheLoaded == [v \in Values |-> ValueOf(Mem!Assembled(Encode[v]))]

\* The memory of the processor is what the cache and the pages show.
Shown == [v \in Values |-> ValueOf(Mem!WordAt(Addr(v)))]

Cpu == INSTANCE Pipeline WITH mem <- Shown, Loaded <- CacheLoaded

Init == Mem!Init /\ Cpu!Init

\* M has no access: the memory is not called, and its status is the old one.
NoAccess ==
    /\ ~Cpu!UsesMemory(M_in)
    /\ Cpu!Stages(dmem_status, M_in)
    /\ UNCHANGED memVars

\* A load that is not answered leaves 0 in val_mem (mem.c:207).
Load ==
    /\ Cpu!dmem_read(M_in)
    /\ Mem!_mem_read_cache(Addr(M_in.val_ex))
    /\ \E val \in {IF dmem_status' = "READY" THEN ValueOf(resp'.val) ELSE 0} :
          Cpu!Stages(dmem_status', [M_in EXCEPT !.val_mem = val])

Store ==
    /\ Cpu!dmem_write(M_in)
    /\ Mem!_mem_write_cache(Addr(M_in.val_ex), Encode[M_in.val_b])
    /\ Cpu!Stages(dmem_status', [M_in EXCEPT !.val_mem = 0])

Next == NoAccess \/ Load \/ Store

\* ENABLED Next: the loop has not ended, and the memory can take the call.
CanTurn ==
    /\ ~done
    /\ Cpu!dmem_read(M_in) =>
          Mem!Issued([op |-> "READ", addr |-> Addr(M_in.val_ex)])
    /\ Cpu!dmem_write(M_in) =>
          Mem!Issued([op |-> "WRITE", addr |-> Addr(M_in.val_ex), val |-> Encode[M_in.val_b]])

(***************************************************************************)
(* The main loop goes round until it ends (proc.c:64-119); nothing is      *)
(* assumed of the memory.  WF_vars(Next), with its ENABLED written out; of *)
(* a program without loops every turn changes something.                   *)
(***************************************************************************)
GoesRound == []<>~CanTurn \/ []<><<Next>>_vars

Spec == Init /\ [][Next]_vars /\ GoesRound

---------------------------------------------------------------------------
(* Both parts keep the types of their modules.                             *)
TypeOK == Cpu!TypeOK /\ Mem!TypeOK

(***************************************************************************)
(* The memory behind the cache is the memory that Pipeline assumes: it     *)
(* answers a load at once or some cycles late, with what get_word_cache    *)
(* makes of the value the last store left, and changes with the stores of  *)
(* M alone.  With the run that shows Pipeline to implement Isa, the        *)
(* processor with its cache computes what the program says, of a machine   *)
(* whose loads lose what cache.c:270 loses.                                *)
(***************************************************************************)
ImplementsPipeline == Cpu!Spec

(* The memory repeats what the stalled stage repeats (mem.c:196-208 rely on *)
(* it): the call it waits for is the access in M, with its address and its  *)
(* value, until it is answered.                                             *)
CallIsAccess ==
    dmem_status = "IN_FLIGHT" =>
        /\ req.addr = Addr(M_in.val_ex)
        /\ req.op = (IF Cpu!dmem_read(M_in) THEN "READ" ELSE "WRITE")
        /\ req.op = "WRITE" => req.val = Encode[M_in.val_b]

(* The processor is never stalled for ever by its memory (mem.c:203-208).  *)
CallsComplete == req # Mem!Silent ~> req = Mem!Silent

(* Fetch is never held for ever, whether by a load-use hazard               *)
(* (hazard_control.c:72) or by the memory (:93).                            *)
FetchResumes == f_stall ~> ~f_stall \/ done

(* A program without loops returns from main.                              *)
Returns == <>done

(***************************************************************************)
(* The main loop ends when the last RET is decoded (proc.c:119), whatever  *)
(* is behind it: two instructions in front of it that leave registers and  *)
(* memory alone (Pipeline's Padded) are what it takes for every store and  *)
(* every load to be done by then, if a store may miss.  The tests have     *)
(* three nops there (testcases/week2/branch_not_taken.s).                  *)
(***************************************************************************)
Drained ==
    done => /\ Cpu!Retired = [regs |-> regs, mem |-> Shown]
            /\ dmem_status = "READY"
=============================================================================
