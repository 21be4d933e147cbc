------------------------------ MODULE Emulator ------------------------------
(***************************************************************************)
(* One run of the program se, built without CACHE: archsim.c's main, with  *)
(* handle_args, init, loadElf, runElf's loop seen from the memory, logging *)
(* and finalize.  What the guest computes is Pipeline's business: here its *)
(* memory stage may make any access and its fetch read any word.           *)
(*                                                                         *)
(* Lines of the log that say INFO are left out: nothing depends on them.   *)
(***************************************************************************)
EXTENDS PagedMemory

CONSTANTS
    Files,              \* what -i may name: ELF files, and Missing
    Missing,            \* a name that open refuses, and no name at all
    Widths, LONG,       \* bytes in an access; the widest, mem_read_L's
    FETCH,              \* bytes mem_read_I reads
    Words,              \* values the guest stores
    ReadAddrs, WriteAddrs, FetchAddrs,  \* addresses the guest uses
    MAX_NUM_INSTR,      \* cycles runElf runs at most, 10000 in the code
    MaxArgs             \* bound: options on the command line

\* A PT_LOAD segment: where it goes and what the file has of it, p_filesz
\* bytes, a number of 64 bits.
Segment == {seg \in [vaddr : Addresses, data : Seq(Byte)] : Len(seg.data) < SPACE}

ASSUME EmulatorAssumption ==
    /\ \A f \in Files \ {Missing} :
          f.entry \in Addresses /\ f.exec \in BOOLEAN /\ f.segs \in Seq(Segment)
    /\ LONG \in Widths /\ Widths \subseteq Nat \ {0} /\ FETCH \in Nat \ {0}
    /\ ReadAddrs \cup WriteAddrs \cup FetchAddrs \subseteq Addresses
    /\ \A word \in Words : \E width \in Widths : word \in [0 .. width - 1 -> Byte]
    /\ MAX_NUM_INSTR \in Nat \ {0} /\ MaxArgs \in Nat

VARIABLES
    phase,              \* where main is, see Phases
    args,               \* options read
    infile_name, outfile, debug_level,
    terminate, ignore_input,
    log,                \* lines of errfile, see logging
    printed,            \* lines that doubleword stores to IO_CHAR_ADDR left
                        \* on stdout
    loaded,             \* the loader's place: segment and byte
    ptable, resp,       \* the page table; the last access to memory
    num_instr

options == <<args, infile_name, outfile, debug_level>>
flags   == <<terminate, ignore_input, log>>
vars    == <<phase, options, flags, printed, loaded, ptable, resp, num_instr>>

Phases == {"args", "init", "load", "start", "memory", "fetch", "finalize", "exit"}

\* No access yet.
Silent == [op |-> "NONE"]

Init ==
    /\ phase = "args"
    /\ args = 0
    /\ infile_name = Missing /\ outfile = "stdout" /\ debug_level = 0
    /\ terminate = FALSE /\ ignore_input = FALSE
    /\ log = <<>> /\ printed = <<>>
    /\ loaded = <<1, 0>>
    /\ ptable = EmptyTable
    /\ resp = Silent
    /\ num_instr = 0

---------------------------------------------------------------------------
(* err_handler.c.                                                          *)

\* Mutants: terminate is set but not tested; output falls into the case of a
\* warning.
logging_goes_on(sev, msg) ==
    /\ log' = Append(log, [sev |-> sev, msg |-> msg])
    /\ terminate' = (terminate \/ sev = "FATAL")
    /\ UNCHANGED ignore_input
logging_once(sev, msg) ==
    /\ log' = IF terminate \/ ignore_input THEN log ELSE Append(log, [sev |-> sev, msg |-> msg])
    /\ terminate' = (terminate \/ sev = "FATAL")
    /\ ignore_input' = (ignore_input \/ (~terminate /\ sev # "FATAL"))

\* After a fatal message, nothing; after a warning or an error, no more of
\* those.
logging(sev, msg) ==
    LET refused == terminate \/ (sev \in {"WARNING", "ERROR"} /\ ignore_input)
    IN  /\ log' = IF refused THEN log ELSE Append(log, [sev |-> sev, msg |-> msg])
        /\ terminate' = (terminate \/ sev = "FATAL")
        /\ ignore_input' = (ignore_input \/ (~refused /\ sev \in {"WARNING", "ERROR"}))

---------------------------------------------------------------------------
(* handle_args and init.                                                   *)

Option ==
    /\ phase = "args" /\ args < MaxArgs
    /\ args' = args + 1
    /\ UNCHANGED <<printed, loaded, ptable, resp, num_instr>>

OptionInput(f) ==
    /\ Option
    /\ infile_name' = f
    /\ UNCHANGED <<phase, outfile, debug_level, flags>>

OptionOutput ==
    /\ Option
    /\ outfile' = "file"
    /\ UNCHANGED <<phase, infile_name, debug_level, flags>>

\* fopen failed: the rest of the command line is not read.
OptionOutputFails ==
    /\ Option
    /\ outfile' = "NULL"
    /\ logging("FATAL", "output file")
    /\ phase' = "init"
    /\ UNCHANGED <<infile_name, debug_level>>

\* Any argument but 0 and 2 means 1.
OptionVerbose(level) ==
    /\ Option
    /\ debug_level' = level
    /\ UNCHANGED <<phase, infile_name, outfile, flags>>

EndOfArgs ==
    /\ phase = "args"
    /\ phase' = "init"
    /\ UNCHANGED <<options, flags, printed, loaded, ptable, resp, num_instr>>

\* init takes back what -o set.
Initialise ==
    /\ phase = "init"
    /\ phase' = "load"
    /\ outfile' = "stdout"
    /\ UNCHANGED <<args, infile_name, debug_level, flags, printed, loaded,
                   ptable, resp, num_instr>>

---------------------------------------------------------------------------
(* mem.c: one call of _mem_write or _mem_read, and where main goes on.     *)

\* Without a fault at `next'.  Narrower stores to IO_CHAR_ADDR print, too, but
\* are not logged (mem.c:153-155); they are left out of `printed'.
Write(addr, data, next) ==
    /\ IF addr = RET_FROM_MAIN_ADDR
       THEN phase' = "exit" /\ resp' = [op |-> "ABORT"]         \* assert(false)
       ELSE phase' = next /\ resp' = [op |-> "WRITE", addr |-> addr, val |-> data]
    /\ ptable' = IF is_special_addr(addr) THEN ptable
                 ELSE TableWritten(ptable, addr, data, Cardinality(DOMAIN data))
    /\ IF addr = IO_CHAR_ADDR /\ Cardinality(DOMAIN data) = LONG
       THEN printed' = Append(printed, data) /\ logging("OUTPUT", data)
       ELSE UNCHANGED <<printed, flags>>

\* What scanf leaves in an uninitialised variable, input or no input, is any
\* value.
Read(addr, width, next) ==
    /\ UNCHANGED printed
    /\ IF addr = NULL_ADDR
       THEN /\ logging("FATAL", "null pointer")
            /\ phase' = "exit" /\ resp' = [op |-> "EXIT"]
            /\ UNCHANGED ptable
       ELSE /\ UNCHANGED flags
            /\ phase' = next
            /\ ptable' = IF is_special_addr(addr) THEN ptable
                         ELSE TableRead(ptable, addr, width)
            /\ \E val \in CASE addr = IO_CHAR_ADDR       -> [0 .. width - 1 -> Byte]
                            [] addr = RET_FROM_MAIN_ADDR -> {[k \in 0 .. width - 1 |-> ZeroByte]}
                            [] OTHER                     -> {ValueAt(ptable, addr, width)} :
                  resp' = [op |-> "READ", addr |-> addr, val |-> val]

---------------------------------------------------------------------------
(* loadElf.                                                                *)

\* open fails, or the file is not ET_EXEC.
LoadFails ==
    /\ phase = "load"
    /\ infile_name # Missing => ~infile_name.exec
    /\ phase' = "exit"
    /\ UNCHANGED <<options, flags, printed, loaded, ptable, resp, num_instr>>

Loading == phase = "load" /\ infile_name # Missing /\ infile_name.exec

\* Mutant: the program header is not advanced with the segment.
LoadAddressOfFirst(seg, j) == (infile_name.segs[1].vaddr + j) % SPACE

LoadAddress(seg, j) == (seg.vaddr + j) % SPACE

LoadByte ==
    /\ Loading
    /\ loaded[1] \in DOMAIN infile_name.segs
    /\ LET seg == infile_name.segs[loaded[1]]
           j   == loaded[2]
       IN  /\ j < Len(seg.data)
           /\ Write(LoadAddress(seg, j), [k \in {0} |-> seg.data[j + 1]], "load")
           /\ loaded' = <<loaded[1], j + 1>>
    /\ UNCHANGED <<options, num_instr>>

\* A segment may have no bytes in the file at all.
NextSegment ==
    /\ Loading
    /\ loaded[1] \in DOMAIN infile_name.segs
    /\ loaded[2] = Len(infile_name.segs[loaded[1]].data)
    /\ loaded' = <<loaded[1] + 1, 0>>
    /\ UNCHANGED <<phase, options, flags, printed, ptable, resp, num_instr>>

LoadDone ==
    /\ Loading
    /\ loaded[1] \notin DOMAIN infile_name.segs
    /\ phase' = "start"
    /\ UNCHANGED <<options, flags, printed, loaded, ptable, resp, num_instr>>

---------------------------------------------------------------------------
(* runElf: a cycle makes at most one data access, in M, and then fetches.  *)

Start ==
    /\ phase = "start"
    /\ phase' = "memory"
    /\ num_instr' = 0
    /\ UNCHANGED <<options, flags, printed, loaded, ptable, resp>>

\* M holds a bubble in the first cycle, and when its instruction is no
\* access.
MemoryIdle ==
    /\ phase = "memory"
    /\ phase' = "fetch"
    /\ UNCHANGED <<options, flags, printed, loaded, ptable, resp, num_instr>>

MemoryRead(addr, width) ==
    /\ phase = "memory" /\ num_instr > 0
    /\ Read(addr, width, "fetch")
    /\ UNCHANGED <<options, loaded, num_instr>>

MemoryWrite(addr, data) ==
    /\ phase = "memory" /\ num_instr > 0
    /\ Write(addr, data, "fetch")
    /\ UNCHANGED <<options, loaded, num_instr>>

\* Mutants: the cycles are not counted; they are counted in two places.
CyclesForever == 0
CyclesTwice == num_instr + 2

Cycles == num_instr + 1

\* The first fetch is at the entry point; a cycle whose decode has the RET
\* from main, or the last allowed, ends the loop.
Fetch(addr) ==
    /\ phase = "fetch"
    /\ num_instr = 0 => addr = infile_name.entry
    /\ num_instr' = Cycles
    /\ \E next \in IF Cycles < MAX_NUM_INSTR THEN {"memory", "finalize"} ELSE {"finalize"} :
          Read(addr, FETCH, next)
    /\ UNCHANGED <<options, loaded>>

Finalize ==
    /\ phase = "finalize"
    /\ phase' = "exit"
    /\ UNCHANGED <<options, flags, printed, loaded, ptable, resp, num_instr>>

Next ==
    \/ \E f \in Files : OptionInput(f)
    \/ OptionOutput
    \/ OptionOutputFails
    \/ \E level \in 0 .. 2 : OptionVerbose(level)
    \/ EndOfArgs
    \/ Initialise
    \/ LoadFails
    \/ LoadByte
    \/ NextSegment
    \/ LoadDone
    \/ Start
    \/ MemoryIdle
    \/ \E addr \in ReadAddrs, width \in Widths : MemoryRead(addr, width)
    \/ \E addr \in WriteAddrs, data \in Words : MemoryWrite(addr, data)
    \/ \E addr \in FetchAddrs : Fetch(addr)
    \/ Finalize

Spec == Init /\ [][Next]_vars

\* The program runs; a read from standard input gets a line or its end.
FairSpec == Spec /\ WF_vars(Next)

---------------------------------------------------------------------------
(* The variables have their types; a page has its bytes.                   *)
TypeOK ==
    /\ phase \in Phases /\ args \in 0 .. MaxArgs
    /\ infile_name \in Files \cup {Missing}
    /\ outfile \in {"stdout", "file", "NULL"} /\ debug_level \in 0 .. 2
    /\ terminate \in BOOLEAN /\ ignore_input \in BOOLEAN
    /\ num_instr \in 0 .. MAX_NUM_INSTR
    /\ \A h \in Buckets : \A n \in DOMAIN ptable[h] :
          ptable[h][n].p_num \in PageNums
          /\ ptable[h][n].p_data \in [0 .. PAGESIZE - 1 -> Byte]

(* No page is in the table twice (ptable.c:31, 40): whatever the loader and *)
(* the guest touch, and in which order, a page is found where it was added. *)
PagesDistinct == PagesOnce(ptable)

Flat == INSTANCE FlatMemory WITH
    flat <- Bytes(ptable),
    Image <- [a \in Addresses |-> ZeroByte],
    ReadAddrs <- Addresses, WriteAddrs <- Addresses,
    Widths <- Widths \cup {FETCH, 1},
    Words <- Words \cup [{0} -> Byte],
    Devices <- {IO_CHAR_ADDR, RET_FROM_MAIN_ADDR}

(* mem.h:43, 55 hold of the page table: pages come and go unseen (a load    *)
(* may add one), an access that crosses pages, segments or the end of the   *)
(* address space reaches each of its bytes, and the special addresses leave *)
(* memory alone.                                                            *)
ImplementsFlat == Flat!FlatSpec

\* The byte at address a that the last of some segments put there.
CoveringByte(segs, covers, a) ==
    IF covers = {} \/ is_special_addr(a) THEN ZeroByte
    ELSE LET n == CHOOSE n \in covers : \A k \in covers : k <= n
         IN  segs[n].data[((a - segs[n].vaddr) % SPACE) + 1]

FileByte(f, a) ==
    LET covers == {n \in DOMAIN f.segs : (a - f.segs[n].vaddr) % SPACE < Len(f.segs[n].data)}
    IN  CoveringByte(f.segs, covers, a)

(* When the guest starts, memory is the image of the file: the bytes of     *)
(* each PT_LOAD segment at its address, segments that share a page side by  *)
(* side in it, and zero everywhere else (a segment's p_memsz is not read,   *)
(* elf_loader.c:58: its .bss is what calloc left in a page).                *)
ImageLoaded ==
    phase = "start" =>
        \A a \in Addresses : Bytes(ptable)[a] = FileByte(infile_name, a)

(* What the guest prints by doublewords is logged as it is printed          *)
(* (mem.c:157-160), line for line, until a fatal error closes the log: if   *)
(* it was one of the command line the program still runs, and the log says  *)
(* nothing of it.                                                           *)
OutputLogged ==
    /\ terminate <=> \E n \in DOMAIN log : log[n].sev = "FATAL"
    /\ \A n \in DOMAIN log : log[n].sev # "FATAL" =>
          n \in DOMAIN printed /\ log[n] = [sev |-> "OUTPUT", msg |-> printed[n]]
    /\ ~terminate => Len(log) = Len(printed)

(* err_handler.c:56: a fatal message is the last line of the log, whatever  *)
(* the program does after it.                                               *)
FatalIsLast == \A n \in DOMAIN log : log[n].sev = "FATAL" => n = Len(log)

(* "MAX_NUM_INSTR" (proc.c:119): with any guest the program ends.           *)
Terminates == <>(phase = "exit")
============================================================================
