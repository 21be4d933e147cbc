---------------------------- MODULE PagedMemory ----------------------------
(***************************************************************************)
(* The page table (src/src/ptable.c) and the memory on top of it           *)
(* (src/src/mem.c without CACHE, and with it everything that does not go   *)
(* through the cache: instruction fetch, the loader, the special           *)
(* addresses).                                                             *)
(*                                                                         *)
(* A page comes into being when it is first touched, by a load as well as  *)
(* by a store.  Each bucket of the hash table is a chain, here a sequence, *)
(* with the newest page first.  The hash itself only spreads the pages     *)
(* over the buckets, so any function will do.  A value is a function from  *)
(* byte position, 0 the lowest, to byte.                                   *)
(***************************************************************************)
EXTENDS Integers, Sequences, FiniteSets

CONSTANTS
    SPACE,              \* number of addresses: 2^64
    PAGESIZE,
    ptable_hash,        \* page number -> bucket
    Byte, ZeroByte,     \* byte values, and what calloc leaves in a page
    NULL_ADDR, IO_CHAR_ADDR, RET_FROM_MAIN_ADDR,
    seg_start_addr,     \* segment number -> its first address
    seg_prot,           \* segment number -> protection bits
    code_order, data_order

TEXT_SEG == 1
DATA_SEG == 2
KERNEL_SEG == 6

Addresses   == 0 .. SPACE - 1
PageNums    == {a \div PAGESIZE : a \in Addresses}
Buckets     == {ptable_hash[p] : p \in PageNums}

ASSUME PagingAssumption ==
    /\ SPACE \in Nat /\ PAGESIZE \in Nat \ {0}
    /\ DOMAIN ptable_hash = PageNums
    /\ ZeroByte \in Byte
    /\ {NULL_ADDR, IO_CHAR_ADDR, RET_FROM_MAIN_ADDR} \subseteq Addresses
    /\ seg_start_addr \in [0 .. KERNEL_SEG -> Addresses] /\ seg_start_addr[0] = 0
    /\ {code_order, data_order} \subseteq {"L_ENDIAN", "B_ENDIAN"}

is_special_addr(addr) == addr \in {NULL_ADDR, IO_CHAR_ADDR, RET_FROM_MAIN_ADDR}

get_byte_order(addr) ==
    IF seg_start_addr[TEXT_SEG] <= addr /\ addr < seg_start_addr[DATA_SEG]
    THEN code_order ELSE data_order

get_prot_bits(addr) ==
    LET segs == {i \in 0 .. KERNEL_SEG - 1 :
                    seg_start_addr[i] <= addr /\ addr < seg_start_addr[i + 1]}
    IN  IF segs = {} THEN seg_prot[KERNEL_SEG]
        ELSE seg_prot[CHOOSE i \in segs : \A j \in segs : i <= j]

---------------------------------------------------------------------------
(* ptable.c.  t is the table: bucket -> chain of pages.                    *)

EmptyTable == [h \in Buckets |-> <<>>]

\* Mutant: only the head of the chain is looked at.
InTableHeadOnly(t, pnum) ==
    LET chain == t[ptable_hash[pnum]] IN chain # <<>> /\ chain[1].p_num = pnum

\* get_page does not return NULL.
InTable(t, pnum) ==
    LET chain == t[ptable_hash[pnum]] IN \E k \in DOMAIN chain : chain[k].p_num = pnum

\* The place in its chain of the page found, when it is in the table.
get_page(t, pnum) ==
    LET chain == t[ptable_hash[pnum]]
        found == {k \in DOMAIN chain : chain[k].p_num = pnum}
    IN  CHOOSE k \in found : \A j \in found : k <= j

add_page(t, num, prot) ==
    LET npage == [p_num |-> num, p_prot |-> prot,
                  p_data |-> [o \in 0 .. PAGESIZE - 1 |-> ZeroByte]]
    IN  [t EXCEPT ![ptable_hash[num]] = <<npage>> \o @]

---------------------------------------------------------------------------
(* Bytes and values.                                                       *)

\* The table once the page of addr is there: a load gives a new page its
\* segment's protection, a store gives it all (mem.c:123).
Touched(t, addr, prot) ==
    IF InTable(t, addr \div PAGESIZE) THEN t ELSE add_page(t, addr \div PAGESIZE, prot)

\* The byte at addr; where no page is yet, the zero of a new one.
_mem_read_byte(t, addr) ==
    LET pnum == addr \div PAGESIZE
    IN  IF InTable(t, pnum)
        THEN t[ptable_hash[pnum]][get_page(t, pnum)].p_data[addr % PAGESIZE]
        ELSE ZeroByte

_mem_write_byte(t, addr, data) ==
    LET pnum  == addr \div PAGESIZE
        t2    == Touched(t, addr, 7)
        chain == t2[ptable_hash[pnum]]
        page  == chain[get_page(t2, pnum)]
        npage == [page EXCEPT !.p_data = [@ EXCEPT ![addr % PAGESIZE] = data]]
    IN  [t2 EXCEPT ![ptable_hash[pnum]] = [@ EXCEPT ![get_page(t2, pnum)] = npage]]

\* Mutant: an access does not run on past the end of the address space.
PlaceUnwrapped(addr, k, width) ==
    LET a == IF get_byte_order(addr) = "L_ENDIAN" THEN addr + k ELSE addr + width - 1 - k
    IN  IF a < SPACE THEN a ELSE SPACE - 1

\* The address of byte k of a value of `width' bytes at addr; the byte order
\* is that of the first address for all of them.
Place(addr, k, width) ==
    (IF get_byte_order(addr) = "L_ENDIAN" THEN addr + k ELSE addr + width - 1 - k) % SPACE

\* The value at addr, and the table the loop of _mem_read_LE leaves, which
\* comes to the highest byte first, or that of _mem_read_BE, likewise.
ValueAt(t, addr, width) == [k \in 0 .. width - 1 |-> _mem_read_byte(t, Place(addr, k, width))]

TableRead(t, addr, width) ==
    LET after[i \in 0 .. width] ==
            IF i = 0 THEN t
            ELSE LET a == Place(addr, width - i, width)
                 IN  Touched(after[i - 1], a, get_prot_bits(a))
    IN  after[width]

\* The table after _mem_write_LE, lowest byte first, or _mem_write_BE, whose
\* first byte is the highest.
TableWritten(t, addr, data, width) ==
    LET after[i \in 0 .. width] ==
            IF i = 0 THEN t
            ELSE LET k == IF get_byte_order(addr) = "L_ENDIAN" THEN i - 1 ELSE width - i
                 IN  _mem_write_byte(after[i - 1], Place(addr, k, width), data[k])
    IN  after[width]

\* Memory as a program sees it, through get_page.
Bytes(t) == [a \in Addresses |-> _mem_read_byte(t, a)]

(* No page is in the table twice, and each is in the bucket get_page and    *)
(* add_page look for it in: a page shadowed by a newer one has lost its     *)
(* bytes, though both are still there.                                      *)
PagesOnce(t) ==
    \A h \in Buckets : \A i, j \in DOMAIN t[h] :
        /\ ptable_hash[t[h][i].p_num] = h
        /\ t[h][i].p_num = t[h][j].p_num => i = j
============================================================================
