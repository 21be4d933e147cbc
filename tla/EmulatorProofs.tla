--------------------------- MODULE EmulatorProofs ---------------------------
(***************************************************************************)
(* The emulator around its processor, for every file, guest, size of the   *)
(* address space and of a page, hash, and number of cycles: the log, the   *)
(* page table, the image the loader leaves, and memory as the guest sees   *)
(* it.  First the page table, which keeps each page once and each byte at  *)
(* its address, then the emulator that uses it.                            *)
(***************************************************************************)
EXTENDS Emulator, FiniteSetTheorems, WellFoundedInduction, TLAPS

---------------------------------------------------------------------------
(* The page table.                                                         *)

Prots  == {seg_prot[n] : n \in 0 .. KERNEL_SEG} \cup {7}
Page   == [p_num : PageNums, p_prot : Prots, p_data : [0 .. PAGESIZE - 1 -> Byte]]

\* The tables there can be.
Tables == {t \in [Buckets -> Seq(Page)] : PagesOnce(t)}

(* Every non-empty set of naturals has a least element.                    *)
LEMMA LeastExists ==
    ASSUME NEW T \in SUBSET Nat, T # {}
    PROVE  \E x \in T : \A y \in T : x <= y
<1>1. PICK x \in T : \A y \in T : ~(<<y, x>> \in OpToRel(<, Nat))
  BY NatLessThanWellFounded, WFMin
<1>2. \A y \in T : ~(y < x)
  BY <1>1 DEF OpToRel
<1>3. \A y \in T : x <= y
  BY <1>2
<1> QED
  BY <1>3

---------------------------------------------------------------------------
(* A loop of the code, as a recursive function.                            *)

(* What each round keeps, all of them keep.                                 *)
LEMMA RoundsKeep ==
    ASSUME NEW T, NEW w \in Nat, NEW f, f[0] \in T,
           \A n \in 1 .. w : f[n - 1] \in T => f[n] \in T
    PROVE  \A n \in 0 .. w : f[n] \in T
<1> DEFINE Bad == {n \in 0 .. w : f[n] \notin T}
<1> SUFFICES ASSUME Bad # {} PROVE FALSE
  OBVIOUS
<1>1. PICK m \in Bad : \A n \in Bad : m <= n
  <2>1. Bad \in SUBSET Nat
    OBVIOUS
  <2> HIDE DEF Bad
  <2> QED
    BY <2>1, LeastExists
<1>2. m \in 1 .. w
  BY m # 0
<1>3. f[m - 1] \in T
  BY <1>1, <1>2
<1> QED
  BY <1>2, <1>3

\* g takes the number of a round to what it leaves, w rounds of F from t on.
Rounds(g, T, t, w, F) ==
    /\ g \in [0 .. w -> T]
    /\ g[0] = t
    /\ \A n \in 1 .. w : g[n] = F[<<g[n - 1], n>>]

(* A recursive function of the number of the round exists.                  *)
LEMMA RoundsExist ==
    ASSUME NEW T, NEW t \in T, NEW w \in Nat, NEW F \in [T \X (1 .. w) -> T]
    PROVE  \E g : Rounds(g, T, t, w, F)
<1> DEFINE Is(g, m) == Rounds(g, T, t, m, F)
           Bad == {m \in 0 .. w : ~ \E g : Is(g, m)}
<1>1. Bad = {}
  <2> SUFFICES ASSUME Bad # {} PROVE FALSE
    OBVIOUS
  <2>1. PICK m \in Bad : \A n \in Bad : m <= n
    <3>1. Bad \in SUBSET Nat
      OBVIOUS
    <3> HIDE DEF Bad
    <3> QED
      BY <3>1, LeastExists
  <2>2. m # 0
    <3>1. Is([n \in 0 .. 0 |-> t], 0)
      BY DEF Rounds
    <3> HIDE DEF Is
    <3> QED
      BY <3>1
  <2>3. m - 1 \in 0 .. w /\ m - 1 \notin Bad
    <3>1. m \in 0 .. w
      OBVIOUS
    <3> HIDE DEF Bad
    <3> QED
      BY <2>1, <2>2, <3>1
  <2>4. PICK g : Is(g, m - 1)
    BY <2>3
  <2> DEFINE h == [n \in 0 .. m |-> IF n = m THEN F[<<g[m - 1], m>>] ELSE g[n]]
  <2>5. h \in [0 .. m -> T]
    BY <2>2, <2>4 DEF Rounds
  <2>6. h[0] = t
    BY <2>2, <2>4 DEF Rounds
  <2>7. ASSUME NEW n \in 1 .. m PROVE h[n] = F[<<h[n - 1], n>>]
    <3>1. h[n - 1] = g[n - 1]
      BY <2>2
    <3>2. CASE n = m
      <4>1. h[m] = F[<<g[m - 1], m>>]
        OBVIOUS
      <4> HIDE DEF h
      <4> QED
        BY <3>1, <3>2, <4>1
    <3>3. CASE n # m
      <4>1. h[n] = g[n] /\ n \in 1 .. m - 1
        BY <2>2, <3>3
      <4> QED
        BY <2>4, <3>1, <4>1 DEF Rounds
    <3> QED
      BY <3>2, <3>3
  <2>8. Is(h, m)
    BY <2>5, <2>6, <2>7 DEF Rounds
  <2> QED
    <3> HIDE DEF Is, h
    <3> QED
      BY <2>8
<1>2. PICK g : Is(g, w)
  BY <1>1
<1> QED
  BY <1>2

---------------------------------------------------------------------------
(* ptable.c.                                                                *)

(* The page found is the one looked for.                                    *)
LEMMA PageFound ==
    ASSUME NEW t \in Tables, NEW pnum \in PageNums, InTable(t, pnum)
    PROVE  LET chain == t[ptable_hash[pnum]]
           IN  /\ get_page(t, pnum) \in DOMAIN chain
               /\ chain[get_page(t, pnum)].p_num = pnum
<1> DEFINE chain == t[ptable_hash[pnum]]
           found == {k \in DOMAIN chain : chain[k].p_num = pnum}
<1>1. chain \in Seq(Page)
  BY DEF Tables, Buckets
<1>2. found \in SUBSET Nat /\ found # {}
  BY <1>1 DEF InTable
<1>3. \E k \in found : \A j \in found : k <= j
  <2> HIDE DEF found
  <2> QED
    BY <1>2, LeastExists
<1>4. get_page(t, pnum) \in found
  BY <1>3, Zenon DEF get_page
<1> QED
  BY <1>4

(* A page that is not in the table may be added.                            *)
LEMMA AddedOnce ==
    ASSUME NEW t \in Tables, NEW num \in PageNums, NEW prot \in Prots,
           ~InTable(t, num)
    PROVE  /\ add_page(t, num, prot) \in Tables
           /\ InTable(add_page(t, num, prot), num)
<1> DEFINE npage == [p_num |-> num, p_prot |-> prot,
                     p_data |-> [o \in 0 .. PAGESIZE - 1 |-> ZeroByte]]
           b  == ptable_hash[num]
           t2 == add_page(t, num, prot)
<1>1. npage \in Page /\ npage.p_num = num
  BY PagingAssumption DEF Page
<1>2. b \in Buckets /\ t \in [Buckets -> Seq(Page)] /\ PagesOnce(t)
  BY DEF Buckets, Tables
<1>3. t2 = [t EXCEPT ![b] = <<npage>> \o @]
  BY DEF add_page
<1> HIDE DEF npage, b, t2
<1>4. /\ t2 \in [Buckets -> Seq(Page)]
      /\ \A h \in Buckets \ {b} : t2[h] = t[h]
      /\ t2[b] = <<npage>> \o t[b]
  BY <1>1, <1>2, <1>3
<1>5. /\ DOMAIN t2[b] = 1 .. Len(t[b]) + 1
      /\ t2[b][1] = npage
      /\ \A k \in DOMAIN t2[b] \ {1} : k - 1 \in DOMAIN t[b] /\ t2[b][k] = t[b][k - 1]
  BY <1>1, <1>2, <1>4
<1>6. \A k \in DOMAIN t[b] : t[b][k].p_num # num
  BY DEF InTable, b
<1>7. ASSUME NEW h \in Buckets, NEW k \in DOMAIN t2[h], NEW j \in DOMAIN t2[h]
      PROVE  /\ ptable_hash[t2[h][k].p_num] = h
             /\ t2[h][k].p_num = t2[h][j].p_num => k = j
  <2>1. CASE h # b
    BY <1>2, <1>4, <2>1 DEF PagesOnce
  <2>2. CASE h = b
    <3>1. \A n \in DOMAIN t2[b] \ {1} : /\ ptable_hash[t2[b][n].p_num] = b
                                        /\ t2[b][n].p_num # num
      BY <1>2, <1>5, <1>6 DEF PagesOnce
    <3>2. t2[b][1].p_num = num /\ ptable_hash[num] = b
      BY <1>1, <1>5 DEF b
    <3>3. CASE k = 1 \/ j = 1
      BY <2>2, <3>1, <3>2, <3>3
    <3>4. CASE k # 1 /\ j # 1
      <4>1. t2[b][k].p_num = t2[b][j].p_num => k - 1 = j - 1
        BY <1>2, <1>5, <2>2, <3>4 DEF PagesOnce
      <4>2. k \in Nat /\ j \in Nat
        BY <1>2, <1>5, <2>2
      <4> QED
        BY <2>2, <3>1, <3>4, <4>1, <4>2
    <3> QED
      BY <3>3, <3>4
  <2> QED
    BY <2>1, <2>2
<1>8. t2 \in Tables
  BY <1>4, <1>7 DEF Tables, PagesOnce
<1>9. InTable(t2, num)
  BY <1>1, <1>2, <1>5 DEF InTable, b
<1> QED
  BY <1>8, <1>9 DEF t2

(* The first address decides the order; every byte has an address.          *)
LEMMA PlaceTyped ==
    ASSUME NEW addr \in Addresses, NEW width \in Nat, NEW k \in Int
    PROVE  /\ Place(addr, k, width) \in Addresses
           /\ Place(addr, k, width) \div PAGESIZE \in PageNums
           /\ Place(addr, k, width) % PAGESIZE \in 0 .. PAGESIZE - 1
<1>1. addr \in Int /\ SPACE \in Nat \ {0} /\ PAGESIZE \in Nat \ {0}
  BY PagingAssumption DEF Addresses
<1>2. PICK x \in Int : Place(addr, k, width) = x % SPACE
  <2>1. addr + k \in Int /\ addr + width - 1 - k \in Int
    BY <1>1
  <2> QED
    BY <2>1 DEF Place
<1>3. x % SPACE \in 0 .. SPACE - 1
  BY <1>1
<1>4. Place(addr, k, width) \in Addresses
  BY <1>2, <1>3 DEF Addresses
<1>5. Place(addr, k, width) % PAGESIZE \in 0 .. PAGESIZE - 1
  BY <1>1, <1>2, <1>3
<1> QED
  BY <1>4, <1>5 DEF PageNums

(* Every address has protection bits.                                      *)
LEMMA ProtTyped ==
    ASSUME NEW addr \in Addresses PROVE get_prot_bits(addr) \in Prots
<1> DEFINE segs == {i \in 0 .. KERNEL_SEG - 1 :
                       seg_start_addr[i] <= addr /\ addr < seg_start_addr[i + 1]}
<1>1. CASE segs = {}
  BY <1>1 DEF get_prot_bits, Prots, KERNEL_SEG
<1>2. CASE segs # {}
  <2>1. segs \in SUBSET Nat /\ segs \subseteq 0 .. KERNEL_SEG
    BY DEF KERNEL_SEG
  <2>2. \E i \in segs : \A j \in segs : i <= j
    <3> HIDE DEF segs
    <3> QED
      BY <1>2, <2>1, LeastExists
  <2> DEFINE first == CHOOSE i \in segs : \A j \in segs : i <= j
  <2>3. first \in segs
    BY <2>2, Zenon
  <2>4. get_prot_bits(addr) = seg_prot[first]
    BY <1>2, Zenon DEF get_prot_bits
  <2> HIDE DEF first, segs
  <2> QED
    BY <2>1, <2>3, <2>4 DEF Prots
<1> QED
  BY <1>1, <1>2

(* Touching a page puts it in the table, once.                              *)
LEMMA TouchedOnce ==
    ASSUME NEW t \in Tables, NEW addr, addr \div PAGESIZE \in PageNums,
           NEW prot \in Prots
    PROVE  /\ Touched(t, addr, prot) \in Tables
           /\ InTable(Touched(t, addr, prot), addr \div PAGESIZE)
BY AddedOnce DEF Touched

(* Writing a byte changes the bytes of a page, not its number.              *)
LEMMA WriteByteOnce ==
    ASSUME NEW t \in Tables, NEW addr, addr \div PAGESIZE \in PageNums,
           addr % PAGESIZE \in 0 .. PAGESIZE - 1, NEW data \in Byte
    PROVE  _mem_write_byte(t, addr, data) \in Tables
<1> DEFINE pnum  == addr \div PAGESIZE
           t2    == Touched(t, addr, 7)
           b     == ptable_hash[pnum]
           n     == get_page(t2, pnum)
           page  == t2[b][n]
           npage == [page EXCEPT !.p_data = [@ EXCEPT ![addr % PAGESIZE] = data]]
           t3    == [t2 EXCEPT ![b] = [@ EXCEPT ![n] = npage]]
<1>1. t2 \in Tables /\ InTable(t2, pnum)
  BY TouchedOnce DEF Prots
<1>2. n \in DOMAIN t2[b] /\ page.p_num = pnum
  <2> HIDE DEF t2
  <2> QED
    BY <1>1, PageFound
<1>3. _mem_write_byte(t, addr, data) = t3
  BY DEF _mem_write_byte
<1>4. b \in Buckets /\ t2 \in [Buckets -> Seq(Page)] /\ PagesOnce(t2)
  <2>1. b \in Buckets
    BY DEF Buckets
  <2> HIDE DEF b, t2
  <2> QED
    BY <1>1, <2>1 DEF Tables
<1>5. npage \in Page /\ npage.p_num = page.p_num
  <2>1. page \in Page
    <3> HIDE DEF b, t2, n
    <3> QED
      BY <1>2, <1>4
  <2>2. page.p_data \in [0 .. PAGESIZE - 1 -> Byte]
    <3> HIDE DEF page
    <3> QED
      BY <2>1 DEF Page
  <2>3. [page.p_data EXCEPT ![addr % PAGESIZE] = data] \in [0 .. PAGESIZE - 1 -> Byte]
    <3> HIDE DEF page
    <3> QED
      BY <2>2
  <2> HIDE DEF page
  <2> QED
    BY <2>1, <2>3 DEF Page
<1> HIDE DEF pnum, t2, b, n, page, npage
<1>6. /\ t3[b] \in Seq(Page)
      /\ DOMAIN t3[b] = DOMAIN t2[b]
      /\ \A k \in DOMAIN t2[b] : t3[b][k].p_num = t2[b][k].p_num
  <2>1. t3[b] = [t2[b] EXCEPT ![n] = npage]
    BY <1>4
  <2>2. t2[b] \in Seq(Page)
    BY <1>4
  <2>3. page = t2[b][n]
    BY DEF page
  <2> HIDE DEF t3
  <2> QED
    BY <1>2, <1>5, <2>1, <2>2, <2>3
<1>7. \A h \in Buckets \ {b} : t3[h] = t2[h]
  BY <1>4
<1>8. t3 \in [Buckets -> Seq(Page)]
  <2>1. DOMAIN t3 = Buckets /\ t3 = [h \in Buckets |-> t3[h]]
    BY <1>4
  <2> HIDE DEF t3
  <2>2. \A h \in Buckets : t3[h] \in Seq(Page)
    BY <1>4, <1>6, <1>7
  <2> QED
    BY <2>1, <2>2
<1> HIDE DEF t3
<1>9. ASSUME NEW h \in Buckets
      PROVE  /\ DOMAIN t3[h] = DOMAIN t2[h]
             /\ \A k \in DOMAIN t2[h] : t3[h][k].p_num = t2[h][k].p_num
  BY <1>6, <1>7
<1>10. PagesOnce(t3)
  BY <1>4, <1>9 DEF PagesOnce
<1> QED
  BY <1>3, <1>8, <1>10 DEF Tables

(* The loop of _mem_read, round by round; each page stays in the table once. *)
LEMMA ReadRounds ==
    ASSUME NEW t \in Tables, NEW addr \in Addresses, NEW width \in Nat
    PROVE  \E g : /\ g \in [0 .. width -> Tables] /\ g[0] = t
                  /\ TableRead(t, addr, width) = g[width]
                  /\ \A n \in 1 .. width :
                        LET a == Place(addr, width - n, width)
                        IN  g[n] = Touched(g[n - 1], a, get_prot_bits(a))
<1> DEFINE At(i) == Place(addr, width - i, width)
           Round(x, i) == Touched(x, At(i), get_prot_bits(At(i)))
           F == [p \in Tables \X (1 .. width) |-> Round(p[1], p[2])]
           IsAfter(g) == g = [i \in 0 .. width |-> IF i = 0 THEN t ELSE Round(g[i - 1], i)]
           after == CHOOSE g : IsAfter(g)
<1>1. ASSUME NEW x \in Tables, NEW i \in 1 .. width PROVE Round(x, i) \in Tables
  <2>1. At(i) \in Addresses /\ At(i) \div PAGESIZE \in PageNums
    BY PlaceTyped
  <2>2. get_prot_bits(At(i)) \in Prots
    BY <2>1, ProtTyped
  <2> QED
    BY <2>1, <2>2, TouchedOnce
<1>2. TableRead(t, addr, width) = after[width]
  BY DEF TableRead
<1> HIDE DEF Round
<1>3. F \in [Tables \X (1 .. width) -> Tables]
  BY <1>1
<1>4. \E g : IsAfter(g)
  <2> HIDE DEF F
  <2>1. PICK g : Rounds(g, Tables, t, width, F)
    BY <1>3, RoundsExist
  <2>2. ASSUME NEW n \in 1 .. width PROVE g[n] = Round(g[n - 1], n)
    <3>1. n - 1 \in 0 .. width
      OBVIOUS
    <3>2. g[n - 1] \in Tables
      BY <2>1, <3>1, Zenon DEF Rounds
    <3> QED
      BY <2>1, <3>2 DEF F, Rounds
  <2>3. \A n \in 0 .. width : n # 0 => n \in 1 .. width
    OBVIOUS
  <2> QED
    BY <2>1, <2>2, <2>3 DEF Rounds
<1>5. IsAfter(after)
  <2> HIDE DEF IsAfter
  <2> QED
    BY <1>4
<1> HIDE DEF after
<1>6. after[0] \in Tables /\ \A n \in 1 .. width : after[n] = Round(after[n - 1], n)
  BY <1>5
<1>7. \A n \in 0 .. width : after[n] \in Tables
  BY <1>1, <1>6, RoundsKeep
<1>8. after \in [0 .. width -> Tables] /\ after[0] = t
  <2>1. DOMAIN after = 0 .. width /\ after = [n \in 0 .. width |-> after[n]]
    BY <1>5
  <2> QED
    BY <1>5, <1>7, <2>1
<1> QED
  BY <1>2, <1>6, <1>8 DEF Round

(* A load keeps each page in the table once.                                *)
LEMMA ReadOnce ==
    ASSUME NEW t \in Tables, NEW addr \in Addresses, NEW width \in Nat
    PROVE  TableRead(t, addr, width) \in Tables
  BY ReadRounds

\* g takes the number of a round of the loop of _mem_write to what it leaves.
WritesRounds(g, t, addr, data, width) ==
    /\ g \in [0 .. width -> Tables] /\ g[0] = t
    /\ TableWritten(t, addr, data, width) = g[width]
    /\ \A n \in 1 .. width :
          LET k == IF get_byte_order(addr) = "L_ENDIAN" THEN n - 1 ELSE width - n
          IN  g[n] = _mem_write_byte(g[n - 1], Place(addr, k, width), data[k])

(* The loop of _mem_write, round by round.                                  *)
LEMMA WriteRounds ==
    ASSUME NEW t \in Tables, NEW addr \in Addresses, NEW width \in Nat,
           NEW data \in [0 .. width - 1 -> Byte]
    PROVE  \E g : WritesRounds(g, t, addr, data, width)
<1> DEFINE Pos(i) == IF get_byte_order(addr) = "L_ENDIAN" THEN i - 1 ELSE width - i
           Round(x, i) == _mem_write_byte(x, Place(addr, Pos(i), width), data[Pos(i)])
           F == [p \in Tables \X (1 .. width) |-> Round(p[1], p[2])]
           IsAfter(g) == g = [i \in 0 .. width |-> IF i = 0 THEN t ELSE Round(g[i - 1], i)]
           after == CHOOSE g : IsAfter(g)
<1>1. ASSUME NEW x \in Tables, NEW i \in 1 .. width PROVE Round(x, i) \in Tables
  <2>1. Pos(i) \in 0 .. width - 1
    OBVIOUS
  <2> HIDE DEF Pos
  <2>2. /\ Place(addr, Pos(i), width) \div PAGESIZE \in PageNums
        /\ Place(addr, Pos(i), width) % PAGESIZE \in 0 .. PAGESIZE - 1
    <3>1. Pos(i) \in Int
      BY <2>1
    <3> QED
      BY <3>1, PlaceTyped
  <2>3. data[Pos(i)] \in Byte
    BY <2>1
  <2> QED
    BY <2>2, <2>3, WriteByteOnce
<1>2. TableWritten(t, addr, data, width) = after[width]
  BY DEF TableWritten
<1> HIDE DEF Round
<1>3. F \in [Tables \X (1 .. width) -> Tables]
  BY <1>1
<1>4. \E g : IsAfter(g)
  <2> HIDE DEF F
  <2>1. PICK g : Rounds(g, Tables, t, width, F)
    BY <1>3, RoundsExist
  <2>2. ASSUME NEW n \in 1 .. width PROVE g[n] = Round(g[n - 1], n)
    <3>1. n - 1 \in 0 .. width
      OBVIOUS
    <3>2. g[n - 1] \in Tables
      BY <2>1, <3>1, Zenon DEF Rounds
    <3> QED
      BY <2>1, <3>2 DEF F, Rounds
  <2>3. \A n \in 0 .. width : n # 0 => n \in 1 .. width
    OBVIOUS
  <2> QED
    BY <2>1, <2>2, <2>3 DEF Rounds
<1>5. IsAfter(after)
  <2> HIDE DEF IsAfter
  <2> QED
    BY <1>4
<1> HIDE DEF after
<1>6. after[0] \in Tables /\ \A n \in 1 .. width : after[n] = Round(after[n - 1], n)
  BY <1>5
<1>7. \A n \in 0 .. width : after[n] \in Tables
  BY <1>1, <1>6, RoundsKeep
<1>8. after \in [0 .. width -> Tables] /\ after[0] = t
  <2>1. DOMAIN after = 0 .. width /\ after = [n \in 0 .. width |-> after[n]]
    BY <1>5
  <2> QED
    BY <1>5, <1>7, <2>1
<1> QED
  BY <1>2, <1>6, <1>8 DEF Round, WritesRounds

(* A store keeps each page in the table once.                               *)
LEMMA WriteOnce ==
    ASSUME NEW t \in Tables, NEW addr \in Addresses, NEW width \in Nat,
           NEW data \in [0 .. width - 1 -> Byte]
    PROVE  TableWritten(t, addr, data, width) \in Tables
<1>1. PICK g : WritesRounds(g, t, addr, data, width)
  BY WriteRounds
<1> QED
  BY <1>1 DEF WritesRounds

---------------------------------------------------------------------------
(* The bytes.                                                               *)

(* The page with a number is the one get_page finds.                        *)
LEMMA PageIs ==
    ASSUME NEW t \in Tables, NEW pnum \in PageNums,
           NEW n \in DOMAIN t[ptable_hash[pnum]],
           t[ptable_hash[pnum]][n].p_num = pnum
    PROVE  InTable(t, pnum) /\ get_page(t, pnum) = n
<1>1. InTable(t, pnum)
  BY DEF InTable
<1>2. /\ get_page(t, pnum) \in DOMAIN t[ptable_hash[pnum]]
      /\ t[ptable_hash[pnum]][get_page(t, pnum)].p_num = pnum
  BY <1>1, PageFound
<1>3. ptable_hash[pnum] \in Buckets
  BY DEF Buckets
<1> QED
  BY <1>1, <1>2, <1>3 DEF Tables, PagesOnce

\* t2 has the page num, empty, and otherwise the pages of t.
HasAdded(t, num, t2, p) ==
    /\ InTable(t2, p) <=> (p = num \/ InTable(t, p))
    /\ p # num /\ InTable(t, p) =>
          t2[ptable_hash[p]][get_page(t2, p)] = t[ptable_hash[p]][get_page(t, p)]
    /\ p = num => t2[ptable_hash[p]][get_page(t2, p)].p_data =
                      [o \in 0 .. PAGESIZE - 1 |-> ZeroByte]

(* A page added keeps the others where they are found, and is all zeros.    *)
LEMMA AddedFound ==
    ASSUME NEW t \in Tables, NEW num \in PageNums, NEW prot \in Prots,
           ~InTable(t, num), NEW p \in PageNums
    PROVE  HasAdded(t, num, add_page(t, num, prot), p)
<1> DEFINE t2 == add_page(t, num, prot)
<1> DEFINE npage == [p_num |-> num, p_prot |-> prot,
                     p_data |-> [o \in 0 .. PAGESIZE - 1 |-> ZeroByte]]
           b == ptable_hash[num]
           h == ptable_hash[p]
<1> SUFFICES HasAdded(t, num, t2, p)
  OBVIOUS
<1>1. t2 \in Tables /\ InTable(t2, num)
  BY AddedOnce
<1>2. /\ b \in Buckets /\ h \in Buckets /\ t \in [Buckets -> Seq(Page)]
      /\ t2 = [t EXCEPT ![b] = <<npage>> \o t[b]]
  BY DEF Tables, Buckets, add_page
<1>3. npage \in Page /\ npage.p_num = num
      /\ npage.p_data = [o \in 0 .. PAGESIZE - 1 |-> ZeroByte]
  BY PagingAssumption DEF Page
<1> HIDE DEF npage, t2
<1>4. t[b] \in Seq(Page) /\ t2[b] = <<npage>> \o t[b] /\ (h # b => t2[h] = t[h])
  BY <1>2
<1>5. /\ 1 \in DOMAIN t2[b] /\ t2[b][1] = npage
      /\ \A n \in DOMAIN t[b] : n + 1 \in DOMAIN t2[b] /\ t2[b][n + 1] = t[b][n]
      /\ \A n \in DOMAIN t2[b] : n # 1 => n - 1 \in DOMAIN t[b] /\ t2[b][n] = t[b][n - 1]
  BY <1>3, <1>4
<1>6. CASE p = num
  <2>1. get_page(t2, p) = 1
    BY <1>1, <1>3, <1>5, <1>6, PageIs
  <2> QED
    BY <1>1, <1>3, <1>5, <1>6, <2>1 DEF HasAdded
<1>7. CASE p # num /\ InTable(t, p)
  <2> DEFINE n == get_page(t, p)
  <2>1. n \in DOMAIN t[h] /\ t[h][n].p_num = p
    BY <1>7, PageFound
  <2> HIDE DEF n
  <2>2. CASE h = b
    <3>1. n + 1 \in DOMAIN t2[h] /\ t2[h][n + 1] = t[h][n]
      BY <1>5, <2>1, <2>2
    <3>2. InTable(t2, p) /\ get_page(t2, p) = n + 1
      BY <1>1, <2>1, <3>1, PageIs
    <3> QED
      BY <1>7, <3>1, <3>2 DEF n, HasAdded
  <2>3. CASE h # b
    <3>1. n \in DOMAIN t2[h] /\ t2[h][n] = t[h][n]
      BY <1>4, <2>1, <2>3
    <3>2. InTable(t2, p) /\ get_page(t2, p) = n
      BY <1>1, <2>1, <3>1, PageIs
    <3> QED
      BY <1>7, <3>1, <3>2 DEF n, HasAdded
  <2> QED
    BY <2>2, <2>3
<1>8. CASE p # num /\ ~InTable(t, p)
  <2>1. ~InTable(t2, p)
    <3> SUFFICES ASSUME InTable(t2, p) PROVE FALSE
      OBVIOUS
    <3>1. PICK n \in DOMAIN t2[h] : t2[h][n].p_num = p
      BY DEF InTable
    <3>2. CASE h = b
      <4>1. n # 1
        BY <1>3, <1>5, <1>8, <3>1, <3>2
      <4>2. n - 1 \in DOMAIN t[h] /\ t[h][n - 1].p_num = p
        BY <1>5, <3>1, <3>2, <4>1
      <4> QED
        BY <1>8, <4>2 DEF InTable
    <3>3. CASE h # b
      BY <1>4, <1>8, <3>1, <3>3 DEF InTable
    <3> QED
      BY <3>2, <3>3
  <2> QED
    BY <1>8, <2>1 DEF HasAdded
<1> QED
  BY <1>6, <1>7, <1>8

(* An address is on a page, at an offset.                                   *)
LEMMA OnPage ==
    ASSUME NEW a \in Addresses
    PROVE  a \div PAGESIZE \in PageNums /\ a % PAGESIZE \in 0 .. PAGESIZE - 1
<1>1. a \in Nat /\ PAGESIZE \in Nat \ {0}
  BY PagingAssumption DEF Addresses
<1>2. a % PAGESIZE \in 0 .. PAGESIZE - 1
  BY <1>1
<1> QED
  BY <1>2 DEF PageNums

(* Touching a page changes no byte: a new one holds the zeros that were     *)
(* read before it was there.                                                *)
LEMMA TouchedBytes ==
    ASSUME NEW t \in Tables, NEW addr \in Addresses, NEW prot \in Prots
    PROVE  Bytes(Touched(t, addr, prot)) = Bytes(t)
<1> DEFINE num == addr \div PAGESIZE
           t2  == Touched(t, addr, prot)
<1>1. num \in PageNums
  BY OnPage
<1>2. ASSUME NEW a \in Addresses
      PROVE  _mem_read_byte(t2, a) = _mem_read_byte(t, a)
  <2> DEFINE p == a \div PAGESIZE
             o == a % PAGESIZE
  <2>1. p \in PageNums /\ o \in 0 .. PAGESIZE - 1
    BY OnPage
  <2>2. CASE InTable(t, num)
    BY <2>2 DEF Touched
  <2>3. CASE ~InTable(t, num)
    <3>1. t2 = add_page(t, num, prot)
      BY <2>3 DEF Touched
    <3> HIDE DEF t2, num, p, o
    <3>2. HasAdded(t, num, t2, p)
      BY <1>1, <2>1, <2>3, <3>1, AddedFound
    <3>3. ~InTable(t, num)
      BY <2>3
    <3>4. /\ _mem_read_byte(t2, a) = IF InTable(t2, p)
                                    THEN t2[ptable_hash[p]][get_page(t2, p)].p_data[o]
                                    ELSE ZeroByte
          /\ _mem_read_byte(t, a) = IF InTable(t, p)
                                   THEN t[ptable_hash[p]][get_page(t, p)].p_data[o]
                                   ELSE ZeroByte
      BY DEF _mem_read_byte, p, o
    <3>5. CASE p = num
      <4>1. _mem_read_byte(t, a) = ZeroByte
        BY <3>3, <3>4, <3>5
      <4>2. /\ InTable(t2, p)
            /\ t2[ptable_hash[p]][get_page(t2, p)].p_data =
                  [k \in 0 .. PAGESIZE - 1 |-> ZeroByte]
        BY <3>2, <3>5 DEF HasAdded
      <4>3. _mem_read_byte(t2, a) = ZeroByte
        BY <2>1, <3>4, <4>2
      <4> QED
        BY <4>1, <4>3
    <3>6. CASE p # num
      BY <3>2, <3>4, <3>6 DEF HasAdded
    <3> QED
      BY <3>5, <3>6
  <2> QED
    BY <2>2, <2>3
<1> HIDE DEF t2
<1>3. Bytes(t2) = Bytes(t)
  BY <1>2 DEF Bytes
<1> QED
  BY <1>3 DEF t2

(* An address is its page and its offset.                                   *)
LEMMA SameAddress ==
    ASSUME NEW a \in Addresses, NEW b \in Addresses,
           a \div PAGESIZE = b \div PAGESIZE, a % PAGESIZE = b % PAGESIZE
    PROVE  a = b
<1>1. PAGESIZE \in Nat \ {0} /\ a \in Nat /\ b \in Nat
  BY PagingAssumption DEF Addresses
<1>2. /\ a = PAGESIZE * (a \div PAGESIZE) + (a % PAGESIZE)
      /\ b = PAGESIZE * (b \div PAGESIZE) + (b % PAGESIZE)
  BY <1>1
<1> QED
  BY <1>2

(* Writing a byte changes that byte.                                        *)
LEMMA WrittenByte ==
    ASSUME NEW t \in Tables, NEW b \in Addresses, NEW data \in Byte, NEW a \in Addresses
    PROVE  _mem_read_byte(_mem_write_byte(t, b, data), a) =
              IF a = b THEN data ELSE _mem_read_byte(t, a)
<1> DEFINE num == b \div PAGESIZE
           off == b % PAGESIZE
           p   == a \div PAGESIZE
           o   == a % PAGESIZE
           t2  == Touched(t, b, 7)
           h   == ptable_hash[num]
           n   == get_page(t2, num)
           page  == t2[h][n]
           npage == [page EXCEPT !.p_data = [@ EXCEPT ![off] = data]]
           t3  == _mem_write_byte(t, b, data)
<1>1. /\ num \in PageNums /\ off \in 0 .. PAGESIZE - 1
      /\ p \in PageNums /\ o \in 0 .. PAGESIZE - 1
  BY OnPage
<1>2. t2 \in Tables /\ InTable(t2, num) /\ t3 \in Tables
  BY <1>1, TouchedOnce, WriteByteOnce DEF Prots
<1>3. _mem_read_byte(t2, a) = _mem_read_byte(t, a)
  <2>1. Bytes(t2)[a] = Bytes(t)[a]
    BY TouchedBytes DEF Prots
  <2> QED
    BY <2>1 DEF Bytes
<1>4. t3 = [t2 EXCEPT ![h] = [t2[h] EXCEPT ![n] = npage]]
  BY DEF _mem_write_byte
<1>5. /\ _mem_read_byte(t3, a) = IF InTable(t3, p)
                                THEN t3[ptable_hash[p]][get_page(t3, p)].p_data[o]
                                ELSE ZeroByte
      /\ _mem_read_byte(t2, a) = IF InTable(t2, p)
                                THEN t2[ptable_hash[p]][get_page(t2, p)].p_data[o]
                                ELSE ZeroByte
  BY DEF _mem_read_byte
<1>6. a = b <=> (p = num /\ o = off)
  BY SameAddress
<1>7. n \in DOMAIN t2[h] /\ page.p_num = num
  <2> HIDE DEF t2
  <2> QED
    BY <1>1, <1>2, PageFound
<1> SUFFICES _mem_read_byte(t3, a) = IF a = b THEN data ELSE _mem_read_byte(t, a)
  OBVIOUS
<1> HIDE DEF num, off, p, o, t2, h, n, t3, page, npage
<1>8. /\ h \in Buckets /\ ptable_hash[p] \in Buckets
      /\ t2 \in [Buckets -> Seq(Page)]
  BY <1>1, <1>2 DEF Tables, Buckets, h
<1>9. page \in Page
  BY <1>7, <1>8 DEF page
<1>10. npage.p_num = num /\ npage.p_data = [page.p_data EXCEPT ![off] = data]
  BY <1>7, <1>9 DEF Page, npage
<1>11. /\ t3[h] = [t2[h] EXCEPT ![n] = npage] /\ t3[h][n] = npage
       /\ DOMAIN t3[h] = DOMAIN t2[h]
       /\ \A k \in DOMAIN t2[h] : k # n => t3[h][k] = t2[h][k]
       /\ \A g \in Buckets : g # h => t3[g] = t2[g]
  BY <1>4, <1>7, <1>8
<1>12. CASE p = num
  <2>1. InTable(t3, p) /\ get_page(t3, p) = n
    BY <1>1, <1>2, <1>7, <1>10, <1>11, <1>12, PageIs DEF h
  <2>2. ptable_hash[p] = h /\ InTable(t2, p) /\ get_page(t2, p) = n
    BY <1>2, <1>12 DEF h, n
  <2>3. /\ _mem_read_byte(t3, a) = npage.p_data[o]
        /\ _mem_read_byte(t2, a) = page.p_data[o]
    BY <1>5, <1>11, <2>1, <2>2 DEF page
  <2>4. page.p_data \in [0 .. PAGESIZE - 1 -> Byte]
    BY <1>9 DEF Page
  <2>5. npage.p_data[o] = IF o = off THEN data ELSE page.p_data[o]
    BY <1>1, <1>10, <2>4
  <2> QED
    BY <1>3, <1>6, <1>12, <2>3, <2>5
<1>13. CASE p # num
  <2> DEFINE g == ptable_hash[p]
  <2>1. /\ DOMAIN t3[g] = DOMAIN t2[g]
        /\ \A k \in DOMAIN t2[g] : /\ t3[g][k].p_num = t2[g][k].p_num
                                   /\ t3[g][k].p_num = p => t3[g][k] = t2[g][k]
    BY <1>7, <1>8, <1>10, <1>11, <1>13 DEF page
  <2> HIDE DEF g
  <2>2. InTable(t3, p) <=> InTable(t2, p)
    BY <2>1 DEF InTable, g
  <2>3. ASSUME InTable(t2, p)
        PROVE  t3[g][get_page(t3, p)] = t2[g][get_page(t2, p)]
    <3>1. get_page(t2, p) \in DOMAIN t2[g] /\ t2[g][get_page(t2, p)].p_num = p
      BY <1>1, <1>2, <2>3, PageFound DEF g
    <3>2. get_page(t3, p) = get_page(t2, p)
      BY <1>1, <1>2, <2>1, <3>1, PageIs DEF g
    <3> QED
      BY <2>1, <3>1, <3>2
  <2> QED
    BY <1>3, <1>5, <1>6, <1>13, <2>2, <2>3 DEF g
<1> QED
  BY <1>12, <1>13

(* A load changes no byte, though it may add pages.                         *)
LEMMA TableReadBytes ==
    ASSUME NEW t \in Tables, NEW addr \in Addresses, NEW width \in Nat
    PROVE  Bytes(TableRead(t, addr, width)) = Bytes(t)
<1> DEFINE At(n) == Place(addr, width - n, width)
           T == {x \in Tables : Bytes(x) = Bytes(t)}
<1>1. PICK g : /\ g \in [0 .. width -> Tables] /\ g[0] = t
               /\ TableRead(t, addr, width) = g[width]
               /\ \A n \in 1 .. width :
                     g[n] = Touched(g[n - 1], At(n), get_prot_bits(At(n)))
  BY ReadRounds
<1>2. ASSUME NEW n \in 1 .. width, g[n - 1] \in T PROVE g[n] \in T
  <2>1. At(n) \in Addresses
    BY PlaceTyped
  <2>2. get_prot_bits(At(n)) \in Prots
    BY <2>1, ProtTyped
  <2>3. g[n] \in Tables /\ g[n] = Touched(g[n - 1], At(n), get_prot_bits(At(n)))
    BY <1>1
  <2> HIDE DEF At
  <2>4. Bytes(g[n]) = Bytes(g[n - 1])
    BY <1>2, <2>1, <2>2, <2>3, TouchedBytes
  <2> QED
    BY <1>2, <2>3, <2>4
<1>3. g[0] \in T
  BY <1>1
<1> HIDE DEF T
<1>4. \A n \in 0 .. width : g[n] \in T
  BY <1>2, <1>3, RoundsKeep
<1> QED
  BY <1>1, <1>4 DEF T

---------------------------------------------------------------------------
(* interface.c:32, 33: main asks for little endian, text and data alike.    *)

LittleEndian == code_order = "L_ENDIAN" /\ data_order = "L_ENDIAN"

(* In little endian byte k of a value is k after its address.               *)
LEMMA PlaceLittle ==
    ASSUME LittleEndian, NEW addr, NEW k, NEW width
    PROVE  Place(addr, k, width) = (addr + k) % SPACE
  BY DEF LittleEndian, Place, get_byte_order

(* The remainder of a number that is less than the divisor away from one    *)
(* that is its own.                                                         *)
LEMMA Remainders ==
    ASSUME NEW x \in Int
    PROVE  /\ x \in 0 .. SPACE - 1 => (x % SPACE) = x
           /\ x \in SPACE .. 2 * SPACE - 1 => (x % SPACE) = x - SPACE
           /\ x \in -SPACE .. -1 => (x % SPACE) = x + SPACE
<1>1. SPACE \in Nat \ {0}
  BY PagingAssumption DEF Addresses
<1>2. (x % SPACE) \in 0 .. SPACE - 1 /\ (x \div SPACE) \in Int
      /\ x = SPACE * (x \div SPACE) + (x % SPACE)
  BY <1>1
<1>3. ASSUME NEW q \in Int, NEW r \in Int, r \in 0 .. SPACE - 1, x = SPACE * q + r
      PROVE  (x % SPACE) = r
  BY <1>1, <1>3
<1>4. ASSUME x \in 0 .. SPACE - 1 PROVE (x % SPACE) = x
  BY <1>1, <1>3, <1>4
<1>5. ASSUME x \in SPACE .. 2 * SPACE - 1 PROVE (x % SPACE) = x - SPACE
  <2>1. x = SPACE * 1 + (x - SPACE) /\ x - SPACE \in 0 .. SPACE - 1 /\ x - SPACE \in Int /\ 1 \in Int
    BY <1>1, <1>5
  <2> QED
    BY <1>3, <2>1
<1>6. ASSUME x \in -SPACE .. -1 PROVE (x % SPACE) = x + SPACE
  <2>1. x = SPACE * (-1) + (x + SPACE) /\ x + SPACE \in 0 .. SPACE - 1 /\ x + SPACE \in Int /\ -1 \in Int
    BY <1>1, <1>6
  <2> QED
    BY <1>3, <2>1
<1> QED
  BY <1>4, <1>5, <1>6

(* The address k after addr, and how far after addr an address is.          *)
LEMMA HowFar ==
    ASSUME NEW addr \in Addresses, NEW a \in Addresses, NEW k \in 0 .. SPACE - 1
    PROVE  /\ a = (addr + k) % SPACE <=> (a - addr) % SPACE = k
           /\ (a - addr) % SPACE \in 0 .. SPACE - 1
           /\ (addr + k) % SPACE \in Addresses
<1>1. SPACE \in Nat \ {0} /\ addr \in 0 .. SPACE - 1 /\ a \in 0 .. SPACE - 1
  BY PagingAssumption DEF Addresses
<1>2. /\ addr + k < SPACE => ((addr + k) % SPACE) = addr + k
      /\ addr + k >= SPACE => ((addr + k) % SPACE) = addr + k - SPACE
  BY <1>1, Remainders
<1>3. /\ a >= addr => ((a - addr) % SPACE) = a - addr
      /\ a < addr => ((a - addr) % SPACE) = a - addr + SPACE
  BY <1>1, Remainders
<1> QED
  BY <1>1, <1>2, <1>3 DEF Addresses

(* A store changes its bytes, lowest first, and no other.                   *)
LEMMA TableWrittenBytes ==
    ASSUME LittleEndian, NEW t \in Tables, NEW addr \in Addresses,
           NEW width \in 0 .. SPACE, NEW data \in [0 .. width - 1 -> Byte],
           NEW a \in Addresses
    PROVE  Bytes(TableWritten(t, addr, data, width))[a] =
              IF (a - addr) % SPACE \in 0 .. width - 1 THEN data[(a - addr) % SPACE]
              ELSE Bytes(t)[a]
<1> DEFINE far == (a - addr) % SPACE
           Want(n) == IF far < n THEN data[far] ELSE _mem_read_byte(t, a)
<1>1. SPACE \in Nat /\ width \in Nat
  BY PagingAssumption
<1>2. PICK g : WritesRounds(g, t, addr, data, width)
  BY <1>1, WriteRounds
<1>3. get_byte_order(addr) = "L_ENDIAN"
  BY DEF LittleEndian, get_byte_order
<1>4. ASSUME NEW n \in 1 .. width
      PROVE  _mem_read_byte(g[n], a) = IF far = n - 1 THEN data[far]
                                       ELSE _mem_read_byte(g[n - 1], a)
  <2>1. g[n] = _mem_write_byte(g[n - 1], (addr + (n - 1)) % SPACE, data[n - 1])
    BY <1>2, <1>3, PlaceLittle DEF WritesRounds
  <2>2. n - 1 \in 0 .. SPACE - 1 /\ n - 1 \in 0 .. width - 1 /\ n - 1 \in 0 .. width
    BY <1>1
  <2>3. g[n - 1] \in Tables /\ data[n - 1] \in Byte
    BY <1>2, <2>2 DEF WritesRounds
  <2>4. /\ a = (addr + (n - 1)) % SPACE <=> far = n - 1
        /\ (addr + (n - 1)) % SPACE \in Addresses
    BY <2>2, HowFar
  <2> HIDE DEF far
  <2> QED
    BY <2>1, <2>3, <2>4, WrittenByte
<1>5. far \in Nat
  <2>1. 0 \in 0 .. SPACE - 1
    BY PagingAssumption DEF Addresses
  <2> QED
    BY <2>1, HowFar
<1> HIDE DEF far
<1> DEFINE Bad == {n \in 0 .. width : _mem_read_byte(g[n], a) # Want(n)}
<1>6. Bad = {}
  <2> SUFFICES ASSUME Bad # {} PROVE FALSE
    OBVIOUS
  <2>1. PICK m \in Bad : \A n \in Bad : m <= n
    <3>1. Bad \in SUBSET Nat
      BY <1>1
    <3> HIDE DEF Bad
    <3> QED
      BY <3>1, LeastExists
  <2>2. m \in 1 .. width
    <3>1. 0 \notin Bad
      BY <1>2, <1>5 DEF WritesRounds
    <3> QED
      BY <3>1, <1>1
  <2>3. _mem_read_byte(g[m - 1], a) = Want(m - 1)
    <3>1. m - 1 \in 0 .. width /\ ~(m <= m - 1)
      BY <1>1, <2>2
    <3> QED
      BY <2>1, <3>1
  <2>4. _mem_read_byte(g[m], a) = Want(m)
    BY <1>4, <1>5, <2>2, <2>3
  <2> QED
    BY <2>1, <2>4
<1>7. _mem_read_byte(g[width], a) = Want(width)
  BY <1>1, <1>6
<1>8. far \in 0 .. width - 1 <=> far < width
  BY <1>1, <1>5
<1>9. /\ Bytes(TableWritten(t, addr, data, width))[a] = _mem_read_byte(g[width], a)
      /\ Bytes(t)[a] = _mem_read_byte(t, a)
  BY <1>2 DEF Bytes, WritesRounds
<1> QED
  BY <1>7, <1>8, <1>9 DEF far

---------------------------------------------------------------------------
(* The emulator.                                                           *)

(* The loader's place is a pair of numbers, and the file one of Files.      *)
PlaceInv == infile_name \in Files \cup {Missing} /\ loaded \in Nat \X Nat

LEMMA NextKeepsPlace == PlaceInv /\ [Next]_vars => PlaceInv'
<1> SUFFICES ASSUME PlaceInv, [Next]_vars PROVE PlaceInv'
  OBVIOUS
<1> USE DEF PlaceInv
<1>1. CASE UNCHANGED <<infile_name, loaded>>
  BY <1>1
<1>2. ASSUME NEW f \in Files, OptionInput(f) PROVE PlaceInv'
  BY <1>2 DEF OptionInput, Option
<1>3. CASE LoadByte
  <2>1. loaded' = <<loaded[1], loaded[2] + 1>> /\ UNCHANGED infile_name
    BY <1>3, Zenon DEF LoadByte, options
  <2> QED
    BY <2>1
<1>4. CASE NextSegment
  BY <1>4 DEF NextSegment, options
<1> QED
  BY <1>1, <1>2, <1>3, <1>4
  DEF Next, vars, options, Option, OptionOutput, OptionOutputFails, OptionVerbose,
      EndOfArgs, Initialise, LoadFails, LoadDone, Start, MemoryIdle, MemoryRead,
      MemoryWrite, Fetch, Finalize

\* A value the loader writes is one byte.
OneByte(byte) == [k \in {0} |-> byte]

LEMMA OneByteTyped ==
    ASSUME NEW byte \in Byte
    PROVE  OneByte(byte) \in [0 .. 1 - 1 -> Byte] /\ OneByte(byte) \in [{0} -> Byte]
  BY DEF OneByte

\* The loader at byte j of segment s of its file.
LoadsByte(s, j) ==
    LET seg == infile_name.segs[s]
    IN  /\ infile_name \in Files \ {Missing}
        /\ infile_name.segs \in Seq(Segment) /\ s \in 1 .. Len(infile_name.segs)
        /\ seg \in Segment /\ j \in Nat /\ j < Len(seg.data)
        /\ seg.data[j + 1] \in Byte /\ LoadAddress(seg, j) \in Addresses
        /\ Write(LoadAddress(seg, j), OneByte(seg.data[j + 1]), "load")

(* The loader writes a byte of its file at an address.                      *)
LEMMA LoadByteWrites ==
    ASSUME PlaceInv, LoadByte PROVE LoadsByte(loaded[1], loaded[2])
<1> DEFINE s == loaded[1]
           j == loaded[2]
           seg == infile_name.segs[s]
<1>1. /\ infile_name \in Files \ {Missing}
      /\ s \in DOMAIN infile_name.segs
      /\ j < Len(seg.data)
  BY Zenon DEF LoadByte, Loading, PlaceInv
<1>2. Write(LoadAddress(seg, j), OneByte(seg.data[j + 1]), "load")
  BY Zenon DEF LoadByte, OneByte
<1>3. infile_name.segs \in Seq(Segment)
  BY <1>1, EmulatorAssumption
<1>4. seg \in Segment /\ s \in 1 .. Len(infile_name.segs)
  BY <1>1, <1>3
<1>5. seg.data \in Seq(Byte) /\ seg.vaddr \in Addresses /\ j \in Nat
  BY <1>4 DEF Segment, PlaceInv
<1> SUFFICES LoadsByte(s, j)
  OBVIOUS
<1> HIDE DEF s, j, seg
<1>6. seg.data[j + 1] \in Byte
  BY <1>1, <1>5
<1>7. LoadAddress(seg, j) \in Addresses
  <2>1. seg.vaddr + j \in Int /\ SPACE \in Nat \ {0}
    BY <1>5, PagingAssumption DEF Addresses
  <2> QED
    BY <2>1 DEF LoadAddress, Addresses
<1> QED
  BY <1>1, <1>2, <1>3, <1>4, <1>5, <1>6, <1>7 DEF LoadsByte, seg

---------------------------------------------------------------------------
(* The log.                                                                 *)

\* What is ever printed, and logged: the guest's output and two fatal
\* messages.
Outputs == Words \cup [{0} -> Byte]
Fatals == {"output file", "null pointer"}
Lines == [sev : {"FATAL", "OUTPUT"}, msg : Fatals \cup Outputs]

(* A sequence and one more.                                                 *)
LEMMA Appended ==
    ASSUME NEW S, NEW seq \in Seq(S), NEW elt \in S, NEW longer, longer = Append(seq, elt)
    PROVE  /\ longer \in Seq(S) /\ Len(longer) = Len(seq) + 1
           /\ \A n \in DOMAIN seq : longer[n] = seq[n]
           /\ longer[Len(longer)] = elt
           /\ DOMAIN longer = DOMAIN seq \cup {Len(longer)}
  OBVIOUS

(* The inductive invariant.                                                 *)
LogInv ==
    /\ log \in Seq(Lines) /\ printed \in Seq(Outputs)
    /\ terminate \in BOOLEAN
    /\ FatalIsLast
    /\ OutputLogged

(* A fatal message (err_handler.c:67) keeps the invariant.                  *)
LEMMA FatalKeepsLog ==
    ASSUME LogInv, NEW msg \in Fatals,
           logging("FATAL", msg), printed' = printed
    PROVE  LogInv'
<1> DEFINE line == [sev |-> "FATAL", msg |-> msg]
<1>1. terminate' = TRUE /\ printed' = printed
  BY Zenon DEF logging
<1>2. CASE log' = log /\ terminate
  <2>1. log \in Seq(Lines) /\ printed \in Seq(Outputs)
    BY DEF LogInv
  <2>2. FatalIsLast'
    BY <1>2 DEF LogInv, FatalIsLast
  <2>3. \E n \in DOMAIN log' : log'[n].sev = "FATAL"
    BY <1>2 DEF LogInv, OutputLogged
  <2>4. \A n \in DOMAIN log' : log'[n].sev # "FATAL" =>
            n \in DOMAIN printed' /\ log'[n] = [sev |-> "OUTPUT", msg |-> printed'[n]]
    BY <1>1, <1>2 DEF LogInv, OutputLogged
  <2>5. OutputLogged'
    BY <1>1, <2>3, <2>4, Zenon DEF OutputLogged
  <2> QED
    BY <1>1, <1>2, <2>1, <2>2, <2>5, Zenon DEF LogInv
<1>3. log \in Seq(Lines) /\ printed \in Seq(Outputs) /\ line \in Lines
      /\ line.sev = "FATAL"
  BY DEF LogInv, Lines
<1>4. CASE log' = Append(log, line) /\ ~terminate
  <2> HIDE DEF line
  <2>2. /\ log' \in Seq(Lines) /\ Len(log') = Len(log) + 1
        /\ \A n \in DOMAIN log : log'[n] = log[n]
        /\ log'[Len(log')] = line
        /\ DOMAIN log' = DOMAIN log \cup {Len(log')}
    BY <1>3, <1>4, Appended
  <2>3. \A n \in DOMAIN log : log[n].sev # "FATAL"
    BY <1>4 DEF LogInv, OutputLogged
  <2>4. FatalIsLast'
    BY <2>2, <2>3 DEF FatalIsLast
  <2>5. \E n \in DOMAIN log' : log'[n].sev = "FATAL"
    BY <1>3, <2>2
  <2>6. \A n \in DOMAIN log' : log'[n].sev # "FATAL" =>
            n \in DOMAIN printed' /\ log'[n] = [sev |-> "OUTPUT", msg |-> printed'[n]]
    BY <1>1, <1>3, <2>2 DEF LogInv, OutputLogged
  <2>7. OutputLogged'
    BY <1>1, <2>5, <2>6, Zenon DEF OutputLogged
  <2> QED
    BY <1>1, <1>3, <2>2, <2>4, <2>7, Zenon DEF LogInv
<1>5. (log' = log /\ terminate) \/ (log' = Append(log, line) /\ ~terminate)
  BY DEF logging
<1> QED
  BY <1>2, <1>4, <1>5

(* So does a line of output, logged as it is printed.                       *)
LEMMA OutputKeepsLog ==
    ASSUME LogInv, NEW msg \in Outputs,
           logging("OUTPUT", msg), printed' = Append(printed, msg)
    PROVE  LogInv'
<1> DEFINE line == [sev |-> "OUTPUT", msg |-> msg]
<1>1. terminate' = terminate
  <2>1. terminate' = (terminate \/ "OUTPUT" = "FATAL") /\ terminate \in BOOLEAN
    BY Zenon DEF logging, LogInv
  <2>2. "OUTPUT" # "FATAL"
    OBVIOUS
  <2> QED
    BY <2>1, <2>2
<1>2. log \in Seq(Lines) /\ printed \in Seq(Outputs) /\ line \in Lines
      /\ line.sev # "FATAL"
  BY DEF LogInv, Lines
<1>3. /\ printed' \in Seq(Outputs) /\ Len(printed') = Len(printed) + 1
      /\ \A n \in DOMAIN printed : n \in DOMAIN printed' /\ printed'[n] = printed[n]
      /\ printed'[Len(printed) + 1] = msg /\ Len(printed) + 1 \in DOMAIN printed'
  BY <1>2
<1>4. CASE log' = log /\ terminate
  <2>1. \A n \in DOMAIN log : log[n].sev # "FATAL" =>
            n \in DOMAIN printed' /\ log[n] = [sev |-> "OUTPUT", msg |-> printed'[n]]
    BY <1>3 DEF LogInv, OutputLogged
  <2>2. \E n \in DOMAIN log : log[n].sev = "FATAL"
    BY <1>4 DEF LogInv, OutputLogged
  <2>3. OutputLogged'
    BY <1>1, <1>4, <2>1, <2>2, Zenon DEF OutputLogged
  <2>4. FatalIsLast'
    BY <1>4 DEF LogInv, FatalIsLast
  <2> QED
    BY <1>1, <1>2, <1>3, <1>4, <2>3, <2>4, Zenon DEF LogInv
<1>5. CASE log' = Append(log, line) /\ ~terminate
  <2>1. Len(log) = Len(printed) /\ \A n \in DOMAIN log : log[n].sev # "FATAL"
    BY <1>5 DEF LogInv, OutputLogged
  <2>2. line = [sev |-> "OUTPUT", msg |-> printed'[Len(printed) + 1]]
    BY <1>3
  <2> HIDE DEF line
  <2>3. /\ log' \in Seq(Lines) /\ Len(log') = Len(log) + 1
        /\ \A n \in DOMAIN log : log'[n] = log[n]
        /\ log'[Len(log')] = line
        /\ DOMAIN log' = DOMAIN log \cup {Len(log')}
    BY <1>2, <1>5
  <2>4. \A n \in DOMAIN log' : log'[n].sev # "FATAL"
    BY <1>2, <2>1, <2>3
  <2>5. \A n \in DOMAIN log :
            n \in DOMAIN printed' /\ log[n] = [sev |-> "OUTPUT", msg |-> printed'[n]]
    BY <1>3, <2>1 DEF LogInv, OutputLogged
  <2>6. \A n \in DOMAIN log' : log'[n].sev # "FATAL" =>
            n \in DOMAIN printed' /\ log'[n] = [sev |-> "OUTPUT", msg |-> printed'[n]]
    BY <1>3, <2>1, <2>2, <2>3, <2>5
  <2>7. Len(log') = Len(printed')
    BY <1>3, <2>1, <2>3
  <2>8. OutputLogged'
    BY <1>1, <1>5, <2>4, <2>6, <2>7, Zenon DEF OutputLogged
  <2>9. FatalIsLast'
    BY <2>4 DEF FatalIsLast
  <2> QED
    BY <1>1, <1>3, <2>3, <2>8, <2>9, Zenon DEF LogInv
<1>6. (log' = log /\ terminate) \/ (log' = Append(log, line) /\ ~terminate)
  BY DEF logging
<1> QED
  BY <1>4, <1>5, <1>6

(* Nothing logged, nothing printed.                                         *)
LEMMA SilenceKeepsLog == LogInv /\ UNCHANGED <<printed, flags>> => LogInv'
BY DEF LogInv, FatalIsLast, OutputLogged, flags

(* A byte of the loader or a word of the guest is printed and logged, or    *)
(* neither.                                                                 *)
LEMMA WriteKeepsLog ==
    ASSUME LogInv, NEW addr, NEW data \in Outputs, NEW next,
           Write(addr, data, next)
    PROVE  LogInv'
<1>1. \/ printed' = Append(printed, data) /\ logging("OUTPUT", data)
      \/ UNCHANGED <<printed, flags>>
  BY Zenon DEF Write
<1> QED
  BY <1>1, OutputKeepsLog, SilenceKeepsLog

LEMMA ReadKeepsLog ==
    ASSUME LogInv, NEW addr, NEW width, NEW next, Read(addr, width, next)
    PROVE  LogInv'
<1>1. UNCHANGED printed /\ (logging("FATAL", "null pointer") \/ UNCHANGED flags)
  BY Zenon DEF Read
<1>2. CASE logging("FATAL", "null pointer")
  BY <1>1, <1>2, FatalKeepsLog DEF Fatals
<1>3. CASE UNCHANGED flags
  BY <1>1, <1>3, SilenceKeepsLog
<1> QED
  BY <1>1, <1>2, <1>3

LEMMA NextKeepsLog == LogInv /\ PlaceInv /\ [Next]_vars => LogInv'
<1> SUFFICES ASSUME LogInv, PlaceInv, [Next]_vars PROVE LogInv'
  OBVIOUS
<1>1. CASE UNCHANGED <<printed, flags>>
  BY <1>1, SilenceKeepsLog
<1>2. CASE OptionOutputFails
  <2>1. logging("FATAL", "output file") /\ UNCHANGED printed
    BY <1>2, Zenon DEF OptionOutputFails, Option
  <2> QED
    BY <2>1, FatalKeepsLog DEF Fatals
<1>3. CASE LoadByte
  <2>1. LoadsByte(loaded[1], loaded[2])
    BY <1>3, LoadByteWrites
  <2>2. PICK addr \in Addresses, byte \in Byte : Write(addr, OneByte(byte), "load")
    BY <2>1 DEF LoadsByte
  <2>3. OneByte(byte) \in Outputs
    BY OneByteTyped DEF Outputs
  <2> QED
    BY <2>2, <2>3, WriteKeepsLog
<1>4. ASSUME NEW addr \in ReadAddrs, NEW width \in Widths, MemoryRead(addr, width)
      PROVE  LogInv'
  BY <1>4, ReadKeepsLog DEF MemoryRead
<1>5. ASSUME NEW addr \in WriteAddrs, NEW data \in Words, MemoryWrite(addr, data)
      PROVE  LogInv'
  BY <1>5, WriteKeepsLog DEF MemoryWrite, Outputs
<1>6. ASSUME NEW addr \in FetchAddrs, Fetch(addr)
      PROVE  LogInv'
  BY <1>6, ReadKeepsLog, Zenon DEF Fetch
<1> QED
  BY <1>1, <1>2, <1>3, <1>4, <1>5, <1>6
  DEF Next, vars, flags, OptionInput, OptionOutput, OptionVerbose, Option, EndOfArgs,
      Initialise, LoadFails, NextSegment, LoadDone, Start, MemoryIdle, Finalize

(* The two facts about the log, of every run.                               *)
LEMMA LogHolds == Spec => [](LogInv /\ PlaceInv)
<1>1. Init => LogInv /\ PlaceInv
  <2> SUFFICES ASSUME Init PROVE LogInv /\ PlaceInv
    OBVIOUS
  <2>1. log = <<>> /\ printed = <<>> /\ terminate = FALSE
    BY DEF Init
  <2>2. log \in Seq(Lines) /\ printed \in Seq(Outputs) /\ DOMAIN log = {} /\ Len(log) = Len(printed)
    BY <2>1
  <2>3. PlaceInv
    BY DEF Init, PlaceInv
  <2>4. FatalIsLast /\ OutputLogged
    BY <2>1, <2>2 DEF FatalIsLast, OutputLogged
  <2> QED
    BY <2>1, <2>2, <2>3, <2>4 DEF LogInv
<1>2. LogInv /\ PlaceInv /\ [Next]_vars => LogInv' /\ PlaceInv'
  BY NextKeepsPlace, NextKeepsLog
<1> QED
  BY <1>1, <1>2, PTL DEF Spec

(* err_handler.c:56, 67: in every run, a fatal message is the last line of  *)
(* the log.                                                                 *)
THEOREM NothingAfterFatal == Spec => []FatalIsLast
<1>1. LogInv => FatalIsLast
  BY DEF LogInv
<1> QED
  BY <1>1, LogHolds, PTL

(* mem.c:162-166: in every run the log has what the guest printed, line for *)
(* line, up to the fatal message that closes it, and terminate says whether *)
(* there is one.                                                            *)
THEOREM OutputIsLogged == Spec => []OutputLogged
<1>1. LogInv => OutputLogged
  BY DEF LogInv
<1> QED
  BY <1>1, LogHolds, PTL

---------------------------------------------------------------------------
(* The page table.                                                         *)

(* A value of w bytes that is written keeps each page once.                 *)
LEMMA WriteKeepsTable ==
    ASSUME ptable \in Tables, NEW addr \in Addresses,
           NEW w \in Nat \ {0}, NEW data \in [0 .. w - 1 -> Byte], NEW next,
           Write(addr, data, next)
    PROVE  ptable' \in Tables
<1>1. Cardinality(DOMAIN data) = w
  <2>1. DOMAIN data = 0 .. w - 1 /\ 0 \in Int /\ w - 1 \in Int /\ ~(0 > w - 1)
    OBVIOUS
  <2>2. Cardinality(0 .. w - 1) = (w - 1) - 0 + 1
    BY <2>1, FS_Interval
  <2> QED
    BY <2>1, <2>2
<1>2. ptable' = ptable \/ ptable' = TableWritten(ptable, addr, data, w)
  BY <1>1 DEF Write
<1> QED
  BY <1>2, WriteOnce

LEMMA ReadKeepsTable ==
    ASSUME ptable \in Tables, NEW addr \in Addresses, NEW width \in Nat,
           NEW next, Read(addr, width, next)
    PROVE  ptable' \in Tables
<1>1. ptable' = ptable \/ ptable' = TableRead(ptable, addr, width)
  BY Zenon DEF Read
<1> QED
  BY <1>1, ReadOnce

LEMMA NextKeepsTable ==
    ptable \in Tables /\ PlaceInv /\ [Next]_vars => ptable' \in Tables
<1> SUFFICES ASSUME ptable \in Tables, PlaceInv, [Next]_vars
             PROVE  ptable' \in Tables
  OBVIOUS
<1>1. CASE UNCHANGED ptable
  BY <1>1
<1>2. CASE LoadByte
  <2>1. LoadsByte(loaded[1], loaded[2])
    BY <1>2, LoadByteWrites
  <2>2. PICK addr \in Addresses, byte \in Byte : Write(addr, OneByte(byte), "load")
    BY <2>1 DEF LoadsByte
  <2>3. OneByte(byte) \in [0 .. 1 - 1 -> Byte] /\ 1 \in Nat \ {0}
    BY OneByteTyped
  <2> QED
    BY <2>2, <2>3, WriteKeepsTable, Zenon
<1>3. ASSUME NEW addr \in ReadAddrs, NEW width \in Widths, MemoryRead(addr, width)
      PROVE  ptable' \in Tables
  <2>1. addr \in Addresses /\ width \in Nat
    BY EmulatorAssumption
  <2> QED
    BY <1>3, <2>1, ReadKeepsTable DEF MemoryRead
<1>4. ASSUME NEW addr \in WriteAddrs, NEW data \in Words, MemoryWrite(addr, data)
      PROVE  ptable' \in Tables
  <2>1. PICK w \in Widths : data \in [0 .. w - 1 -> Byte]
    BY EmulatorAssumption
  <2>2. addr \in Addresses /\ w \in Nat \ {0}
    BY EmulatorAssumption
  <2> QED
    BY <1>4, <2>1, <2>2, WriteKeepsTable DEF MemoryWrite
<1>5. ASSUME NEW addr \in FetchAddrs, Fetch(addr)
      PROVE  ptable' \in Tables
  <2>1. addr \in Addresses /\ FETCH \in Nat
    BY EmulatorAssumption
  <2>2. PICK next : Read(addr, FETCH, next)
    BY <1>5, Zenon DEF Fetch
  <2> QED
    BY <2>1, <2>2, ReadKeepsTable
<1> QED
  BY <1>1, <1>2, <1>3, <1>4, <1>5
  DEF Next, vars, OptionInput, OptionOutput, OptionOutputFails, OptionVerbose, Option,
      EndOfArgs, Initialise, LoadFails, NextSegment, LoadDone, Start, MemoryIdle, Finalize

(* The page table is a table of pages in every run.                         *)
LEMMA TableHolds == Spec => [](ptable \in Tables)
<1>1. Init => ptable \in Tables /\ PlaceInv
  <2> SUFFICES ASSUME Init PROVE ptable \in Tables /\ PlaceInv
    OBVIOUS
  <2>1. ptable = EmptyTable
    BY DEF Init
  <2>2. ptable \in [Buckets -> Seq(Page)] /\ \A h \in Buckets : DOMAIN ptable[h] = {}
    BY <2>1 DEF EmptyTable
  <2>3. PagesOnce(ptable)
    BY <2>2 DEF PagesOnce
  <2>4. PlaceInv
    BY DEF Init, PlaceInv
  <2> QED
    BY <2>2, <2>3, <2>4 DEF Tables
<1>2. ptable \in Tables /\ PlaceInv /\ [Next]_vars => (ptable \in Tables)' /\ PlaceInv'
  BY NextKeepsPlace, NextKeepsTable
<1> QED
  BY <1>1, <1>2, PTL DEF Spec

(* ptable.c:31, 40: in every run no page is in the table twice, and each    *)
(* is in the bucket where get_page looks for it.                            *)
THEOREM PagesStayDistinct == Spec => []PagesDistinct
<1>1. ptable \in Tables => PagesDistinct
  BY DEF Tables, PagesDistinct
<1> QED
  BY <1>1, TableHolds, PTL

---------------------------------------------------------------------------
(* The types.                                                               *)

(* The inductive invariant of the rest: a cycle that goes on has one left.  *)
CountInv ==
    /\ phase \in Phases /\ args \in 0 .. MaxArgs
    /\ outfile \in {"stdout", "file", "NULL"} /\ debug_level \in 0 .. 2
    /\ ignore_input \in BOOLEAN
    /\ num_instr \in 0 .. MAX_NUM_INSTR
    /\ phase \in {"memory", "fetch"} => num_instr < MAX_NUM_INSTR

(* What is logged leaves ignore_input a truth value.                        *)
LEMMA LoggingTyped ==
    ASSUME ignore_input \in BOOLEAN, NEW sev, NEW msg, logging(sev, msg)
    PROVE  ignore_input' \in BOOLEAN
<1>1. \E A, B : ignore_input' = (ignore_input \/ (A /\ B))
  BY Zenon DEF logging
<1> QED
  BY <1>1, Zenon

(* A store ends the program or goes on, and so does a load.                 *)
LEMMA WriteTyped ==
    ASSUME ignore_input \in BOOLEAN, NEW addr, NEW data, NEW next, Write(addr, data, next)
    PROVE  phase' \in {next, "exit"} /\ ignore_input' \in BOOLEAN
<1>1. phase' = next \/ phase' = "exit"
  BY Zenon DEF Write
<1>2. logging("OUTPUT", data) \/ UNCHANGED <<printed, flags>>
  BY Zenon DEF Write
<1>3. ignore_input' \in BOOLEAN
  BY <1>2, LoggingTyped, Zenon DEF flags
<1> QED
  BY <1>1, <1>3

LEMMA ReadTyped ==
    ASSUME ignore_input \in BOOLEAN, NEW addr, NEW width, NEW next, Read(addr, width, next)
    PROVE  phase' \in {next, "exit"} /\ ignore_input' \in BOOLEAN
<1>1. phase' = next \/ phase' = "exit"
  BY Zenon DEF Read
<1>2. logging("FATAL", "null pointer") \/ UNCHANGED flags
  BY Zenon DEF Read
<1>3. ignore_input' \in BOOLEAN
  BY <1>2, LoggingTyped, Zenon DEF flags
<1> QED
  BY <1>1, <1>3

LEMMA NextKeepsCount == CountInv /\ PlaceInv /\ [Next]_vars => CountInv'
<1> SUFFICES ASSUME CountInv, PlaceInv, [Next]_vars PROVE CountInv'
  OBVIOUS
<1>0. MAX_NUM_INSTR \in Nat \ {0} /\ MaxArgs \in Nat
  BY EmulatorAssumption
<1>1. CASE UNCHANGED vars
  BY <1>1 DEF CountInv, vars, options, flags
<1>2. ASSUME NEW f \in Files, OptionInput(f) PROVE CountInv'
  BY <1>0, <1>2 DEF CountInv, OptionInput, Option, flags
<1>3. CASE OptionOutput
  BY <1>0, <1>3 DEF CountInv, OptionOutput, Option, flags
<1>4. CASE OptionOutputFails
  <2>1. ignore_input' \in BOOLEAN
    BY <1>4, LoggingTyped, Zenon DEF CountInv, OptionOutputFails
  <2>2. /\ Option /\ outfile' = "NULL" /\ phase' = "init" /\ debug_level' = debug_level
    BY <1>4, Zenon DEF OptionOutputFails
  <2> QED
    BY <1>0, <2>1, <2>2 DEF CountInv, Option, Phases
<1>5. ASSUME NEW level \in 0 .. 2, OptionVerbose(level) PROVE CountInv'
  BY <1>0, <1>5 DEF CountInv, OptionVerbose, Option, flags
<1>6. CASE EndOfArgs \/ Initialise \/ LoadFails \/ LoadDone
  BY <1>6 DEF CountInv, Phases, EndOfArgs, Initialise, LoadFails, LoadDone, options, flags
<1>7. CASE LoadByte
  <2>1. PICK addr, data : Write(addr, data, "load")
    BY <1>7, Zenon DEF LoadByte
  <2>2. phase' \in {"load", "exit"} /\ ignore_input' \in BOOLEAN
    BY <2>1, WriteTyped, Zenon DEF CountInv
  <2>3. UNCHANGED <<options, num_instr>>
    BY <1>7, Zenon DEF LoadByte
  <2> QED
    BY <2>2, <2>3 DEF CountInv, Phases, options
<1>8. CASE NextSegment
  BY <1>8 DEF CountInv, NextSegment, options, flags
<1>9. CASE Start \/ MemoryIdle \/ Finalize
  BY <1>0, <1>9 DEF CountInv, Phases, Start, MemoryIdle, Finalize, options, flags
<1>10. ASSUME NEW addr \in ReadAddrs, NEW width \in Widths, MemoryRead(addr, width)
       PROVE  CountInv'
  <2>1. phase' \in {"fetch", "exit"} /\ ignore_input' \in BOOLEAN
    BY <1>10, ReadTyped, Zenon DEF CountInv, MemoryRead
  <2>2. phase = "memory" /\ UNCHANGED <<options, num_instr>>
    BY <1>10, Zenon DEF MemoryRead
  <2> QED
    BY <2>1, <2>2 DEF CountInv, Phases, options
<1>11. ASSUME NEW addr \in WriteAddrs, NEW data \in Words, MemoryWrite(addr, data)
       PROVE  CountInv'
  <2>1. phase' \in {"fetch", "exit"} /\ ignore_input' \in BOOLEAN
    BY <1>11, WriteTyped, Zenon DEF CountInv, MemoryWrite
  <2>2. phase = "memory" /\ UNCHANGED <<options, num_instr>>
    BY <1>11, Zenon DEF MemoryWrite
  <2> QED
    BY <2>1, <2>2 DEF CountInv, Phases, options
<1>12. ASSUME NEW addr \in FetchAddrs, Fetch(addr) PROVE CountInv'
  <2>1. phase = "fetch" /\ num_instr' = num_instr + 1 /\ UNCHANGED <<options, loaded>>
    BY <1>12, Zenon DEF Fetch, Cycles
  <2>2. PICK next \in IF Cycles < MAX_NUM_INSTR THEN {"memory", "finalize"}
                      ELSE {"finalize"} :
           Read(addr, FETCH, next)
    BY <1>12, Zenon DEF Fetch
  <2>3. phase' \in {next, "exit"} /\ ignore_input' \in BOOLEAN
    BY <2>2, ReadTyped, Zenon DEF CountInv
  <2>4. next \in {"memory", "finalize"} /\ (next = "memory" => num_instr + 1 < MAX_NUM_INSTR)
    BY <2>2 DEF Cycles
  <2>5. num_instr \in Nat /\ num_instr < MAX_NUM_INSTR
    BY <2>1 DEF CountInv
  <2> QED
    BY <1>0, <2>1, <2>3, <2>4, <2>5 DEF CountInv, Phases, options
<1> QED
  BY <1>1, <1>2, <1>3, <1>4, <1>5, <1>6, <1>7, <1>8, <1>9, <1>10, <1>11, <1>12, Zenon DEF Next

(* Every variable has its type in every run, the number of cycles its bound *)
(* and every page its bytes.                                                *)
THEOREM EmulatorTyped == Spec => []TypeOK
<1>1. Init => CountInv
  <2> SUFFICES ASSUME Init PROVE CountInv
    OBVIOUS
  <2>1. /\ phase = "args" /\ args = 0 /\ outfile = "stdout" /\ debug_level = 0
        /\ ignore_input = FALSE /\ num_instr = 0
    BY DEF Init
  <2>2. args \in 0 .. MaxArgs /\ debug_level \in 0 .. 2 /\ num_instr \in 0 .. MAX_NUM_INSTR
    BY <2>1, EmulatorAssumption
  <2>3. phase \in Phases /\ phase \notin {"memory", "fetch"}
        /\ outfile \in {"stdout", "file", "NULL"}
    BY <2>1 DEF Phases
  <2>4. ignore_input \in BOOLEAN
    BY <2>1
  <2> QED
    BY <2>2, <2>3, <2>4, Zenon DEF CountInv
<1>2. CountInv /\ PlaceInv /\ [Next]_vars => CountInv'
  BY NextKeepsCount
<1>3. CountInv /\ LogInv /\ PlaceInv /\ ptable \in Tables => TypeOK
  <2> SUFFICES ASSUME CountInv, LogInv, PlaceInv, ptable \in Tables PROVE TypeOK
    OBVIOUS
  <2>1. ASSUME NEW h \in Buckets, NEW n \in DOMAIN ptable[h]
        PROVE  /\ ptable[h][n].p_num \in PageNums
               /\ ptable[h][n].p_data \in [0 .. PAGESIZE - 1 -> Byte]
    <3>1. ptable[h] \in Seq(Page)
      BY DEF Tables
    <3>2. ptable[h][n] \in Page
      BY <3>1
    <3> QED
      BY <3>2 DEF Page
  <2>2. terminate \in BOOLEAN /\ infile_name \in Files \cup {Missing}
    BY DEF LogInv, PlaceInv
  <2> QED
    BY <2>1, <2>2 DEF TypeOK, CountInv
<1> QED
  BY <1>1, <1>2, <1>3, LogHolds, TableHolds, PTL DEF Spec


---------------------------------------------------------------------------
(* The refinement of FlatMemory.                                            *)

\* No value is wider than the address space.
WordsFit == \A width \in Widths : width <= SPACE

(* The special addresses: reads and writes of them leave memory alone.      *)
LEMMA SpecialIsFlat ==
    ASSUME NEW addr, is_special_addr(addr), addr # NULL_ADDR,
           \/ resp'.op = "ABORT"
           \/ resp'.op \in {"READ", "WRITE"} /\ resp'.addr = addr,
           ptable' = ptable
    PROVE  Flat!FlatNext
<1>1. addr \in {IO_CHAR_ADDR, RET_FROM_MAIN_ADDR}
  BY DEF is_special_addr
<1>2. Bytes(ptable)' = Bytes(ptable)
  OBVIOUS
<1>3. Flat!DeviceAccess
  BY <1>1, <1>2 DEF Flat!DeviceAccess
<1> QED
  BY <1>3 DEF Flat!FlatNext

(* _mem_write (mem.c:104-133) is a store to a flat memory.                  *)
LEMMA WriteIsFlat ==
    ASSUME LittleEndian, ptable \in Tables, NEW addr \in Addresses,
           NEW w \in Nat \ {0}, w <= SPACE, NEW data \in [0 .. w - 1 -> Byte],
           data \in Words \cup [{0} -> Byte], NEW next, Write(addr, data, next)
    PROVE  Flat!FlatNext
<1>1. Cardinality(DOMAIN data) = w /\ DOMAIN data = 0 .. w - 1
  <2>1. DOMAIN data = 0 .. w - 1 /\ 0 \in Int /\ w - 1 \in Int /\ ~(0 > w - 1)
    OBVIOUS
  <2>2. Cardinality(0 .. w - 1) = (w - 1) - 0 + 1
    BY <2>1, FS_Interval
  <2> QED
    BY <2>1, <2>2
<1>2. /\ resp' = IF addr = RET_FROM_MAIN_ADDR THEN [op |-> "ABORT"]
                 ELSE [op |-> "WRITE", addr |-> addr, val |-> data]
      /\ ptable' = IF is_special_addr(addr) THEN ptable
                   ELSE TableWritten(ptable, addr, data, w)
  BY <1>1 DEF Write
<1>3. CASE addr = NULL_ADDR /\ addr # RET_FROM_MAIN_ADDR
  <2>1. ptable' = ptable
        /\ resp' = [op |-> "WRITE", addr |-> NULL_ADDR, val |-> data]
    BY <1>2, <1>3 DEF is_special_addr
  <2>2. Bytes(ptable)' = Bytes(ptable)
    BY <2>1
  <2>3. Flat!NullWrite(data)
    BY <2>1, <2>2 DEF Flat!NullWrite
  <2> QED
    BY <2>3 DEF Flat!FlatNext
<1>4. CASE addr = RET_FROM_MAIN_ADDR
  <2>1. resp'.op = "ABORT" /\ ptable' = ptable
    BY <1>2, <1>4 DEF is_special_addr
  <2>2. Bytes(ptable)' = Bytes(ptable)
    BY <2>1
  <2>3. Flat!DeviceAccess
    BY <2>1, <2>2 DEF Flat!DeviceAccess
  <2> QED
    BY <2>3 DEF Flat!FlatNext
<1>5. CASE is_special_addr(addr) /\ addr # NULL_ADDR /\ addr # RET_FROM_MAIN_ADDR
  <2>1. ptable' = ptable /\ resp'.op = "WRITE" /\ resp'.addr = addr
    BY <1>2, <1>5
  <2> QED
    BY <1>5, <2>1, SpecialIsFlat
<1>6. CASE ~is_special_addr(addr)
  <2>1. ptable' = TableWritten(ptable, addr, data, w)
        /\ resp' = [op |-> "WRITE", addr |-> addr, val |-> data]
    BY <1>2, <1>6 DEF is_special_addr
  <2>2. w \in 0 .. SPACE
    BY PagingAssumption
  <2>3. \A a \in Addresses :
           Bytes(ptable')[a] = IF (a - addr) % SPACE \in 0 .. w - 1
                               THEN data[(a - addr) % SPACE] ELSE Bytes(ptable)[a]
    BY <2>1, <2>2, TableWrittenBytes
  <2>4. Bytes(ptable') = [a \in Addresses |->
             IF (a - addr) % SPACE \in 0 .. w - 1
             THEN data[(a - addr) % SPACE] ELSE Bytes(ptable)[a]]
    <3>1. Bytes(ptable') = [a \in Addresses |-> Bytes(ptable')[a]]
      BY DEF Bytes
    <3> QED
      BY <2>3, <3>1
  <2>5. DOMAIN Bytes(ptable) = Addresses
    BY DEF Bytes
  <2>6. addr \notin {NULL_ADDR} \cup {IO_CHAR_ADDR, RET_FROM_MAIN_ADDR}
    BY <1>6 DEF is_special_addr
  <2>7. Flat!Write(addr, data)
    BY <1>1, <2>1, <2>4, <2>5, <2>6 DEF Flat!Write
  <2> QED
    BY <2>7 DEF Flat!FlatNext
<1> QED
  BY <1>3, <1>4, <1>5, <1>6 DEF is_special_addr

(* _mem_read (mem.c:171-185) is a load from a flat memory: the pages it     *)
(* adds are not seen.                                                       *)
LEMMA ReadIsFlat ==
    ASSUME LittleEndian, ptable \in Tables, NEW addr \in Addresses,
           NEW width \in Widths \cup {FETCH, 1}, NEW next, Read(addr, width, next)
    PROVE  Flat!FlatNext
<1>0. width \in Nat
  BY EmulatorAssumption
<1>1. CASE addr = NULL_ADDR
  <2>1. ptable' = ptable /\ resp' = [op |-> "EXIT"]
    BY <1>1, Zenon DEF Read
  <2>2. Bytes(ptable)' = Bytes(ptable)
    BY <2>1
  <2>3. Flat!NullRead
    BY <2>1, <2>2 DEF Flat!NullRead
  <2> QED
    BY <2>3 DEF Flat!FlatNext
<1>2. CASE addr # NULL_ADDR /\ is_special_addr(addr)
  <2>1. ptable' = ptable /\ \E val : resp' = [op |-> "READ", addr |-> addr, val |-> val]
    BY <1>2, Zenon DEF Read
  <2> QED
    BY <1>2, <2>1, SpecialIsFlat
<1>3. CASE ~is_special_addr(addr)
  <2>1. addr \notin {NULL_ADDR} \cup {IO_CHAR_ADDR, RET_FROM_MAIN_ADDR}
    BY <1>3 DEF is_special_addr
  <2>2. ptable' = TableRead(ptable, addr, width)
        /\ resp' = [op |-> "READ", addr |-> addr, val |-> ValueAt(ptable, addr, width)]
    BY <1>3, <2>1 DEF Read
  <2>3. Bytes(ptable)' = Bytes(ptable)
    BY <1>0, <2>2, TableReadBytes
  <2>4. ValueAt(ptable, addr, width) = Flat!WordAt(addr, width)
    <3>1. ASSUME NEW k \in 0 .. width - 1
          PROVE  _mem_read_byte(ptable, Place(addr, k, width)) = Bytes(ptable)[(addr + k) % SPACE]
      <4>1. Place(addr, k, width) \in Addresses
        BY <1>0, PlaceTyped
      <4>2. Place(addr, k, width) = (addr + k) % SPACE
        BY PlaceLittle
      <4> QED
        BY <4>1, <4>2 DEF Bytes
    <3> QED
      BY <3>1 DEF ValueAt, Flat!WordAt
  <2>5. Flat!Read(addr, width)
    BY <2>1, <2>2, <2>3, <2>4 DEF Flat!Read
  <2> QED
    BY <2>5 DEF Flat!FlatNext
<1> QED
  BY <1>1, <1>2, <1>3

LEMMA NextIsFlat ==
    ASSUME LittleEndian, WordsFit, ptable \in Tables, PlaceInv, [Next]_vars
    PROVE  [Flat!FlatNext]_<<Bytes(ptable), resp>>
<1>1. CASE UNCHANGED <<ptable, resp>>
  BY <1>1
<1>2. CASE LoadByte
  <2>1. LoadsByte(loaded[1], loaded[2])
    BY <1>2, LoadByteWrites
  <2>2. PICK addr \in Addresses, byte \in Byte : Write(addr, OneByte(byte), "load")
    BY <2>1 DEF LoadsByte
  <2>3. /\ OneByte(byte) \in [0 .. 1 - 1 -> Byte] /\ 1 \in Nat \ {0} /\ 1 <= SPACE
        /\ OneByte(byte) \in Words \cup [{0} -> Byte]
    BY OneByteTyped, PagingAssumption DEF Addresses
  <2>4. Flat!FlatNext
    BY <2>2, <2>3, WriteIsFlat, Zenon
  <2> QED
    BY <2>4
<1>3. ASSUME NEW addr \in ReadAddrs, NEW width \in Widths, MemoryRead(addr, width)
      PROVE  Flat!FlatNext
  BY <1>3, EmulatorAssumption, ReadIsFlat DEF MemoryRead
<1>4. ASSUME NEW addr \in WriteAddrs, NEW data \in Words, MemoryWrite(addr, data)
      PROVE  Flat!FlatNext
  <2>1. PICK w \in Widths : data \in [0 .. w - 1 -> Byte]
    BY EmulatorAssumption
  <2>2. addr \in Addresses /\ w \in Nat \ {0} /\ w <= SPACE
    BY EmulatorAssumption DEF WordsFit
  <2> QED
    BY <1>4, <2>1, <2>2, WriteIsFlat DEF MemoryWrite
<1>5. ASSUME NEW addr \in FetchAddrs, Fetch(addr)
      PROVE  Flat!FlatNext
  <2>1. addr \in Addresses
    BY EmulatorAssumption
  <2>2. PICK next : Read(addr, FETCH, next)
    BY <1>5, Zenon DEF Fetch
  <2> QED
    BY <2>1, <2>2, ReadIsFlat
<1> QED
  BY <1>1, <1>2, <1>3, <1>4, <1>5
  DEF Next, vars, OptionInput, OptionOutput, OptionOutputFails, OptionVerbose, Option,
      EndOfArgs, Initialise, LoadFails, NextSegment, LoadDone, Start, MemoryIdle, Finalize

(* The empty table reads as zeros.                                          *)
LEMMA EmptyIsZeros == Bytes(EmptyTable) = [a \in Addresses |-> ZeroByte]
<1>1. ASSUME NEW a \in Addresses PROVE _mem_read_byte(EmptyTable, a) = ZeroByte
  <2>1. a \div PAGESIZE \in PageNums
    BY OnPage
  <2>2. DOMAIN EmptyTable[ptable_hash[a \div PAGESIZE]] = {}
    BY <2>1 DEF EmptyTable, Buckets
  <2> QED
    BY <2>2 DEF _mem_read_byte, InTable
<1> QED
  BY <1>1 DEF Bytes

(* mem.h:43, 55: with a page table under it, in little endian, the memory   *)
(* of every run of every guest is one array of bytes: an access that        *)
(* crosses pages, segments or the end of the address space included.        *)
THEOREM PagesAreFlat == LittleEndian /\ WordsFit => (Spec => ImplementsFlat)
<1> SUFFICES ASSUME LittleEndian, WordsFit PROVE Spec => ImplementsFlat
  OBVIOUS
<1>1. Init => Flat!FlatInit
  <2> SUFFICES ASSUME Init PROVE Flat!FlatInit
    OBVIOUS
  <2>1. ptable = EmptyTable /\ resp = Silent
    BY DEF Init
  <2> QED
    BY <2>1, EmptyIsZeros DEF Flat!FlatInit
<1>2. ptable \in Tables /\ PlaceInv /\ [Next]_vars => [Flat!FlatNext]_<<Bytes(ptable), resp>>
  BY NextIsFlat
<1> QED
  BY <1>1, <1>2, TableHolds, LogHolds, PTL DEF Spec, ImplementsFlat, Flat!FlatSpec, Flat!flatVars


---------------------------------------------------------------------------
(* The image the loader leaves.                                             *)

\* Bytes of segment n that are in memory, when the loader is at byte j of
\* segment s.
DoneOf(segs, s, j, n) ==
    IF n < s THEN Len(segs[n].data) ELSE IF n = s THEN j ELSE 0

\* The segments that have put a byte at address a.
Covering(segs, s, j, a) ==
    {n \in DOMAIN segs : (a - segs[n].vaddr) % SPACE < DoneOf(segs, s, j, n)}

\* Memory is the image of the file up to byte j of segment s.
HasLoaded(s, j) ==
    \A a \in Addresses :
        Bytes(ptable)[a] =
            CoveringByte(infile_name.segs, Covering(infile_name.segs, s, j, a), a)

(* The inductive invariant: memory is zeros before the loader starts, then  *)
(* the image up to its place.                                               *)
ImageInv ==
    /\ phase \in {"args", "init"} => loaded = <<1, 0>> /\ ptable = EmptyTable
    /\ phase = "load" /\ ~Loading => loaded = <<1, 0>> /\ ptable = EmptyTable
    /\ Loading => /\ loaded[1] \in 1 .. Len(infile_name.segs) + 1
                  /\ HasLoaded(loaded[1], loaded[2])
    /\ phase = "start" => /\ infile_name \in Files \ {Missing}
                          /\ HasLoaded(Len(infile_name.segs) + 1, 0)

(* Before the first byte no segment has put any.                            *)
LEMMA NothingCovers ==
    ASSUME NEW segs \in Seq(Segment), NEW a \in Addresses
    PROVE  Covering(segs, 1, 0, a) = {}
<1>1. SPACE \in Nat \ {0} /\ a \in Int
  BY PagingAssumption DEF Addresses
<1>2. ASSUME NEW n \in DOMAIN segs
      PROVE  ~((a - segs[n].vaddr) % SPACE < DoneOf(segs, 1, 0, n))
  <2>1. segs[n] \in Segment /\ n \in Nat /\ ~(n < 1)
    BY <1>2
  <2>2. segs[n].vaddr \in Int
    BY <2>1 DEF Segment, Addresses
  <2>3. (a - segs[n].vaddr) % SPACE \in Nat
    BY <1>1, <2>2
  <2>4. DoneOf(segs, 1, 0, n) = 0
    BY <2>1 DEF DoneOf
  <2> QED
    BY <2>3, <2>4
<1> QED
  BY <1>2 DEF Covering

(* At the end of a segment the next has put nothing yet.                    *)
LEMMA NextCovers ==
    ASSUME NEW segs \in Seq(Segment), NEW s \in DOMAIN segs, NEW a \in Addresses
    PROVE  Covering(segs, s + 1, 0, a) = Covering(segs, s, Len(segs[s].data), a)
<1>1. SPACE \in Nat \ {0} /\ a \in Int /\ s \in Nat
  BY PagingAssumption DEF Addresses
<1>2. ASSUME NEW n \in DOMAIN segs
      PROVE  (a - segs[n].vaddr) % SPACE < DoneOf(segs, s + 1, 0, n) <=>
             (a - segs[n].vaddr) % SPACE < DoneOf(segs, s, Len(segs[s].data), n)
  <2>1. n \in Nat
    OBVIOUS
  <2>2. DoneOf(segs, s + 1, 0, n) = DoneOf(segs, s, Len(segs[s].data), n)
    BY <1>1, <2>1 DEF DoneOf
  <2> QED
    BY <2>2
<1> QED
  BY <1>2 DEF Covering

(* A byte that is loaded is that of its segment, the last there is yet; the *)
(* other addresses are covered as before.                                   *)
LEMMA ByteCovers ==
    ASSUME NEW segs \in Seq(Segment), NEW s \in DOMAIN segs,
           NEW j \in Nat, j < Len(segs[s].data), NEW a \in Addresses
    PROVE  IF a = LoadAddress(segs[s], j)
           THEN is_special_addr(a) \/
                CoveringByte(segs, Covering(segs, s, j + 1, a), a) = segs[s].data[j + 1]
           ELSE Covering(segs, s, j + 1, a) = Covering(segs, s, j, a)
<1> DEFINE far(n) == (a - segs[n].vaddr) % SPACE
<1>1. SPACE \in Nat \ {0} /\ a \in Int /\ s \in Nat
  BY PagingAssumption DEF Addresses
<1>2. segs[s] \in Segment /\ segs[s].vaddr \in Addresses /\ Len(segs[s].data) < SPACE
      /\ segs[s].data \in Seq(Byte)
  BY DEF Segment
<1>3. j \in 0 .. SPACE - 1
  BY <1>1, <1>2
<1>4. a = LoadAddress(segs[s], j) <=> far(s) = j
  BY <1>2, <1>3, HowFar DEF LoadAddress
<1>5. far(s) \in Nat
  <2>1. segs[s].vaddr \in Int
    BY <1>2 DEF Addresses
  <2> QED
    BY <1>1, <2>1
<1> HIDE DEF far
<1>6. CASE a = LoadAddress(segs[s], j)
  <2> DEFINE covers == Covering(segs, s, j + 1, a)
  <2>1. s \in covers
    BY <1>4, <1>5, <1>6 DEF Covering, DoneOf, far
  <2>2. \A n \in covers : n <= s
    <3> SUFFICES ASSUME NEW n \in covers PROVE n <= s
      OBVIOUS
    <3>1. n \in DOMAIN segs /\ far(n) < DoneOf(segs, s, j + 1, n)
      BY DEF Covering, far
    <3>2. n \in Nat /\ segs[n] \in Segment
      BY <3>1
    <3>3. far(n) \in Nat
      <4>1. segs[n].vaddr \in Int
        BY <3>2 DEF Segment, Addresses
      <4> QED
        BY <1>1, <4>1 DEF far
    <3>4. CASE n > s
      <4>1. DoneOf(segs, s, j + 1, n) = 0
        BY <1>1, <3>2, <3>4 DEF DoneOf
      <4> QED
        BY <3>1, <3>3, <4>1
    <3> QED
      BY <1>1, <3>2, <3>4
  <2>3. covers \subseteq Nat
    BY DEF Covering
  <2> HIDE DEF covers
  <2> DEFINE last == CHOOSE n \in covers : \A k \in covers : k <= n
  <2>4. last \in covers /\ \A k \in covers : k <= last
    BY <2>1, <2>2
  <2>5. last = s
    <3> HIDE DEF last
    <3> QED
      BY <1>1, <2>1, <2>2, <2>3, <2>4
  <2>6. covers # {}
    BY <2>1
  <2>7. is_special_addr(a) \/ CoveringByte(segs, covers, a) = segs[last].data[far(last) + 1]
    BY <2>6 DEF CoveringByte, far
  <2> HIDE DEF last
  <2>8. is_special_addr(a) \/ CoveringByte(segs, covers, a) = segs[s].data[j + 1]
    BY <1>4, <1>6, <2>5, <2>7
  <2> QED
    BY <1>6, <2>8 DEF covers
<1>7. CASE a # LoadAddress(segs[s], j)
  <2>1. far(s) < j + 1 <=> far(s) < j
    BY <1>4, <1>5, <1>7
  <2>2. ASSUME NEW n \in DOMAIN segs
        PROVE  far(n) < DoneOf(segs, s, j + 1, n) <=> far(n) < DoneOf(segs, s, j, n)
    BY <2>1 DEF DoneOf
  <2>3. Covering(segs, s, j + 1, a) = Covering(segs, s, j, a)
    BY <2>2 DEF Covering, far
  <2> QED
    BY <1>7, <2>3
<1> QED
  BY <1>6, <1>7

(* A byte loaded at a special address is lost.                              *)
LEMMA SpecialUncovered ==
    ASSUME NEW segs, NEW covers, NEW a, is_special_addr(a)
    PROVE  CoveringByte(segs, covers, a) = ZeroByte
  BY DEF CoveringByte

(* The image up to a place depends on the file and the page table alone.    *)
LEMMA SameImage ==
    ASSUME UNCHANGED <<infile_name, ptable>>, NEW s, NEW j, HasLoaded(s, j)
    PROVE  HasLoaded(s, j)'
  BY DEF HasLoaded

LEMMA NextKeepsImage ==
    ASSUME LittleEndian, ptable \in Tables, PlaceInv, ImageInv, [Next]_vars
    PROVE  ImageInv'
<1> USE DEF PlaceInv
<1>1. CASE UNCHANGED <<phase, infile_name, loaded, ptable>>
  BY <1>1 DEF ImageInv, Loading, HasLoaded
<1>2. CASE phase' \in {"args", "init"} /\ phase \in {"args", "init"}
           /\ UNCHANGED <<loaded, ptable>>
  BY <1>2 DEF ImageInv, Loading
<1>3. CASE phase' \in {"memory", "fetch", "finalize", "exit"}
  BY <1>3 DEF ImageInv, Loading
<1>4. CASE Initialise
  <2>1. phase = "init" /\ phase' = "load" /\ UNCHANGED <<infile_name, loaded, ptable>>
    BY <1>4 DEF Initialise
  <2>2. loaded = <<1, 0>> /\ ptable = EmptyTable
    BY <2>1 DEF ImageInv
  <2>3. ASSUME Loading' PROVE /\ 1 \in 1 .. Len(infile_name.segs) + 1
                              /\ HasLoaded(1, 0)'
    <3>1. infile_name.segs \in Seq(Segment)
      BY <2>1, <2>3, EmulatorAssumption DEF Loading
    <3>2. \A a \in Addresses : Covering(infile_name.segs, 1, 0, a) = {}
      BY <3>1, NothingCovers
    <3>3. \A a \in Addresses : Bytes(ptable)[a] = ZeroByte
      BY <2>2, EmptyIsZeros
    <3>4. HasLoaded(1, 0)
      BY <3>2, <3>3 DEF HasLoaded, CoveringByte
    <3>5. HasLoaded(1, 0)'
      BY <2>1, <3>4, SameImage
    <3> QED
      BY <3>1, <3>5
  <2> QED
    BY <2>1, <2>2, <2>3 DEF ImageInv
<1>5. CASE LoadByte
  <2>0. PICK s \in Nat, j \in Nat : loaded = <<s, j>>
    OBVIOUS
  <2> DEFINE segs == infile_name.segs
             b == LoadAddress(segs[s], j)
             byte == segs[s].data[j + 1]
  <2>1. /\ infile_name \in Files \ {Missing} /\ segs \in Seq(Segment)
        /\ s \in DOMAIN segs /\ s \in 1 .. Len(segs) /\ j \in Nat
        /\ j < Len(segs[s].data) /\ byte \in Byte /\ b \in Addresses
        /\ Write(b, OneByte(byte), "load")
    BY <1>5, <2>0, LoadByteWrites DEF LoadsByte
  <2>2. Loading /\ loaded' = <<s, j + 1>> /\ UNCHANGED infile_name
    <3>1. loaded' = <<loaded[1], loaded[2] + 1>> /\ Loading /\ UNCHANGED infile_name
      BY <1>5, Zenon DEF LoadByte, options
    <3> QED
      BY <2>0, <3>1
  <2>3. HasLoaded(s, j) /\ s \in 1 .. Len(segs) + 1
    BY <2>0, <2>1, <2>2 DEF ImageInv
  <2>4. phase' \in {"load", "exit"}
    BY <2>1, Zenon DEF Write
  <2>5. ptable' = IF is_special_addr(b) THEN ptable
                  ELSE TableWritten(ptable, b, OneByte(byte), 1)
    <3>1. DOMAIN OneByte(byte) = {0} /\ Cardinality({0}) = 1
      BY FS_Singleton DEF OneByte
    <3> QED
      BY <2>1, <3>1 DEF Write
  <2> HIDE DEF segs, b, byte
  <2>6. ASSUME NEW a \in Addresses
        PROVE  Bytes(ptable')[a] = CoveringByte(segs, Covering(segs, s, j + 1, a), a)
    <3>1. Bytes(ptable)[a] = CoveringByte(segs, Covering(segs, s, j, a), a)
      BY <2>3 DEF HasLoaded, segs
    <3>2. IF a = b
          THEN is_special_addr(a) \/
               CoveringByte(segs, Covering(segs, s, j + 1, a), a) = byte
          ELSE Covering(segs, s, j + 1, a) = Covering(segs, s, j, a)
      BY <2>1, ByteCovers DEF b, byte
    <3>3. CASE is_special_addr(b)
      <4>1. ptable' = ptable
        BY <2>5, <3>3
      <4>2. CASE a = b
        BY <3>1, <3>3, <4>1, <4>2, SpecialUncovered
      <4>3. CASE a # b
        BY <3>1, <3>2, <4>1, <4>3
      <4> QED
        BY <4>2, <4>3
    <3>4. CASE ~is_special_addr(b)
      <4>1. ptable' = TableWritten(ptable, b, OneByte(byte), 1)
        BY <2>5, <3>4
      <4>2. OneByte(byte) \in [0 .. 1 - 1 -> Byte] /\ 1 \in 0 .. SPACE
        BY <2>1, OneByteTyped, PagingAssumption DEF Addresses
      <4>3. Bytes(ptable')[a] = IF (a - b) % SPACE \in 0 .. 1 - 1
                                THEN OneByte(byte)[(a - b) % SPACE] ELSE Bytes(ptable)[a]
        <5>1. PICK w \in 0 .. SPACE : w = 1
          BY <4>2
        <5>2. OneByte(byte) \in [0 .. w - 1 -> Byte]
          BY <4>2, <5>1
        <5>3. Bytes(TableWritten(ptable, b, OneByte(byte), w))[a] =
                 IF (a - b) % SPACE \in 0 .. w - 1 THEN OneByte(byte)[(a - b) % SPACE]
                 ELSE Bytes(ptable)[a]
          BY <2>1, <5>2, TableWrittenBytes
        <5> QED
          BY <4>1, <5>1, <5>3
      <4>4. a = b <=> (a - b) % SPACE = 0
        <5>1. 0 \in 0 .. SPACE - 1 /\ b \in Int
          BY <2>1, PagingAssumption DEF Addresses
        <5>2. ((b + 0) % SPACE) = b
          BY <2>1, <5>1, Remainders DEF Addresses
        <5>3. a = (b + 0) % SPACE <=> (a - b) % SPACE = 0
          BY <2>1, <5>1, HowFar, Zenon
        <5> QED
          BY <5>2, <5>3
      <4>5. \A k : k \in 0 .. 1 - 1 <=> k = 0
        OBVIOUS
      <4>6. OneByte(byte)[0] = byte
        BY DEF OneByte
      <4>7. CASE a = b
        BY <3>2, <3>4, <4>3, <4>4, <4>5, <4>6, <4>7
      <4>8. CASE a # b
        BY <3>1, <3>2, <4>3, <4>4, <4>5, <4>8
      <4> QED
        BY <4>7, <4>8
    <3> QED
      BY <3>3, <3>4
  <2>7. HasLoaded(s, j + 1)'
    BY <2>2, <2>6 DEF HasLoaded, segs
  <2>8. CASE phase' = "load"
    <3>1. Loading'
      BY <2>2, <2>8 DEF Loading
    <3>2. loaded'[1] = s /\ loaded'[2] = j + 1
      BY <2>2
    <3> QED
      BY <2>2, <2>3, <2>7, <2>8, <3>1, <3>2 DEF ImageInv, segs
  <2> QED
    BY <1>3, <2>4, <2>8
<1>6. CASE NextSegment
  <2> DEFINE segs == infile_name.segs
  <2>0. PICK s \in Nat, j \in Nat : loaded = <<s, j>>
    OBVIOUS
  <2>1. /\ Loading /\ s \in DOMAIN segs /\ j = Len(segs[s].data)
        /\ loaded' = <<s + 1, 0>> /\ UNCHANGED <<phase, infile_name, ptable>>
    <3>1. /\ Loading /\ loaded[1] \in DOMAIN segs /\ loaded[2] = Len(segs[loaded[1]].data)
          /\ loaded' = <<loaded[1] + 1, 0>> /\ UNCHANGED <<phase, infile_name, ptable>>
      BY <1>6, Zenon DEF NextSegment, options
    <3> QED
      BY <2>0, <3>1
  <2>2. segs \in Seq(Segment) /\ s \in 1 .. Len(segs)
    BY <2>1, EmulatorAssumption DEF Loading
  <2>3. HasLoaded(s, Len(segs[s].data))
    BY <2>0, <2>1 DEF ImageInv
  <2>4. HasLoaded(s + 1, 0)
    BY <2>1, <2>2, <2>3, NextCovers DEF HasLoaded
  <2>5. HasLoaded(s + 1, 0)'
    BY <2>1, <2>4, SameImage
  <2>6. loaded'[1] = s + 1 /\ loaded'[2] = 0 /\ s + 1 \in 1 .. Len(segs) + 1
    BY <2>1, <2>2
  <2> QED
    BY <2>1, <2>5, <2>6 DEF ImageInv, Loading
<1>7. CASE LoadDone
  <2> DEFINE segs == infile_name.segs
             s == loaded[1]
  <2>1. /\ Loading /\ s \notin DOMAIN segs /\ phase' = "start"
        /\ UNCHANGED <<infile_name, loaded, ptable>>
    BY <1>7, Zenon DEF LoadDone, options
  <2>2. infile_name \in Files \ {Missing} /\ segs \in Seq(Segment)
    BY <2>1, EmulatorAssumption DEF Loading
  <2>3. HasLoaded(s, loaded[2]) /\ s = Len(segs) + 1
    BY <2>1, <2>2 DEF ImageInv
  <2>4. ASSUME NEW a \in Addresses
        PROVE  Covering(segs, s, 0, a) = Covering(segs, s, loaded[2], a)
    <3>1. \A n \in DOMAIN segs : n < s
      BY <2>2, <2>3
    <3> QED
      BY <3>1 DEF Covering, DoneOf
  <2>5. HasLoaded(Len(segs) + 1, 0)
    BY <2>3, <2>4 DEF HasLoaded
  <2>6. HasLoaded(Len(segs) + 1, 0)'
    BY <2>1, <2>5 DEF HasLoaded
  <2> QED
    BY <2>1, <2>2, <2>6 DEF ImageInv, Loading
<1>8. \A addr, data : Write(addr, data, "fetch") => phase' \in {"fetch", "exit"}
  BY Zenon DEF Write
<1>9. \A addr, width, next : Read(addr, width, next) => phase' \in {next, "exit"}
  BY Zenon DEF Read
<1>10. (\E addr \in ReadAddrs, width \in Widths : MemoryRead(addr, width)) =>
           phase' \in {"fetch", "exit"}
  BY <1>9, Zenon DEF MemoryRead
<1>11. (\E addr \in WriteAddrs, data \in Words : MemoryWrite(addr, data)) =>
           phase' \in {"fetch", "exit"}
  BY <1>8, Zenon DEF MemoryWrite
<1>12. ASSUME NEW addr \in FetchAddrs, Fetch(addr)
       PROVE  phase' \in {"memory", "finalize", "exit"}
  <2>1. PICK next \in IF Cycles < MAX_NUM_INSTR THEN {"memory", "finalize"}
                      ELSE {"finalize"} :
           Read(addr, FETCH, next)
    BY <1>12, Zenon DEF Fetch
  <2>2. next \in {"memory", "finalize"}
    BY <2>1
  <2> QED
    BY <1>9, <2>1, <2>2
<1>13. CASE \E f \in Files : OptionInput(f)
  BY <1>2, <1>13 DEF OptionInput, Option
<1>14. CASE OptionOutput \/ (\E level \in 0 .. 2 : OptionVerbose(level))
  BY <1>1, <1>14 DEF OptionOutput, OptionVerbose, Option
<1>15. CASE OptionOutputFails
  <2>1. phase = "args" /\ phase' = "init" /\ UNCHANGED <<loaded, ptable>>
    BY <1>15, Zenon DEF OptionOutputFails, Option
  <2> QED
    BY <1>2, <2>1
<1>16. CASE EndOfArgs
  BY <1>2, <1>16 DEF EndOfArgs
<1>17. CASE LoadFails \/ Start \/ MemoryIdle \/ Finalize
  BY <1>3, <1>17 DEF LoadFails, Start, MemoryIdle, Finalize
<1>18. CASE UNCHANGED vars
  BY <1>1, <1>18 DEF vars, options
<1> QED
  BY <1>3, <1>4, <1>5, <1>6, <1>7, <1>10, <1>11, <1>12, <1>13, <1>14, <1>15, <1>16,
     <1>17, <1>18 DEF Next

(* elf_loader.c:40-58: in little endian, when the guest starts memory is    *)
(* the image of its file, whatever the segments: empty, sharing pages,      *)
(* overlapping, or past the end of the address space.                       *)
THEOREM ImageIsLoaded == LittleEndian => (Spec => []ImageLoaded)
<1> SUFFICES ASSUME LittleEndian PROVE Spec => []ImageLoaded
  OBVIOUS
<1>1. Init => ImageInv
  BY DEF Init, ImageInv, Loading
<1>2. ptable \in Tables /\ PlaceInv /\ ImageInv /\ [Next]_vars => ImageInv'
  BY NextKeepsImage
<1>3. ImageInv => ImageLoaded
  <2> SUFFICES ASSUME ImageInv, phase = "start", NEW a \in Addresses
               PROVE  Bytes(ptable)[a] = FileByte(infile_name, a)
    BY DEF ImageLoaded
  <2> DEFINE segs == infile_name.segs
             covers == Covering(segs, Len(segs) + 1, 0, a)
  <2>1. segs \in Seq(Segment)
    BY EmulatorAssumption DEF ImageInv
  <2>2. Bytes(ptable)[a] = CoveringByte(segs, covers, a)
    BY DEF ImageInv, HasLoaded
  <2>3. covers = {n \in DOMAIN segs : (a - segs[n].vaddr) % SPACE < Len(segs[n].data)}
    <3>1. \A n \in DOMAIN segs : n < Len(segs) + 1
      BY <2>1
    <3> QED
      BY <3>1 DEF Covering, DoneOf
  <2> HIDE DEF covers
  <2>4. FileByte(infile_name, a) = CoveringByte(segs, covers, a)
    <3>1. FileByte(infile_name, a) = CoveringByte(segs,
             {n \in DOMAIN segs : (a - segs[n].vaddr) % SPACE < Len(segs[n].data)}, a)
      BY Zenon DEF FileByte
    <3> HIDE DEF segs
    <3> QED
      BY <2>3, <3>1, Zenon
  <2> QED
    BY <2>2, <2>4
<1> QED
  BY <1>1, <1>2, <1>3, TableHolds, LogHolds, PTL DEF Spec

=============================================================================
