----------------------------- MODULE AluProofs -----------------------------
(***************************************************************************)
(* The execute stage for every width of a register and every set of        *)
(* operands: what it computes is what instr/ says of the instructions on   *)
(* which the two emulators agree, the flags are those of the sum or the    *)
(* difference that set them, and a branch on them takes the right side.    *)
(***************************************************************************)
EXTENDS Alu, WellFoundedInduction, TLAPS

---------------------------------------------------------------------------
(* Powers of two.                                                          *)

(* Every non-empty set of naturals has a least element.                    *)
LEMMA LeastNatural ==
    ASSUME NEW T \in SUBSET Nat, T # {}
    PROVE  \E x \in T : \A y \in T : x <= y
<1>1. PICK x \in T : \A y \in T : ~(<<y, x>> \in OpToRel(<, Nat))
  BY NatLessThanWellFounded, WFMin
<1>2. \A y \in T : ~(y < x)
  BY <1>1 DEF OpToRel
<1> QED
  BY <1>2

(* What goes up from 0 to n one step at a time gets there.                 *)
LEMMA Ascends ==
    ASSUME NEW n \in Nat, NEW T \in SUBSET (0 .. n), 0 \in T,
           \A k \in 1 .. n : k - 1 \in T => k \in T
    PROVE  T = 0 .. n
<1> DEFINE Rest == (0 .. n) \ T
<1> SUFFICES ASSUME Rest # {} PROVE FALSE
  OBVIOUS
<1>1. PICK m \in Rest : \A k \in Rest : m <= k
  <2>1. Rest \in SUBSET Nat
    OBVIOUS
  <2> HIDE DEF Rest
  <2> QED
    BY <2>1, LeastNatural
<1>2. m \in 1 .. n
  OBVIOUS
<1>3. m - 1 \notin Rest /\ m - 1 \in 0 .. n
  BY <1>1, <1>2
<1> QED
  BY <1>2, <1>3

\* g doubles from one number to the next, up to n.
Doubles(g, n) == g = [k \in 0 .. n |-> IF k = 0 THEN 1 ELSE 2 * g[k - 1]]

LEMMA DoublesExists ==
    ASSUME NEW n \in Nat PROVE \E g : Doubles(g, n)
<1> DEFINE T == {m \in 0 .. n : \E g : Doubles(g, m)}
<1>1. 0 \in T
  <2> DEFINE g == [k \in 0 .. 0 |-> 1]
  <2>1. \A k \in 0 .. 0 : k = 0
    OBVIOUS
  <2>2. g = [k \in 0 .. 0 |-> IF k = 0 THEN 1 ELSE 2 * g[k - 1]]
    BY <2>1
  <2>3. Doubles(g, 0)
    BY <2>2 DEF Doubles
  <2> HIDE DEF g
  <2> QED
    BY <2>3
<1>2. ASSUME NEW m \in 1 .. n, m - 1 \in T PROVE m \in T
  <2>1. PICK g : Doubles(g, m - 1)
    BY <1>2
  <2> DEFINE h == [k \in 0 .. m |-> IF k = m THEN 2 * g[m - 1] ELSE g[k]]
  <2>2. ASSUME NEW k \in 0 .. m
        PROVE  h[k] = IF k = 0 THEN 1 ELSE 2 * h[k - 1]
    <3>1. CASE k = m
      <4>1. h[k - 1] = g[m - 1] /\ h[k] = 2 * g[m - 1]
        BY <3>1
      <4> QED
        BY <3>1, <4>1
    <3>2. CASE k # m
      <4>1. k \in 0 .. m - 1 /\ h[k] = g[k]
        BY <3>2
      <4>2. g[k] = IF k = 0 THEN 1 ELSE 2 * g[k - 1]
        BY <2>1, <4>1 DEF Doubles
      <4>3. k # 0 => h[k - 1] = g[k - 1]
        BY <4>1
      <4> QED
        BY <4>1, <4>2, <4>3
    <3> QED
      BY <3>1, <3>2
  <2>3. h = [k \in 0 .. m |-> h[k]]
    OBVIOUS
  <2> HIDE DEF h
  <2>4. Doubles(h, m)
    BY <2>2, <2>3 DEF Doubles
  <2> QED
    BY <2>4
<1> HIDE DEF T
<1>3. T \in SUBSET (0 .. n)
  BY DEF T
<1>4. T = 0 .. n
  BY <1>1, <1>2, <1>3, Ascends
<1> QED
  BY <1>4 DEF T

(* pow2 is what its definition says.                                       *)
LEMMA PowersOfTwo ==
    /\ pow2[0] = 1
    /\ \A n \in 1 .. w : pow2[n] = 2 * pow2[n - 1]
    /\ \A n \in 0 .. w : pow2[n] \in Nat \ {0}
<1>0. w \in Nat
  BY WordAssumption
<1>1. pow2 = CHOOSE g : Doubles(g, w)
  BY Zenon DEF pow2, Doubles
<1>2. Doubles(pow2, w)
  BY <1>0, <1>1, DoublesExists, Zenon
<1>3. pow2[0] = 1 /\ \A n \in 1 .. w : pow2[n] = 2 * pow2[n - 1]
  <2> DEFINE g == pow2
  <2>1. Doubles(g, w)
    BY <1>2
  <2> HIDE DEF g
  <2>2. ASSUME NEW n \in 0 .. w PROVE g[n] = IF n = 0 THEN 1 ELSE 2 * g[n - 1]
    <3> DEFINE f == [k \in 0 .. w |-> IF k = 0 THEN 1 ELSE 2 * g[k - 1]]
    <3>1. f[n] = IF n = 0 THEN 1 ELSE 2 * g[n - 1]
      OBVIOUS
    <3>2. g = f
      BY <2>1 DEF Doubles
    <3> HIDE DEF f
    <3> QED
      BY <3>1, <3>2
  <2>3. g[0] = 1 /\ \A n \in 1 .. w : g[n] = 2 * g[n - 1]
    BY <1>0, <2>2
  <2> QED
    BY <2>3 DEF g
<1> DEFINE T == {n \in 0 .. w : pow2[n] \in Nat \ {0}}
<1>4. T = 0 .. w
  <2>1. T \in SUBSET (0 .. w) /\ 0 \in T
    BY <1>0, <1>3
  <2>2. ASSUME NEW k \in 1 .. w, k - 1 \in T PROVE k \in T
    <3>1. pow2[k] = 2 * pow2[k - 1] /\ pow2[k - 1] \in Nat \ {0}
      BY <1>3, <2>2
    <3> QED
      BY <3>1
  <2> HIDE DEF T
  <2> QED
    BY <1>0, <2>1, <2>2, Ascends
<1> QED
  BY <1>3, <1>4

(* The power of a sum is the product of the powers.                        *)
LEMMA PowerOfSum ==
    ASSUME NEW m \in Nat, NEW n \in Nat, m + n <= w
    PROVE  pow2[m + n] = pow2[m] * pow2[n]
<1> DEFINE T == {k \in 0 .. n : pow2[m + k] = pow2[m] * pow2[k]}
<1>0. w \in Nat
  BY WordAssumption
<1>1. T \in SUBSET (0 .. n) /\ 0 \in T
  <2>1. pow2[m] \in Nat /\ pow2[0] = 1
    BY <1>0, PowersOfTwo
  <2> QED
    BY <2>1
<1>2. ASSUME NEW k \in 1 .. n, k - 1 \in T PROVE k \in T
  <2>1. /\ pow2[m + k] = 2 * pow2[m + k - 1]
        /\ pow2[k] = 2 * pow2[k - 1]
        /\ pow2[m] \in Nat /\ pow2[k - 1] \in Nat
    BY <1>0, PowersOfTwo
  <2>2. pow2[m + (k - 1)] = pow2[m] * pow2[k - 1] /\ m + (k - 1) = m + k - 1
    BY <1>2
  <2>3. 2 * (pow2[m] * pow2[k - 1]) = pow2[m] * (2 * pow2[k - 1])
    BY <2>1
  <2> QED
    BY <2>1, <2>2, <2>3
<1> HIDE DEF T
<1>3. T = 0 .. n
  BY <1>1, <1>2, Ascends
<1> QED
  BY <1>3 DEF T

(* A power is not less than a smaller one.                                 *)
LEMMA PowersGrow ==
    ASSUME NEW m \in Nat, NEW n \in Nat, m <= n, n <= w
    PROVE  pow2[m] <= pow2[n]
<1> DEFINE d == n - m
<1>1. d \in Nat /\ m + d = n
  OBVIOUS
<1> HIDE DEF d
<1>2. pow2[n] = pow2[m] * pow2[d]
  BY <1>1, PowerOfSum
<1>3. pow2[m] \in Nat \ {0} /\ pow2[d] \in Nat \ {0}
  BY <1>1, PowersOfTwo, WordAssumption
<1>4. PICK e \in Nat : pow2[d] = e + 1
  <2>1. pow2[d] - 1 \in Nat /\ pow2[d] = (pow2[d] - 1) + 1
    BY <1>3
  <2> QED
    BY <2>1
<1>5. pow2[m] * pow2[d] = pow2[m] * e + pow2[m] /\ pow2[m] * e >= 0
  BY <1>3, <1>4
<1> QED
  BY <1>2, <1>3, <1>5

(* Half of the range.                                                      *)
LEMMA Halves ==
    \E H \in Nat \ {0} : Modulus = 2 * H /\ Modulus \div 2 = H
<1>1. w \in 1 .. w
  BY WordAssumption
<1>2. Modulus = 2 * pow2[w - 1] /\ pow2[w - 1] \in Nat \ {0}
  BY <1>1, PowersOfTwo DEF Modulus
<1> QED
  BY <1>2

---------------------------------------------------------------------------
(* Division.                                                               *)

(* More whole multiples are more by at least one.                          *)
LEMMA OneMultipleMore ==
    ASSUME NEW d \in Nat, NEW p \in Int, NEW q \in Int, p < q
    PROVE  p * d + d <= q * d
<1>1. PICK n \in Nat : q = p + 1 + n
  <2>1. q - p - 1 \in Nat /\ q = p + 1 + (q - p - 1)
    OBVIOUS
  <2> QED
    BY <2>1
<1>2. n * d >= 0 /\ q * d = p * d + d + n * d
  BY <1>1
<1>3. p * d \in Int /\ n * d \in Int
  OBVIOUS
<1> QED
  BY <1>2, <1>3

(* Quotient and remainder are unique, of a negative number too.            *)
LEMMA OneQuotient ==
    ASSUME NEW d \in Nat \ {0}, NEW q \in Int, NEW r \in 0 .. d - 1
    PROVE  (q * d + r) \div d = q /\ ((q * d + r) % d) = r
<1> DEFINE x == q * d + r
           p == x \div d
           m == x % d
<1>1. x \in Int /\ q * d \in Int
  OBVIOUS
<1>2. p \in Int /\ m \in 0 .. d - 1 /\ x = d * p + m
  BY <1>1
<1>3. p * d \in Int /\ d * p = p * d
  BY <1>2
<1> HIDE DEF p, m
<1>4. ~(p < q)
  <2> SUFFICES ASSUME p < q PROVE FALSE
    OBVIOUS
  <2>1. p * d + d <= q * d
    BY <1>2, OneMultipleMore
  <2> QED
    BY <1>1, <1>2, <1>3, <2>1
<1>5. ~(q < p)
  <2> SUFFICES ASSUME q < p PROVE FALSE
    OBVIOUS
  <2>1. q * d + d <= p * d
    BY <1>2, OneMultipleMore
  <2> QED
    BY <1>1, <1>2, <1>3, <2>1
<1>6. p = q
  BY <1>2, <1>4, <1>5
<1>7. m = r
  BY <1>1, <1>2, <1>3, <1>6
<1> QED
  BY <1>6, <1>7 DEF p, m

(* A number is its quotient and its remainder.                             *)
LEMMA Divided ==
    ASSUME NEW d \in Nat \ {0}, NEW x \in Nat
    PROVE  x \div d \in Nat /\ (x % d) \in 0 .. d - 1 /\ x = ((x \div d) * d) + (x % d)
OBVIOUS

---------------------------------------------------------------------------
(* The bits of a word.                                                     *)

LEMMA BitOf ==
    ASSUME NEW a \in Word, NEW k
    PROVE  k \in Bits[a] <=> k \in 0 .. w - 1 /\ (a \div pow2[k]) % 2 = 1
  BY DEF Bits

(* The lowest n + 1 bits are the lowest n and the next one.                *)
LEMMA NextBit ==
    ASSUME NEW a \in Nat, NEW n \in 0 .. w - 1
    PROVE  (a % pow2[n + 1]) = (a % pow2[n]) + pow2[n] * ((a \div pow2[n]) % 2)
<1> DEFINE p == pow2[n]
           q == a \div p
           r == a % p
           t == q \div 2
           u == q % 2
<1>1. p \in Nat \ {0} /\ pow2[n + 1] = 2 * p
  <2>1. n \in 0 .. w /\ n + 1 \in 1 .. w /\ n + 1 - 1 = n
    BY WordAssumption
  <2> QED
    BY <2>1, PowersOfTwo
<1> HIDE DEF p
<1>2. q \in Nat /\ r \in 0 .. p - 1 /\ a = q * p + r
  BY <1>1, Divided
<1> HIDE DEF q, r
<1>3. t \in Nat /\ u \in 0 .. 1 /\ q = t * 2 + u
  BY <1>2
<1> HIDE DEF t, u
<1>4. a = t * (2 * p) + (p * u + r)
  BY <1>1, <1>2, <1>3
<1>5. p * u + r \in 0 .. 2 * p - 1
  <2>1. CASE u = 0
    BY <1>1, <1>2, <2>1
  <2>2. CASE u = 1
    BY <1>1, <1>2, <2>2
  <2> QED
    BY <1>3, <2>1, <2>2
<1>6. 2 * p \in Nat \ {0}
  BY <1>1
<1>7. (a % (2 * p)) = p * u + r
  BY <1>3, <1>4, <1>5, <1>6, OneQuotient
<1>8. (a % (2 * p)) = r + p * u
  BY <1>1, <1>2, <1>3, <1>7
<1> QED
  BY <1>1, <1>8 DEF p, q, r, u

(* A word has no bits but its own.                                         *)
LEMMA BitsTellWords ==
    ASSUME NEW a \in Word, NEW b \in Word, Bits[a] = Bits[b]
    PROVE  a = b
<1> DEFINE T == {n \in 0 .. w : (a % pow2[n]) = (b % pow2[n])}
<1>0. /\ w \in Nat /\ a \in Nat /\ b \in Nat
      /\ Modulus \in Nat \ {0} /\ a < Modulus /\ b < Modulus
  BY WordAssumption, Halves DEF Word
<1>1. T \in SUBSET (0 .. w) /\ 0 \in T
  <2>1. pow2[0] = 1 /\ (a % 1) = 0 /\ (b % 1) = 0
    BY <1>0, PowersOfTwo
  <2> QED
    BY <1>0, <2>1
<1>2. ASSUME NEW n \in 1 .. w, n - 1 \in T PROVE n \in T
  <2> DEFINE m == n - 1
  <2>1. m \in 0 .. w - 1 /\ m + 1 = n /\ pow2[m] \in Nat \ {0}
    BY <1>0, PowersOfTwo
  <2>2. (a % pow2[m]) = (b % pow2[m])
    BY <1>2
  <2> HIDE DEF m
  <2>3. (a \div pow2[m]) % 2 = 1 <=> (b \div pow2[m]) % 2 = 1
    BY <2>1, BitOf
  <2>4. (a \div pow2[m]) % 2 \in 0 .. 1 /\ (b \div pow2[m]) % 2 \in 0 .. 1
    <3>1. a \div pow2[m] \in Nat /\ b \div pow2[m] \in Nat
      BY <1>0, <2>1, Divided
    <3> QED
      BY <3>1
  <2>5. (a \div pow2[m]) % 2 = (b \div pow2[m]) % 2
    BY <2>3, <2>4
  <2>6. (a % pow2[n]) = (b % pow2[n])
    BY <1>0, <2>1, <2>2, <2>5, NextBit
  <2> QED
    BY <2>6
<1> HIDE DEF T
<1>3. T = 0 .. w
  BY <1>0, <1>1, <1>2, Ascends
<1>4. (a % Modulus) = (b % Modulus)
  BY <1>0, <1>3 DEF T, Modulus
<1>5. (a % Modulus) = a /\ (b % Modulus) = b
  <2>1. \A x \in Nat : x < Modulus => (x % Modulus) = x
    <3> SUFFICES ASSUME NEW x \in Nat, x < Modulus PROVE (x % Modulus) = x
      OBVIOUS
    <3>1. 0 * Modulus + x = x /\ x \in 0 .. Modulus - 1
      BY <1>0
    <3> QED
      BY <1>0, <3>1, OneQuotient
  <2> QED
    BY <1>0, <2>1
<1> QED
  BY <1>4, <1>5

(* A number below a power of two has no bit there or above.                *)
LEMMA ShortWord ==
    ASSUME NEW n \in 0 .. w, NEW a \in Word, a < pow2[n], NEW k \in Bits[a]
    PROVE  k < n
<1> SUFFICES ASSUME n <= k PROVE FALSE
  BY BitOf
<1>1. k \in 0 .. w - 1 /\ (a \div pow2[k]) % 2 = 1
  BY BitOf
<1>2. pow2[n] \in Nat /\ pow2[k] \in Nat \ {0} /\ pow2[n] <= pow2[k]
  BY <1>1, PowersOfTwo, PowersGrow, WordAssumption
<1>3. a \in 0 .. pow2[k] - 1
  BY <1>2 DEF Word
<1>4. 0 * pow2[k] + a = a
  BY <1>2, <1>3
<1>5. a \div pow2[k] = 0
  BY <1>2, <1>3, <1>4, OneQuotient
<1> QED
  BY <1>1, <1>5

(* A word is that of its bits.                                             *)
LEMMA WordOfBits ==
    ASSUME NEW a \in Word PROVE WordOf[Bits[a]] = a
<1>1. Bits[a] \in SUBSET (0 .. w - 1)
  BY BitOf
<1>2. WordOf[Bits[a]] = CHOOSE n \in Word : Bits[n] = Bits[a]
  BY <1>1 DEF WordOf
<1> QED
  BY <1>2, BitsTellWords

(* A number and a higher power of two: one bit more.                       *)
LEMMA OneBitMore ==
    ASSUME NEW m \in 0 .. w - 1, NEW x \in 0 .. pow2[m] - 1
    PROVE  /\ x \in Word /\ x + pow2[m] \in 0 .. pow2[m + 1] - 1 /\ x + pow2[m] \in Word
           /\ Bits[x + pow2[m]] = Bits[x] \cup {m}
<1> DEFINE y == x + pow2[m]
<1>1. /\ m \in Nat /\ w \in Nat /\ pow2[m] \in Nat \ {0} /\ pow2[m + 1] = 2 * pow2[m]
      /\ pow2[m + 1] <= Modulus /\ Modulus \in Nat
  <2>1. m \in 0 .. w /\ m + 1 \in 1 .. w /\ m + 1 - 1 = m /\ w \in Nat /\ w \in 0 .. w
    BY WordAssumption
  <2> QED
    BY <2>1, PowersOfTwo, PowersGrow DEF Modulus
<1>2. x \in Word /\ y \in 0 .. pow2[m + 1] - 1 /\ y \in Word
  BY <1>1 DEF Word
<1> HIDE DEF y
<1>3. ASSUME NEW k \in 0 .. w - 1, k < m
      PROVE  k \in Bits[y] <=> k \in Bits[x]
  <2> DEFINE p == pow2[k]
             q == x \div p
             r == x % p
             d == m - k - 1
             e == pow2[d]
  <2>1. /\ d \in Nat /\ d \in 0 .. w /\ d + 1 \in 1 .. w /\ d + 1 - 1 = d
        /\ k + (d + 1) = m /\ k + (d + 1) <= w
    BY <1>1, <1>3
  <2> HIDE DEF d
  <2>2. e \in Nat /\ pow2[d + 1] = 2 * e /\ p \in Nat \ {0}
    BY <1>1, <2>1, PowersOfTwo
  <2>3. pow2[m] = p * (2 * e)
    <3>1. d + 1 \in Nat /\ k \in Nat
      BY <2>1
    <3> QED
      BY <2>1, <2>2, <3>1, PowerOfSum
  <2> HIDE DEF p, e
  <2>4. q \in Nat /\ r \in 0 .. p - 1 /\ x = q * p + r
    <3>1. x \in Nat
      BY <1>1
    <3> QED
      BY <2>2, <3>1, Divided
  <2> HIDE DEF q, r
  <2>5. y = (q + 2 * e) * p + r
    BY <2>2, <2>3, <2>4 DEF y
  <2>6. y \div p = q + 2 * e
    <3>1. q + 2 * e \in Int
      BY <2>2, <2>4
    <3> QED
      BY <2>2, <2>4, <2>5, <3>1, OneQuotient
  <2>7. (q + 2 * e) % 2 = q % 2
    BY <2>2, <2>4
  <2> QED
    BY <1>2, <2>6, <2>7, BitOf DEF p, q
<1>4. m \in Bits[y]
  <2>1. y = 1 * pow2[m] + x
    BY <1>1 DEF y
  <2>2. y \div pow2[m] = 1
    BY <1>1, <2>1, OneQuotient
  <2> QED
    BY <1>2, <2>2, BitOf
<1>5. ASSUME NEW k, k \in Bits[y] PROVE k \in Bits[x] \cup {m}
  <2>1. k < m + 1 /\ k \in 0 .. w - 1
    BY <1>1, <1>2, <1>5, ShortWord, BitOf
  <2> QED
    BY <1>1, <1>3, <1>5, <2>1
<1>6. ASSUME NEW k, k \in Bits[x] PROVE k \in Bits[y]
  <2>1. k < m /\ k \in 0 .. w - 1
    <3>1. m \in 0 .. w /\ x < pow2[m]
      BY <1>1
    <3> QED
      BY <1>2, <1>6, <3>1, ShortWord, BitOf
  <2> QED
    BY <1>3, <1>6, <2>1
<1>7. Bits[y] = Bits[x] \cup {m}
  BY <1>4, <1>5, <1>6
<1> QED
  BY <1>2, <1>7 DEF y

(* Every set of bits is that of a word.                                    *)
LEMMA BitsOfWord ==
    ASSUME NEW s \in SUBSET (0 .. w - 1)
    PROVE  WordOf[s] \in Word /\ Bits[WordOf[s]] = s
<1> DEFINE Has(n) == \E x \in 0 .. pow2[n] - 1 : x \in Word /\ Bits[x] = s \cap (0 .. n - 1)
           T == {n \in 0 .. w : Has(n)}
<1>0. w \in Nat
  BY WordAssumption
<1>1. T \in SUBSET (0 .. w) /\ 0 \in T
  <2>1. pow2[0] = 1 /\ 0 \in 0 .. pow2[0] - 1 /\ 0 \in Word /\ 0 < pow2[0] /\ 0 \in 0 .. w
    BY <1>0, PowersOfTwo, Halves DEF Word
  <2>2. \A k \in Bits[0] : k < 0 /\ k \in 0 .. w - 1
    BY <2>1, ShortWord, BitOf
  <2>3. Bits[0] = {} /\ s \cap (0 .. 0 - 1) = {}
    BY <1>0, <2>2
  <2>4. Has(0)
    BY <2>1, <2>3
  <2> QED
    BY <1>0, <2>4
<1>2. ASSUME NEW n \in 1 .. w, n - 1 \in T PROVE n \in T
  <2> DEFINE m == n - 1
  <2>1. m \in 0 .. w - 1 /\ m + 1 = n
    BY <1>0
  <2>2. Has(m)
    BY <1>2
  <2> HIDE DEF m
  <2>3. PICK x \in 0 .. pow2[m] - 1 : x \in Word /\ Bits[x] = s \cap (0 .. m - 1)
    BY <2>2
  <2>4. /\ x + pow2[m] \in 0 .. pow2[m + 1] - 1 /\ x + pow2[m] \in Word
        /\ Bits[x + pow2[m]] = Bits[x] \cup {m}
    BY <2>1, OneBitMore
  <2>5. CASE m \in s
    <3>1. (s \cap (0 .. m - 1)) \cup {m} = s \cap (0 .. n - 1)
      BY <1>0, <2>1, <2>5
    <3>2. Has(n)
      BY <2>1, <2>3, <2>4, <3>1
    <3> QED
      BY <3>2
  <2>6. CASE m \notin s
    <3>1. s \cap (0 .. m - 1) = s \cap (0 .. n - 1)
      BY <1>0, <2>1, <2>6
    <3>2. pow2[m] \in Nat /\ pow2[n] = 2 * pow2[m]
      BY <1>0, <2>1, PowersOfTwo
    <3>3. x \in 0 .. pow2[n] - 1
      BY <2>3, <3>2
    <3>4. Has(n)
      BY <2>3, <3>1, <3>3
    <3> QED
      BY <3>4
  <2> QED
    BY <2>5, <2>6
<1> HIDE DEF T
<1>3. T = 0 .. w
  BY <1>0, <1>1, <1>2, Ascends
<1>4. Has(w)
  BY <1>0, <1>3 DEF T
<1>5. \E x \in Word : Bits[x] = s
  BY <1>4
<1>6. WordOf[s] = CHOOSE n \in Word : Bits[n] = s
  BY DEF WordOf
<1> QED
  BY <1>5, <1>6

(* The bitwise operators make words of words.                              *)
LEMMA BitwiseTyped ==
    ASSUME NEW a \in Word, NEW b \in Word
    PROVE  BitAnd(a, b) \in Word /\ BitOr(a, b) \in Word /\ BitXor(a, b) \in Word
<1>1. Bits[a] \in SUBSET (0 .. w - 1) /\ Bits[b] \in SUBSET (0 .. w - 1)
  BY BitOf
<1> QED
  BY <1>1, BitsOfWord DEF BitAnd, BitOr, BitXor

---------------------------------------------------------------------------
(* Half-words.                                                             *)

LEMMA NoBits == 0 \in Word /\ Bits[0] = {}
<1>1. 0 \in Word /\ 0 \in 0 .. w /\ pow2[0] = 1
  BY Halves, PowersOfTwo, WordAssumption DEF Word
<1>2. \A k \in Bits[0] : k < 0 /\ k \in 0 .. w - 1
  BY <1>1, ShortWord, BitOf
<1> QED
  BY <1>1, <1>2

(* A shifted half-word is a word, with no bit outside its field.           *)
LEMMA HalfWordInField ==
    ASSUME NEW b \in HalfWords, NEW hw \in Shifts
    PROVE  /\ b * pow2[hw] \in Word /\ Field(hw) \in Word
           /\ Bits[b * pow2[hw]] \subseteq Bits[Field(hw)]
<1> DEFINE P == pow2[hw]
           Q == pow2[HW]
           x == b * P
           f == P * (Q - 1)
<1>1. /\ hw \in Nat /\ HW \in Nat \ {0} /\ w \in Nat /\ hw + HW <= w
      /\ hw \in 0 .. w /\ HW \in 0 .. w /\ w \in 0 .. w /\ hw + HW \in 0 .. w
  <2>1. w \in Nat \ {0} /\ HW \in Int /\ 4 * HW = w
    BY WordAssumption DEF HW
  <2>2. hw = 0 \/ hw = HW \/ hw = 2 * HW \/ hw = 3 * HW
    BY DEF Shifts
  <2> QED
    BY <2>1, <2>2
<1>2. /\ P \in Nat \ {0} /\ Q \in Nat \ {0} /\ Modulus \in Nat
      /\ pow2[hw + HW] = P * Q /\ pow2[hw + HW] <= Modulus
  BY <1>1, PowersOfTwo, PowerOfSum, PowersGrow DEF Modulus
<1>3. b \in 0 .. Q - 1
  BY DEF HalfWords
<1>4. Field(hw) = f
  BY DEF Field
<1> HIDE DEF P, Q
<1>5. x \in Nat /\ x + P <= P * Q /\ f \in Nat /\ f + P = P * Q
  <2>1. PICK n \in Nat : Q = b + 1 + n
    <3>1. Q - b - 1 \in Nat /\ Q = b + 1 + (Q - b - 1)
      BY <1>2, <1>3
    <3> QED
      BY <3>1
  <2>2. P * Q = b * P + P + n * P /\ n * P \in Nat /\ b * P \in Nat
    BY <1>2, <1>3, <2>1
  <2>3. Q - 1 \in Nat /\ P * (Q - 1) \in Nat /\ P * Q = P * (Q - 1) + P
    BY <1>2
  <2> QED
    BY <1>2, <2>2, <2>3
<1> HIDE DEF x, f
<1>6. x \in Word /\ f \in Word /\ x < P * Q
  <2>1. P * Q \in Nat
    BY <1>2
  <2> QED
    BY <1>2, <1>5, <2>1 DEF Word
<1>7. ASSUME NEW k \in Bits[x] PROVE k \in Bits[f]
  <2>1. k \in 0 .. w - 1 /\ (x \div pow2[k]) % 2 = 1
    BY <1>6, BitOf
  <2>2. k < hw + HW
    BY <1>1, <1>2, <1>6, ShortWord
  <2>3. hw <= k
    <3> SUFFICES ASSUME k < hw PROVE FALSE
      BY <1>1, <2>1
    <3> DEFINE d == hw - k - 1
               p == pow2[k]
               e == pow2[d]
    <3>1. /\ d \in Nat /\ d \in 0 .. w /\ d + 1 \in 1 .. w /\ d + 1 - 1 = d
          /\ k + (d + 1) = hw /\ k \in Nat /\ d + 1 \in Nat /\ k \in 0 .. w
      BY <1>1, <2>1
    <3> HIDE DEF d
    <3>2. P = p * (2 * e) /\ e \in Nat /\ p \in Nat \ {0}
      <4>1. pow2[d + 1] = 2 * e /\ e \in Nat /\ p \in Nat \ {0}
        BY <3>1, PowersOfTwo
      <4>2. pow2[k + (d + 1)] = pow2[k] * pow2[d + 1]
        BY <1>1, <3>1, PowerOfSum
      <4> QED
        BY <3>1, <4>1, <4>2 DEF P
    <3> HIDE DEF p, e
    <3> DEFINE g == b * e
    <3>3. g \in Nat /\ x = (2 * g) * p + 0
      BY <1>3, <3>2 DEF x
    <3> HIDE DEF g
    <3>4. x \div p = 2 * g
      <4>1. 2 * g \in Int /\ 0 \in 0 .. p - 1
        BY <3>2, <3>3
      <4> QED
        BY <3>2, <3>3, <4>1, OneQuotient
    <3>5. (2 * g) % 2 = 0
      BY <3>3
    <3> QED
      BY <2>1, <3>4, <3>5 DEF p
  <2> DEFINE j == k - hw
             J == pow2[j]
             d == HW - j - 1
             e == pow2[d]
  <2>4. /\ j \in Nat /\ j \in 0 .. w /\ hw + j = k
        /\ d \in Nat /\ d \in 0 .. w /\ d + 1 \in Nat /\ d + 1 \in 1 .. w /\ d + 1 - 1 = d
        /\ j + (d + 1) = HW
    BY <1>1, <2>1, <2>2, <2>3
  <2> HIDE DEF j, d
  <2>5. /\ J \in Nat \ {0} /\ e \in Nat \ {0} /\ Q = J * (2 * e)
        /\ pow2[k] = P * J
    <3>1. J \in Nat \ {0} /\ e \in Nat \ {0} /\ pow2[d + 1] = 2 * e
      BY <2>4, PowersOfTwo
    <3>2. pow2[j + (d + 1)] = pow2[j] * pow2[d + 1]
      BY <1>1, <2>4, PowerOfSum
    <3>3. pow2[hw + j] = pow2[hw] * pow2[j]
      BY <1>1, <2>1, <2>4, PowerOfSum
    <3> QED
      BY <2>4, <3>1, <3>2, <3>3 DEF P, Q
  <2> HIDE DEF J, e
  <2> DEFINE D == P * J
  <2>6. D \in Nat \ {0} /\ D >= P
    <3>1. PICK n \in Nat : J = n + 1
      <4>1. J - 1 \in Nat /\ J = (J - 1) + 1
        BY <2>5
      <4> QED
        BY <4>1
    <3>2. P * J = P * n + P /\ P * n \in Nat
      BY <1>2, <3>1
    <3> QED
      BY <1>2, <3>2
  <2>7. f = (2 * e - 1) * D + (D - P)
    <3>1. P * Q = (2 * e) * D
      BY <1>2, <2>5
    <3>2. (2 * e - 1) * D = (2 * e) * D - D
      BY <2>5, <2>6
    <3>3. (2 * e) * D \in Nat
      BY <2>5, <2>6
    <3> QED
      BY <1>2, <1>5, <2>6, <3>1, <3>2, <3>3
  <2> HIDE DEF D
  <2>8. f \div D = 2 * e - 1
    <3>1. 2 * e - 1 \in Int /\ D - P \in 0 .. D - 1
      BY <1>2, <2>5, <2>6
    <3> QED
      BY <2>6, <2>7, <3>1, OneQuotient
  <2>9. (2 * e - 1) % 2 = 1
    BY <2>5
  <2> QED
    BY <1>6, <2>1, <2>5, <2>8, <2>9, BitOf DEF D
<1>8. Bits[x] \subseteq Bits[f]
  BY <1>7
<1> QED
  BY <1>4, <1>6, <1>8 DEF x, P

\* What a register keeps of a word.
LEMMA WordKept == ASSUME NEW a \in Word PROVE Truncated(a) = a
<1>1. Modulus \in Nat \ {0}
  BY Halves
<1>2. a \in 0 .. Modulus - 1 /\ 0 * Modulus + a = a
  BY <1>1 DEF Word
<1>3. (a % Modulus) = a
  BY <1>1, <1>2, OneQuotient
<1> QED
  BY <1>3 DEF Truncated

(* Moving a half-word into a register whose field is clear: the mask of the *)
(* sequential routine (MOVK.c:26) takes nothing away.                       *)
LEMMA MovesAgree ==
    ASSUME NEW a \in Word, NEW b \in HalfWords, NEW hw \in Shifts
    PROVE  /\ BitOr(0, Truncated(b * pow2[hw])) = execute_MOVZ(b, hw)
           /\ BitAnd(a, Field(hw)) = 0 =>
                 BitOr(a, Truncated(b * pow2[hw])) = execute_MOVK(a, b, hw)
<1> DEFINE x == b * pow2[hw]
<1>1. x \in Word /\ Field(hw) \in Word /\ Bits[x] \subseteq Bits[Field(hw)]
  BY HalfWordInField
<1>2. Truncated(x) = x
  BY <1>1, WordKept
<1>3. execute_MOVZ(b, hw) = BitAnd(x, Field(hw))
  BY DEF execute_MOVZ
<1>4. execute_MOVK(a, b, hw) =
         BitOr(a - BitAnd(a, Field(hw)), BitAnd(x, Field(hw)))
  BY DEF execute_MOVK
<1> HIDE DEF x
<1>5. BitAnd(x, Field(hw)) = x
  <2>1. Bits[x] \cap Bits[Field(hw)] = Bits[x]
    BY <1>1
  <2> QED
    BY <1>1, <2>1, WordOfBits DEF BitAnd
<1>6. BitOr(0, x) = x
  <2>1. Bits[0] \cup Bits[x] = Bits[x]
    BY NoBits
  <2> QED
    BY <1>1, <2>1, WordOfBits DEF BitOr
<1>7. BitAnd(a, Field(hw)) = 0 => a - BitAnd(a, Field(hw)) = a
  <2>1. a \in Nat
    BY DEF Word
  <2> QED
    BY <2>1
<1> QED
  BY <1>2, <1>3, <1>4, <1>5, <1>6, <1>7 DEF x

---------------------------------------------------------------------------
(* Sums, differences and their flags.                                      *)

(* A sum or a difference of words, wrapped.                                *)
LEMMA Wraps ==
    ASSUME NEW n \in Int, -Modulus <= n, n < 2 * Modulus
    PROVE  Truncated(n) = IF n < 0 THEN n + Modulus
                          ELSE IF n < Modulus THEN n ELSE n - Modulus
<1>1. Modulus \in Nat \ {0}
  BY Halves
<1>2. CASE n < 0
  <2>1. n + Modulus \in 0 .. Modulus - 1 /\ n = (-1) * Modulus + (n + Modulus)
    BY <1>1, <1>2
  <2>2. (n % Modulus) = n + Modulus
    BY <1>1, <2>1, OneQuotient
  <2> QED
    BY <1>2, <2>2 DEF Truncated
<1>3. CASE 0 <= n /\ n < Modulus
  <2>1. n \in 0 .. Modulus - 1 /\ n = 0 * Modulus + n
    BY <1>1, <1>3
  <2>2. (n % Modulus) = n
    BY <1>1, <2>1, OneQuotient
  <2> QED
    BY <1>1, <1>3, <2>2 DEF Truncated
<1>4. CASE Modulus <= n
  <2>1. n - Modulus \in 0 .. Modulus - 1 /\ n = 1 * Modulus + (n - Modulus)
    BY <1>1, <1>4
  <2>2. (n % Modulus) = n - Modulus
    BY <1>1, <2>1, OneQuotient
  <2> QED
    BY <1>1, <1>4, <2>2 DEF Truncated
<1> QED
  BY <1>1, <1>2, <1>3, <1>4

\* What is kept of any result is a word.
LEMMA Kept == ASSUME NEW n \in Int PROVE Truncated(n) \in Word
<1>1. Modulus \in Nat \ {0}
  BY Halves
<1>2. (n % Modulus) \in 0 .. Modulus - 1
  BY <1>1
<1> QED
  BY <1>2 DEF Truncated, Word

(* A flag comes out of the register as it went in.                         *)
LEMMA Unpacked ==
    ASSUME NEW n \in 0 .. 1, NEW z \in 0 .. 1, NEW c \in 0 .. 1, NEW v \in 0 .. 1
    PROVE  /\ PACK_CC(n, z, c, v) \in 0 .. 15
           /\ GET_NF(PACK_CC(n, z, c, v)) = n /\ GET_ZF(PACK_CC(n, z, c, v)) = z
           /\ GET_CF(PACK_CC(n, z, c, v)) = c /\ GET_VF(PACK_CC(n, z, c, v)) = v
  BY DEF PACK_CC, GET_NF, GET_ZF, GET_CF, GET_VF

\* The overflow that alu_flags puts into V.
Overflows(a, b) ==
    /\ (Signed(a) < 0) = (Signed(b) < 0)
    /\ (Signed(Truncated(a + b)) < 0) # (Signed(a) < 0)

LEMMA FlagsAre ==
    ASSUME NEW a, NEW b, NEW res, NEW cc, cc = alu_flags(a, b, res)
    PROVE  /\ cc \in 0 .. 15
           /\ GET_NF(cc) = Bit(Signed(res) < 0) /\ GET_ZF(cc) = Bit(res = 0)
           /\ GET_CF(cc) = Bit(carry(a, res)) /\ GET_VF(cc) = Bit(Overflows(a, b))
<1> DEFINE n == Bit(Signed(res) < 0)
           z == Bit(res = 0)
           c == Bit(carry(a, res))
           v == Bit(Overflows(a, b))
<1>1. n \in 0 .. 1 /\ z \in 0 .. 1 /\ c \in 0 .. 1 /\ v \in 0 .. 1
  BY DEF Bit
<1>2. cc = PACK_CC(n, z, c, v)
  BY Zenon DEF alu_flags, Overflows
<1> HIDE DEF n, z, c, v
<1>3. /\ PACK_CC(n, z, c, v) \in 0 .. 15
      /\ GET_NF(PACK_CC(n, z, c, v)) = n /\ GET_ZF(PACK_CC(n, z, c, v)) = z
      /\ GET_CF(PACK_CC(n, z, c, v)) = c /\ GET_VF(PACK_CC(n, z, c, v)) = v
  BY <1>1, Unpacked
<1> QED
  BY <1>2, <1>3, Zenon DEF n, z, c, v

\* The signed value of a word, by the half of the range it is in.
LEMMA SignedIs ==
    ASSUME NEW H \in Nat \ {0}, Modulus = 2 * H, Modulus \div 2 = H, NEW a \in Word
    PROVE  /\ a \in 0 .. 2 * H - 1
           /\ Signed(a) = IF a < H THEN a ELSE a - 2 * H
           /\ \A n \in Int : InRange(n) <=> -H <= n /\ n < H
  BY DEF Signed, InRange, Word

(* After ADDS the carry says that the sum passed the end of the range, and  *)
(* the overflow that the signed sum left its own (hw_elts.c:104-108).       *)
LEMMA SumFlags ==
    ASSUME NEW a \in Word, NEW b \in Word, NEW res, res = Truncated(a + b)
    PROVE  /\ carry(a, res) <=> a + b >= Modulus
           /\ Overflows(a, b) <=> ~InRange(Signed(a) + Signed(b))
<1>1. PICK H \in Nat \ {0} : Modulus = 2 * H /\ Modulus \div 2 = H
  BY Halves
<1>2. /\ a \in 0 .. 2 * H - 1 /\ b \in 0 .. 2 * H - 1
      /\ Signed(a) = (IF a < H THEN a ELSE a - 2 * H)
      /\ Signed(b) = (IF b < H THEN b ELSE b - 2 * H)
      /\ \A n \in Int : InRange(n) <=> -H <= n /\ n < H
  BY <1>1, SignedIs
<1>3. a + b \in Int /\ 0 <= a + b /\ -Modulus <= a + b /\ a + b < 2 * Modulus
  BY <1>1, <1>2
<1>4. res = IF a + b < 2 * H THEN a + b ELSE a + b - 2 * H
  <2>1. PICK n \in Int : n = a + b
    BY <1>3
  <2>2. -Modulus <= n /\ n < 2 * Modulus /\ ~(n < 0) /\ res = Truncated(n)
    BY <1>3, <2>1
  <2>3. res = IF n < 0 THEN n + Modulus ELSE IF n < Modulus THEN n ELSE n - Modulus
    BY <2>2, Wraps
  <2> QED
    BY <1>1, <1>2, <2>1, <2>2, <2>3
<1>5. res \in Word
  BY <1>3, Kept
<1>6. res \in 0 .. 2 * H - 1 /\ Signed(res) = IF res < H THEN res ELSE res - 2 * H
  BY <1>1, <1>5, SignedIs
<1>7. carry(a, res) <=> a + b >= Modulus
  BY <1>1, <1>2, <1>4 DEF carry
<1> DEFINE sum == Signed(a) + Signed(b)
<1>8. sum \in Int
  BY <1>1, <1>2
<1>9. InRange(sum) <=> -H <= sum /\ sum < H
  BY <1>2, <1>8
<1>14. Overflows(a, b) <=> /\ (Signed(a) < 0) = (Signed(b) < 0)
                           /\ (Signed(res) < 0) # (Signed(a) < 0)
  BY DEF Overflows
<1>10. CASE a < H /\ b < H
  BY <1>1, <1>2, <1>4, <1>6, <1>7, <1>9, <1>14, <1>10
<1>11. CASE a < H /\ b >= H
  BY <1>1, <1>2, <1>4, <1>6, <1>7, <1>9, <1>14, <1>11
<1>12. CASE a >= H /\ b < H
  BY <1>1, <1>2, <1>4, <1>6, <1>7, <1>9, <1>14, <1>12
<1>13. CASE a >= H /\ b >= H
  BY <1>1, <1>2, <1>4, <1>6, <1>7, <1>9, <1>14, <1>13
<1> QED
  BY <1>1, <1>2, <1>7, <1>10, <1>11, <1>12, <1>13

(* What a difference is, and the complement by which SUBS_RR.c:22 makes it. *)
LEMMA Difference ==
    ASSUME NEW a \in Word, NEW b \in Word
    PROVE  /\ Truncated(a - b) = execute_SUBS_RR(a, b)
           /\ Truncated(a - b) = IF a < b THEN a - b + Modulus ELSE a - b
<1>1. Modulus \in Nat \ {0}
  BY Halves
<1>2. a \in 0 .. Modulus - 1 /\ b \in 0 .. Modulus - 1
  BY <1>1 DEF Word
<1> DEFINE n == a - b
           m == a + (Modulus - 1 - b) + 1
<1>3. /\ n \in Int /\ -Modulus <= n /\ n < 2 * Modulus
      /\ m \in Int /\ -Modulus <= m /\ m < 2 * Modulus /\ m = n + Modulus
  BY <1>1, <1>2
<1> HIDE DEF n, m
<1>4. /\ Truncated(n) = (IF n < 0 THEN n + Modulus
                         ELSE IF n < Modulus THEN n ELSE n - Modulus)
      /\ Truncated(m) = (IF m < 0 THEN m + Modulus
                         ELSE IF m < Modulus THEN m ELSE m - Modulus)
  BY <1>3, Wraps
<1>5. Truncated(n) = Truncated(m)
  BY <1>1, <1>2, <1>3, <1>4 DEF n
<1>6. Truncated(m) = execute_SUBS_RR(a, b)
  BY DEF Truncated, execute_SUBS_RR, m
<1>7. Truncated(n) = IF a < b THEN a - b + Modulus ELSE a - b
  BY <1>1, <1>2, <1>4 DEF n
<1> QED
  BY <1>5, <1>6, <1>7 DEF n

(* After SUBS of anything but zero the carry says that nothing was borrowed. *)
LEMMA DifferenceCarry ==
    ASSUME NEW a \in Word, NEW b \in Word, NEW res, res = Truncated(a - b)
    PROVE  /\ b # 0 => (carry(a, res) <=> a >= b)
           /\ b = 0 => ~carry(a, res)
           /\ res = 0 <=> a = b
<1>1. Modulus \in Nat \ {0}
  BY Halves
<1>2. a \in 0 .. Modulus - 1 /\ b \in 0 .. Modulus - 1
  BY <1>1 DEF Word
<1>3. res = IF a < b THEN a - b + Modulus ELSE a - b
  BY Difference
<1> QED
  BY <1>1, <1>2, <1>3 DEF carry

(* The signed order, when neither the difference nor the sum overflows.     *)
LEMMA DifferenceSign ==
    ASSUME NEW a \in Word, NEW b \in Word, NEW res, res = Truncated(a - b),
           InRange(Signed(a) - Signed(b)), InRange(Signed(a) + Signed(b))
    PROVE  /\ Signed(a) \in Int /\ Signed(b) \in Int
           /\ Signed(res) < 0 <=> Signed(a) < Signed(b)
           /\ res = 0 <=> Signed(a) = Signed(b)
<1>1. PICK H \in Nat \ {0} : Modulus = 2 * H /\ Modulus \div 2 = H
  BY Halves
<1>2. /\ a \in 0 .. 2 * H - 1 /\ b \in 0 .. 2 * H - 1
      /\ Signed(a) = (IF a < H THEN a ELSE a - 2 * H)
      /\ Signed(b) = (IF b < H THEN b ELSE b - 2 * H)
      /\ \A n \in Int : InRange(n) <=> -H <= n /\ n < H
  BY <1>1, SignedIs
<1>3. res = IF a < b THEN a - b + Modulus ELSE a - b
  BY Difference
<1>4. res \in 0 .. 2 * H - 1
  BY <1>1, <1>2, <1>3
<1>5. Signed(res) = IF res < H THEN res ELSE res - 2 * H
  BY <1>1, <1>4, SignedIs DEF Word
<1> DEFINE d == Signed(a) - Signed(b)
<1>6. d \in Int
  BY <1>1, <1>2
<1>7. -H <= d /\ d < H
  BY <1>2, <1>6
<1>8. CASE a < H /\ b < H
  BY <1>1, <1>2, <1>3, <1>5, <1>7, <1>8
<1>9. CASE a < H /\ b >= H
  BY <1>1, <1>2, <1>3, <1>5, <1>7, <1>9
<1>10. CASE a >= H /\ b < H
  BY <1>1, <1>2, <1>3, <1>5, <1>7, <1>10
<1>11. CASE a >= H /\ b >= H
  BY <1>1, <1>2, <1>3, <1>5, <1>7, <1>11
<1> QED
  BY <1>1, <1>2, <1>8, <1>9, <1>10, <1>11

LEMMA SumInRange ==
    ASSUME NEW a \in Word, NEW b \in Word, InRange(Signed(a) + Signed(b))
    PROVE  ~Overflows(a, b)
  BY SumFlags

---------------------------------------------------------------------------
(* The instructions.                                                       *)

Plain == {"ADD_RI", "ADDS_RR", "SUBS_RR", "ORR_RR", "EOR_RR", "ANDS_RR", "MVN"}

\* What there is in an instruction.
IsInsn(i) ==
    /\ i.cond \in 0 .. 15 /\ i.opnd1 \in Word
    /\ \/ i.op \in Plain /\ i.opnd2 \in Word
       \/ i.op = "LSR" /\ i.opnd2 \in 0 .. w - 1
       \/ i.op \in {"LSL", "ASR"} /\ i.opnd2 \in 1 .. w - 1
       \/ i.op \in {"MOVZ", "MOVK"} /\ i.opnd2 \in HalfWords /\ i.hw \in Shifts
       \/ i.op = "B_COND"

LEMMA InsnIs == ASSUME NEW i \in Insns PROVE IsInsn(i)
<1>0. Operands \subseteq Word /\ w \in Nat \ {0} /\ 0 \in Word
  BY WordAssumption, NoBits DEF Word
<1>1. CASE \E op \in Plain : i \in Insn(op, Operands, Operands, {0})
  BY <1>0, <1>1 DEF Insn, IsInsn, Plain
<1>2. CASE \E p \in (0 .. w - 1) \X (0 .. w - 1) :
              /\ decode_UBFM(p[1], p[2]) # "ERROR"
              /\ i \in Insn(decode_UBFM(p[1], p[2]), Operands, {p[2]}, {0})
  <2>1. PICK p \in (0 .. w - 1) \X (0 .. w - 1) :
              /\ decode_UBFM(p[1], p[2]) # "ERROR"
              /\ i \in Insn(decode_UBFM(p[1], p[2]), Operands, {p[2]}, {0})
    BY <1>2
  <2>2. p[1] \in 0 .. w - 1 /\ p[2] \in 0 .. w - 1
    OBVIOUS
  <2>3. /\ i.op = decode_UBFM(p[1], p[2]) /\ i.opnd1 \in Word /\ i.opnd2 = p[2]
        /\ i.cond \in 0 .. 15
    BY <1>0, <2>1 DEF Insn
  <2>4. CASE p[1] = w - 1
    <3>1. i.op = "LSR"
      BY <2>3, <2>4 DEF decode_UBFM
    <3> QED
      BY <1>0, <2>2, <2>3, <3>1 DEF IsInsn
  <2>5. CASE p[1] # w - 1
    <3>1. i.op = "LSL" /\ p[1] + 1 = p[2]
      BY <2>1, <2>3, <2>5 DEF decode_UBFM
    <3> QED
      BY <1>0, <2>2, <2>3, <3>1 DEF IsInsn
  <2> QED
    BY <2>4, <2>5
<1>3. CASE i \in Insn("ASR", Operands, 1 .. w - 1, {0})
  BY <1>0, <1>3 DEF Insn, IsInsn
<1>4. CASE \E op \in {"MOVZ", "MOVK"} : i \in Insn(op, Operands, HalfWords, Shifts)
  BY <1>0, <1>4 DEF Insn, IsInsn
<1>5. CASE i \in [op : {"B_COND"}, opnd1 : {0}, opnd2 : {0}, hw : {0}, cond : 0 .. 15]
  BY <1>0, <1>5 DEF IsInsn
<1> QED
  BY <1>1, <1>2, <1>3, <1>4, <1>5 DEF Insns, Plain

\* What alu makes of an instruction.
Result(i) == alu_result(ALU_op(i.op), alu_vala(i), alu_valb(i), i.hw)

(* A shift that X is given is one of those the sequential routine makes.    *)
LEMMA ShiftsAre ==
    /\ \A k \in 0 .. w - 1 : amount(k) = k
    /\ \A k \in 0 .. w : pow2[k] \in Nat \ {0}
<1>1. w \in Nat \ {0}
  BY WordAssumption
<1>2. ASSUME NEW k \in 0 .. w - 1 PROVE amount(k) = k
  <2>1. k = 0 * w + k
    BY <1>1
  <2>2. (k % w) = k
    BY <1>1, <2>1, OneQuotient
  <2> QED
    BY <2>2 DEF amount
<1> QED
  BY <1>2, PowersOfTwo

\* The result of each instruction.
LEMMA ResultIs ==
    ASSUME NEW i
    PROVE  /\ i.op \in {"ADD_RI", "ADDS_RR"} => Result(i) = Truncated(i.opnd1 + i.opnd2)
           /\ i.op = "SUBS_RR" => Result(i) = Truncated(i.opnd1 - i.opnd2)
           /\ i.op = "MVN" => Result(i) = Modulus - 1 - 0
           /\ i.op = "ORR_RR" => Result(i) = BitOr(i.opnd1, i.opnd2)
           /\ i.op = "EOR_RR" => Result(i) = BitXor(i.opnd1, i.opnd2)
           /\ i.op = "ANDS_RR" => Result(i) = BitAnd(i.opnd1, i.opnd2)
           /\ i.op = "MOVZ" => Result(i) = BitOr(0, Truncated(i.opnd2 * pow2[i.hw]))
           /\ i.op = "MOVK" => Result(i) = BitOr(i.opnd1, Truncated(i.opnd2 * pow2[i.hw]))
           /\ i.op = "LSL" => Result(i) = Truncated(i.opnd1 * pow2[amount(w - i.opnd2)])
           /\ i.op = "LSR" => Result(i) = i.opnd1 \div pow2[amount(i.opnd2)]
           /\ i.op = "ASR" => Result(i) =
                 Truncated(Signed(i.opnd1) \div pow2[amount(w - 1)])
           /\ i.op = "B_COND" => Result(i) = i.opnd1
  BY DEF Result, alu_result, ALU_op, alu_vala, alu_valb

(* What an instruction leaves in val_ex fits a register.                    *)
LEMMA ResultTyped == ASSUME NEW i, IsInsn(i) PROVE Result(i) \in Word
<1> DEFINE a == i.opnd1
           b == i.opnd2
<1>0. Modulus \in Nat \ {0} /\ w \in Nat \ {0} /\ a \in Word /\ a \in Nat /\ a < Modulus
  BY Halves, WordAssumption DEF IsInsn, Word
<1>1. CASE i.op \in Plain /\ b \in Word
  <2>1. b \in Nat /\ a + b \in Int /\ a - b \in Int /\ Modulus - 1 - 0 \in Word
    BY <1>0, <1>1 DEF Word
  <2>2. /\ Truncated(a + b) \in Word /\ Truncated(a - b) \in Word
        /\ BitAnd(a, b) \in Word /\ BitOr(a, b) \in Word /\ BitXor(a, b) \in Word
    BY <1>0, <1>1, <2>1, Kept, BitwiseTyped
  <2> QED
    BY <1>1, <2>1, <2>2, ResultIs DEF Plain
<1>2. CASE i.op = "LSR" /\ b \in 0 .. w - 1
  <2> DEFINE p == pow2[b]
  <2>1. Result(i) = a \div p /\ p \in Nat \ {0}
    BY <1>0, <1>2, ResultIs, ShiftsAre
  <2> HIDE DEF p, a
  <2>2. a \div p \in Nat /\ (a % p) \in Nat /\ a = ((a \div p) * p) + (a % p)
    <3>1. a \div p \in Nat /\ (a % p) \in 0 .. p - 1 /\ a = ((a \div p) * p) + (a % p)
      BY <1>0, <2>1, Divided
    <3> DEFINE q == a \div p
               r == a % p
    <3>2. q \in Nat /\ r \in 0 .. p - 1 /\ a = (q * p) + r
      BY <3>1
    <3> HIDE DEF q, r
    <3>3. q \in Nat /\ r \in Nat /\ a = (q * p) + r
      BY <2>1, <3>2
    <3> QED
      BY <3>3 DEF q, r
  <2>3. a \div p <= a
    <3> DEFINE q == a \div p
               r == a % p
    <3>1. q \in Nat /\ r \in Nat /\ a = q * p + r
      BY <2>2
    <3> HIDE DEF q, r
    <3>2. PICK e \in Nat : p = e + 1
      <4>1. p - 1 \in Nat /\ p = (p - 1) + 1
        BY <2>1
      <4> QED
        BY <4>1
    <3>3. q * p = q * e + q /\ q * e \in Nat
      BY <3>1, <3>2
    <3>4. q <= a
      BY <3>1, <3>3
    <3> QED
      BY <3>4 DEF q
  <2> QED
    BY <1>0, <2>1, <2>2, <2>3 DEF Word
<1>3. CASE i.op = "LSL" /\ b \in 1 .. w - 1
  <2>1. w - b \in 0 .. w - 1 /\ w - b \in 0 .. w
    BY <1>0, <1>3
  <2>2. Result(i) = Truncated(a * pow2[w - b]) /\ pow2[w - b] \in Nat
    BY <1>3, <2>1, ResultIs, ShiftsAre
  <2>3. a * pow2[w - b] \in Int
    BY <1>0, <2>2
  <2> QED
    BY <2>2, <2>3, Kept
<1>4. CASE i.op = "ASR"
  <2>1. w - 1 \in 0 .. w - 1 /\ w - 1 \in 0 .. w
    BY <1>0
  <2>2. Result(i) = Truncated(Signed(a) \div pow2[w - 1]) /\ pow2[w - 1] \in Nat \ {0}
    BY <1>4, <2>1, ResultIs, ShiftsAre
  <2>3. Signed(a) \in Int
    BY <1>0 DEF Signed
  <2>4. Signed(a) \div pow2[w - 1] \in Int
    BY <2>2, <2>3
  <2> QED
    BY <2>2, <2>4, Kept
<1>5. CASE i.op \in {"MOVZ", "MOVK"} /\ b \in HalfWords /\ i.hw \in Shifts
  <2> DEFINE x == b * pow2[i.hw]
  <2>1. x \in Word /\ Truncated(x) = x
    BY <1>5, HalfWordInField, WordKept
  <2>2. Result(i) = BitOr(0, x) \/ Result(i) = BitOr(a, x)
    BY <1>5, <2>1, ResultIs
  <2> HIDE DEF x
  <2> QED
    BY <1>0, <2>1, <2>2, NoBits, BitwiseTyped
<1>6. CASE i.op = "B_COND"
  BY <1>0, <1>6, ResultIs
<1> QED
  BY <1>1, <1>2, <1>3, <1>4, <1>5, <1>6 DEF IsInsn

\* A condition holds or not.
LEMMA CondTyped ==
    ASSUME NEW cond \in 0 .. 15, NEW cc PROVE cond_holds(cond, cc) \in BOOLEAN
  BY DEF cond_holds

---------------------------------------------------------------------------
(* Every instruction.                                                      *)

\* Nop is no instruction of the program.
LEMMA NopIs == Nop \notin Insns /\ Nop.op = "NOP" /\ Nop.cond = 0
<1>1. ASSUME Nop \in Insns PROVE FALSE
  <2>1. IsInsn(Nop)
    BY <1>1, InsnIs
  <2> QED
    BY <2>1 DEF IsInsn, Nop, Plain
<1> QED
  BY <1>1 DEF Nop

\* The flags are those of the last ADDS or SUBS, if nothing set them since.
FlagsSet ==
    /\ setter.op = "ADDS_RR" =>
          nzcv = alu_flags(setter.opnd1, setter.opnd2,
                           Truncated(setter.opnd1 + setter.opnd2))
    /\ setter.op = "SUBS_RR" =>
          nzcv = alu_flags(setter.opnd1, setter.opnd2,
                           Truncated(setter.opnd1 - setter.opnd2))

\* The inductive invariant: the types, what X computed, and where the flags
\* and the condition come from.
AluInv ==
    /\ TypeOK
    /\ insn # Nop => val_e = Result(insn)
    /\ cond_val = cond_holds(insn.cond, nzcv)
    /\ FlagsSet

LEMMA InitAluInv == Init => AluInv
<1> SUFFICES ASSUME Init PROVE AluInv
  OBVIOUS
<1>1. /\ nzcv = PACK_CC(0, 1, 0, 0) /\ insn = Nop /\ val_e = 0 /\ cond_val = TRUE
      /\ setter = Nop
  BY DEF Init
<1>2. nzcv \in 0 .. 15 /\ GET_ZF(nzcv) = 1
  BY <1>1, Unpacked
<1>3. cond_holds(0, nzcv) = TRUE
  BY <1>2 DEF cond_holds
<1> QED
  BY <1>1, <1>2, <1>3, NopIs, NoBits DEF AluInv, TypeOK, FlagsSet

LEMMA StepAluInv == AluInv /\ [Next]_vars => AluInv'
<1> SUFFICES ASSUME AluInv, [Next]_vars PROVE AluInv'
  OBVIOUS
<1>1. ASSUME NEW i \in Insns, alu(i) PROVE AluInv'
  <2> DEFINE sets == set_CC(i.op) /\ ALU_op(i.op) \in {"PLUS", "MINUS"}
             flags == alu_flags(alu_vala(i), alu_valb(i), Result(i))
  <2>1. /\ insn' = i /\ val_e' = Result(i)
        /\ nzcv' = IF sets THEN flags ELSE nzcv
        /\ cond_val' = cond_holds(i.cond, nzcv')
        /\ setter' = IF set_CC(i.op) THEN i ELSE setter
    BY <1>1 DEF alu, Result
  <2>2. IsInsn(i) /\ Result(i) \in Word /\ i.cond \in 0 .. 15 /\ i # Nop
    <3>1. IsInsn(i)
      BY InsnIs
    <3> QED
      BY <3>1, ResultTyped, NopIs DEF IsInsn
  <2>3. flags \in 0 .. 15
    BY FlagsAre
  <2> HIDE DEF flags
  <2>4. nzcv' \in 0 .. 15
    BY <2>1, <2>3 DEF AluInv, TypeOK
  <2>5. cond_val' \in BOOLEAN
    BY <2>1, <2>2, CondTyped
  <2>6. TypeOK'
    BY <2>1, <2>2, <2>4, <2>5 DEF AluInv, TypeOK
  <2>7. FlagsSet'
    <3>1. CASE i.op \in {"ADDS_RR", "SUBS_RR"}
      <4>1. sets /\ setter' = i /\ nzcv' = flags
        BY <2>1, <3>1 DEF set_CC, ALU_op
      <4>2. /\ flags = alu_flags(i.opnd1, i.opnd2, Result(i))
            /\ i.op = "ADDS_RR" => Result(i) = Truncated(i.opnd1 + i.opnd2)
            /\ i.op = "SUBS_RR" => Result(i) = Truncated(i.opnd1 - i.opnd2)
        BY <3>1, ResultIs DEF flags, alu_vala, alu_valb
      <4> QED
        BY <3>1, <4>1, <4>2 DEF FlagsSet
    <3>2. CASE i.op = "ANDS_RR"
      BY <2>1, <3>2 DEF FlagsSet, set_CC
    <3>3. CASE i.op \notin {"ADDS_RR", "SUBS_RR", "ANDS_RR"}
      <4>1. setter' = setter /\ nzcv' = nzcv
        BY <2>1, <3>3 DEF set_CC
      <4> QED
        BY <4>1 DEF AluInv, FlagsSet
    <3> QED
      BY <3>1, <3>2, <3>3
  <2> QED
    BY <2>1, <2>6, <2>7 DEF AluInv
<1>2. ASSUME UNCHANGED vars PROVE AluInv'
  BY <1>2 DEF vars, AluInv, TypeOK, FlagsSet
<1> QED
  BY <1>1, <1>2 DEF Next

LEMMA AluHolds == Spec => []AluInv
  BY InitAluInv, StepAluInv, PTL DEF Spec

(* Every result fits a register (hw_elts.c:67-98), for every width: sums    *)
(* and shifts are cut, and the bitwise operators make words of words.       *)
THEOREM AluTyped == Spec => []TypeOK
<1>1. AluInv => TypeOK
  BY DEF AluInv
<1> QED
  BY <1>1, AluHolds, PTL

(* What the pipeline's alu (hw_elts.c:67) leaves in val_ex is what the       *)
(* sequential routine of the instruction leaves there, for every width and  *)
(* every operand of the instructions on which the two agree.                *)
THEOREM TwoEmulatorsAgree == Spec => []ResultsAgree
<1>1. AluInv => ResultsAgree
  <2> SUFFICES ASSUME AluInv, Agreed(insn) PROVE val_e = Meaning(insn)
    BY DEF ResultsAgree
  <2> DEFINE a == insn.opnd1
             b == insn.opnd2
  <2>1. insn \in Insns /\ IsInsn(insn)
    BY InsnIs, NopIs DEF AluInv, TypeOK, Agreed
  <2>2. val_e = Result(insn)
    BY <2>1, NopIs DEF AluInv
  <2>3. insn.op \notin {"ORR_RR", "MVN", "ASR"}
    BY DEF Agreed
  <2>4. CASE insn.op \in {"ADD_RI", "ADDS_RR"}
    <3>1. Result(insn) = Truncated(a + b) /\ Meaning(insn) = execute_ADDS_RR(a, b)
      BY <2>4, ResultIs DEF Meaning
    <3> QED
      BY <2>2, <3>1 DEF Truncated, execute_ADDS_RR
  <2>5. CASE insn.op = "SUBS_RR"
    <3>1. Result(insn) = Truncated(a - b) /\ Meaning(insn) = execute_SUBS_RR(a, b)
      BY <2>5, ResultIs DEF Meaning
    <3>2. a \in Word /\ b \in Word
      BY <2>1, <2>5 DEF IsInsn
    <3> QED
      BY <2>2, <3>1, <3>2, Difference
  <2>6. CASE insn.op = "EOR_RR"
    BY <2>2, <2>6, ResultIs DEF Meaning, execute_EOR_RR
  <2>7. CASE insn.op = "ANDS_RR"
    BY <2>2, <2>7, ResultIs DEF Meaning, execute_ANDS_RR
  <2>8. CASE insn.op \in {"MOVZ", "MOVK"}
    <3>1. a \in Word /\ b \in HalfWords /\ insn.hw \in Shifts
      BY <2>1, <2>8 DEF IsInsn, Plain
    <3>2. /\ BitOr(0, Truncated(b * pow2[insn.hw])) = execute_MOVZ(b, insn.hw)
          /\ BitAnd(a, Field(insn.hw)) = 0 =>
                BitOr(a, Truncated(b * pow2[insn.hw])) = execute_MOVK(a, b, insn.hw)
      BY <3>1, MovesAgree
    <3>3. CASE insn.op = "MOVZ"
      <4>1. Meaning(insn) = execute_MOVZ(b, insn.hw)
        BY <3>3 DEF Meaning
      <4> QED
        BY <2>2, <3>2, <3>3, <4>1, ResultIs
    <3>4. CASE insn.op = "MOVK"
      <4>1. Meaning(insn) = execute_MOVK(a, b, insn.hw)
        BY <3>4 DEF Meaning
      <4>2. BitAnd(a, Field(insn.hw)) = 0
        BY <3>4 DEF Agreed
      <4> QED
        BY <2>2, <3>2, <3>4, <4>1, <4>2, ResultIs
    <3> QED
      BY <2>8, <3>3, <3>4
  <2>9. CASE insn.op = "LSL"
    <3>1. b \in 1 .. w - 1 /\ w \in Nat
      BY <2>1, <2>9, WordAssumption DEF IsInsn, Plain
    <3>2. w - b \in 0 .. w - 1
      BY <3>1
    <3>3. Result(insn) = Truncated(a * pow2[w - b])
      BY <2>9, <3>2, ResultIs, ShiftsAre
    <3>4. Meaning(insn) = execute_LSL(a, b)
      BY <2>9 DEF Meaning
    <3> QED
      BY <2>2, <3>3, <3>4 DEF Truncated, execute_LSL
  <2>10. CASE insn.op = "LSR"
    <3>1. b \in 0 .. w - 1
      BY <2>1, <2>10 DEF IsInsn, Plain
    <3>2. Result(insn) = a \div pow2[b]
      BY <2>10, <3>1, ResultIs, ShiftsAre
    <3>3. Meaning(insn) = execute_LSR(a, b)
      BY <2>10 DEF Meaning
    <3> QED
      BY <2>2, <3>2, <3>3 DEF execute_LSR
  <2>11. CASE insn.op = "B_COND"
    BY <2>2, <2>11, ResultIs DEF Meaning
  <2> QED
    BY <2>1, <2>3, <2>4, <2>5, <2>6, <2>7, <2>8, <2>9, <2>10, <2>11 DEF IsInsn, Plain
<1> QED
  BY <1>1, AluHolds, PTL

\* A flag setter is an instruction of words.
LEMMA SetterIs ==
    ASSUME AluInv, setter.op \in {"ADDS_RR", "SUBS_RR"}
    PROVE  /\ setter # Nop /\ setter.opnd1 \in Word /\ setter.opnd2 \in Word
           /\ setter.op = "ADDS_RR" =>
                 nzcv = alu_flags(setter.opnd1, setter.opnd2,
                                  Truncated(setter.opnd1 + setter.opnd2))
           /\ setter.op = "SUBS_RR" =>
                 nzcv = alu_flags(setter.opnd1, setter.opnd2,
                                  Truncated(setter.opnd1 - setter.opnd2))
<1>1. setter # Nop /\ setter \in Insns
  BY NopIs DEF AluInv, TypeOK
<1>2. IsInsn(setter)
  BY <1>1, InsnIs
<1> QED
  BY <1>1, <1>2 DEF AluInv, FlagsSet, IsInsn

(* The flags are right as long as they are kept, for every width: all four  *)
(* after a sum, and the sign, the zero and, unless zero was taken away, the *)
(* carry after a difference (hw_elts.c:99-113).                             *)
THEOREM SumsSetFlags == Spec => []FlagsOfSums
<1> DEFINE a == setter.opnd1
           b == setter.opnd2
<1>1. ASSUME AluInv, setter.op = "ADDS_RR" PROVE FlagsAsDocumented
  <2> DEFINE res == Truncated(a + b)
  <2>1. a \in Word /\ b \in Word /\ nzcv = alu_flags(a, b, res)
    BY <1>1, SetterIs
  <2>2. Meaning(setter) = res
    BY <1>1 DEF Meaning, execute_ADDS_RR, Truncated
  <2>3. /\ DocumentedC(setter) = Bit(a + b >= Modulus)
        /\ DocumentedV(setter) = Bit(~InRange(Signed(a) + Signed(b)))
    BY <1>1 DEF DocumentedC, DocumentedV
  <2>4. DocumentedN(setter) = Bit(Signed(res) < 0) /\ DocumentedZ(setter) = Bit(res = 0)
    BY <2>2 DEF DocumentedN, DocumentedZ
  <2>5. /\ GET_NF(nzcv) = Bit(Signed(res) < 0) /\ GET_ZF(nzcv) = Bit(res = 0)
        /\ GET_CF(nzcv) = Bit(carry(a, res)) /\ GET_VF(nzcv) = Bit(Overflows(a, b))
    BY <2>1, FlagsAre
  <2>6. /\ carry(a, res) <=> a + b >= Modulus
        /\ Overflows(a, b) <=> ~InRange(Signed(a) + Signed(b))
    BY <2>1, SumFlags
  <2> HIDE DEF res, a, b
  <2>7. GET_CF(nzcv) = DocumentedC(setter) /\ GET_VF(nzcv) = DocumentedV(setter)
    BY <2>3, <2>5, <2>6, Zenon DEF Bit
  <2> QED
    BY <2>4, <2>5, <2>7 DEF FlagsAsDocumented
<1>2. ASSUME AluInv, setter.op = "SUBS_RR"
      PROVE  /\ GET_NF(nzcv) = DocumentedN(setter)
             /\ GET_ZF(nzcv) = DocumentedZ(setter)
             /\ b # 0 => GET_CF(nzcv) = Bit(a >= b)
  <2> DEFINE res == Truncated(a - b)
  <2>1. a \in Word /\ b \in Word /\ nzcv = alu_flags(a, b, res)
    BY <1>2, SetterIs
  <2>2. Meaning(setter) = res
    BY <1>2, <2>1, Difference DEF Meaning
  <2>3. DocumentedN(setter) = Bit(Signed(res) < 0) /\ DocumentedZ(setter) = Bit(res = 0)
    BY <2>2 DEF DocumentedN, DocumentedZ
  <2>4. /\ GET_NF(nzcv) = Bit(Signed(res) < 0) /\ GET_ZF(nzcv) = Bit(res = 0)
        /\ GET_CF(nzcv) = Bit(carry(a, res))
    BY <2>1, FlagsAre
  <2>5. b # 0 => (carry(a, res) <=> a >= b)
    BY <2>1, DifferenceCarry
  <2> HIDE DEF res, a, b
  <2>6. b # 0 => GET_CF(nzcv) = Bit(a >= b)
    BY <2>4, <2>5, Zenon DEF Bit
  <2> QED
    BY <2>3, <2>4, <2>6
<1>3. AluInv => FlagsOfSums
  BY <1>1, <1>2, Zenon DEF FlagsOfSums
<1> QED
  BY <1>3, AluHolds, PTL

(* The condition a pair of codes stands for, by the flags of a difference.  *)
LEMMA ComparisonHolds ==
    ASSUME NEW a \in Word, NEW b \in Word, NEW cc,
           cc = alu_flags(a, b, Truncated(a - b))
    PROVE  /\ GET_ZF(cc) = 1 <=> a = b
           /\ b # 0 => (GET_CF(cc) = 1 <=> a >= b)
           /\ b # 0 => (GET_CF(cc) = 1 /\ GET_ZF(cc) = 0 <=> a > b)
           /\ InRange(Signed(a) - Signed(b)) /\ InRange(Signed(a) + Signed(b)) =>
                 /\ GET_NF(cc) = GET_VF(cc) <=> Signed(a) >= Signed(b)
                 /\ GET_NF(cc) = GET_VF(cc) /\ GET_ZF(cc) = 0 <=> Signed(a) > Signed(b)
<1> DEFINE res == Truncated(a - b)
<1>1. /\ GET_NF(cc) = Bit(Signed(res) < 0) /\ GET_ZF(cc) = Bit(res = 0)
      /\ GET_CF(cc) = Bit(carry(a, res)) /\ GET_VF(cc) = Bit(Overflows(a, b))
  BY FlagsAre
<1>2. /\ b # 0 => (carry(a, res) <=> a >= b)
      /\ res = 0 <=> a = b
  BY DifferenceCarry
<1>3. InRange(Signed(a) - Signed(b)) /\ InRange(Signed(a) + Signed(b)) =>
         /\ ~Overflows(a, b)
         /\ Signed(a) \in Int /\ Signed(b) \in Int
         /\ Signed(res) < 0 <=> Signed(a) < Signed(b)
         /\ res = 0 <=> Signed(a) = Signed(b)
  BY DifferenceSign, SumInRange
<1>4. a \in Nat /\ b \in Nat
  BY DEF Word
<1> HIDE DEF res
<1>5. GET_ZF(cc) = 1 <=> a = b
  BY <1>1, <1>2 DEF Bit
<1>6. b # 0 => (GET_CF(cc) = 1 <=> a >= b)
  BY <1>1, <1>2 DEF Bit
<1>7. GET_ZF(cc) = 0 <=> a # b
  BY <1>1, <1>2 DEF Bit
<1>8. b # 0 => (GET_CF(cc) = 1 /\ GET_ZF(cc) = 0 <=> a > b)
  BY <1>4, <1>6, <1>7
<1>9. ASSUME InRange(Signed(a) - Signed(b)), InRange(Signed(a) + Signed(b))
      PROVE  /\ GET_NF(cc) = GET_VF(cc) <=> Signed(a) >= Signed(b)
             /\ GET_NF(cc) = GET_VF(cc) /\ GET_ZF(cc) = 0 <=> Signed(a) > Signed(b)
  <2>1. GET_VF(cc) = 0
    BY <1>1, <1>3, <1>9 DEF Bit
  <2>2. GET_NF(cc) = 0 <=> ~(Signed(a) < Signed(b))
    BY <1>1, <1>3, <1>9 DEF Bit
  <2>3. GET_ZF(cc) = 0 <=> Signed(a) # Signed(b)
    BY <1>1, <1>3, <1>9 DEF Bit
  <2> QED
    BY <1>3, <1>9, <2>1, <2>2, <2>3
<1> QED
  BY <1>5, <1>6, <1>8, <1>9

\* The condition that a pair of codes tests.
Tests(pair, cc) ==
    \/ pair = 0 /\ GET_ZF(cc) = 1
    \/ pair = 1 /\ GET_CF(cc) = 1
    \/ pair = 4 /\ GET_CF(cc) = 1 /\ GET_ZF(cc) = 0
    \/ pair = 5 /\ GET_NF(cc) = GET_VF(cc)
    \/ pair = 6 /\ GET_NF(cc) = GET_VF(cc) /\ GET_ZF(cc) = 0

LEMMA CondIs ==
    ASSUME NEW cond \in 0 .. 15, NEW cc, cond \div 2 \notin {2, 3, 7}
    PROVE  /\ cond \div 2 \in {0, 1, 4, 5, 6}
           /\ cond % 2 = 0 => (cond_holds(cond, cc) <=> Tests(cond \div 2, cc))
           /\ cond % 2 # 0 => (cond_holds(cond, cc) <=> ~Tests(cond \div 2, cc))
<1>1. cond \div 2 \in {0, 1, 4, 5, 6} /\ cond # 15
  OBVIOUS
<1>2. CASE cond \div 2 = 0
  BY <1>1, <1>2 DEF cond_holds, Tests
<1>3. CASE cond \div 2 = 1
  BY <1>1, <1>3 DEF cond_holds, Tests
<1>4. CASE cond \div 2 = 4
  BY <1>1, <1>4 DEF cond_holds, Tests
<1>5. CASE cond \div 2 = 5
  BY <1>1, <1>5 DEF cond_holds, Tests
<1>6. CASE cond \div 2 = 6
  BY <1>1, <1>6 DEF cond_holds, Tests
<1> QED
  BY <1>1, <1>2, <1>3, <1>4, <1>5, <1>6

(* A branch behind a comparison (hw_elts.c:44-65, 114) takes the side the    *)
(* comparison asks for, for every width, within the limits the property     *)
(* names: unsigned orders against zero, and signed ones that overflow.       *)
THEOREM ComparisonsBranch == Spec => []BranchesCompare
<1>1. AluInv => BranchesCompare
  <2> SUFFICES ASSUME AluInv, insn.op = "B_COND", setter.op = "SUBS_RR"
               PROVE  BranchesCompare
    BY DEF BranchesCompare
  <2> DEFINE a == setter.opnd1
             b == setter.opnd2
             sa == Signed(a)
             sb == Signed(b)
             pair == insn.cond \div 2
             small == InRange(sa - sb) /\ InRange(sa + sb)
             holds == CASE pair = 0 -> a = b
                        [] pair = 1 -> a >= b
                        [] pair = 4 -> a > b
                        [] pair = 5 -> sa >= sb
                        [] pair = 6 -> sa > sb
                        [] OTHER -> FALSE
  <2>1. a \in Word /\ b \in Word /\ nzcv = alu_flags(a, b, Truncated(a - b))
    BY SetterIs
  <2>2. insn.cond \in 0 .. 15 /\ cond_val = cond_holds(insn.cond, nzcv)
    <3>1. insn \in Insns
      BY NopIs DEF AluInv, TypeOK
    <3>2. IsInsn(insn)
      BY <3>1, InsnIs
    <3> QED
      BY <3>2 DEF AluInv, IsInsn
  <2>3. /\ GET_ZF(nzcv) = 1 <=> a = b
        /\ b # 0 => (GET_CF(nzcv) = 1 <=> a >= b)
        /\ b # 0 => (GET_CF(nzcv) = 1 /\ GET_ZF(nzcv) = 0 <=> a > b)
        /\ small => /\ GET_NF(nzcv) = GET_VF(nzcv) <=> sa >= sb
                    /\ GET_NF(nzcv) = GET_VF(nzcv) /\ GET_ZF(nzcv) = 0 <=> sa > sb
    BY <2>1, ComparisonHolds
  <2> SUFFICES ASSUME pair \notin {2, 3, 7}, ~(pair \in {1, 4} /\ b = 0),
                      ~(pair \in {5, 6} /\ ~small)
               PROVE  cond_val = (IF insn.cond % 2 = 0 THEN holds ELSE ~holds)
    BY Zenon DEF BranchesCompare
  <2>4. /\ pair \in {0, 1, 4, 5, 6}
        /\ insn.cond % 2 = 0 => (cond_val <=> Tests(pair, nzcv))
        /\ insn.cond % 2 # 0 => (cond_val <=> ~Tests(pair, nzcv))
    BY <2>2, CondIs
  <2> HIDE DEF a, b, sa, sb, small, pair
  <2>5. Tests(pair, nzcv) <=> holds
    <3>1. CASE pair = 0
      BY <2>3, <3>1 DEF Tests
    <3>2. CASE pair = 1
      BY <2>3, <3>2 DEF Tests
    <3>3. CASE pair = 4
      BY <2>3, <3>3 DEF Tests
    <3>4. CASE pair = 5
      BY <2>3, <3>4 DEF Tests
    <3>5. CASE pair = 6
      BY <2>3, <3>5 DEF Tests
    <3> QED
      BY <2>4, <3>1, <3>2, <3>3, <3>4, <3>5
  <2>6. holds \in BOOLEAN
    <3>1. CASE pair = 0
      BY <3>1
    <3>2. CASE pair = 1
      BY <3>2
    <3>3. CASE pair = 4
      BY <3>3
    <3>4. CASE pair = 5
      BY <3>4
    <3>5. CASE pair = 6
      BY <3>5
    <3> QED
      BY <2>4, <3>1, <3>2, <3>3, <3>4, <3>5
  <2>7. cond_val \in BOOLEAN
    BY DEF AluInv, TypeOK
  <2> HIDE DEF holds
  <2> QED
    BY <2>4, <2>5, <2>6, <2>7, Zenon
<1> QED
  BY <1>1, AluHolds, PTL
====
