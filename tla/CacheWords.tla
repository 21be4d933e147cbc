----------------------------- MODULE CacheWords -----------------------------
(***************************************************************************)
(* The word access of src/src/cache/cache.c: get_word_cache takes a word   *)
(* out of the lines of a cache, byte by byte, and set_word_cache puts one  *)
(* in.  A byte is the set of its bits that are 1, a word the function from *)
(* byte position to byte, the least significant first.                     *)
(*                                                                         *)
(* get_word_cache puts the bytes together in an expression of type int,    *)
(* cache.c:270, though a word has twice the bytes of an int: see Shifted.  *)
(***************************************************************************)
EXTENDS Cache

CONSTANTS
    W,          \* bytes per word_t: 8 in the code
    INT,        \* bytes per int: 4
    BITS        \* bits per byte: 8

ASSUME WordAssumption ==
    /\ INT \in Nat \ {0}
    /\ W = 2 * INT
    /\ BITS \in Nat \ {0}

AllOnes  == 0 .. BITS - 1
Byte     == SUBSET AllOnes
ZeroByte == {}
Word     == [0 .. W - 1 -> Byte]

Negative(byte) == BITS - 1 \in byte

---------------------------------------------------------------------------
\* Their precondition, cache.c:260: "pos is contained within the cache".
\* Where it fails the code dereferences the NULL that get_line returned.
WordCached(c, addr) == \A k \in 0 .. W - 1 : Cached(c, addr + k)

(***************************************************************************)
(* (0xFF & byte) << shift, and its conversion to word_t by |=.  The shift  *)
(* is of an int, by up to W - 1 bytes.  C leaves a shift by INT bytes or   *)
(* more undefined; the build's shift instruction takes the count modulo    *)
(* the width of an int, at every level of optimisation, so byte k lands    *)
(* where byte k % INT does.  The conversion copies the sign of the int     *)
(* into the upper bytes of the word.                                       *)
(***************************************************************************)
Shifted(byte, k) ==
    [j \in 0 .. W - 1 |->
        IF j = k % INT THEN byte
        ELSE IF j >= INT /\ k % INT = INT - 1 /\ Negative(byte) THEN AllOnes
        ELSE ZeroByte]

\* The bytes ORed together, from the lowest to the highest.
Assembled(bytes) ==
    [j \in 0 .. W - 1 |-> UNION {Shifted(bytes[k], k)[j] : k \in 0 .. W - 1}]

\* The byte of a line that the access reads or writes at address a.
ByteInLine(c, a) == c.sets[SetIndex(a)][get_line(c, a)].data[a % B]

get_word_cache(c, addr) == Assembled([k \in 0 .. W - 1 |-> ByteInLine(c, addr + k)])

set_word_cache(c, addr, val) ==
    LET Writes(s, i, o) ==
            {k \in 0 .. W - 1 : /\ SetIndex(addr + k) = s
                                /\ get_line(c, addr + k) = i
                                /\ (addr + k) % B = o}
    IN  [c EXCEPT !.sets =
            [s \in SetIds |-> [i \in LineIds |->
                [c.sets[s][i] EXCEPT !.data =
                    [o \in 0 .. B - 1 |->
                        IF Writes(s, i, o) = {} THEN @[o]
                        ELSE val[Max(Writes(s, i, o))]]]]]]

---------------------------------------------------------------------------
(***************************************************************************)
(* The words that get_word_cache returns as they are: non-negative ints    *)
(* and -1.                                                                 *)
(***************************************************************************)
Narrow ==
    {w \in Word :
        \/ /\ \A j \in INT .. W - 1 : w[j] = ZeroByte
           /\ ~Negative(w[INT - 1])
        \/ \A j \in 0 .. W - 1 : w[j] = AllOnes}

(* The description of the conversion is right: it keeps exactly these words.*)
NarrowIsIntact == \A w \in Word : Assembled(w) = w <=> w \in Narrow
============================================================================
