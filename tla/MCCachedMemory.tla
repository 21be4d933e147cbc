--------------------------- MODULE MCCachedMemory ---------------------------
(***************************************************************************)
(* CachedMemory with words of four bytes of two bits, and ints of two: of  *)
(* its 256 words 8 + 1 are narrow.  Neighbouring words differ, and so do   *)
(* the bytes of a word.                                                    *)
(***************************************************************************)
EXTENDS CachedMemory

CONSTANT MemSize

\* The word of the int whose low byte is lo, and high byte hi.
IntWord(lo, hi) ==
    [k \in 0 .. W - 1 |-> IF k = 0 THEN lo ELSE IF k = 1 THEN hi ELSE ZeroByte]

MinusOne == [k \in 0 .. W - 1 |-> AllOnes]

\* A word with something in every byte: no int.
Wide == [k \in 0 .. W - 1 |-> IF k % 2 = 0 THEN {1} ELSE {0}]

MCBlock == [0 .. B - 1 -> Byte]
MCZeroBlock == [o \in 0 .. B - 1 |-> ZeroByte]

MCWords == {MinusOne, IntWord({1}, {0})}
MCWideWords == MCWords \cup {Wide}

\* The n-th word of memory: those that the runs load are ints.
InitialWord(n) ==
    CASE n % 4 = 1 -> Wide [] n % 4 = 3 -> IntWord({0, 1}, {0}) [] OTHER -> IntWord({0}, {})

MCImage == [a \in 0 .. MemSize - 1 |-> InitialWord(a \div W)[a % W]]

(* What Narrow says of the conversion is so, for every word.                *)
ASSUME NarrowKept == NarrowIsIntact
============================================================================
