------------------------------- MODULE MCAlu -------------------------------
(***************************************************************************)
(* Alu with four-bit words: zero, one, and the ends of the signed and the  *)
(* unsigned range.                                                         *)
(***************************************************************************)
EXTENDS Alu

LOCAL INSTANCE Bitwise

MCOperands == {0, 1, 7, 8, 15}

(* The operators on sets of bits are the bitwise operators on numbers.     *)
ASSUME BitsAssumption ==
    \A a, b \in Word : /\ BitAnd(a, b) = a & b
                       /\ BitOr(a, b)  = a | b
                       /\ BitXor(a, b) = a ^^ b
=============================================================================
