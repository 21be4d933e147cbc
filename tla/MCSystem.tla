------------------------------ MODULE MCSystem ------------------------------
(***************************************************************************)
(* Straight programs of three instructions, two nops and the return, on a  *)
(* cache of two lines for sixteen words: loads chase pointers, stores      *)
(* follow each other to words that evict one another.  A word has two      *)
(* bytes of two bits, and an int one of them: a load gives 0, 1 and 15     *)
(* back as they are, and turns any other value into another.               *)
(***************************************************************************)
EXTENDS System

Insn(op, rd, rn, rm, imm) == [op |-> op, rd |-> rd, rn |-> rn, rm |-> rm, imm |-> imm]

Ret == Insn("RET", 0, 30, 0, 0)

Nop == Insn("NOP", XZR, 0, 3, 0)    \* bubble_insn.insn of Pipeline

FreeInstrs ==
    {Insn("LDUR", 1, 1, 0, 0), Insn("LDUR", 1, 1, 0, 3), Insn("STUR", 1, 1, 0, 2),
     Insn("STUR", 1, 30, 0, 2), Insn("ADDS_RR", 1, 1, 1, 0)}

MCInstrs == FreeInstrs \cup {Nop, Ret}

MCPrograms ==
    {[a \in Addrs |-> CASE a \in DOMAIN free -> free[a] [] a = 5 -> Ret [] OTHER -> Nop] :
        free \in [0 .. 2 -> FreeInstrs]}

\* The digits of a value, the least significant first, in bits.
MCEncode ==
    [v \in Values |-> [k \in 0 .. 1 |->
        LET digit == IF k = 0 THEN v % 4 ELSE v \div 4
        IN  {b \in 0 .. 1 : (digit \div (b + 1)) % 2 = 1}]]

(* These programs are of those that the theorems about System speak of.     *)
ASSUME ProgramsHandled ==
    \A p \in MCPrograms :
        /\ Cpu!Padded(p)
        /\ ~Cpu!RetAtTarget(p) /\ ~Cpu!RetAfterLoad(p) /\ ~Cpu!LinkReadEarly(p)
=============================================================================
