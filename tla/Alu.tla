-------------------------------- MODULE Alu --------------------------------
(***************************************************************************)
(* Execute: alu and cond_holds (src/src/hw_elts.c) and the flags register, *)
(* against the execute routines of src/src/instr, the sequential emulator  *)
(* of the same instructions, and the meaning include/instr.h gives to the  *)
(* flags.  One action is one instruction in X.                             *)
(*                                                                         *)
(* Words have w bits (64 in the code), a half-word of MOVZ and MOVK has a  *)
(* quarter of them.  The control signals and the immediate of each opcode  *)
(* come from generate_DXMW_control and extract_immval, which are only in   *)
(* the repository as object code (src/src/instr.o).                        *)
(*                                                                         *)
(* The bitwise operators of C are those of the sets of bits of two words.  *)
(***************************************************************************)
EXTENDS Integers

CONSTANTS
    w,          \* bits of a register
    Operands    \* operand values tried

pow2[n \in 0 .. w] == IF n = 0 THEN 1 ELSE 2 * pow2[n - 1]

Modulus == pow2[w]
HW      == w \div 4

ASSUME WordAssumption ==
    /\ w \in Nat \ {0} /\ 4 * HW = w
    /\ Operands \subseteq 0 .. Modulus - 1

VARIABLES
    nzcv,       \* guest.proc->NZCV
    insn,       \* the instruction last in X
    val_e,      \* X_out->val_ex
    cond_val,   \* X_condval
    setter      \* the last instruction that instr/ says sets the flags (history)

vars == <<nzcv, insn, val_e, cond_val, setter>>

Word == 0 .. Modulus - 1
Signed(a) == IF a < Modulus \div 2 THEN a ELSE a - Modulus
InRange(n) == -(Modulus \div 2) <= n /\ n < Modulus \div 2
Bit(b) == IF b THEN 1 ELSE 0

Bits   == [a \in Word |-> {k \in 0 .. w - 1 : (a \div pow2[k]) % 2 = 1}]
WordOf == [bits \in SUBSET (0 .. w - 1) |-> CHOOSE n \in Word : Bits[n] = bits]

\* a & b, a | b and a ^ b in C.
BitAnd(a, b) == WordOf[Bits[a] \cap Bits[b]]
BitOr(a, b)  == WordOf[Bits[a] \cup Bits[b]]
BitXor(a, b) == WordOf[(Bits[a] \ Bits[b]) \cup (Bits[b] \ Bits[a])]

PACK_CC(n, z, c, v) == 8 * n + 4 * z + 2 * c + v

GET_NF(cc) == (cc \div 8) % 2
GET_ZF(cc) == (cc \div 4) % 2

\* Mutant: the carry is looked for in the place of the zero flag.
GET_CF_from_Z(cc) == (cc \div 4) % 2

GET_CF(cc) == (cc \div 2) % 2

GET_VF(cc) == cc % 2

---------------------------------------------------------------------------
(* hw_elts.c                                                               *)

\* The codes of cond_t come in pairs, the second the negation of the first,
\* but for the last pair, AL and NV.
cond_holds(cond, cc) ==
    LET holds == CASE cond \div 2 = 0 -> GET_ZF(cc) = 1
                   [] cond \div 2 = 1 -> GET_CF(cc) = 1
                   [] cond \div 2 = 2 -> GET_NF(cc) = 1
                   [] cond \div 2 = 3 -> GET_VF(cc) = 1
                   [] cond \div 2 = 4 -> GET_CF(cc) = 1 /\ GET_ZF(cc) = 0
                   [] cond \div 2 = 5 -> GET_NF(cc) = GET_VF(cc)
                   [] cond \div 2 = 6 -> GET_NF(cc) = GET_VF(cc) /\ GET_ZF(cc) = 0
                   [] OTHER -> TRUE
    IN  IF cond % 2 = 0 \/ cond = 15 THEN holds ELSE ~holds

\* Mutant: a result keeps the bits beyond a register's.
Wide(n) == n

\* What a register keeps of a result.
Truncated(n) == n % Modulus

\* Mutant: the mask of 32-bit shifts.
amount_of_half(b) == b % (w \div 2)

\* alu_valb & 0x3F
amount(b) == b % w

alu_result(ALUop, a, b, hw) ==
    CASE ALUop = "PLUS"   -> Truncated(a + b)
      [] ALUop = "MINUS"  -> Truncated(a - b)
      [] ALUop = "NEG"    -> Modulus - 1 - a
      [] ALUop = "OR"     -> BitOr(a, b)
      [] ALUop = "EOR"    -> BitXor(a, b)
      [] ALUop = "AND"    -> BitAnd(a, b)
      [] ALUop = "MOV"    -> BitOr(a, Truncated(b * pow2[hw]))
      [] ALUop = "LSL"    -> Truncated(a * pow2[amount(b)])
      [] ALUop = "LSR"    -> a \div pow2[amount(b)]
      [] ALUop = "ASR"    -> Truncated(Signed(a) \div pow2[amount(b)])
      [] ALUop = "PASS_A" -> a

\* Mutant: a sum that comes round to its first operand carries.
carry_le(a, res) == res <= a

carry(a, res) == res < a

\* The flags of a sum or a difference: the carry compares the result with
\* the first operand, the overflow is that of a + b, for a difference too.
alu_flags(a, b, res) ==
    PACK_CC(Bit(Signed(res) < 0), Bit(res = 0), Bit(carry(a, res)),
            Bit((Signed(a) < 0) = (Signed(b) < 0)
                  /\ (Signed(Truncated(a + b)) < 0) # (Signed(a) < 0)))

---------------------------------------------------------------------------
(* The instructions and what the control logic makes of them.              *)

set_CC(op) == op \in {"ADDS_RR", "SUBS_RR", "ANDS_RR"}

ALU_op(op) ==
    CASE op \in {"ADD_RI", "ADDS_RR"} -> "PLUS"
      [] op = "SUBS_RR"            -> "MINUS"
      [] op \in {"MOVK", "MOVZ"}   -> "MOV"
      [] op = "ORR_RR"             -> "OR"
      [] op = "EOR_RR"             -> "EOR"
      [] op = "ANDS_RR"            -> "AND"
      [] op = "MVN"                -> "NEG"
      [] op \in {"LSL", "LSR", "ASR"} -> op
      [] OTHER                     -> "PASS_A"

\* The register operand: MOVZ and MVN name XZR where a first register is.
alu_vala(i) == IF i.op \in {"MOVZ", "MVN"} THEN 0 ELSE i.opnd1

\* The second operand: LSL is given immr and shifts by the rest of the
\* width; for ASR the low bits of the immediate are imms, which is w - 1.
alu_valb(i) ==
    CASE i.op = "LSL" -> w - i.opnd2
      [] i.op = "ASR" -> w - 1
      [] OTHER        -> i.opnd2

Insn(op, A, C, H) == [op : {op}, opnd1 : A, opnd2 : C, hw : H, cond : {0}]
HalfWords == 0 .. pow2[HW] - 1
Shifts    == {0, HW, 2 * HW, 3 * HW}

\* decode_UBFM: imms = w - 1 is LSR, imms + 1 = immr is LSL, any other
\* bitfield move ends the program.
decode_UBFM(imms, immr) ==
    IF imms = w - 1 THEN "LSR" ELSE IF imms + 1 = immr THEN "LSL" ELSE "ERROR"

Insns ==
    (UNION {Insn(op, Operands, Operands, {0}) :
               op \in {"ADD_RI", "ADDS_RR", "SUBS_RR", "ORR_RR", "EOR_RR", "ANDS_RR", "MVN"}})
    \cup (UNION {Insn(decode_UBFM(p[1], p[2]), Operands, {p[2]}, {0}) :     \* imms, immr
                    p \in {q \in (0 .. w - 1) \X (0 .. w - 1) :
                              decode_UBFM(q[1], q[2]) # "ERROR"}})
    \cup Insn("ASR", Operands, 1 .. w - 1, {0})
    \cup (UNION {Insn(op, Operands, HalfWords, Shifts) : op \in {"MOVZ", "MOVK"}})
    \cup [op : {"B_COND"}, opnd1 : {0}, opnd2 : {0}, hw : {0}, cond : 0 .. 15]

\* Before the first instruction, and no flag setter yet.
Nop == [op |-> "NOP", opnd1 |-> 0, opnd2 |-> 0, hw |-> 0, cond |-> 0]

---------------------------------------------------------------------------
Init ==
    /\ nzcv = PACK_CC(0, 1, 0, 0)
    /\ insn = Nop
    /\ val_e = 0
    /\ cond_val = TRUE
    /\ setter = Nop

alu(i) ==
    LET a   == alu_vala(i)
        b   == alu_valb(i)
        res == alu_result(ALU_op(i.op), a, b, i.hw)
    IN  /\ insn' = i
        /\ val_e' = res
        /\ nzcv' = IF set_CC(i.op) /\ ALU_op(i.op) \in {"PLUS", "MINUS"}
                   THEN alu_flags(a, b, res) ELSE nzcv
        /\ cond_val' = cond_holds(i.cond, nzcv')
        /\ setter' = IF set_CC(i.op) THEN i ELSE setter

Next == \E i \in Insns : alu(i)

Spec == Init /\ [][Next]_vars

---------------------------------------------------------------------------
(* The execute routines of instr/: what each leaves in val_ex.  The flags  *)
(* that those of ADDS_RR, SUBS_RR and ANDS_RR pack are not modelled.  They *)
(* are another disagreement of the two emulators: ADDS_RR.c:28 and         *)
(* SUBS_RR.c:28 compare the result with a sum that was itself computed in  *)
(* 64 bits (:22), so their carry is always 0, and SUBS_RR.c:29 compares it *)
(* with a + b + 1 (:23).  FlagsAsDocumented and FlagsOfSums are about alu  *)
(* only.                                                                   *)

Field(hw) == pow2[hw] * (pow2[HW] - 1)      \* the half-word that MOVZ, MOVK write

execute_ADDS_RR(a, b) == (a + b) % Modulus
execute_SUBS_RR(a, b) == (a + (Modulus - 1 - b) + 1) % Modulus
execute_ANDS_RR(a, b) == BitAnd(a, b)
execute_EOR_RR(a, b)  == BitXor(a, b)
execute_ORR_RR(a, b)  == BitXor(a, b)
execute_MVN(b)        == Modulus - 1 - b
execute_MOVZ(b, hw)   == BitAnd(b * pow2[hw], Field(hw))
execute_MOVK(a, b, hw) ==
    BitOr(a - BitAnd(a, Field(hw)), BitAnd(b * pow2[hw], Field(hw)))
execute_LSL(a, immr)  == (a * pow2[w - immr]) % Modulus
execute_LSR(a, immr)  == a \div pow2[immr]
execute_ASR(a, immr)  == (Signed(a) \div pow2[immr]) % Modulus

Meaning(i) ==
    LET a == i.opnd1
        b == i.opnd2
    IN  CASE i.op \in {"ADD_RI", "ADDS_RR"} -> execute_ADDS_RR(a, b)
          [] i.op = "SUBS_RR" -> execute_SUBS_RR(a, b)
          [] i.op = "EOR_RR"  -> execute_EOR_RR(a, b)
          [] i.op = "ORR_RR"  -> execute_ORR_RR(a, b)
          [] i.op = "ANDS_RR" -> execute_ANDS_RR(a, b)
          [] i.op = "MVN"     -> execute_MVN(b)
          [] i.op = "MOVZ"    -> execute_MOVZ(b, i.hw)
          [] i.op = "MOVK"    -> execute_MOVK(a, b, i.hw)
          [] i.op = "LSL"     -> execute_LSL(a, b)
          [] i.op = "LSR"     -> execute_LSR(a, b)
          [] i.op = "ASR"     -> execute_ASR(a, b)
          [] OTHER            -> a

\* The instructions on which the two emulators agree: ORR_RR.c:22 computes
\* an exclusive or, MVN and ASR do not get their operands from control, and
\* MOVK does not clear the half-word it writes.
Agreed(i) ==
    /\ i.op \notin {"ORR_RR", "MVN", "ASR", "NOP"}
    /\ i.op = "MOVK" => BitAnd(i.opnd1, Field(i.hw)) = 0

(* The variables have their types.                                         *)
TypeOK ==
    /\ nzcv \in 0 .. 15 /\ val_e \in Word /\ cond_val \in BOOLEAN
    /\ insn \in Insns \cup {Nop} /\ setter \in Insns \cup {Nop}

(* What the pipeline's alu computes is what the sequential routine of the   *)
(* instruction computes: wrap-around, the complement in a difference, the   *)
(* immediate of a left shift that counts from the other end (LSL.c:22).     *)
ResultsAgree == Agreed(insn) => val_e = Meaning(insn)

(***************************************************************************)
(* The flags that alu leaves, by include/instr.h:27-39, for the            *)
(* instructions that instr/ says set them: the sign and the zero of the    *)
(* result, the carry of a sum, and the overflow of a sum or a difference   *)
(* (there is none in an AND).                                              *)
(***************************************************************************)
DocumentedN(i) == Bit(Signed(Meaning(i)) < 0)
DocumentedZ(i) == Bit(Meaning(i) = 0)
DocumentedC(i) == Bit(i.opnd1 + i.opnd2 >= Modulus)
DocumentedV(i) ==
    CASE i.op = "ADDS_RR" -> Bit(~InRange(Signed(i.opnd1) + Signed(i.opnd2)))
      [] i.op = "SUBS_RR" -> Bit(~InRange(Signed(i.opnd1) - Signed(i.opnd2)))
      [] OTHER            -> 0

FlagsAsDocumented ==
    setter # Nop =>
        /\ GET_NF(nzcv) = DocumentedN(setter) /\ GET_ZF(nzcv) = DocumentedZ(setter)
        /\ GET_VF(nzcv) = DocumentedV(setter)
        /\ setter.op = "ADDS_RR" => GET_CF(nzcv) = DocumentedC(setter)

(***************************************************************************)
(* Where the flags of alu (hw_elts.c:96-113) are right, however many       *)
(* instructions run before they are read: all four after a sum; after a    *)
(* difference the sign, the zero and, unless b is zero, the carry: that    *)
(* nothing was borrowed.                                                   *)
(***************************************************************************)
FlagsOfSums ==
    /\ setter.op = "ADDS_RR" => FlagsAsDocumented
    /\ setter.op = "SUBS_RR" =>
          /\ GET_NF(nzcv) = DocumentedN(setter)
          /\ GET_ZF(nzcv) = DocumentedZ(setter)
          /\ setter.opnd2 # 0 => GET_CF(nzcv) = Bit(setter.opnd1 >= setter.opnd2)

(***************************************************************************)
(* A conditional branch after a comparison takes the side the comparison   *)
(* asks for: equality always, the unsigned orders unless it was with zero, *)
(* the signed orders when neither the difference nor the sum overflows     *)
(* (hw_elts.c:108 takes the overflow of the sum).                          *)
(***************************************************************************)
BranchesCompare ==
    insn.op = "B_COND" /\ setter.op = "SUBS_RR" =>
        LET a  == setter.opnd1
            b  == setter.opnd2
            sa == Signed(a)
            sb == Signed(b)
            small == InRange(sa - sb) /\ InRange(sa + sb)
            holds == CASE insn.cond \div 2 = 0 -> a = b
                       [] insn.cond \div 2 = 1 -> a >= b
                       [] insn.cond \div 2 = 4 -> a > b
                       [] insn.cond \div 2 = 5 -> sa >= sb
                       [] insn.cond \div 2 = 6 -> sa > sb
                       [] OTHER -> FALSE
        IN  \/ insn.cond \div 2 \in {2, 3, 7}
            \/ insn.cond \div 2 \in {1, 4} /\ b = 0
            \/ insn.cond \div 2 \in {5, 6} /\ ~small
            \/ cond_val = (IF insn.cond % 2 = 0 THEN holds ELSE ~holds)
=============================================================================
