---------------------------- MODULE Instructions ----------------------------
(***************************************************************************)
(* What the sequential and the pipelined processor share: the values they  *)
(* compute with and the fields of an instruction word.                     *)
(*                                                                         *)
(* A word is the record of its decoded fields (instr.h:53-82, 128-157):    *)
(* opcode `op', and the register numbers its bits 0-4, 5-9 and 16-20       *)
(* spell, `rd', `rn' and `rm', whether or not the opcode means them as     *)
(* registers: the hazard logic looks at the bits all the same.  `imm' is   *)
(* the immediate, and for a branch the target.  Instructions sit at        *)
(* addresses 0 .. P - 1 and the one after the last is the first.           *)
(***************************************************************************)
EXTENDS Integers

CONSTANTS
    N,        \* values are 0 .. N - 1: 2^64 in the code
    P,        \* length of the program; a RET jumps into it or to RetMain
    Regs,     \* general registers in use
    Instrs,   \* instruction words a program may hold
    RetMain   \* RET_FROM_MAIN_ADDR, mem.c:33: no address of the program

XZR  == 31    \* reads as zero (hw_elts.c:24)
LINK == 30    \* the link register

Values == 0 .. N - 1
Addrs  == 0 .. P - 1

Opcodes == {"LDUR", "STUR", "MOVZ", "ADD_RI", "ADDS_RR", "SUBS_RR",
            "B", "B_COND", "BL", "RET", "NOP"}

\* The condition codes used here (instr.h:88-106), in bits 0-3 of a B.cond.
C_EQ == 0
C_NE == 1
C_AL == 14

Instruction == [op : Opcodes, rd : 0 .. 31, rn : 0 .. 31, rm : 0 .. 31, imm : Values]

ASSUME ProgramAssumption ==
    /\ N \in Nat /\ P \in Nat \ {0}
    /\ RetMain \notin Addrs /\ Values = Addrs \cup {RetMain}
    /\ Regs \subseteq 0 .. 30 /\ LINK \in Regs
    /\ Instrs \subseteq Instruction
    /\ \A i \in Instrs :
          /\ i.op \in {"B", "B_COND", "BL"} => i.imm \in Addrs
          /\ i.op \in {"MOVZ", "ADD_RI", "ADDS_RR", "SUBS_RR", "LDUR", "STUR"} => i.rd \in Regs
          /\ i.op \in {"ADD_RI", "ADDS_RR", "SUBS_RR", "LDUR", "STUR", "RET"} => i.rn \in Regs
          /\ i.op \in {"ADDS_RR", "SUBS_RR"} => i.rm \in Regs

\* PC + 4
Succ(pc) == (pc + 1) % P

\* cond_holds of the Z flag.
cond_holds(cond, zf) ==
    \/ cond = C_EQ /\ zf
    \/ cond = C_NE /\ ~zf
    \/ cond = C_AL
=============================================================================
