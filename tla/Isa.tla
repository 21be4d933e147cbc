-------------------------------- MODULE Isa --------------------------------
(***************************************************************************)
(* The sequential meaning of a program: src/src/instr, where each opcode   *)
(* has a decode and an execute routine and shares the memory, write-back   *)
(* and update-PC routines of common_*.c.  One action runs one instruction  *)
(* through all of them, with no pipeline.  It is what the pipelined        *)
(* processor promises to compute.                                          *)
(***************************************************************************)
EXTENDS Instructions

CONSTANT Loaded     \* what a load delivers of the value in memory

VARIABLES
    prog,   \* the text of the program
    pc,     \* guest.proc->PC
    regs,   \* guest.proc->GPR
    zf,     \* the Z bit of guest.proc->NZCV
    mem     \* the words of memory

arch == <<pc, regs, zf, mem>>

insn  == prog[pc]
opnd1 == regs[insn.rn]
opnd2 == regs[insn.rm]

update_pc_next == pc' = Succ(pc)
update_pc_branch(target) == pc' = target

common_writeback(val) == regs' = [regs EXCEPT ![insn.rd] = val]

\* The return address of a call goes to the link register.
common_writeback_special == regs' = [regs EXCEPT ![LINK] = Succ(pc)]

\* The address of a load or a store.
val_ex == (opnd1 + insn.imm) % N

common_memory_load == Loaded[mem[val_ex]]
common_memory_store == mem' = [mem EXCEPT ![val_ex] = regs[insn.rd]]

MOVZ ==
    /\ insn.op = "MOVZ"
    /\ common_writeback(insn.imm)
    /\ update_pc_next
    /\ UNCHANGED <<zf, mem>>

ADD_RI ==
    /\ insn.op = "ADD_RI"
    /\ common_writeback((opnd1 + insn.imm) % N)
    /\ update_pc_next
    /\ UNCHANGED <<zf, mem>>

ADDS_RR ==
    LET result == (opnd1 + opnd2) % N
    IN  /\ insn.op = "ADDS_RR"
        /\ common_writeback(result)
        /\ zf' = (result = 0)
        /\ update_pc_next
        /\ UNCHANGED mem

SUBS_RR ==
    LET result == (opnd1 - opnd2) % N
    IN  /\ insn.op = "SUBS_RR"
        /\ common_writeback(result)
        /\ zf' = (result = 0)
        /\ update_pc_next
        /\ UNCHANGED mem

LDUR ==
    /\ insn.op = "LDUR"
    /\ common_writeback(common_memory_load)
    /\ update_pc_next
    /\ UNCHANGED <<zf, mem>>

STUR ==
    /\ insn.op = "STUR"
    /\ common_memory_store
    /\ update_pc_next
    /\ UNCHANGED <<regs, zf>>

B ==
    /\ insn.op = "B"
    /\ update_pc_branch(insn.imm)
    /\ UNCHANGED <<regs, zf, mem>>

B_COND ==
    /\ insn.op = "B_COND"
    /\ IF cond_holds(insn.rd, zf) THEN update_pc_branch(insn.imm) ELSE update_pc_next
    /\ UNCHANGED <<regs, zf, mem>>

BL ==
    /\ insn.op = "BL"
    /\ common_writeback_special
    /\ update_pc_branch(insn.imm)
    /\ UNCHANGED <<zf, mem>>

RET ==
    /\ insn.op = "RET"
    /\ update_pc_branch(opnd1)
    /\ UNCHANGED <<regs, zf, mem>>

NOP ==
    /\ insn.op = "NOP"
    /\ update_pc_next
    /\ UNCHANGED <<regs, zf, mem>>

\* What runElf (proc.c:35-38) sets; the other registers are what malloc found
\* (reg.c:62).  A word of the initial memory differs from its neighbours.
Init ==
    /\ pc = 0
    /\ regs \in [Regs -> Values] /\ regs[LINK] = RetMain
    /\ zf = TRUE
    /\ mem = [a \in Values |-> (a + 1) % N]

\* main has returned once pc is RetMain.
Next ==
    /\ pc \in Addrs
    /\ \/ MOVZ \/ ADD_RI \/ ADDS_RR \/ SUBS_RR \/ LDUR \/ STUR
       \/ B \/ B_COND \/ BL \/ RET \/ NOP
    /\ UNCHANGED prog

Spec == Init /\ [][Next]_<<prog, arch>>
============================================================================
