------------------------------ MODULE Pipeline ------------------------------
(***************************************************************************)
(* The five-stage pipelined processor: runElf (proc.c), handle_hazards     *)
(* (pipe/hazard_control.c), alu, regfile and dmem (hw_elts.c).  One action *)
(* is one cycle, the body of the main loop.                                *)
(*                                                                         *)
(* The stages themselves and forward_reg are only in the repository as     *)
(* object code (src/src/instr.o, src/src/pipe/forward.o): select_PC,       *)
(* predict_PC, the control signals and forward_reg are modelled from the   *)
(* way the sources call them and use what they leave in the pipeline       *)
(* registers, and are external in the map.                                 *)
(*                                                                         *)
(* Abstractions: a pipeline register holds the decoded word and the values *)
(* that later stages read; PC + 4 is the next of P addresses; of the flags *)
(* only Z is kept; the data memory answers READY or IN_FLIGHT as it likes, *)
(* and delivers of the word in memory what the function Loaded says: the   *)
(* word itself without the cache (mem.c:134-168), and with it what          *)
(* get_word_cache makes of it.  CachedMemory says when, and which.         *)
(***************************************************************************)
EXTENDS Instructions

CONSTANTS
    Programs,   \* the programs run: a subset of [Addrs -> Instrs]
    Loaded      \* what a load delivers of the value in memory

ASSUME ProgramsAssumption == Programs \subseteq [Addrs -> Instrs]
ASSUME LoadedAssumption == Loaded \in [Values -> Values]

VARIABLES
    prog,               \* the text of the program, which imem reads
    pred_pc,            \* the global of proc.c:27
    F_in,               \* f_insn->in->pred_PC
    f_stall,            \* f_insn->out->stall, as the last cycle left it
    D_in, X_in, M_in, W_in,     \* the inputs of the other stages
    regs, zf, mem,      \* guest.proc->GPR, the Z flag, data memory
    dmem_status,        \* "READY" or "IN_FLIGHT"
    done                \* runElf left its loop

pipes == <<F_in, f_stall, D_in, X_in, M_in, W_in>>
vars  == <<prog, pred_pc, pipes, regs, zf, mem, dmem_status, done>>

\* bubble_insn: a NOP that came from nowhere.  Its seq_succ_PC is 0 in the
\* code, which is no address of a program.
BUBBLE_PC == -1
bubble_insn ==
    [insn |-> [op |-> "NOP", rd |-> XZR, rn |-> 0, rm |-> 3, imm |-> 0],
     seq_succ_PC |-> BUBBLE_PC, val_a |-> 0, val_b |-> 0, val_ex |-> 0, val_mem |-> 0]

Real(i) == i.seq_succ_PC # BUBBLE_PC

---------------------------------------------------------------------------
(* Control signals, from generate_DXMW_control.                            *)

w_enable(i)   == i.insn.op \in {"LDUR", "MOVZ", "ADD_RI", "ADDS_RR", "SUBS_RR", "BL"}
dst_sel(i)    == i.insn.op = "BL"
wval_sel(i)   == i.insn.op = "LDUR"
dmem_read(i)  == i.insn.op = "LDUR"
dmem_write(i) == i.insn.op = "STUR"

dst(i) == IF dst_sel(i) THEN LINK ELSE i.insn.rd

\* proc.c:77-78: the fields decode reads, and the hazard logic looks at.
src1(i) == IF i.insn.op = "MOVZ" THEN XZR ELSE i.insn.rn
src2(i) == IF i.insn.op = "STUR" THEN i.insn.rd ELSE i.insn.rm

---------------------------------------------------------------------------
(* Write-back and memory.                                                  *)

W_wval(i) == IF dst_sel(i) THEN i.seq_succ_PC
             ELSE IF wval_sel(i) THEN i.val_mem ELSE i.val_ex

\* dmem, when its answer is `status': a load in flight returns 0
\* (mem.c:207), a store in flight stores nothing.
M_val_mem(status) ==
    IF dmem_read(M_in) /\ status = "READY" THEN Loaded[mem[M_in.val_ex]] ELSE 0

M_out(status) == [M_in EXCEPT !.val_mem = M_val_mem(status)]

dmem(status) ==
    mem' = IF dmem_write(M_in) /\ status = "READY"
           THEN [mem EXCEPT ![M_in.val_ex] = M_in.val_b] ELSE mem

---------------------------------------------------------------------------
(* Execute.                                                                *)

\* Mutant: sums are not cut to the width of a register.
alu_too_wide(i) ==
    CASE i.insn.op = "ADDS_RR"                   -> i.val_a + i.val_b
      [] i.insn.op = "SUBS_RR"                   -> (i.val_a - i.val_b) % N
      [] i.insn.op \in {"ADD_RI", "LDUR", "STUR"} -> (i.val_a + i.insn.imm) % N
      [] i.insn.op = "MOVZ"                      -> i.insn.imm
      [] i.insn.op \in {"BL", "RET"}             -> i.val_a
      [] OTHER                                   -> 0

alu(i) ==
    CASE i.insn.op = "ADDS_RR"                   -> (i.val_a + i.val_b) % N
      [] i.insn.op = "SUBS_RR"                   -> (i.val_a - i.val_b) % N
      [] i.insn.op \in {"ADD_RI", "LDUR", "STUR"} -> (i.val_a + i.insn.imm) % N
      [] i.insn.op = "MOVZ"                      -> i.insn.imm
      [] i.insn.op \in {"BL", "RET"}             -> i.val_a
      [] OTHER                                   -> 0

X_out == [X_in EXCEPT !.val_ex = alu(X_in)]

\* set_CC: of the opcodes modelled, ADDS and SUBS set the flags.
X_zf == IF X_in.insn.op \in {"ADDS_RR", "SUBS_RR"} THEN X_out.val_ex = 0 ELSE zf

X_condval == cond_holds(X_in.insn.rd, X_zf)

---------------------------------------------------------------------------
(* Decode: the register file, overridden by what is on its way to it.      *)

regfile(src) == IF src \in Regs THEN regs[src] ELSE 0

\* Mutant: the oldest value on its way wins.
forward_oldest(src, m) ==
    IF w_enable(W_in) /\ dst(W_in) = src THEN W_wval(W_in)
    ELSE IF w_enable(M_in) /\ dst(M_in) = src
         THEN IF wval_sel(M_in) THEN m.val_mem ELSE M_in.val_ex
    ELSE IF w_enable(X_in) /\ dst(X_in) = src THEN X_out.val_ex
    ELSE regfile(src)

\* forward_reg: the youngest writer of src wins.  Only W forwards the link
\* of a BL; X and M forward the BL's val_ex.
forward_reg(src, m) ==
    IF w_enable(X_in) /\ dst(X_in) = src THEN X_out.val_ex
    ELSE IF w_enable(M_in) /\ dst(M_in) = src
         THEN IF wval_sel(M_in) THEN m.val_mem ELSE M_in.val_ex
    ELSE IF w_enable(W_in) /\ dst(W_in) = src THEN W_wval(W_in)
    ELSE regfile(src)

D_out(m) ==
    [D_in EXCEPT !.val_a = forward_reg(src1(D_in), m),
                 !.val_b = forward_reg(src2(D_in), m)]

---------------------------------------------------------------------------
(* Fetch.                                                                  *)

F_pred_PC == IF f_stall THEN F_in ELSE pred_pc

select_PC ==
    IF X_in.insn.op = "B_COND" /\ ~X_condval THEN X_in.seq_succ_PC
    ELSE IF X_in.insn.op = "RET" THEN X_in.val_a
    ELSE F_pred_PC

\* Branches are predicted taken.
predict_PC(i) ==
    IF i.insn.op \in {"B", "B_COND", "BL"} THEN i.insn.imm ELSE i.seq_succ_PC

F_out ==
    [bubble_insn EXCEPT !.insn = prog[select_PC], !.seq_succ_PC = Succ(select_PC)]

---------------------------------------------------------------------------
(* handle_hazards.  Every check begins with reset(), which takes back what *)
(* the checks before it asked for.                                         *)

check_load_use_hazard ==
    /\ X_in.insn.op = "LDUR"
    /\ dst(X_in) \in {src1(D_in), src2(D_in)}

check_mispred_branch_hazard == X_in.insn.op = "B_COND" /\ ~X_condval

check_ret_hazard == D_in.insn.op = "RET"

\* Mutants: a load-use hazard is not noticed; a miss does not hold the access
\* in M (X's output overwrites it); a mispredicted branch takes back the
\* instruction behind it in F, not the one in D.
hazards_no_load_use(status) ==
    IF status = "IN_FLIGHT" THEN [stall |-> {"F", "D", "X", "M"}, bubble |-> {}]
    ELSE IF check_ret_hazard THEN [stall |-> {}, bubble |-> {"F"}]
    ELSE IF check_mispred_branch_hazard THEN [stall |-> {}, bubble |-> {"D", "X"}]
    ELSE [stall |-> {}, bubble |-> {}]

hazards_access_lost(status) ==
    IF status = "IN_FLIGHT" THEN [stall |-> {"F", "D", "M"}, bubble |-> {}]
    ELSE IF check_ret_hazard THEN [stall |-> {}, bubble |-> {"F"}]
    ELSE IF check_mispred_branch_hazard THEN [stall |-> {}, bubble |-> {"D", "X"}]
    ELSE IF check_load_use_hazard THEN [stall |-> {"F"}, bubble |-> {"D"}]
    ELSE [stall |-> {}, bubble |-> {}]

hazards_squash_fetched(status) ==
    IF status = "IN_FLIGHT" THEN [stall |-> {"F", "D", "X", "M"}, bubble |-> {}]
    ELSE IF check_ret_hazard THEN [stall |-> {}, bubble |-> {"F"}]
    ELSE IF check_mispred_branch_hazard THEN [stall |-> {}, bubble |-> {"F", "X"}]
    ELSE IF check_load_use_hazard THEN [stall |-> {"F"}, bubble |-> {"D"}]
    ELSE [stall |-> {}, bubble |-> {}]

handle_hazards(status) ==
    IF status = "IN_FLIGHT" THEN [stall |-> {"F", "D", "X", "M"}, bubble |-> {}]
    ELSE IF check_ret_hazard THEN [stall |-> {}, bubble |-> {"F"}]
    ELSE IF check_mispred_branch_hazard THEN [stall |-> {}, bubble |-> {"D", "X"}]
    ELSE IF check_load_use_hazard THEN [stall |-> {"F"}, bubble |-> {"D"}]
    ELSE [stall |-> {}, bubble |-> {}]

---------------------------------------------------------------------------
\* reg.c:62 leaves the general registers as malloc found them.
Init ==
    /\ prog \in Programs
    /\ pred_pc = 0 /\ F_in = 0 /\ f_stall = FALSE
    /\ D_in = bubble_insn /\ X_in = bubble_insn
    /\ M_in = bubble_insn /\ W_in = bubble_insn
    /\ regs \in [Regs -> Values] /\ regs[LINK] = RetMain
    /\ zf = TRUE
    /\ mem = [a \in Values |-> (a + 1) % N]
    /\ dmem_status = "READY"
    /\ done = FALSE

\* What a stage's output leaves in the next stage's input (proc.c:100-114).
Latch(stage, hazard, out, next) ==
    IF stage \in hazard.stall THEN next
    ELSE IF stage \in hazard.bubble THEN bubble_insn ELSE out

\* Mutant: the return is looked for where it is fetched.
Returned_at_fetch(d) == F_out.insn.op = "RET" /\ regfile(F_out.insn.rn) = RetMain

\* The condition of the main loop (proc.c:119).
Returned(d) == d.insn.op = "RET" /\ d.val_a = RetMain

\* A cycle of the stages when the data memory leaves `status' and M's output
\* is m.
Stages(status, m) ==
    LET d      == D_out(m)
        hazard == handle_hazards(status)
    IN  /\ ~done
        /\ F_in' = F_pred_PC
        /\ regs' = IF w_enable(W_in) THEN [regs EXCEPT ![dst(W_in)] = W_wval(W_in)]
                   ELSE regs
        /\ dmem_status' = status
        /\ zf' = X_zf
        /\ pred_pc' = predict_PC(F_out)
        /\ f_stall' = ("F" \in hazard.stall)
        /\ D_in' = Latch("F", hazard, F_out, D_in)
        /\ X_in' = Latch("D", hazard, d, X_in)
        /\ M_in' = Latch("X", hazard, X_out, M_in)
        /\ W_in' = Latch("M", hazard, m, W_in)
        /\ done' = ("D" \notin hazard.bubble /\ Returned(d))
        /\ UNCHANGED prog

Cycle(status) == Stages(status, M_out(status)) /\ dmem(status)

UsesMemory(i) == dmem_read(i) \/ dmem_write(i)

\* The data memory is asked only by a load or a store; otherwise its status
\* stays what it was.
Next ==
    \E status \in IF UsesMemory(M_in) THEN {"READY", "IN_FLIGHT"} ELSE {dmem_status} :
        Cycle(status)

Spec == Init /\ [][Next]_vars

---------------------------------------------------------------------------
(***************************************************************************)
(* Three hazards that the code does not handle, as what a program meets    *)
(* them by.  The properties below are of programs that meet none.          *)
(***************************************************************************)

\* The registers whose values an instruction uses.
Operands(i) ==
    IF i.op \in {"ADD_RI", "LDUR", "RET"} THEN {i.rn}
    ELSE IF i.op \in {"ADDS_RR", "SUBS_RR"} THEN {i.rn, i.rm}
    ELSE IF i.op = "STUR" THEN {i.rn, i.rd} ELSE {}

\* Where the instruction at a may go next; a RET may go anywhere.
After(p, a) ==
    IF p[a].op \in {"B", "BL"} THEN {p[a].imm}
    ELSE IF p[a].op = "B_COND" THEN {p[a].imm, Succ(a)}
    ELSE IF p[a].op = "RET" THEN Addrs ELSE {Succ(a)}

\* A RET at the target of a conditional branch (hazard_control.c:85 takes
\* back what line 77 asked for).
RetAtTarget(p) == \E a \in Addrs : p[a].op = "B_COND" /\ p[p[a].imm].op = "RET"

\* A RET right behind the load of its register (line 85 and line 69).
RetAfterLoad(p) ==
    \E a \in Addrs : p[a].op = "LDUR" /\ p[Succ(a)].op = "RET" /\ p[a].rd = p[Succ(a)].rn

\* A callee that uses the link register in its first two instructions: only W
\* forwards the link of a BL.
LinkReadEarly(p) ==
    \E a \in Addrs :
        /\ p[a].op = "BL"
        /\ \E b \in {p[a].imm} \cup After(p, p[a].imm) : LINK \in Operands(p[b])

\* Leaves the registers and memory alone.
Idle(i) == i.op \in {"B", "B_COND", "RET", "NOP"}

\* On every way to a RET, two such instructions in front of it: they are all
\* there can be in X and M when the loop ends with the RET in D (proc.c:119).
Padded(p) ==
    \A b, r \in Addrs :
        p[r].op = "RET" /\ r \in After(p, b) =>
            /\ Idle(p[b])
            /\ \A c \in Addrs : b \in After(p, c) => Idle(p[c])

(***************************************************************************)
(* The sequential processor this one shows to its program.  An instruction *)
(* takes effect when it executes in X.  Those that have executed and not   *)
(* yet left their result are, oldest first, the ones in W, in M and, while *)
(* the memory holds the pipeline, the one in X.                            *)
(***************************************************************************)
Executed == dmem_status = "IN_FLIGHT" /\ Real(X_in)

\* The registers and memory s once instruction i has left its result.
Retire(s, i) ==
    [regs |-> IF ~w_enable(i)      THEN s.regs
              ELSE IF wval_sel(i)  THEN [s.regs EXCEPT ![dst(i)] = Loaded[s.mem[i.val_ex]]]
              ELSE [s.regs EXCEPT ![dst(i)] = W_wval(i)],
     mem  |-> IF dmem_write(i) THEN [s.mem EXCEPT ![i.val_ex] = i.val_b] ELSE s.mem]

Retired ==
    LET w == [regs |-> IF w_enable(W_in) THEN [regs EXCEPT ![dst(W_in)] = W_wval(W_in)]
                       ELSE regs,
              mem |-> mem]
        m == Retire(w, M_in)
    IN  IF Executed THEN Retire(m, X_out) ELSE m

\* The oldest instruction that has not executed.
Pc(i) == (i.seq_succ_PC + P - 1) % P

Arch_pc ==
    IF Real(X_in) /\ ~Executed                       THEN Pc(X_in)
    ELSE IF Executed /\ X_in.insn.op = "RET"         THEN X_in.val_a
    ELSE IF Executed /\ check_mispred_branch_hazard  THEN X_in.seq_succ_PC
    ELSE IF Real(D_in) THEN Pc(D_in) ELSE F_pred_PC

Sequential == INSTANCE Isa WITH pc <- Arch_pc, regs <- Retired.regs, mem <- Retired.mem

(***************************************************************************)
(* The pipeline computes what the program says, instruction by             *)
(* instruction: no result is read before or after its time, no instruction *)
(* of a path not taken has an effect, none is lost, repeated or reordered, *)
(* wherever stalls, bubbles and cache misses fall.                         *)
(***************************************************************************)
ImplementsIsa == Sequential!Spec

(***************************************************************************)
(* branch_not_taken.s:5: "branch not taken -- tested on correct            *)
(* squashing".  When the cycle in X of a conditional branch that is not    *)
(* taken ends, the instruction of its target, behind it in D, does not     *)
(* enter X; nor does it when a miss has held the two there first.          *)
(***************************************************************************)
WrongPathSquashed ==
    [][check_mispred_branch_hazard /\ dmem_status' = "READY" => ~Real(X_in')]_vars

(***************************************************************************)
(* The hold on the pipeline (hazard_control.c:91-97) lasts only while M    *)
(* has an access to repeat, and holds fetch as well; were dmem_status ever *)
(* stale, a cycle without an access would find it so for ever.             *)
(***************************************************************************)
HeldByMemory == dmem_status = "IN_FLIGHT" => UsesMemory(M_in) /\ f_stall

StageInput ==
    [insn : Instrs \cup {bubble_insn.insn}, seq_succ_PC : Addrs \cup {BUBBLE_PC},
     val_a : Values, val_b : Values, val_ex : Values, val_mem : Values]

(* The variables have their types.                                         *)
TypeOK ==
    /\ prog \in Programs
    /\ pred_pc \in Addrs /\ F_in \in Addrs /\ f_stall \in BOOLEAN
    /\ {D_in, X_in, M_in, W_in} \subseteq StageInput
    /\ regs \in [Regs -> Values] /\ zf \in BOOLEAN /\ mem \in [Values -> Values]
    /\ dmem_status \in {"READY", "IN_FLIGHT"} /\ done \in BOOLEAN
============================================================================
