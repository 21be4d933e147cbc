--------------------------- MODULE PipelineProofs ---------------------------
(***************************************************************************)
(* The pipelined processor, for every program, every set of registers and  *)
(* every sequence of answers of the data memory: the hold a cache miss     *)
(* puts on it, the types of its registers, the squash of the path not      *)
(* taken, and that it implements Isa.                                      *)
(***************************************************************************)
EXTENDS Pipeline, TLAPS

(* A cycle that is answered IN_FLIGHT holds every stage: fetch keeps its    *)
(* address, and D, X, M and W see the same inputs again.                    *)
LEMMA HeldCycle ==
    ASSUME Cycle("IN_FLIGHT")
    PROVE  /\ f_stall'
           /\ D_in' = D_in /\ X_in' = X_in /\ M_in' = M_in /\ W_in' = W_in
           /\ mem' = mem
<1>1. handle_hazards("IN_FLIGHT") = [stall |-> {"F", "D", "X", "M"}, bubble |-> {}]
  BY DEF handle_hazards
<1>2. f_stall'
  <2>1. f_stall' = ("F" \in handle_hazards("IN_FLIGHT").stall)
    BY Zenon DEF Cycle, Stages
  <2>2. "F" \in handle_hazards("IN_FLIGHT").stall
    BY <1>1
  <2> QED
    BY <2>1, <2>2, Zenon
<1>3. ASSUME NEW stage \in {"F", "D", "X", "M"}, NEW out, NEW next
      PROVE  Latch(stage, handle_hazards("IN_FLIGHT"), out, next) = next
  BY <1>1 DEF Latch
<1>4. /\ D_in' = Latch("F", handle_hazards("IN_FLIGHT"), F_out, D_in)
      /\ X_in' = Latch("D", handle_hazards("IN_FLIGHT"), D_out(M_out("IN_FLIGHT")), X_in)
      /\ M_in' = Latch("X", handle_hazards("IN_FLIGHT"), X_out, M_in)
      /\ W_in' = Latch("M", handle_hazards("IN_FLIGHT"), M_out("IN_FLIGHT"), W_in)
  BY Zenon DEF Cycle, Stages
<1>5. D_in' = D_in /\ X_in' = X_in /\ M_in' = M_in /\ W_in' = W_in
  BY <1>3, <1>4, Zenon
<1>6. mem' = mem
  <2>1. dmem("IN_FLIGHT")
    BY Zenon DEF Cycle, Stages
  <2> QED
    BY <2>1 DEF dmem
<1> QED
  BY <1>2, <1>5, <1>6

---------------------------------------------------------------------------
(* Values, instructions and pipeline registers.                            *)

LEMMA Zero == 0 \in Values /\ 0 \in Addrs /\ N \in Nat \ {0} /\ Addrs \subseteq Values
  BY ProgramAssumption DEF Values, Addrs

(* Arithmetic is cut to the width of a register.                           *)
LEMMA Width ==
    ASSUME NEW a \in Values, NEW b \in Values
    PROVE  (a + b) % N \in Values /\ (a - b) % N \in Values
<1>1. a + b \in Int /\ a - b \in Int /\ N \in Nat \ {0}
  BY Zero DEF Values
<1> QED
  BY <1>1 DEF Values

(* Succ runs through the program, and Pc takes it back.                    *)
LEMMA SuccIs ==
    ASSUME NEW a \in Addrs
    PROVE  /\ Succ(a) \in Addrs
           /\ (Succ(a) + P - 1) % P = a
<1>1. P \in Nat \ {0} /\ a \in 0 .. P - 1
  BY ProgramAssumption DEF Addrs
<1>2. CASE a = P - 1
  <2>1. Succ(a) = 0
    BY <1>1, <1>2 DEF Succ
  <2> QED
    BY <1>1, <1>2, <2>1 DEF Addrs
<1>3. CASE a # P - 1
  <2>1. Succ(a) = a + 1
    BY <1>1, <1>3 DEF Succ
  <2> QED
    BY <1>1, <1>3, <2>1 DEF Addrs
<1> QED
  BY <1>2, <1>3

(* ... and the other way round.                                            *)
LEMMA PcIs ==
    ASSUME NEW i, i.seq_succ_PC \in Addrs
    PROVE  Pc(i) \in Addrs /\ Succ(Pc(i)) = i.seq_succ_PC
<1> DEFINE q == i.seq_succ_PC
<1>1. P \in Nat \ {0} /\ q \in 0 .. P - 1
  BY ProgramAssumption DEF Addrs
<1>2. CASE q = 0
  <2>1. Pc(i) = P - 1
    BY <1>1, <1>2 DEF Pc
  <2> QED
    BY <1>1, <1>2, <2>1 DEF Addrs, Succ
<1>3. CASE q # 0
  <2>1. Pc(i) = q - 1
    BY <1>1, <1>3 DEF Pc
  <2> QED
    BY <1>1, <1>3, <2>1 DEF Addrs, Succ
<1> QED
  BY <1>2, <1>3

(* A bubble is an instruction that does nothing.                            *)
LEMMA BubbleIs ==
    /\ bubble_insn \in StageInput /\ ~Real(bubble_insn)
    /\ bubble_insn.insn \in Instruction /\ bubble_insn.insn.op = "NOP"
<1>1. bubble_insn.insn \in Instruction
  BY Zero DEF bubble_insn, Instruction, Opcodes, XZR
<1> QED
  BY <1>1, Zero DEF bubble_insn, StageInput, Real

(* The fields of an instruction in a stage, and the registers it names.    *)
LEMMA InsnIs ==
    ASSUME NEW i \in StageInput
    PROVE  /\ i.insn \in Instruction
           /\ w_enable(i) => dst(i) \in Regs
           /\ Operands(i.insn) \subseteq Regs
           /\ i.insn.op \in {"B", "B_COND", "BL"} => i.insn.imm \in Addrs
<1>1. i.insn \in Instrs \cup {bubble_insn.insn} /\ i.insn \in Instruction
  BY BubbleIs, ProgramAssumption DEF StageInput
<1>2. CASE i.insn = bubble_insn.insn
  BY <1>1, <1>2, BubbleIs DEF w_enable, Operands
<1>3. CASE i.insn \in Instrs
  BY <1>1, <1>3, ProgramAssumption DEF w_enable, dst, dst_sel, Operands
<1> QED
  BY <1>1, <1>2, <1>3

(* Nor does a bubble write, read, branch or set the flags.                 *)
Inert(i) ==
    /\ ~w_enable(i) /\ ~dmem_read(i) /\ ~dmem_write(i)
    /\ i.insn.op \notin {"B", "B_COND", "BL", "RET", "LDUR", "STUR", "ADDS_RR", "SUBS_RR"}

LEMMA InertIs ==
    ASSUME NEW i, i.insn = bubble_insn.insn PROVE Inert(i)
  BY BubbleIs DEF Inert, w_enable, dmem_read, dmem_write

\* Two stages hold the same instruction.
Same(i, j) == j.insn = i.insn /\ j.seq_succ_PC = i.seq_succ_PC

---------------------------------------------------------------------------
(* Types.                                                                   *)

(* The inductive invariant of the types: a bubble holds bubble_insn's word, *)
(* so that nothing from nowhere has an effect, and a RET that executes goes *)
(* to an address of the program, for main's last ended the loop in decode.  *)
TypeInv ==
    /\ TypeOK
    /\ \A i \in {D_in, X_in, M_in, W_in} : ~Real(i) => i.insn = bubble_insn.insn
    /\ X_in.insn.op = "RET" /\ X_in.val_a = RetMain => done

(* What execute makes of its input.                                         *)
LEMMA XOut ==
    ASSUME TypeInv
    PROVE  /\ X_out \in StageInput /\ Same(X_in, X_out)
           /\ X_out.val_a = X_in.val_a /\ X_out.val_b = X_in.val_b
           /\ X_out.val_ex = alu(X_in)
<1>1. X_in \in StageInput
  BY DEF TypeInv, TypeOK
<1>2. X_in.insn.imm \in Values /\ X_in.val_a \in Values /\ X_in.val_b \in Values
  BY <1>1, InsnIs DEF StageInput, Instruction
<1>3. alu(X_in) \in Values
  BY <1>2, Width, Zero DEF alu
<1> QED
  BY <1>1, <1>3 DEF StageInput, X_out, Same

(* What memory makes of its input.                                          *)
LEMMA MOut ==
    ASSUME TypeInv, NEW status
    PROVE  /\ M_out(status) \in StageInput /\ Same(M_in, M_out(status))
           /\ M_out(status).val_ex = M_in.val_ex /\ M_out(status).val_b = M_in.val_b
           /\ M_out(status).val_mem = M_val_mem(status)
<1>1. M_in \in StageInput /\ mem \in [Values -> Values]
  BY DEF TypeInv, TypeOK
<1>2. M_val_mem(status) \in Values
  BY <1>1, Zero, LoadedAssumption DEF M_val_mem, StageInput
<1> QED
  BY <1>1, <1>2 DEF StageInput, M_out, Same

(* What decode makes of its input.                                          *)
LEMMA DOut ==
    ASSUME TypeInv, NEW m \in StageInput
    PROVE  /\ D_out(m) \in StageInput /\ Same(D_in, D_out(m))
           /\ D_out(m).val_a = forward_reg(src1(D_in), m)
           /\ D_out(m).val_b = forward_reg(src2(D_in), m)
<1>1. /\ D_in \in StageInput /\ X_in \in StageInput
      /\ M_in \in StageInput /\ W_in \in StageInput
      /\ regs \in [Regs -> Values] /\ X_out \in StageInput
  BY XOut DEF TypeInv, TypeOK
<1>2. w_enable(W_in) => W_wval(W_in) \in Values
  <2>1. W_in.insn.op = "BL" => W_in.seq_succ_PC \in Addrs
    BY <1>1, InertIs DEF TypeInv, Inert, StageInput, Real
  <2> QED
    BY <1>1, <2>1, Zero DEF W_wval, StageInput, dst_sel, wval_sel
<1>3. ASSUME NEW src PROVE forward_reg(src, m) \in Values
  <2>1. regfile(src) \in Values
    BY <1>1, Zero DEF regfile
  <2>2. X_out.val_ex \in Values /\ m.val_mem \in Values /\ M_in.val_ex \in Values
    BY <1>1 DEF StageInput
  <2> QED
    BY <1>2, <2>1, <2>2 DEF forward_reg
<1>4. /\ forward_reg(src1(D_in), m) \in Values
      /\ forward_reg(src2(D_in), m) \in Values
  BY <1>3
<1> QED
  BY <1>1, <1>4 DEF StageInput, D_out, Same

(* What fetch makes of the address it selects, unless main has returned.    *)
LEMMA FOut ==
    ASSUME TypeInv, ~done
    PROVE  /\ F_pred_PC \in Addrs /\ select_PC \in Addrs
           /\ F_out \in StageInput /\ Real(F_out) /\ Pc(F_out) = select_PC
           /\ F_out.insn = prog[select_PC] /\ predict_PC(F_out) \in Addrs
<1>1. /\ X_in \in StageInput /\ F_in \in Addrs /\ pred_pc \in Addrs
      /\ prog \in [Addrs -> Instrs]
  BY ProgramsAssumption DEF TypeInv, TypeOK
<1>2. F_pred_PC \in Addrs
  BY <1>1 DEF F_pred_PC
<1>3. X_in.insn.op = "B_COND" => X_in.seq_succ_PC \in Addrs
  BY <1>1, InertIs DEF TypeInv, Inert, StageInput, Real
<1>4. X_in.insn.op = "RET" => X_in.val_a \in Addrs
  BY <1>1, ProgramAssumption DEF TypeInv, StageInput
<1>5. select_PC \in Addrs
  BY <1>2, <1>3, <1>4 DEF select_PC
<1> DEFINE a == select_PC
<1>6. prog[a] \in Instrs /\ Succ(a) \in Addrs
  BY <1>1, <1>5, SuccIs
<1>7. /\ F_out \in StageInput /\ F_out.insn = prog[a] /\ F_out.seq_succ_PC = Succ(a)
  BY <1>6, BubbleIs DEF F_out, StageInput, bubble_insn
<1>8. Real(F_out)
  BY <1>6, <1>7 DEF Real, BUBBLE_PC, Addrs
<1>9. Pc(F_out) = a
  BY <1>5, <1>7, SuccIs DEF Pc
<1>10. predict_PC(F_out) \in Addrs
  BY <1>6, <1>7, InsnIs DEF predict_PC
<1> QED
  BY <1>2, <1>5, <1>7, <1>8, <1>9, <1>10

(* A cycle, assignment by assignment.                                       *)
LEMMA CycleIs ==
    ASSUME NEW status, Cycle(status)
    PROVE  /\ ~done /\ prog' = prog /\ F_in' = F_pred_PC
           /\ dmem_status' = status /\ zf' = X_zf /\ pred_pc' = predict_PC(F_out)
           /\ regs' = IF w_enable(W_in) THEN [regs EXCEPT ![dst(W_in)] = W_wval(W_in)]
                      ELSE regs
           /\ f_stall' = ("F" \in handle_hazards(status).stall)
           /\ D_in' = Latch("F", handle_hazards(status), F_out, D_in)
           /\ X_in' = Latch("D", handle_hazards(status), D_out(M_out(status)), X_in)
           /\ M_in' = Latch("X", handle_hazards(status), X_out, M_in)
           /\ W_in' = Latch("M", handle_hazards(status), M_out(status), W_in)
           /\ done' = /\ "D" \notin handle_hazards(status).bubble
                      /\ Returned(D_out(M_out(status)))
           /\ mem' = IF dmem_write(M_in) /\ status = "READY"
                     THEN [mem EXCEPT ![M_in.val_ex] = M_in.val_b] ELSE mem
<1>1. Stages(status, M_out(status)) /\ dmem(status)
  BY Zenon DEF Cycle
<1>2. /\ ~done /\ prog' = prog /\ F_in' = F_pred_PC
      /\ dmem_status' = status /\ pred_pc' = predict_PC(F_out)
      /\ regs' = IF w_enable(W_in) THEN [regs EXCEPT ![dst(W_in)] = W_wval(W_in)]
                 ELSE regs
      /\ D_in' = Latch("F", handle_hazards(status), F_out, D_in)
      /\ X_in' = Latch("D", handle_hazards(status), D_out(M_out(status)), X_in)
      /\ M_in' = Latch("X", handle_hazards(status), X_out, M_in)
      /\ W_in' = Latch("M", handle_hazards(status), M_out(status), W_in)
  BY <1>1, Zenon DEF Stages
<1>3. zf' = X_zf
  BY <1>1, Zenon DEF Stages
<1>4. f_stall' = ("F" \in handle_hazards(status).stall)
  BY <1>1, Zenon DEF Stages
<1>5. done' = /\ "D" \notin handle_hazards(status).bubble
              /\ Returned(D_out(M_out(status)))
  BY <1>1, Zenon DEF Stages
<1>6. mem' = IF dmem_write(M_in) /\ status = "READY"
             THEN [mem EXCEPT ![M_in.val_ex] = M_in.val_b] ELSE mem
  BY <1>1, Zenon DEF dmem
<1> QED
  BY <1>2, <1>3, <1>4, <1>5, <1>6, Zenon

(* A step is a cycle whose answer comes from the memory, or a stutter.      *)
LEMMA StepIs ==
    ASSUME Next, HeldByMemory, dmem_status \in {"READY", "IN_FLIGHT"}
    PROVE  \E status \in {"READY", "IN_FLIGHT"} :
              Cycle(status) /\ (status = "IN_FLIGHT" => UsesMemory(M_in))
<1>1. PICK status \in IF UsesMemory(M_in) THEN {"READY", "IN_FLIGHT"} ELSE {dmem_status} :
            Cycle(status)
  BY DEF Next
<1> QED
  BY <1>1 DEF HeldByMemory

(* The hold keeps its meaning, whoever steps.                               *)
LEMMA HeldStep ==
    ASSUME HeldByMemory, [Next]_vars PROVE HeldByMemory'
<1>1. CASE UNCHANGED vars
  BY <1>1 DEF HeldByMemory, UsesMemory, dmem_read, dmem_write, vars, pipes
<1>2. CASE Next
  <2>1. PICK status \in IF UsesMemory(M_in) THEN {"READY", "IN_FLIGHT"} ELSE {dmem_status} :
              Cycle(status)
    BY <1>2 DEF Next
  <2>2. dmem_status' = status
    BY <2>1, Zenon DEF Cycle, Stages
  <2>3. CASE status # "IN_FLIGHT"
    BY <2>2, <2>3 DEF HeldByMemory
  <2>4. CASE status = "IN_FLIGHT"
    <3>1. UsesMemory(M_in)
      BY <2>1, <2>4 DEF HeldByMemory
    <3>2. f_stall' /\ M_in' = M_in
      BY <2>1, <2>4, HeldCycle
    <3> QED
      BY <3>1, <3>2 DEF HeldByMemory, UsesMemory, dmem_read, dmem_write
  <2> QED
    BY <2>3, <2>4
<1> QED
  BY <1>1, <1>2

(* hazard_control.c:91-97: whenever the data memory holds the pipeline, M   *)
(* has the access it must repeat, and fetch is held.                        *)
THEOREM HoldHasAccess == Spec => []HeldByMemory
<1>1. Init => HeldByMemory
  BY DEF Init, HeldByMemory
<1>2. HeldByMemory /\ [Next]_vars => HeldByMemory'
  BY HeldStep
<1> QED
  BY <1>1, <1>2, PTL DEF Spec

(* The cycle keeps the types.                                               *)
LEMMA TypeStep ==
    ASSUME TypeInv, NEW status \in {"READY", "IN_FLIGHT"}, Cycle(status)
    PROVE  TypeInv'
<1> DEFINE m == M_out(status)
           d == D_out(m)
           h == handle_hazards(status)
           Typed(i) == i \in StageInput /\ (~Real(i) => i.insn = bubble_insn.insn)
<1>1. /\ ~done /\ prog' = prog /\ F_in' = F_pred_PC /\ dmem_status' = status
      /\ pred_pc' = predict_PC(F_out)
      /\ regs' = IF w_enable(W_in) THEN [regs EXCEPT ![dst(W_in)] = W_wval(W_in)]
                 ELSE regs
      /\ D_in' = Latch("F", h, F_out, D_in) /\ X_in' = Latch("D", h, d, X_in)
      /\ M_in' = Latch("X", h, X_out, M_in) /\ W_in' = Latch("M", h, m, W_in)
      /\ mem' = IF dmem_write(M_in) /\ status = "READY"
                THEN [mem EXCEPT ![M_in.val_ex] = M_in.val_b] ELSE mem
  BY CycleIs
<1>2. /\ zf' = X_zf /\ f_stall' = ("F" \in h.stall)
      /\ done' = ("D" \notin h.bubble /\ Returned(d))
  BY CycleIs, Zenon
<1>3. Typed(D_in) /\ Typed(X_in) /\ Typed(M_in) /\ Typed(W_in)
  BY DEF TypeInv, TypeOK
<1>4. Typed(bubble_insn)
  BY BubbleIs
<1>5. /\ m \in StageInput /\ d \in StageInput /\ X_out \in StageInput
      /\ Same(M_in, m) /\ Same(D_in, d) /\ Same(X_in, X_out)
  BY MOut, DOut, XOut
<1>6. Typed(m) /\ Typed(d) /\ Typed(X_out)
  BY <1>3, <1>5 DEF Same, Real
<1>7. Typed(F_out) /\ F_pred_PC \in Addrs /\ predict_PC(F_out) \in Addrs
  BY <1>1, FOut
<1> HIDE DEF m, d, h, Typed
<1>8. Typed(D_in') /\ Typed(X_in') /\ Typed(M_in') /\ Typed(W_in')
  BY <1>1, <1>3, <1>4, <1>6, <1>7 DEF Latch
<1>9. regs' \in [Regs -> Values]
  <2>1. w_enable(W_in) => dst(W_in) \in Regs /\ W_wval(W_in) \in Values
    <3>1. W_in.insn.op = "BL" => W_in.seq_succ_PC \in Addrs
      BY <1>3, InertIs DEF Inert, StageInput, Real, Typed
    <3> QED
      BY <1>3, <3>1, Zero, InsnIs DEF W_wval, StageInput, dst_sel, wval_sel, Typed
  <2> QED
    BY <1>1, <2>1 DEF TypeInv, TypeOK
<1>10. mem' \in [Values -> Values]
  BY <1>1, <1>3 DEF TypeInv, TypeOK, StageInput, Typed
<1>11. zf' \in BOOLEAN /\ f_stall' \in BOOLEAN /\ done' \in BOOLEAN
  <2>1. X_zf \in BOOLEAN
    BY DEF X_zf, TypeInv, TypeOK
  <2>2. zf' \in BOOLEAN
    BY <1>2, <2>1, Zenon
  <2>3. f_stall' \in BOOLEAN
    BY <1>2
  <2>4. done' \in BOOLEAN
    BY <1>2
  <2> QED
    BY <2>2, <2>3, <2>4
<1>12. X_in'.insn.op = "RET" /\ X_in'.val_a = RetMain => done'
  <2>1. CASE X_in' = X_in
    BY <1>1, <2>1 DEF TypeInv
  <2>2. CASE X_in' = bubble_insn
    BY <2>2, BubbleIs
  <2>3. CASE X_in' = d /\ "D" \notin h.bubble
    BY <1>2, <2>3, Zenon DEF Returned
  <2> QED
    BY <1>1, <2>1, <2>2, <2>3 DEF Latch
<1>13. TypeOK'
  BY <1>1, <1>7, <1>8, <1>9, <1>10, <1>11 DEF TypeOK, TypeInv, Typed
<1> QED
  BY <1>8, <1>12, <1>13 DEF TypeInv, Typed, Real

LEMMA TypeInit == Init => TypeInv
<1> SUFFICES ASSUME Init PROVE TypeInv
  OBVIOUS
<1>1. /\ bubble_insn \in StageInput /\ bubble_insn.insn.op = "NOP"
      /\ 0 \in Addrs /\ prog \in Programs
  BY BubbleIs, Zero DEF Init
<1>2. mem \in [Values -> Values]
  <2>1. \A a \in Values : (a + 1) % N \in Values
    BY Zero DEF Values
  <2> QED
    BY <2>1 DEF Init
<1> QED
  BY <1>1, <1>2 DEF Init, TypeInv, TypeOK

(* The types hold of every behaviour.                                       *)
LEMMA TypeInvariant == Spec => [](TypeInv /\ HeldByMemory)
<1>1. Init => TypeInv /\ HeldByMemory
  BY TypeInit DEF Init, HeldByMemory
<1>2. TypeInv /\ HeldByMemory /\ [Next]_vars => TypeInv' /\ HeldByMemory'
  <2> SUFFICES ASSUME TypeInv, HeldByMemory, [Next]_vars
               PROVE  TypeInv' /\ HeldByMemory'
    OBVIOUS
  <2>1. HeldByMemory'
    BY HeldStep
  <2>2. CASE UNCHANGED vars
    <3>1. TypeInv'
      BY <2>2 DEF TypeInv, TypeOK, vars, pipes, Real
    <3> QED
      BY <2>1, <3>1
  <2>3. CASE Next
    <3>1. PICK status \in {"READY", "IN_FLIGHT"} : Cycle(status)
      BY <2>3, StepIs DEF TypeInv, TypeOK
    <3> QED
      BY <2>1, <3>1, TypeStep
  <2> QED
    BY <2>2, <2>3
<1> QED
  BY <1>1, <1>2, PTL DEF Spec

(* Every register, pipeline register and word of memory keeps its type: no  *)
(* bubble writes, and fetch never leaves the program (proc.c:60-120).       *)
THEOREM PipelineTyped == Spec => []TypeOK
<1>1. TypeInv => TypeOK
  BY DEF TypeInv
<1> QED
  BY <1>1, TypeInvariant, PTL

---------------------------------------------------------------------------
(* Control: the stages hold a run of the program.                          *)

\* A held cycle, and the four ways the stages move in another.
Holds ==
    /\ D_in' = D_in /\ X_in' = X_in /\ M_in' = M_in /\ W_in' = W_in /\ mem' = mem
    /\ F_pred_PC' = F_pred_PC

Moves(d, x, m) ==
    D_in' = d /\ X_in' = x /\ M_in' = m /\ W_in' = M_out("READY")

MovesRet ==
    check_ret_hazard /\ Moves(bubble_insn, D_out(M_out("READY")), X_out)

MovesSquash ==
    /\ ~check_ret_hazard /\ check_mispred_branch_hazard
    /\ Moves(F_out, bubble_insn, bubble_insn)
    /\ F_pred_PC' = predict_PC(F_out)

MovesLoadUse ==
    /\ ~check_ret_hazard /\ ~check_mispred_branch_hazard /\ check_load_use_hazard
    /\ Moves(D_in, bubble_insn, X_out)
    /\ F_pred_PC' = F_pred_PC

MovesPlain ==
    /\ ~check_ret_hazard /\ ~check_mispred_branch_hazard /\ ~check_load_use_hazard
    /\ Moves(F_out, D_out(M_out("READY")), X_out)
    /\ F_pred_PC' = predict_PC(F_out)

(* Where a held cycle leaves the stages.                                    *)
LEMMA HeldMoves ==
    ASSUME Cycle("IN_FLIGHT") PROVE Holds
  BY HeldCycle, CycleIs DEF Holds, F_pred_PC

(* Where another leaves them: the checks of hazard_control.c, the last that *)
(* asked having its way.                                                    *)
LEMMA ReadyMoves ==
    ASSUME Cycle("READY")
    PROVE  MovesRet \/ MovesSquash \/ MovesLoadUse \/ MovesPlain
<1> DEFINE h == handle_hazards("READY")
           d == D_out(M_out("READY"))
<1>1. /\ D_in' = Latch("F", h, F_out, D_in) /\ X_in' = Latch("D", h, d, X_in)
      /\ M_in' = Latch("X", h, X_out, M_in) /\ W_in' = Latch("M", h, M_out("READY"), W_in)
      /\ F_in' = F_pred_PC /\ pred_pc' = predict_PC(F_out)
  BY CycleIs
<1>2. f_stall' = ("F" \in h.stall)
  BY CycleIs, Zenon
<1>3. /\ "F" \in h.stall => F_pred_PC' = F_pred_PC
      /\ "F" \notin h.stall => F_pred_PC' = predict_PC(F_out)
  BY <1>1, <1>2 DEF F_pred_PC
<1>4. CASE check_ret_hazard
  <2>1. h = [stall |-> {}, bubble |-> {"F"}]
    BY <1>4 DEF handle_hazards
  <2> HIDE DEF h, d
  <2> QED
    BY <1>1, <1>4, <2>1 DEF Latch, MovesRet, Moves, d
<1>5. CASE ~check_ret_hazard /\ check_mispred_branch_hazard
  <2>1. h = [stall |-> {}, bubble |-> {"D", "X"}]
    BY <1>5 DEF handle_hazards
  <2> HIDE DEF h, d
  <2> QED
    BY <1>1, <1>3, <1>5, <2>1 DEF Latch, MovesSquash, Moves
<1>6. CASE ~check_ret_hazard /\ ~check_mispred_branch_hazard /\ check_load_use_hazard
  <2>1. h = [stall |-> {"F"}, bubble |-> {"D"}]
    BY <1>6 DEF handle_hazards
  <2> HIDE DEF h, d
  <2> QED
    BY <1>1, <1>3, <1>6, <2>1 DEF Latch, MovesLoadUse, Moves
<1>7. CASE ~check_ret_hazard /\ ~check_mispred_branch_hazard /\ ~check_load_use_hazard
  <2>1. h = [stall |-> {}, bubble |-> {}]
    BY <1>7 DEF handle_hazards
  <2> HIDE DEF h, d
  <2> QED
    BY <1>1, <1>3, <1>7, <2>1 DEF Latch, MovesPlain, Moves, d
<1> QED
  BY <1>4, <1>5, <1>6, <1>7

\* What is in a stage is the program's word at its address.
InText(i) == Real(i) => i.insn = prog[Pc(i)]

(* The inductive invariant of the control: fetch follows D and D follows X, *)
(* as predict_PC has it; behind a RET there is a bubble.                    *)
ControlInv ==
    /\ InText(D_in) /\ InText(X_in)
    /\ X_in.insn.op = "RET" => ~Real(D_in)
    /\ Real(X_in) /\ X_in.insn.op # "RET" => Real(D_in) /\ Pc(D_in) = predict_PC(X_in)
    /\ Real(D_in) /\ D_in.insn.op # "RET" => F_pred_PC = predict_PC(D_in)

(* What a stage passes on is the same instruction.                          *)
LEMMA SameIs ==
    ASSUME NEW i, NEW j, Same(i, j)
    PROVE  /\ j.insn = i.insn /\ (Real(j) <=> Real(i)) /\ Pc(j) = Pc(i)
           /\ predict_PC(j) = predict_PC(i)
  BY DEF Same, Real, Pc, predict_PC

(* Without RETs at the targets of conditional branches, the two checks that *)
(* take back one another's bubbles never ask at once.                       *)
LEMMA NoRetBehindBranch ==
    ASSUME TypeInv, ControlInv, ~RetAtTarget(prog), X_in.insn.op = "B_COND"
    PROVE  ~check_ret_hazard
<1>1. Real(X_in) /\ X_in \in StageInput /\ D_in \in StageInput
  BY InertIs DEF TypeInv, TypeOK, Inert
<1>2. Real(D_in) /\ Pc(D_in) = X_in.insn.imm
  BY <1>1 DEF ControlInv, predict_PC
<1>3. Pc(X_in) \in Addrs
  BY <1>1, PcIs DEF StageInput, Real
<1>4. prog[Pc(X_in)] = X_in.insn /\ prog[Pc(D_in)] = D_in.insn
  BY <1>1, <1>2 DEF ControlInv, InText
<1> QED
  BY <1>2, <1>3, <1>4 DEF RetAtTarget, check_ret_hazard

(* The cycle keeps the control.                                             *)
LEMMA ControlStep ==
    ASSUME TypeInv, ControlInv, NEW status \in {"READY", "IN_FLIGHT"}, Cycle(status)
    PROVE  ControlInv'
<1> DEFINE d == D_out(M_out("READY"))
<1>1. ~done /\ prog' = prog
  BY CycleIs
<1>2. /\ d.insn = D_in.insn /\ (Real(d) <=> Real(D_in)) /\ Pc(d) = Pc(D_in)
      /\ predict_PC(d) = predict_PC(D_in)
  BY MOut, DOut, SameIs
<1>3. /\ Real(F_out) /\ Pc(F_out) = select_PC /\ F_out.insn = prog[select_PC]
  BY <1>1, FOut
<1>4. ~Real(bubble_insn) /\ bubble_insn.insn.op = "NOP"
  BY BubbleIs
<1>5. ~Real(D_in) => D_in.insn.op = "NOP"
  BY BubbleIs DEF TypeInv
<1>6. ~Real(X_in) => X_in.insn.op = "NOP"
  BY BubbleIs DEF TypeInv
<1> HIDE DEF d
<1>7. CASE status = "IN_FLIGHT"
  <2>1. Holds
    BY <1>7, HeldMoves
  <2> QED
    BY <1>1, <2>1 DEF Holds, ControlInv, InText
<1>8. CASE status = "READY"
  <2>1. CASE MovesRet
    <3>1. D_in' = bubble_insn /\ X_in' = d /\ Real(d) /\ d.insn.op = "RET"
      BY <1>2, <1>5, <2>1 DEF MovesRet, Moves, check_ret_hazard, d
    <3> QED
      BY <1>1, <1>2, <1>4, <3>1 DEF ControlInv, InText
  <2>2. CASE MovesSquash
    <3>1. D_in' = F_out /\ X_in' = bubble_insn /\ F_pred_PC' = predict_PC(F_out)
      BY <2>2 DEF MovesSquash, Moves
    <3> QED
      BY <1>1, <1>3, <1>4, <3>1 DEF ControlInv, InText
  <2>3. CASE MovesLoadUse
    <3>1. D_in' = D_in /\ X_in' = bubble_insn /\ F_pred_PC' = F_pred_PC
      BY <2>3 DEF MovesLoadUse, Moves
    <3> QED
      BY <1>1, <1>4, <3>1 DEF ControlInv, InText
  <2>4. CASE MovesPlain
    <3>1. /\ D_in' = F_out /\ X_in' = d /\ F_pred_PC' = predict_PC(F_out)
          /\ D_in.insn.op # "RET" /\ ~check_mispred_branch_hazard
      BY <2>4 DEF MovesPlain, Moves, check_ret_hazard, d
    <3>2. Real(D_in) => select_PC = predict_PC(D_in)
      <4>1. Real(D_in) => X_in.insn.op # "RET" /\ F_pred_PC = predict_PC(D_in)
        BY <3>1 DEF ControlInv
      <4> QED
        BY <3>1, <4>1 DEF select_PC, check_mispred_branch_hazard
    <3> QED
      BY <1>1, <1>2, <1>3, <3>1, <3>2 DEF ControlInv, InText
  <2> QED
    BY <1>8, <2>1, <2>2, <2>3, <2>4, ReadyMoves
<1> QED
  BY <1>7, <1>8

LEMMA ControlInit == Init => ControlInv
  BY BubbleIs DEF Init, ControlInv, InText

LEMMA ControlInvariant == Spec => []ControlInv
<1>1. TypeInv /\ HeldByMemory /\ ControlInv /\ [Next]_vars => ControlInv'
  <2> SUFFICES ASSUME TypeInv, HeldByMemory, ControlInv, [Next]_vars
               PROVE  ControlInv'
    OBVIOUS
  <2>1. CASE UNCHANGED vars
    BY <2>1 DEF ControlInv, InText, F_pred_PC, vars, pipes
  <2>2. CASE Next
    <3>1. PICK status \in {"READY", "IN_FLIGHT"} : Cycle(status)
      BY <2>2, StepIs DEF TypeInv, TypeOK
    <3> QED
      BY <3>1, ControlStep
  <2> QED
    BY <2>1, <2>2
<1> QED
  BY <1>1, ControlInit, TypeInvariant, PTL DEF Spec

\* No program has a RET at the target of a conditional branch.
NoRetAtTarget == \A p \in Programs : ~RetAtTarget(p)

(* branch_not_taken.s:5: of programs without a RET at the target of a       *)
(* conditional branch, whenever one that is not taken leaves X what enters  *)
(* X behind it is a bubble, whatever misses and other hazards coincide; the *)
(* run pipeline_ret_target shows that the others need the hypothesis.       *)
THEOREM SquashIsComplete == NoRetAtTarget => (Spec => WrongPathSquashed)
<1> SUFFICES ASSUME NoRetAtTarget PROVE Spec => WrongPathSquashed
  OBVIOUS
<1> DEFINE Squashed == check_mispred_branch_hazard /\ dmem_status' = "READY" => ~Real(X_in')
<1>1. TypeInv /\ HeldByMemory /\ ControlInv /\ [Next]_vars => [Squashed]_vars
  <2> SUFFICES ASSUME TypeInv, HeldByMemory, ControlInv, Next,
                      check_mispred_branch_hazard, dmem_status' = "READY"
               PROVE  ~Real(X_in')
    OBVIOUS
  <2>1. PICK status \in {"READY", "IN_FLIGHT"} : Cycle(status)
    BY StepIs DEF TypeInv, TypeOK
  <2>2. status = "READY"
    BY <2>1, Zenon DEF Cycle, Stages
  <2>3. ~check_ret_hazard
    <3>1. ~RetAtTarget(prog)
      BY DEF NoRetAtTarget, TypeInv, TypeOK
    <3> QED
      BY <3>1, NoRetBehindBranch DEF check_mispred_branch_hazard
  <2>4. MovesSquash
    BY <2>1, <2>2, <2>3, ReadyMoves DEF MovesRet, MovesLoadUse, MovesPlain
  <2> QED
    BY <2>4, BubbleIs DEF MovesSquash, Moves
<1> HIDE DEF Squashed
<1>2. Spec => [][Squashed]_vars
  BY <1>1, TypeInvariant, ControlInvariant, PTL DEF Spec
<1> QED
  BY <1>2 DEF Squashed, WrongPathSquashed

---------------------------------------------------------------------------
(* The end of the loop.                                                     *)

\* Nothing in a stage that changes a register or memory.
Quiet(i) == ~w_enable(i) /\ ~UsesMemory(i)

(* The inductive invariant of the end: X and D follow M, and when the loop  *)
(* has ended, what it left in M and W is quiet.                             *)
DrainInv ==
    /\ InText(M_in)
    /\ Real(X_in) /\ Real(M_in) => Pc(X_in) \in After(prog, Pc(M_in))
    /\ Real(D_in) /\ ~Real(X_in) /\ Real(M_in) => Pc(D_in) \in After(prog, Pc(M_in))
    /\ done => dmem_status = "READY" /\ Quiet(M_in) /\ Quiet(W_in)

LEMMA QuietIs ==
    ASSUME NEW i, NEW j, Same(i, j)
    PROVE  /\ Quiet(j) <=> Quiet(i)
           /\ Idle(i.insn) => Quiet(i)
  BY DEF Same, Quiet, Idle, w_enable, UsesMemory, dmem_read, dmem_write

(* Fetch follows the program where it predicts.                             *)
LEMMA PredictedAfter ==
    ASSUME NEW i \in StageInput, Real(i), InText(i), i.insn.op # "RET"
    PROVE  Pc(i) \in Addrs /\ predict_PC(i) \in After(prog, Pc(i))
<1>1. i.seq_succ_PC \in Addrs
  BY DEF StageInput, Real
<1>2. /\ Pc(i) \in Addrs /\ Succ(Pc(i)) = i.seq_succ_PC
      /\ prog[Pc(i)] = i.insn
  BY <1>1, PcIs DEF InText
<1> QED
  BY <1>2 DEF predict_PC, After

(* While a RET is in D, what is in X and M is quiet.                        *)
LEMMA QuietBeforeRet ==
    ASSUME TypeInv, ControlInv, DrainInv, Padded(prog), D_in.insn.op = "RET"
    PROVE  Quiet(X_in) /\ Quiet(M_in)
<1>1. D_in \in StageInput /\ X_in \in StageInput /\ M_in \in StageInput
  BY DEF TypeInv, TypeOK
<1>2. Real(D_in) /\ Pc(D_in) \in Addrs /\ prog[Pc(D_in)].op = "RET"
  <2>1. Real(D_in)
    BY BubbleIs DEF TypeInv
  <2> QED
    BY <1>1, <2>1, PcIs DEF ControlInv, InText, StageInput, Real
<1>3. ASSUME NEW i \in {X_in, M_in}, ~Real(i) PROVE Quiet(i)
  <2>1. Inert(i)
    BY <1>3, InertIs DEF TypeInv
  <2> QED
    BY <2>1 DEF Inert, Quiet, UsesMemory
<1>4. ASSUME NEW i \in {X_in, M_in}, Real(i)
      PROVE  /\ Pc(i) \in Addrs /\ prog[Pc(i)] = i.insn
             /\ Idle(prog[Pc(i)]) => Quiet(i)
  <2>1. Pc(i) \in Addrs
    BY <1>1, <1>4, PcIs DEF StageInput, Real
  <2>2. prog[Pc(i)] = i.insn
    BY <1>4 DEF ControlInv, DrainInv, InText
  <2>3. Same(i, i)
    BY DEF Same
  <2> QED
    BY <2>1, <2>2, <2>3, QuietIs
<1>5. Real(X_in) => Pc(D_in) \in After(prog, Pc(X_in))
  <2> SUFFICES ASSUME Real(X_in) PROVE Pc(D_in) \in After(prog, Pc(X_in))
    OBVIOUS
  <2>1. X_in.insn.op # "RET" /\ Pc(D_in) = predict_PC(X_in) /\ InText(X_in)
    BY <1>2 DEF ControlInv
  <2> QED
    BY <1>1, <2>1, PredictedAfter
<1>6. Quiet(X_in)
  <2>1. CASE Real(X_in)
    BY <1>2, <1>4, <1>5, <2>1 DEF Padded
  <2> QED
    BY <1>3, <2>1
<1>7. Quiet(M_in)
  <2>1. CASE Real(M_in) /\ Real(X_in)
    <3>1. Pc(X_in) \in After(prog, Pc(M_in))
      BY <2>1 DEF DrainInv
    <3> QED
      BY <1>2, <1>4, <1>5, <2>1, <3>1 DEF Padded
  <2>2. CASE Real(M_in) /\ ~Real(X_in)
    <3>1. Pc(D_in) \in After(prog, Pc(M_in))
      BY <1>2, <2>2 DEF DrainInv
    <3> QED
      BY <1>2, <1>4, <2>2, <3>1 DEF Padded
  <2> QED
    BY <1>3, <2>1, <2>2
<1> QED
  BY <1>6, <1>7

(* The cycle keeps the order, and ends the loop on quiet stages.            *)
LEMMA DrainStep ==
    ASSUME TypeInv, HeldByMemory, ControlInv, DrainInv, Padded(prog),
           NEW status \in {"READY", "IN_FLIGHT"}, Cycle(status),
           status = "IN_FLIGHT" => UsesMemory(M_in)
    PROVE  DrainInv'
<1> DEFINE d == D_out(M_out("READY"))
<1>1. ~done /\ prog' = prog /\ dmem_status' = status
  BY CycleIs
<1>2. /\ d.insn = D_in.insn /\ (Real(d) <=> Real(D_in)) /\ Pc(d) = Pc(D_in)
      /\ X_out.insn = X_in.insn /\ (Real(X_out) <=> Real(X_in)) /\ Pc(X_out) = Pc(X_in)
  BY MOut, DOut, XOut, SameIs
<1>3. /\ Real(F_out) /\ Pc(F_out) = select_PC /\ select_PC \in Addrs
  BY <1>1, FOut
<1>4. ~Real(bubble_insn)
  BY BubbleIs
<1>5. done' => D_in.insn.op = "RET"
  <2>1. done' => Returned(D_out(M_out(status)))
    BY CycleIs, Zenon
  <2>2. D_out(M_out(status)).insn = D_in.insn
    BY MOut, DOut, SameIs
  <2> QED
    BY <2>1, <2>2 DEF Returned
<1>6. D_in.insn.op = "RET" =>
         Quiet(X_in) /\ Quiet(M_in) /\ Quiet(X_out) /\ Quiet(M_out("READY"))
  <2>1. Same(X_in, X_out) /\ Same(M_in, M_out("READY"))
    BY XOut, MOut
  <2> QED
    BY <2>1, QuietBeforeRet, QuietIs
<1>7. Real(X_in) /\ X_in.insn.op # "RET" =>
         Real(D_in) /\ Pc(D_in) \in After(prog, Pc(X_in))
  <2>1. X_in \in StageInput /\ InText(X_in)
    BY DEF TypeInv, TypeOK, ControlInv
  <2> QED
    BY <2>1, PredictedAfter DEF ControlInv
<1>8. Real(D_in) => X_in.insn.op # "RET"
  BY DEF ControlInv
<1>9. ~Real(D_in) => D_in.insn.op # "RET"
  BY BubbleIs DEF TypeInv
<1>10. InText(X_in) /\ InText(X_out)
  BY <1>2 DEF ControlInv, InText
<1> HIDE DEF d
<1>11. CASE status = "IN_FLIGHT"
  <2>1. Holds
    BY <1>11, HeldMoves
  <2>2. ~done'
    BY <1>5, <1>6, <1>11 DEF Quiet
  <2> QED
    BY <1>1, <2>1, <2>2 DEF Holds, DrainInv, InText
<1>12. CASE status = "READY"
  <2>1. CASE MovesRet
    <3>1. /\ D_in' = bubble_insn /\ X_in' = d /\ M_in' = X_out /\ W_in' = M_out("READY")
          /\ D_in.insn.op = "RET"
      BY <2>1 DEF MovesRet, Moves, check_ret_hazard, d
    <3>2. Quiet(M_in') /\ Quiet(W_in')
      BY <1>6, <3>1
    <3> QED
      BY <1>1, <1>2, <1>4, <1>7, <1>8, <1>9, <1>10, <1>12, <3>1, <3>2
      DEF DrainInv, InText, Quiet, w_enable, UsesMemory, dmem_read, dmem_write
  <2>2. CASE MovesSquash
    <3>1. /\ X_in' = bubble_insn /\ M_in' = bubble_insn /\ ~done'
      BY <1>5, <2>2 DEF MovesSquash, Moves, check_ret_hazard
    <3> QED
      BY <1>1, <1>4, <3>1 DEF DrainInv, InText
  <2>3. CASE MovesLoadUse
    <3>1. D_in' = D_in /\ X_in' = bubble_insn /\ M_in' = X_out /\ ~done'
      BY <1>5, <2>3 DEF MovesLoadUse, Moves, check_ret_hazard
    <3> QED
      BY <1>1, <1>2, <1>4, <1>7, <1>8, <1>10, <3>1 DEF DrainInv, InText
  <2>4. CASE MovesPlain
    <3>1. /\ D_in' = F_out /\ X_in' = d /\ M_in' = X_out /\ ~done'
      BY <1>5, <2>4 DEF MovesPlain, Moves, check_ret_hazard, d
    <3>2. Real(X_in) /\ ~Real(D_in) => After(prog, Pc(X_in)) = Addrs
      BY <1>7, <1>10 DEF InText, After, ControlInv
    <3> QED
      BY <1>1, <1>2, <1>3, <1>7, <1>8, <1>10, <3>1, <3>2 DEF DrainInv, InText
  <2> QED
    BY <1>12, <2>1, <2>2, <2>3, <2>4, ReadyMoves
<1> QED
  BY <1>11, <1>12

LEMMA DrainInit == Init => DrainInv
  BY BubbleIs DEF Init, DrainInv, InText

\* Every program has two idle instructions in front of each of its RETs.
ReturnsPadded == \A p \in Programs : Padded(p)

LEMMA DrainInvariant == ReturnsPadded => (Spec => []DrainInv)
<1> SUFFICES ASSUME ReturnsPadded PROVE Spec => []DrainInv
  OBVIOUS
<1>1. TypeInv /\ HeldByMemory /\ ControlInv /\ DrainInv /\ [Next]_vars => DrainInv'
  <2> SUFFICES ASSUME TypeInv, HeldByMemory, ControlInv, DrainInv, [Next]_vars
               PROVE  DrainInv'
    OBVIOUS
  <2>1. CASE UNCHANGED vars
    BY <2>1 DEF DrainInv, InText, Quiet, w_enable, UsesMemory, dmem_read, dmem_write,
                vars, pipes
  <2>2. CASE Next
    <3>1. PICK status \in {"READY", "IN_FLIGHT"} :
             Cycle(status) /\ (status = "IN_FLIGHT" => UsesMemory(M_in))
      BY <2>2, StepIs DEF TypeInv, TypeOK
    <3>2. Padded(prog)
      BY DEF ReturnsPadded, TypeInv, TypeOK
    <3> QED
      BY <3>1, <3>2, DrainStep
  <2> QED
    BY <2>1, <2>2
<1> QED
  BY <1>1, DrainInit, TypeInvariant, ControlInvariant, PTL DEF Spec

(* proc.c:119: of programs with two idle instructions in front of each RET, *)
(* the loop ends with nothing left to write to a register or to memory,     *)
(* whatever was missed on the way; with a store there it would be lost.     *)
THEOREM EndsDrained ==
    ReturnsPadded => (Spec => [](done => /\ Retired = [regs |-> regs, mem |-> mem]
                                         /\ dmem_status = "READY"))
<1> SUFFICES ASSUME ReturnsPadded
             PROVE  Spec => [](done => /\ Retired = [regs |-> regs, mem |-> mem]
                                       /\ dmem_status = "READY")
  OBVIOUS
<1>1. DrainInv => (done => /\ Retired = [regs |-> regs, mem |-> mem]
                           /\ dmem_status = "READY")
  <2> SUFFICES ASSUME DrainInv, done
               PROVE  /\ Retired = [regs |-> regs, mem |-> mem]
                      /\ dmem_status = "READY"
    OBVIOUS
  <2>1. dmem_status = "READY" /\ Quiet(M_in) /\ Quiet(W_in)
    BY DEF DrainInv
  <2>2. Retire([regs |-> regs, mem |-> mem], M_in) = [regs |-> regs, mem |-> mem]
    BY <2>1 DEF Retire, Quiet, UsesMemory
  <2> QED
    BY <2>1, <2>2 DEF Retired, Executed, Quiet
<1> QED
  BY <1>1, DrainInvariant, PTL

---------------------------------------------------------------------------
(* Data: what an instruction computes with is what those before it left.   *)

\* A stage that holds an instruction or a bubble.
Typed(i) == i \in StageInput /\ (~Real(i) => i.insn = bubble_insn.insn)

\* Registers and memory.
ArchState == [regs : [Regs -> Values], mem : [Values -> Values]]

\* What the program sees once the instruction in W has left its result, and
\* once the one in M has: what the instruction in X works on.
BeforeM ==
    [regs |-> IF w_enable(W_in) THEN [regs EXCEPT ![dst(W_in)] = W_wval(W_in)] ELSE regs,
     mem |-> mem]

BeforeX == Retire(BeforeM, M_in)

(* The registers and the memory an instruction leaves.                      *)
LEMMA RetireIs ==
    ASSUME NEW s \in ArchState, NEW i, Typed(i)
    PROVE  /\ Retire(s, i) \in ArchState
           /\ \A r \in Regs : Retire(s, i).regs[r] =
                 IF w_enable(i) /\ dst(i) = r
                 THEN IF wval_sel(i) THEN Loaded[s.mem[i.val_ex]] ELSE W_wval(i)
                 ELSE s.regs[r]
           /\ ~w_enable(i) /\ ~dmem_write(i) => Retire(s, i) = s
<1>1. i \in StageInput /\ (w_enable(i) => dst(i) \in Regs)
  BY InsnIs DEF Typed
<1>2. w_enable(i) => W_wval(i) \in Values
  <2>1. i.insn.op = "BL" => i.seq_succ_PC \in Addrs
    BY InertIs DEF Typed, Inert, StageInput, Real
  <2> QED
    BY <1>1, <2>1, Zero DEF W_wval, StageInput, dst_sel, wval_sel
<1>3. i.val_ex \in Values /\ i.val_b \in Values
  BY <1>1 DEF StageInput
<1> DEFINE R == Retire(s, i).regs
<1>4. R = IF ~w_enable(i)     THEN s.regs
          ELSE IF wval_sel(i) THEN [s.regs EXCEPT ![dst(i)] = Loaded[s.mem[i.val_ex]]]
          ELSE [s.regs EXCEPT ![dst(i)] = W_wval(i)]
  BY DEF Retire
<1>5. Retire(s, i).mem = IF dmem_write(i) THEN [s.mem EXCEPT ![i.val_ex] = i.val_b]
                         ELSE s.mem
  BY DEF Retire
<1>6. Retire(s, i) = [regs |-> Retire(s, i).regs, mem |-> Retire(s, i).mem]
  BY DEF Retire
<1> HIDE DEF R
<1>7. s.regs \in [Regs -> Values] /\ s.mem \in [Values -> Values]
      /\ s = [regs |-> s.regs, mem |-> s.mem]
  BY DEF ArchState
<1>8. R \in [Regs -> Values]
  BY <1>1, <1>2, <1>3, <1>4, <1>7, LoadedAssumption
<1>9. Retire(s, i).mem \in [Values -> Values]
  BY <1>3, <1>5, <1>7
<1>10. \A r \in Regs : R[r] =
          IF w_enable(i) /\ dst(i) = r
          THEN IF wval_sel(i) THEN Loaded[s.mem[i.val_ex]] ELSE W_wval(i)
          ELSE s.regs[r]
  BY <1>1, <1>4, <1>7
<1>11. Retire(s, i) \in ArchState
  BY <1>6, <1>8, <1>9 DEF ArchState, R
<1>12. ~w_enable(i) /\ ~dmem_write(i) => Retire(s, i) = s
  BY <1>4, <1>5, <1>6, <1>7 DEF R
<1> QED
  BY <1>10, <1>11, <1>12 DEF R

(* The types of the two states.                                             *)
LEMMA BeforeTypes ==
    ASSUME TypeInv
    PROVE  /\ Typed(D_in) /\ Typed(X_in) /\ Typed(M_in) /\ Typed(W_in) /\ Typed(X_out)
           /\ BeforeM \in ArchState /\ BeforeX \in ArchState
<1>1. Typed(D_in) /\ Typed(X_in) /\ Typed(M_in) /\ Typed(W_in)
  BY DEF TypeInv, TypeOK, Typed
<1>2. Typed(X_out)
  BY <1>1, XOut DEF Typed, Same, Real
<1>3. [regs |-> regs, mem |-> mem] \in ArchState
  BY DEF TypeInv, TypeOK, ArchState
<1>4. w_enable(W_in) => dst(W_in) \in Regs /\ W_wval(W_in) \in Values
  <2>1. W_in.insn.op = "BL" => W_in.seq_succ_PC \in Addrs
    BY <1>1, InertIs DEF Inert, StageInput, Real, Typed
  <2> QED
    BY <1>1, <2>1, Zero, InsnIs DEF W_wval, StageInput, dst_sel, wval_sel, Typed
<1>5. BeforeM \in ArchState
  BY <1>4 DEF BeforeM, ArchState, TypeInv, TypeOK
<1> QED
  BY <1>1, <1>2, <1>5, RetireIs DEF BeforeX

(* A held cycle changes neither.                                            *)
LEMMA HeldBefore ==
    ASSUME TypeInv, Cycle("IN_FLIGHT")
    PROVE  BeforeX' = BeforeX /\ X_out' = X_out /\ X_zf' = X_zf /\ zf' = X_zf
<1>1. Holds
  BY HeldMoves
<1>2. regs' = IF w_enable(W_in) THEN [regs EXCEPT ![dst(W_in)] = W_wval(W_in)] ELSE regs
  BY CycleIs
<1>3. w_enable(W_in) => dst(W_in) \in Regs
  BY InsnIs DEF TypeInv, TypeOK
<1>4. regs \in [Regs -> Values]
  BY DEF TypeInv, TypeOK
<1>5. W_in' = W_in /\ M_in' = M_in /\ X_in' = X_in /\ mem' = mem
  BY <1>1 DEF Holds
<1>6. w_enable(W_in) => [regs' EXCEPT ![dst(W_in)] = W_wval(W_in)] = regs'
  BY <1>2, <1>3, <1>4
<1>7. BeforeM' = BeforeM
  BY <1>2, <1>5, <1>6 DEF BeforeM
<1>8. BeforeX' = BeforeX
  BY <1>5, <1>7 DEF BeforeX
<1>9. X_out' = X_out
  BY <1>5 DEF X_out
<1>10. zf' = X_zf
  BY CycleIs, Zenon
<1>11. X_zf' = X_zf
  <2>1. CASE X_in.insn.op \in {"ADDS_RR", "SUBS_RR"}
    BY <1>5, <1>9, <2>1, Zenon DEF X_zf
  <2>2. CASE X_in.insn.op \notin {"ADDS_RR", "SUBS_RR"}
    BY <1>5, <1>10, <2>2, Zenon DEF X_zf
  <2> QED
    BY <2>1, <2>2, Zenon
<1> QED
  BY <1>8, <1>9, <1>10, <1>11, Zenon

(* In another cycle the instruction in X leaves its result behind the one   *)
(* in M: a conditional branch that is squashed has none.                    *)
LEMMA ReadyBefore ==
    ASSUME TypeInv, Cycle("READY")
    PROVE  BeforeX' = Retire(BeforeX, X_out)
<1> DEFINE m == M_out("READY")
<1>1. /\ regs' = BeforeM.regs /\ W_in' = m
      /\ mem' = IF dmem_write(M_in) THEN [mem EXCEPT ![M_in.val_ex] = M_in.val_b] ELSE mem
      /\ M_in' = X_out \/ (M_in' = bubble_insn /\ X_in.insn.op = "B_COND")
  BY CycleIs, ReadyMoves
  DEF MovesRet, MovesSquash, MovesLoadUse, MovesPlain, Moves, BeforeM,
      check_mispred_branch_hazard
<1>2. /\ m.insn = M_in.insn /\ m.seq_succ_PC = M_in.seq_succ_PC
      /\ m.val_ex = M_in.val_ex
      /\ m.val_mem = IF dmem_read(M_in) THEN Loaded[mem[M_in.val_ex]] ELSE 0
  BY MOut DEF Same, M_val_mem
<1>3. /\ (w_enable(m) <=> w_enable(M_in)) /\ dst(m) = dst(M_in)
      /\ W_wval(m) = IF wval_sel(M_in) THEN Loaded[mem[M_in.val_ex]] ELSE W_wval(M_in)
  BY <1>2 DEF w_enable, dst, dst_sel, W_wval, wval_sel, dmem_read
<1> HIDE DEF m
<1>4. BeforeM' = [regs |-> IF w_enable(m) THEN [regs' EXCEPT ![dst(m)] = W_wval(m)]
                           ELSE regs',
                  mem |-> mem']
  BY <1>1 DEF BeforeM
<1>5. BeforeM' = Retire(BeforeM, M_in)
  BY <1>1, <1>3, <1>4 DEF Retire, BeforeM
<1>6. BeforeX' = Retire(BeforeX, M_in')
  BY <1>5 DEF BeforeX
<1>7. CASE M_in' = X_out
  BY <1>6, <1>7
<1>8. CASE M_in' = bubble_insn /\ X_in.insn.op = "B_COND"
  <2>1. Typed(bubble_insn) /\ ~w_enable(bubble_insn) /\ ~dmem_write(bubble_insn)
    BY BubbleIs, InertIs DEF Typed, Inert
  <2>2. Typed(X_out) /\ X_out.insn.op = "B_COND"
    BY <1>8, BeforeTypes, XOut DEF Same
  <2>3. ~w_enable(X_out) /\ ~dmem_write(X_out)
    BY <2>2 DEF w_enable, dmem_write
  <2>4. Retire(BeforeX, bubble_insn) = BeforeX /\ Retire(BeforeX, X_out) = BeforeX
    BY <2>1, <2>2, <2>3, BeforeTypes, RetireIs
  <2> QED
    BY <1>6, <1>8, <2>4
<1> QED
  BY <1>1, <1>7, <1>8

\* The operands an instruction was given are what s holds.
OperandsRead(i, s) ==
    /\ src1(i) \in Operands(i.insn) => i.val_a = s.regs[src1(i)]
    /\ src2(i) \in Operands(i.insn) => i.val_b = s.regs[src2(i)]

(* The inductive invariant of the data: X works on what the instructions    *)
(* before it leave; a BL in M is followed by the word it calls; the flags   *)
(* of an instruction that is held in X are set once.                        *)
DataInv ==
    /\ InText(M_in)
    /\ M_in.insn.op = "BL" => Real(X_in) /\ Pc(X_in) = M_in.insn.imm
    /\ OperandsRead(X_in, BeforeX)
    /\ Executed => zf = X_zf

\* What the hazard logic asks of a program.
Handles(p) == ~RetAtTarget(p) /\ ~RetAfterLoad(p) /\ ~LinkReadEarly(p)

(* While a BL is in X or in M, the instruction in D does not use the link.  *)
LEMMA LinkNotRead ==
    ASSUME TypeInv, ControlInv, DataInv, Handles(prog), Real(D_in),
           X_in.insn.op = "BL" \/ M_in.insn.op = "BL"
    PROVE  LINK \notin Operands(D_in.insn)
<1>1. /\ D_in \in StageInput /\ X_in \in StageInput /\ M_in \in StageInput
      /\ D_in.insn = prog[Pc(D_in)]
  BY DEF TypeInv, TypeOK, ControlInv, InText
<1>2. CASE X_in.insn.op = "BL"
  <2>1. Real(X_in)
    BY <1>2, InertIs DEF TypeInv, Inert
  <2>2. Pc(X_in) \in Addrs /\ prog[Pc(X_in)].op = "BL"
    BY <1>1, <1>2, <2>1, PcIs DEF StageInput, Real, ControlInv, InText
  <2>3. Pc(D_in) = prog[Pc(X_in)].imm
    BY <1>2, <2>1 DEF ControlInv, InText, predict_PC
  <2> QED
    BY <1>1, <2>2, <2>3 DEF Handles, LinkReadEarly
<1>3. CASE M_in.insn.op = "BL"
  <2>1. Real(M_in)
    BY <1>3, InertIs DEF TypeInv, Inert
  <2>2. Pc(M_in) \in Addrs /\ prog[Pc(M_in)].op = "BL"
    BY <1>1, <1>3, <2>1, PcIs DEF StageInput, Real, DataInv, InText
  <2>3. /\ Real(X_in) /\ Pc(X_in) = prog[Pc(M_in)].imm
        /\ Pc(X_in) \in Addrs /\ Succ(Pc(X_in)) = X_in.seq_succ_PC
        /\ X_in.insn = prog[Pc(X_in)]
    BY <1>1, <1>3, <2>1, PcIs DEF StageInput, Real, DataInv, InText, ControlInv
  <2>4. Pc(D_in) = predict_PC(X_in) /\ X_in.insn.op # "RET"
    BY <2>3 DEF ControlInv
  <2>5. Pc(D_in) \in After(prog, Pc(X_in))
    BY <2>3, <2>4 DEF predict_PC, After
  <2> QED
    BY <1>1, <2>2, <2>3, <2>5 DEF Handles, LinkReadEarly
<1> QED
  BY <1>2, <1>3

(* forward_reg gives decode what the instructions before it leave, but for  *)
(* a load that is still in X.                                               *)
LEMMA ForwardIs ==
    ASSUME TypeInv, ControlInv, DataInv, Handles(prog), Real(D_in),
           NEW src \in Operands(D_in.insn), ~(X_in.insn.op = "LDUR" /\ dst(X_in) = src)
    PROVE  forward_reg(src, M_out("READY")) = Retire(BeforeX, X_out).regs[src]
<1> DEFINE m == M_out("READY")
<1>1. src \in Regs
  BY InsnIs DEF TypeInv, TypeOK
<1>2. /\ Typed(X_out) /\ Typed(M_in) /\ Typed(W_in)
      /\ BeforeM \in ArchState /\ BeforeX \in ArchState
  BY BeforeTypes
<1>3. ~(X_in.insn.op = "BL" /\ src = LINK) /\ ~(M_in.insn.op = "BL" /\ src = LINK)
  BY LinkNotRead
<1>4. /\ X_out.insn = X_in.insn /\ (w_enable(X_out) <=> w_enable(X_in))
      /\ dst(X_out) = dst(X_in)
  BY XOut DEF Same, w_enable, dst, dst_sel
<1>5. m.val_mem = IF dmem_read(M_in) THEN Loaded[mem[M_in.val_ex]] ELSE 0
  BY MOut DEF M_val_mem
<1> HIDE DEF m
<1>6. Retire(BeforeX, X_out).regs[src] =
         IF w_enable(X_in) /\ dst(X_in) = src THEN X_out.val_ex ELSE BeforeX.regs[src]
  <2>1. w_enable(X_in) /\ dst(X_in) = src => ~wval_sel(X_out) /\ ~dst_sel(X_out)
    BY <1>3, <1>4 DEF wval_sel, dst_sel, dst
  <2>2. w_enable(X_in) /\ dst(X_in) = src => W_wval(X_out) = X_out.val_ex
    BY <2>1 DEF W_wval
  <2>3. Retire(BeforeX, X_out).regs[src] =
           IF w_enable(X_out) /\ dst(X_out) = src
           THEN IF wval_sel(X_out) THEN Loaded[BeforeX.mem[X_out.val_ex]] ELSE W_wval(X_out)
           ELSE BeforeX.regs[src]
    BY <1>1, <1>2, RetireIs
  <2> QED
    BY <1>4, <2>1, <2>2, <2>3
<1>7. BeforeX.regs[src] =
         IF w_enable(M_in) /\ dst(M_in) = src
         THEN IF wval_sel(M_in) THEN m.val_mem ELSE M_in.val_ex
         ELSE BeforeM.regs[src]
  <2>1. w_enable(M_in) /\ dst(M_in) = src => ~dst_sel(M_in)
    BY <1>3 DEF dst_sel, dst
  <2>2. w_enable(M_in) /\ dst(M_in) = src /\ ~wval_sel(M_in) => W_wval(M_in) = M_in.val_ex
    BY <2>1 DEF W_wval
  <2>3. wval_sel(M_in) => m.val_mem = Loaded[BeforeM.mem[M_in.val_ex]]
    BY <1>5 DEF wval_sel, dmem_read, BeforeM
  <2> QED
    BY <1>1, <1>2, <2>1, <2>2, <2>3, RetireIs DEF BeforeX
<1>8. BeforeM.regs[src] =
         IF w_enable(W_in) /\ dst(W_in) = src THEN W_wval(W_in) ELSE regs[src]
  <2>1. w_enable(W_in) => dst(W_in) \in Regs
    BY <1>2, InsnIs DEF Typed
  <2>2. regs \in [Regs -> Values]
    BY DEF TypeInv, TypeOK
  <2> QED
    BY <1>1, <2>1, <2>2 DEF BeforeM
<1>9. regfile(src) = regs[src]
  BY <1>1 DEF regfile
<1>10. forward_reg(src, m) =
          IF w_enable(X_in) /\ dst(X_in) = src THEN X_out.val_ex
          ELSE IF w_enable(M_in) /\ dst(M_in) = src
               THEN IF wval_sel(M_in) THEN m.val_mem ELSE M_in.val_ex
          ELSE IF w_enable(W_in) /\ dst(W_in) = src THEN W_wval(W_in)
          ELSE regfile(src)
  BY DEF forward_reg
<1>11. forward_reg(src, m) = Retire(BeforeX, X_out).regs[src]
  <2>1. CASE w_enable(X_in) /\ dst(X_in) = src
    BY <1>6, <1>10, <2>1
  <2>2. CASE ~(w_enable(X_in) /\ dst(X_in) = src) /\ w_enable(M_in) /\ dst(M_in) = src
    BY <1>6, <1>7, <1>10, <2>2
  <2>3. CASE ~(w_enable(X_in) /\ dst(X_in) = src) /\ ~(w_enable(M_in) /\ dst(M_in) = src)
    BY <1>6, <1>7, <1>8, <1>9, <1>10, <2>3
  <2> QED
    BY <2>1, <2>2, <2>3
<1> QED
  BY <1>11 DEF m

(* What decode hands to X, unless the load-use check bubbles it.            *)
LEMMA DecodeReads ==
    ASSUME TypeInv, ControlInv, DataInv, Handles(prog), MovesRet \/ MovesPlain
    PROVE  OperandsRead(D_out(M_out("READY")), Retire(BeforeX, X_out))
<1> DEFINE d == D_out(M_out("READY"))
<1>1. /\ d.insn = D_in.insn /\ src1(d) = src1(D_in) /\ src2(d) = src2(D_in)
      /\ d.val_a = forward_reg(src1(D_in), M_out("READY"))
      /\ d.val_b = forward_reg(src2(D_in), M_out("READY"))
  BY MOut, DOut DEF Same, src1, src2
<1>2. CASE ~Real(D_in)
  <2>1. Operands(d.insn) = {}
    BY <1>1, <1>2, BubbleIs DEF Operands, TypeInv
  <2> QED
    BY <2>1 DEF OperandsRead
<1>3. CASE Real(D_in)
  <2>1. ASSUME NEW src \in {src1(D_in), src2(D_in)}, src \in Operands(D_in.insn)
        PROVE  ~(X_in.insn.op = "LDUR" /\ dst(X_in) = src)
    <3> SUFFICES ASSUME X_in.insn.op = "LDUR", dst(X_in) = src PROVE FALSE
      OBVIOUS
    <3>1. CASE MovesPlain
      BY <2>1, <3>1 DEF MovesPlain, check_load_use_hazard
    <3>2. CASE MovesRet
      <4>1. D_in.insn.op = "RET" /\ src = D_in.insn.rn /\ src = X_in.insn.rd
        BY <2>1, <3>2 DEF MovesRet, check_ret_hazard, Operands, dst, dst_sel
      <4>2. Real(X_in) /\ X_in \in StageInput
        BY InertIs DEF TypeInv, TypeOK, Inert
      <4>3. /\ Pc(X_in) \in Addrs /\ Succ(Pc(X_in)) = X_in.seq_succ_PC
            /\ X_in.insn = prog[Pc(X_in)]
        BY <4>2, PcIs DEF StageInput, Real, ControlInv, InText
      <4>4. Pc(D_in) = Succ(Pc(X_in)) /\ D_in.insn = prog[Pc(D_in)]
        BY <1>3, <4>2, <4>3 DEF ControlInv, InText, predict_PC
      <4> QED
        BY <4>1, <4>3, <4>4 DEF Handles, RetAfterLoad
    <3> QED
      BY <3>1, <3>2
  <2>2. ASSUME NEW src \in {src1(D_in), src2(D_in)}, src \in Operands(D_in.insn)
        PROVE  forward_reg(src, M_out("READY")) = Retire(BeforeX, X_out).regs[src]
    BY <1>3, <2>1, <2>2, ForwardIs
  <2> HIDE DEF d
  <2> QED
    BY <1>1, <2>2 DEF OperandsRead, d
<1> QED
  BY <1>2, <1>3

(* The cycle keeps the data.                                                *)
LEMMA DataStep ==
    ASSUME TypeInv, ControlInv, DataInv, Handles(prog),
           NEW status \in {"READY", "IN_FLIGHT"}, Cycle(status)
    PROVE  DataInv'
<1>1. prog' = prog /\ dmem_status' = status
  BY CycleIs
<1>2. CASE status = "IN_FLIGHT"
  <2>1. Holds
    BY <1>2, HeldMoves
  <2>2. BeforeX' = BeforeX
    BY <1>2, HeldBefore
  <2>3. zf' = X_zf'
    BY <1>2, HeldBefore, Zenon
  <2>4. M_in' = M_in /\ X_in' = X_in
    BY <2>1 DEF Holds
  <2>5. InText(M_in)' /\ (M_in.insn.op = "BL" => Real(X_in) /\ Pc(X_in) = M_in.insn.imm)'
    BY <1>1, <2>4 DEF DataInv, InText
  <2>6. OperandsRead(X_in, BeforeX)'
    BY <2>2, <2>4 DEF DataInv, OperandsRead
  <2> QED
    BY <2>3, <2>5, <2>6, Zenon DEF DataInv
<1>3. CASE status = "READY"
  <2> DEFINE d == D_out(M_out("READY"))
  <2>1. BeforeX' = Retire(BeforeX, X_out)
    BY <1>3, ReadyBefore
  <2>2. ~Executed'
    BY <1>1, <1>3 DEF Executed
  <2>3. /\ X_out.insn = X_in.insn /\ (Real(X_out) <=> Real(X_in)) /\ Pc(X_out) = Pc(X_in)
    BY XOut, SameIs
  <2>4. d.insn = D_in.insn /\ (Real(d) <=> Real(D_in)) /\ Pc(d) = Pc(D_in)
    BY MOut, DOut, SameIs
  <2>5. ~Real(bubble_insn) /\ bubble_insn.insn.op = "NOP" /\ Operands(bubble_insn.insn) = {}
    BY BubbleIs DEF Operands
  <2>6. X_in.insn.op = "BL" => Real(D_in) /\ Pc(D_in) = X_in.insn.imm
    <3>1. X_in.insn.op = "BL" => Real(X_in)
      BY InertIs DEF TypeInv, Inert
    <3> QED
      BY <3>1 DEF ControlInv, predict_PC
  <2> HIDE DEF d
  <2>7. CASE MovesRet \/ MovesPlain
    <3>1. X_in' = d /\ M_in' = X_out
      BY <2>7 DEF MovesRet, MovesPlain, Moves, d
    <3>2. OperandsRead(d, Retire(BeforeX, X_out))
      BY <2>7, DecodeReads DEF d
    <3>3. OperandsRead(X_in, BeforeX)'
      BY <2>1, <3>1, <3>2 DEF OperandsRead
    <3>4. InText(M_in)' /\ (M_in.insn.op = "BL" => Real(X_in) /\ Pc(X_in) = M_in.insn.imm)'
      BY <1>1, <2>3, <2>4, <2>6, <3>1 DEF InText, ControlInv
    <3> QED
      BY <2>2, <3>3, <3>4, Zenon DEF DataInv
  <2>8. CASE MovesSquash \/ MovesLoadUse
    <3>1. X_in' = bubble_insn
          /\ (M_in' = bubble_insn \/ (M_in' = X_out /\ X_in.insn.op = "LDUR"))
      BY <2>8 DEF MovesSquash, MovesLoadUse, Moves, check_load_use_hazard
    <3>2. OperandsRead(X_in, BeforeX)'
      BY <2>5, <3>1 DEF OperandsRead
    <3>3. InText(M_in)' /\ (M_in.insn.op = "BL" => Real(X_in) /\ Pc(X_in) = M_in.insn.imm)'
      BY <1>1, <2>3, <2>5, <3>1 DEF InText, ControlInv
    <3> QED
      BY <2>2, <3>2, <3>3, Zenon DEF DataInv
  <2> QED
    BY <1>3, <2>7, <2>8, ReadyMoves
<1> QED
  BY <1>2, <1>3

\* Every program handles its hazards.
HazardsHandled == \A p \in Programs : Handles(p)

LEMMA DataInit == Init => DataInv
<1> SUFFICES ASSUME Init PROVE DataInv
  OBVIOUS
<1>1. M_in = bubble_insn /\ X_in = bubble_insn
  BY DEF Init
<1>2. ~Real(bubble_insn) /\ bubble_insn.insn.op = "NOP"
  BY BubbleIs
<1>3. Operands(X_in.insn) = {}
  BY <1>1, <1>2 DEF Operands
<1>4. ~Executed
  BY <1>1, <1>2 DEF Executed
<1>5. OperandsRead(X_in, BeforeX)
  BY <1>3 DEF OperandsRead
<1>6. InText(M_in) /\ (M_in.insn.op = "BL" => Real(X_in) /\ Pc(X_in) = M_in.insn.imm)
  BY <1>1, <1>2 DEF InText
<1> QED
  BY <1>4, <1>5, <1>6, Zenon DEF DataInv

LEMMA DataInvariant == HazardsHandled => (Spec => []DataInv)
<1> SUFFICES ASSUME HazardsHandled PROVE Spec => []DataInv
  OBVIOUS
<1>1. NoRetAtTarget
  BY DEF HazardsHandled, Handles, NoRetAtTarget
<1>2. TypeInv /\ HeldByMemory /\ ControlInv /\ DataInv /\ [Next]_vars => DataInv'
  <2> SUFFICES ASSUME TypeInv, HeldByMemory, ControlInv, DataInv, [Next]_vars
               PROVE  DataInv'
    OBVIOUS
  <2>1. CASE UNCHANGED vars
    <3>1. /\ prog' = prog /\ M_in' = M_in /\ X_in' = X_in /\ W_in' = W_in
          /\ regs' = regs /\ mem' = mem /\ dmem_status' = dmem_status
      BY <2>1 DEF vars, pipes
    <3>2. BeforeX' = BeforeX /\ X_out' = X_out
      BY <3>1 DEF BeforeX, BeforeM, X_out
    <3>3. zf' = zf
      BY <2>1, Zenon DEF vars, pipes
    <3>4. X_zf' = X_zf
      BY <3>1, <3>2, <3>3, Zenon DEF X_zf
    <3>5. Executed' <=> Executed
      BY <3>1 DEF Executed
    <3>6. InText(M_in)' /\ (M_in.insn.op = "BL" => Real(X_in) /\ Pc(X_in) = M_in.insn.imm)'
      BY <3>1 DEF DataInv, InText
    <3>7. OperandsRead(X_in, BeforeX)'
      BY <3>1, <3>2 DEF DataInv, OperandsRead
    <3>8. Executed' => zf' = X_zf'
      BY <3>3, <3>4, <3>5, Zenon DEF DataInv
    <3> QED
      BY <3>6, <3>7, <3>8, Zenon DEF DataInv
  <2>2. CASE Next
    <3>1. PICK status \in {"READY", "IN_FLIGHT"} : Cycle(status)
      BY <2>2, StepIs DEF TypeInv, TypeOK
    <3>2. Handles(prog)
      BY DEF HazardsHandled, TypeInv, TypeOK
    <3> QED
      BY <3>1, <3>2, DataStep
  <2> QED
    BY <2>1, <2>2
<1> QED
  BY <1>1, <1>2, DataInit, TypeInvariant, ControlInvariant, PTL DEF Spec

---------------------------------------------------------------------------
(* Each cycle is a step of Isa or none.                                     *)

\* Where the program goes after the instruction in X.
NextPc == IF X_in.insn.op = "RET" THEN X_in.val_a
          ELSE IF check_mispred_branch_hazard THEN X_in.seq_succ_PC
          ELSE predict_PC(X_in)

\* The instruction in X, when it has not executed, is the one at Arch_pc;
\* when it has, Arch_pc is where the program goes next.
ShowsX ==
    /\ Real(X_in) /\ ~Executed => Arch_pc = Pc(X_in) /\ Retired = BeforeX
    /\ Executed => Arch_pc = NextPc /\ Retired = Retire(BeforeX, X_out)
    /\ ~Real(X_in) => /\ Arch_pc = IF Real(D_in) THEN Pc(D_in) ELSE F_pred_PC
                     /\ Retired = BeforeX

(* What Isa sees of the pipeline.                                           *)
LEMMA ArchPcIs == ControlInv => ShowsX
<1> SUFFICES ASSUME ControlInv PROVE ShowsX
  OBVIOUS
<1>1. Executed => Real(X_in)
  BY DEF Executed
<1>2. Retired = IF Executed THEN Retire(BeforeX, X_out) ELSE BeforeX
  BY DEF Retired, BeforeX, BeforeM
<1>3. Real(X_in) /\ X_in.insn.op # "RET" => Real(D_in) /\ Pc(D_in) = predict_PC(X_in)
  BY DEF ControlInv
<1> QED
  BY <1>1, <1>2, <1>3 DEF Arch_pc, NextPc, ShowsX

(* ... and after a step.                                                    *)
LEMMA ArchPcIsNext == ControlInv' => ShowsX'
<1>1. ControlInv => ShowsX
  BY ArchPcIs
<1> QED
  BY <1>1, PTL

(* After a held cycle the instruction in X has executed.                    *)
LEMMA HeldShows ==
    ASSUME TypeInv, ControlInv, ControlInv', Cycle("IN_FLIGHT")
    PROVE  /\ Real(X_in) => /\ Arch_pc' = NextPc
                            /\ Retired' = Retire(BeforeX, X_out)
           /\ ~Real(X_in) => Arch_pc' = Arch_pc /\ Retired' = Retired
<1>1. /\ D_in' = D_in /\ X_in' = X_in /\ F_pred_PC' = F_pred_PC
      /\ dmem_status' = "IN_FLIGHT"
  BY HeldMoves, CycleIs DEF Holds
<1>2. BeforeX' = BeforeX /\ X_out' = X_out
  BY HeldBefore
<1>3. X_zf' = X_zf
  BY HeldBefore, Zenon
<1>4. check_mispred_branch_hazard' <=> check_mispred_branch_hazard
  <2>1. cond_holds(X_in'.insn.rd, X_zf') <=> cond_holds(X_in.insn.rd, X_zf)
    BY <1>1, <1>3, Zenon
  <2> QED
    BY <1>1, <2>1, Zenon DEF check_mispred_branch_hazard, X_condval
<1>5. NextPc' = NextPc
  BY <1>1, <1>4 DEF NextPc, predict_PC
<1>6. Real(X_in) => Executed'
  BY <1>1 DEF Executed, Real
<1>7. /\ Executed' => Arch_pc' = NextPc' /\ Retired' = Retire(BeforeX', X_out')
      /\ ~Real(X_in') => /\ Arch_pc' = IF Real(D_in') THEN Pc(D_in') ELSE F_pred_PC'
                        /\ Retired' = BeforeX'
  BY ArchPcIsNext DEF ShowsX
<1> QED
  BY <1>1, <1>2, <1>5, <1>6, <1>7, ArchPcIs DEF ShowsX

(* After another it has left X: the program goes on behind it.              *)
LEMMA ReadyShows ==
    ASSUME TypeInv, ControlInv, ControlInv', Handles(prog), Cycle("READY")
    PROVE  /\ Real(X_in) => /\ Arch_pc' = NextPc
                            /\ Retired' = Retire(BeforeX, X_out)
           /\ ~Real(X_in) => Arch_pc' = Arch_pc /\ Retired' = Retired
<1> DEFINE d == D_out(M_out("READY"))
<1>1. BeforeX' = Retire(BeforeX, X_out) /\ ~done /\ dmem_status' = "READY"
  BY ReadyBefore, CycleIs
<1>2. d.insn = D_in.insn /\ (Real(d) <=> Real(D_in)) /\ Pc(d) = Pc(D_in)
  BY MOut, DOut, SameIs
<1>3. Real(F_out) /\ Pc(F_out) = select_PC
  BY <1>1, FOut
<1>4. ~Real(bubble_insn) /\ bubble_insn.insn.op = "NOP"
  BY BubbleIs
<1>5. /\ Real(X_in') => Arch_pc' = Pc(X_in') /\ Retired' = BeforeX'
      /\ ~Real(X_in') => /\ Arch_pc' = IF Real(D_in') THEN Pc(D_in') ELSE F_pred_PC'
                        /\ Retired' = BeforeX'
  BY <1>1, ArchPcIsNext DEF ShowsX, Executed
<1>6. Retired' = Retire(BeforeX, X_out)
  BY <1>1, <1>5
<1>7. ~Real(X_in) => X_in.insn.op = "NOP" /\ Retired' = Retired
  <2>1. ~Real(X_in) => X_out.insn = bubble_insn.insn /\ Typed(X_out) /\ BeforeX \in ArchState
    BY BeforeTypes, XOut DEF TypeInv, Same
  <2>2. ~Real(X_in) => Retire(BeforeX, X_out) = BeforeX
    BY <2>1, InertIs, RetireIs DEF Inert
  <2> QED
    BY <1>4, <1>6, <2>2, ArchPcIs DEF ShowsX, TypeInv
<1>8. ~Real(D_in) => D_in.insn.op = "NOP"
  BY <1>4 DEF TypeInv
<1>9. Real(X_in) /\ X_in.insn.op # "RET" => Real(D_in) /\ Pc(D_in) = predict_PC(X_in)
  BY DEF ControlInv
<1>10. X_in.insn.op = "RET" => ~Real(D_in)
  BY DEF ControlInv
<1>11. /\ ~Real(X_in) => Arch_pc = IF Real(D_in) THEN Pc(D_in) ELSE F_pred_PC
       /\ check_mispred_branch_hazard => ~check_ret_hazard
  BY ArchPcIs, NoRetBehindBranch DEF ShowsX, Handles, check_mispred_branch_hazard
<1> HIDE DEF d
<1>12. CASE MovesRet
  <2>1. X_in' = d /\ D_in.insn.op = "RET" /\ ~check_mispred_branch_hazard
    BY <1>11, <1>12 DEF MovesRet, Moves, check_ret_hazard, d
  <2>2. Real(D_in) /\ X_in.insn.op # "RET"
    BY <1>8, <1>10, <2>1
  <2>3. Arch_pc' = Pc(D_in)
    BY <1>2, <1>5, <2>1, <2>2
  <2> QED
    BY <1>6, <1>7, <1>9, <1>11, <2>1, <2>2, <2>3 DEF NextPc
<1>13. CASE MovesSquash
  <2>1. X_in' = bubble_insn /\ D_in' = F_out /\ check_mispred_branch_hazard
    BY <1>13 DEF MovesSquash, Moves
  <2>2. X_in.insn.op = "B_COND" /\ select_PC = X_in.seq_succ_PC
    BY <2>1 DEF check_mispred_branch_hazard, select_PC
  <2>3. Arch_pc' = X_in.seq_succ_PC
    BY <1>3, <1>4, <1>5, <2>1, <2>2
  <2> QED
    BY <1>6, <1>7, <2>1, <2>2, <2>3 DEF NextPc
<1>14. CASE MovesLoadUse
  <2>1. X_in' = bubble_insn /\ D_in' = D_in /\ X_in.insn.op = "LDUR"
    BY <1>14 DEF MovesLoadUse, Moves, check_load_use_hazard
  <2>2. Real(X_in) /\ Real(D_in)
    BY <1>7, <1>9, <2>1
  <2>3. Arch_pc' = Pc(D_in)
    BY <1>4, <1>5, <2>1, <2>2
  <2> QED
    BY <1>6, <1>9, <2>1, <2>2, <2>3 DEF NextPc, check_mispred_branch_hazard
<1>15. CASE MovesPlain
  <2>1. X_in' = d /\ D_in' = F_out /\ ~check_mispred_branch_hazard
    BY <1>15 DEF MovesPlain, Moves, d
  <2>2. CASE Real(D_in)
    <3>1. X_in.insn.op # "RET" /\ Arch_pc' = Pc(D_in)
      BY <1>2, <1>5, <1>10, <2>1, <2>2
    <3> QED
      BY <1>6, <1>7, <1>9, <1>11, <2>1, <2>2, <3>1 DEF NextPc
  <2>3. CASE ~Real(D_in)
    <3>1. Arch_pc' = select_PC
      BY <1>2, <1>3, <1>5, <2>1, <2>3
    <3>2. Real(X_in) => X_in.insn.op = "RET"
      BY <1>9, <2>3
    <3> QED
      BY <1>6, <1>7, <1>11, <2>1, <2>3, <3>1, <3>2
      DEF NextPc, select_PC, check_mispred_branch_hazard
  <2> QED
    BY <2>2, <2>3
<1> QED
  BY <1>12, <1>13, <1>14, <1>15, ReadyMoves

(* The instruction in X does to the registers, the memory, the flags and    *)
(* the program counter what Isa says its opcode does.                       *)
LEMMA IsaStep ==
    ASSUME TypeInv, ControlInv, DataInv, Real(X_in),
           Arch_pc = Pc(X_in), Retired = BeforeX,
           Arch_pc' = NextPc, Retired' = Retire(BeforeX, X_out),
           zf' = X_zf, prog' = prog
    PROVE  Sequential!Next
<1> DEFINE i == X_in.insn
           s == BeforeX
           t == Retire(BeforeX, X_out)
<1>1. /\ X_in \in StageInput /\ Typed(X_in) /\ Typed(X_out) /\ s \in ArchState
  BY BeforeTypes DEF Typed
<1>2. /\ Pc(X_in) \in Addrs /\ Succ(Pc(X_in)) = X_in.seq_succ_PC
      /\ prog[Pc(X_in)] = i
  BY <1>1, PcIs DEF StageInput, Real, ControlInv, InText
<1>3. i \in Instruction /\ i.op \in Opcodes /\ Operands(i) \subseteq Regs
  BY <1>1, InsnIs DEF Instruction
<1>4. /\ X_out.insn = i /\ X_out.seq_succ_PC = X_in.seq_succ_PC
      /\ X_out.val_a = X_in.val_a /\ X_out.val_b = X_in.val_b /\ X_out.val_ex = alu(X_in)
  BY XOut DEF Same
<1>5. /\ t.regs = IF ~w_enable(X_out)      THEN s.regs
                  ELSE IF wval_sel(X_out)  THEN [s.regs EXCEPT ![dst(X_out)] = Loaded[s.mem[X_out.val_ex]]]
                  ELSE [s.regs EXCEPT ![dst(X_out)] = W_wval(X_out)]
      /\ t.mem = IF dmem_write(X_out) THEN [s.mem EXCEPT ![X_out.val_ex] = X_out.val_b]
                 ELSE s.mem
  BY DEF Retire
<1>6. /\ i.op \in {"ADD_RI", "LDUR", "RET", "ADDS_RR", "SUBS_RR", "STUR"} =>
            X_in.val_a = s.regs[i.rn]
      /\ i.op \in {"ADDS_RR", "SUBS_RR"} => X_in.val_b = s.regs[i.rm]
      /\ i.op = "STUR" => X_in.val_b = s.regs[i.rd]
  BY DEF DataInv, OperandsRead, Operands, src1, src2
<1>7. /\ Sequential!insn = i /\ Retired.regs = s.regs /\ Retired.mem = s.mem
      /\ (Retired.regs)' = t.regs /\ (Retired.mem)' = t.mem
  BY <1>2 DEF Sequential!insn
<1>8. i.op \notin {"ADDS_RR", "SUBS_RR"} => zf' = zf
  BY Zenon DEF X_zf
<1>9. i.op \notin {"RET", "B", "B_COND", "BL"} => Arch_pc' = Succ(Arch_pc)
  BY <1>2 DEF NextPc, check_mispred_branch_hazard, predict_PC
<1> HIDE DEF i, s, t
<1> USE <1>4, <1>5, <1>6, <1>7
<1>10. Values = Sequential!Values /\ Addrs = Sequential!Addrs
  BY DEF Values, Addrs, Sequential!Values, Sequential!Addrs
<1>11. Arch_pc \in Sequential!Addrs /\ UNCHANGED prog
  BY <1>2, <1>10
<1>12. CASE i.op = "MOVZ"
  <2>1. t.regs = [s.regs EXCEPT ![i.rd] = i.imm] /\ t.mem = s.mem
    BY <1>12 DEF w_enable, wval_sel, dmem_write, dst, dst_sel, W_wval, alu, i
  <2>2. Sequential!MOVZ
    BY <1>8, <1>9, <1>12, <2>1
    DEF Sequential!MOVZ, Sequential!common_writeback,
        Sequential!update_pc_next, Sequential!Succ, Succ
  <2> QED
    BY <1>11, <2>2 DEF Sequential!Next
<1>13. CASE i.op = "ADD_RI"
  <2>1. t.regs = [s.regs EXCEPT ![i.rd] = (s.regs[i.rn] + i.imm) % N] /\ t.mem = s.mem
    BY <1>13 DEF w_enable, wval_sel, dmem_write, dst, dst_sel, W_wval, alu, i
  <2>2. Sequential!ADD_RI
    BY <1>8, <1>9, <1>13, <2>1
    DEF Sequential!ADD_RI, Sequential!opnd1, Sequential!common_writeback,
        Sequential!update_pc_next, Sequential!Succ, Succ
  <2> QED
    BY <1>11, <2>2 DEF Sequential!Next
<1>14. CASE i.op = "ADDS_RR"
  <2>1. /\ X_out.val_ex = (s.regs[i.rn] + s.regs[i.rm]) % N
        /\ t.regs = [s.regs EXCEPT ![i.rd] = (s.regs[i.rn] + s.regs[i.rm]) % N]
        /\ t.mem = s.mem
    BY <1>14 DEF w_enable, wval_sel, dmem_write, dst, dst_sel, W_wval, alu, i
  <2>2. zf' = (X_out.val_ex = 0)
    BY <1>14, Zenon DEF X_zf, i
  <2>3. Sequential!ADDS_RR
    <3>1. zf' = ((s.regs[i.rn] + s.regs[i.rm]) % N = 0)
      BY <2>1, <2>2, Zenon
    <3>2. Sequential!insn.op = "ADDS_RR" /\ UNCHANGED Retired.mem
      BY <1>14, <2>1
    <3>3. Sequential!common_writeback((s.regs[i.rn] + s.regs[i.rm]) % N) /\ Sequential!update_pc_next
      BY <1>9, <1>14, <2>1
      DEF Sequential!common_writeback, Sequential!update_pc_next, Sequential!Succ, Succ
    <3>4. (s.regs[i.rn] + s.regs[i.rm]) % N = (Sequential!opnd1 + Sequential!opnd2) % N
      BY DEF Sequential!opnd1, Sequential!opnd2
    <3> QED
      BY <3>1, <3>2, <3>3, <3>4, Zenon DEF Sequential!ADDS_RR
  <2> QED
    BY <1>11, <2>3 DEF Sequential!Next
<1>15. CASE i.op = "SUBS_RR"
  <2>1. /\ X_out.val_ex = (s.regs[i.rn] - s.regs[i.rm]) % N
        /\ t.regs = [s.regs EXCEPT ![i.rd] = (s.regs[i.rn] - s.regs[i.rm]) % N]
        /\ t.mem = s.mem
    BY <1>15 DEF w_enable, wval_sel, dmem_write, dst, dst_sel, W_wval, alu, i
  <2>2. zf' = (X_out.val_ex = 0)
    BY <1>15, Zenon DEF X_zf, i
  <2>3. Sequential!SUBS_RR
    <3>1. zf' = ((s.regs[i.rn] - s.regs[i.rm]) % N = 0)
      BY <2>1, <2>2, Zenon
    <3>2. Sequential!insn.op = "SUBS_RR" /\ UNCHANGED Retired.mem
      BY <1>15, <2>1
    <3>3. Sequential!common_writeback((s.regs[i.rn] - s.regs[i.rm]) % N) /\ Sequential!update_pc_next
      BY <1>9, <1>15, <2>1
      DEF Sequential!common_writeback, Sequential!update_pc_next, Sequential!Succ, Succ
    <3>4. (s.regs[i.rn] - s.regs[i.rm]) % N = (Sequential!opnd1 - Sequential!opnd2) % N
      BY DEF Sequential!opnd1, Sequential!opnd2
    <3> QED
      BY <3>1, <3>2, <3>3, <3>4, Zenon DEF Sequential!SUBS_RR
  <2> QED
    BY <1>11, <2>3 DEF Sequential!Next
<1>16. CASE i.op = "LDUR"
  <2>1. /\ t.regs = [s.regs EXCEPT ![i.rd] = Loaded[s.mem[(s.regs[i.rn] + i.imm) % N]]]
        /\ t.mem = s.mem
    BY <1>16 DEF w_enable, wval_sel, dmem_write, dst, dst_sel, W_wval, alu, i
  <2>2. Sequential!LDUR
    BY <1>8, <1>9, <1>16, <2>1
    DEF Sequential!LDUR, Sequential!opnd1, Sequential!common_memory_load, Sequential!val_ex, Sequential!common_writeback,
        Sequential!update_pc_next, Sequential!Succ, Succ
  <2> QED
    BY <1>11, <2>2 DEF Sequential!Next
<1>17. CASE i.op = "STUR"
  <2>1. /\ t.regs = s.regs
        /\ t.mem = [s.mem EXCEPT ![(s.regs[i.rn] + i.imm) % N] = s.regs[i.rd]]
    BY <1>17 DEF w_enable, wval_sel, dmem_write, dst, dst_sel, W_wval, alu, i
  <2>2. Sequential!STUR
    BY <1>8, <1>9, <1>17, <2>1
    DEF Sequential!STUR, Sequential!opnd1, Sequential!common_memory_store, Sequential!val_ex, Sequential!update_pc_next, Sequential!Succ, Succ
  <2> QED
    BY <1>11, <2>2 DEF Sequential!Next
<1>18. CASE i.op = "B"
  <2>1. t.regs = s.regs /\ t.mem = s.mem /\ NextPc = i.imm
    BY <1>18 DEF w_enable, dmem_write, NextPc, check_mispred_branch_hazard, predict_PC, i
  <2>2. Sequential!B
    BY <1>8, <1>18, <2>1
    DEF Sequential!B, Sequential!update_pc_branch
  <2> QED
    BY <1>11, <2>2 DEF Sequential!Next
<1>19. CASE i.op = "B_COND"
  <2>1. /\ t.regs = s.regs /\ t.mem = s.mem
        /\ NextPc = IF X_condval THEN i.imm ELSE Succ(Arch_pc)
    BY <1>19, <1>2 DEF w_enable, dmem_write, NextPc, check_mispred_branch_hazard, predict_PC, i
  <2>2. X_zf = zf
    BY <1>19, Zenon DEF X_zf, i
  <2>3. X_condval <=> Sequential!cond_holds(Sequential!insn.rd, zf)
    <3>1. X_condval <=> cond_holds(i.rd, zf)
      BY <2>2, Zenon DEF X_condval, i
    <3> QED
      BY <3>1 DEF cond_holds, Sequential!cond_holds, C_EQ, C_NE, C_AL,
                  Sequential!C_EQ, Sequential!C_NE, Sequential!C_AL
  <2>4. IF Sequential!cond_holds(Sequential!insn.rd, zf)
        THEN Sequential!update_pc_branch(Sequential!insn.imm)
        ELSE Sequential!update_pc_next
    BY <2>1, <2>3
    DEF Sequential!update_pc_branch, Sequential!update_pc_next, Sequential!Succ, Succ
  <2>5. Sequential!insn.op = "B_COND" /\ UNCHANGED <<Retired.regs, Retired.mem>>
    BY <1>19, <2>1
  <2>6. Sequential!B_COND
    BY <1>8, <1>19, <2>4, <2>5, Zenon DEF Sequential!B_COND
  <2> QED
    BY <1>11, <2>6 DEF Sequential!Next
<1>20. CASE i.op = "BL"
  <2>1. /\ t.regs = [s.regs EXCEPT ![LINK] = Succ(Arch_pc)] /\ t.mem = s.mem
        /\ NextPc = i.imm
    BY <1>20, <1>2 DEF w_enable, wval_sel, dmem_write, dst, dst_sel, W_wval,
        NextPc, check_mispred_branch_hazard, predict_PC, i
  <2>2. Sequential!BL
    BY <1>8, <1>20, <2>1
    DEF Sequential!BL, Sequential!update_pc_branch, Sequential!common_writeback_special,
        Sequential!Succ, Succ, Sequential!LINK, LINK
  <2> QED
    BY <1>11, <2>2 DEF Sequential!Next
<1>21. CASE i.op = "RET"
  <2>1. t.regs = s.regs /\ t.mem = s.mem /\ NextPc = s.regs[i.rn]
    BY <1>21 DEF w_enable, dmem_write, NextPc, i
  <2>2. Sequential!RET
    BY <1>8, <1>21, <2>1
    DEF Sequential!RET, Sequential!update_pc_branch, Sequential!opnd1
  <2> QED
    BY <1>11, <2>2 DEF Sequential!Next
<1>22. CASE i.op = "NOP"
  <2>1. t.regs = s.regs /\ t.mem = s.mem
    BY <1>22 DEF w_enable, dmem_write, i
  <2>2. Sequential!NOP
    BY <1>8, <1>9, <1>22, <2>1
    DEF Sequential!NOP, Sequential!update_pc_next, Sequential!Succ, Succ
  <2> QED
    BY <1>11, <2>2 DEF Sequential!Next
<1> QED
  BY <1>3, <1>12, <1>13, <1>14, <1>15, <1>16, <1>17, <1>18, <1>19, <1>20, <1>21, <1>22 DEF Opcodes

(* The pipeline starts where Isa does.                                      *)
LEMMA IsaInit == Init => Sequential!Init
<1> SUFFICES ASSUME Init PROVE Sequential!Init
  OBVIOUS
<1>1. ~Real(X_in) /\ ~Real(D_in) /\ F_pred_PC = 0
  BY BubbleIs DEF Init, F_pred_PC
<1>2. Arch_pc = 0
  BY <1>1 DEF Arch_pc, Executed
<1>3. ~w_enable(W_in) /\ ~w_enable(M_in) /\ ~dmem_write(M_in)
  BY InertIs DEF Init, Inert
<1>4. Retired = [regs |-> regs, mem |-> mem]
  BY <1>1, <1>3 DEF Retired, Retire, Executed
<1>5. zf = TRUE
  BY Zenon DEF Init
<1>6. /\ Retired.regs \in [Regs -> Sequential!Values] /\ Retired.regs[LINK] = RetMain
      /\ Retired.mem = [a \in Sequential!Values |-> (a + 1) % N]
  BY <1>4 DEF Init, Values, Sequential!Values
<1> QED
  BY <1>2, <1>5, <1>6, Zenon DEF Sequential!Init, Sequential!LINK, LINK

(* A cycle is a step of Isa when it executes the instruction in X, and      *)
(* none when that has executed or X holds a bubble.                         *)
LEMMA IsaNext ==
    ASSUME TypeInv, HeldByMemory, ControlInv, ControlInv', DataInv, HazardsHandled,
           [Next]_vars
    PROVE  [Sequential!Next]_<<prog, Sequential!arch>>
<1>1. CASE UNCHANGED vars
  <2>1. /\ prog' = prog /\ D_in' = D_in /\ X_in' = X_in /\ M_in' = M_in /\ W_in' = W_in
        /\ F_in' = F_in /\ pred_pc' = pred_pc
        /\ regs' = regs /\ mem' = mem /\ dmem_status' = dmem_status
    BY <1>1 DEF vars, pipes
  <2>2. zf' = zf /\ f_stall' = f_stall
    BY <1>1, Zenon DEF vars, pipes
  <2>3. X_out' = X_out
    BY <2>1 DEF X_out
  <2>4. X_zf' = X_zf
    BY <2>1, <2>2, <2>3, Zenon DEF X_zf
  <2>5. check_mispred_branch_hazard' <=> check_mispred_branch_hazard
    <3>1. cond_holds(X_in'.insn.rd, X_zf') <=> cond_holds(X_in.insn.rd, X_zf)
      BY <2>1, <2>4, Zenon
    <3> QED
      BY <2>1, <3>1, Zenon DEF check_mispred_branch_hazard, X_condval
  <2>6. F_pred_PC' = F_pred_PC
    BY <2>1, <2>2, Zenon DEF F_pred_PC
  <2>7. Executed' <=> Executed
    BY <2>1 DEF Executed
  <2>8. Arch_pc' = Arch_pc
    BY <2>1, <2>5, <2>6, <2>7 DEF Arch_pc
  <2>9. Retired' = Retired
    BY <2>1, <2>3, <2>7 DEF Retired
  <2> QED
    BY <2>1, <2>2, <2>8, <2>9, Zenon DEF Sequential!arch
<1>2. CASE Next
  <2>1. PICK status \in {"READY", "IN_FLIGHT"} : Cycle(status)
    BY <1>2, StepIs DEF TypeInv, TypeOK
  <2>2. Handles(prog)
    BY DEF HazardsHandled, TypeInv, TypeOK
  <2>3. prog' = prog
    BY <2>1, CycleIs
  <2>4. zf' = X_zf
    BY <2>1, CycleIs, Zenon
  <2>5. /\ Real(X_in) => Arch_pc' = NextPc /\ Retired' = Retire(BeforeX, X_out)
        /\ ~Real(X_in) => Arch_pc' = Arch_pc /\ Retired' = Retired
    BY <2>1, <2>2, HeldShows, ReadyShows
  <2>6. CASE Real(X_in) /\ ~Executed
    <3>1. Arch_pc = Pc(X_in) /\ Retired = BeforeX
      BY <2>6, ArchPcIs DEF ShowsX
    <3>2. Sequential!Next
      BY <2>3, <2>4, <2>5, <2>6, <3>1, IsaStep
    <3> QED
      BY <3>2
  <2>7. CASE Executed
    <3>1. Real(X_in) /\ Arch_pc = NextPc /\ Retired = Retire(BeforeX, X_out)
      BY <2>7, ArchPcIs DEF ShowsX, Executed
    <3>2. zf' = zf
      BY <2>4, <2>7, Zenon DEF DataInv
    <3>3. Arch_pc' = Arch_pc /\ Retired' = Retired
      BY <2>5, <3>1
    <3> QED
      BY <2>3, <3>2, <3>3, Zenon DEF Sequential!arch
  <2>8. CASE ~Real(X_in)
    <3>1. X_in.insn.op \notin {"ADDS_RR", "SUBS_RR"}
      BY <2>8, InertIs DEF TypeInv, Inert
    <3>2. zf' = zf
      BY <2>4, <3>1, Zenon DEF X_zf
    <3>3. Arch_pc' = Arch_pc /\ Retired' = Retired
      BY <2>5, <2>8
    <3> QED
      BY <2>3, <3>2, <3>3, Zenon DEF Sequential!arch
  <2> QED
    BY <2>6, <2>7, <2>8
<1> QED
  BY <1>1, <1>2

(* The processor: for every set of programs that meet none of the three     *)
(* unhandled hazards, every pattern of cache misses and every register the  *)
(* program starts with, the pipeline computes what the sequential semantics *)
(* of src/src/instr says, an instruction at a time and in its order.        *)
THEOREM PipelineIsSequential == HazardsHandled => (Spec => ImplementsIsa)
<1> SUFFICES ASSUME HazardsHandled PROVE Spec => ImplementsIsa
  OBVIOUS
<1>1. NoRetAtTarget
  BY DEF HazardsHandled, Handles, NoRetAtTarget
<1>2. TypeInv /\ HeldByMemory /\ ControlInv /\ ControlInv' /\ DataInv /\ [Next]_vars
         => [Sequential!Next]_<<prog, Sequential!arch>>
  BY IsaNext
<1>3. Spec => Sequential!Init /\ [][Sequential!Next]_<<prog, Sequential!arch>>
  BY <1>1, <1>2, IsaInit, TypeInvariant, ControlInvariant, DataInvariant, PTL DEF Spec
<1> QED
  BY <1>3 DEF ImplementsIsa, Sequential!Spec
=============================================================================
