----------------------------- MODULE MCPipeline -----------------------------
(***************************************************************************)
(* Small programs for Pipeline: every program of P words from a small set  *)
(* of instructions, but for the ones that meet a hazard the code does not  *)
(* handle, which have runs of their own.                                   *)
(***************************************************************************)
EXTENDS Pipeline

CONSTANT Allowed    \* the unhandled hazards that a program may meet

Word(op, rd, rn, rm, imm) == [op |-> op, rd |-> rd, rn |-> rn, rm |-> rm, imm |-> imm]

MOVZ(d, imm)    == Word("MOVZ", d, 0, 0, imm)
ADD_RI(d, n, imm) == Word("ADD_RI", d, n, 0, imm)
ADDS_RR(d, n, m) == Word("ADDS_RR", d, n, m, 0)
SUBS_RR(d, n, m) == Word("SUBS_RR", d, n, m, 0)
LDUR(t, n, imm) == Word("LDUR", t, n, 0, imm)
STUR(t, n, imm) == Word("STUR", t, n, 0, imm)
B(target)       == Word("B", 0, 0, 0, target)
B_COND(c, target) == Word("B_COND", c, 0, 0, target)
BL(target)      == Word("BL", 0, 0, 0, target)
RET(n)          == Word("RET", 0, n, 0, 0)

Handled(p) ==
    /\ "ret_at_target" \in Allowed \/ ~RetAtTarget(p)
    /\ "ret_after_load" \in Allowed \/ ~RetAfterLoad(p)
    /\ "link_read_early" \in Allowed \/ ~LinkReadEarly(p)

\* A load that does not deliver every word as it is, and changes again what it
\* has changed once: nothing the pipeline promises may rest on that.
MCLoaded == [v \in Values |-> IF v = 4 THEN 5 ELSE IF v = 5 THEN 1 ELSE v]
PlainLoaded == [v \in Values |-> v]

MCPrograms == {p \in [Addrs -> Instrs] : Handled(p)}

\* Dependent arithmetic, loads and stores through one another's results, and
\* returns through a register that they change.
DataInstrs ==
    {MOVZ(1, 2), SUBS_RR(30, 1, 30), ADD_RI(1, 30, 1), LDUR(1, 30, 0), LDUR(30, 1, 1),
     STUR(1, 30, 0), RET(30)}

\* Branches both ways on a flag set just before, calls, and returns through
\* a link register that was computed or loaded.
ControlInstrs ==
    {ADDS_RR(1, 30, 1), LDUR(30, 1, 0), B_COND(C_NE, 3), B(4), BL(2), RET(30),
     bubble_insn.insn}

BothInstrs == DataInstrs \cup ControlInstrs

DataAndControlPrograms ==
    {p \in [Addrs -> DataInstrs] \cup [Addrs -> ControlInstrs] :
        /\ Handled(p)
        /\ p \in [Addrs -> DataInstrs] => p[P - 1] = RET(30)}

\* A branch and the instruction behind it are not the same place.
SquashPrograms ==
    {p \in MCPrograms : \A a \in Addrs : p[a].op = "B_COND" => p[a].imm # Succ(a)}

SquashInstrs ==
    {B_COND(C_NE, 3), B_COND(C_EQ, 3), ADDS_RR(30, 30, 30), RET(30), bubble_insn.insn}
=============================================================================
