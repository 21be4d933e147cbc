------------------------------- MODULE Grader -------------------------------
(***************************************************************************)
(* src/src/cache/test-csim.c, which marks a cache simulator: for each test *)
(* it runs csim-ref and then csim as processes, and reads the numbers each *)
(* leaves in the file .csim_results (csim.c:28-35).  It is concurrent with *)
(* the simulator it waits for, with the alarm that ends it after 20        *)
(* seconds, and, when the alarm came while it waited, with the simulator   *)
(* of an earlier grading, which nobody kills and which writes the same     *)
(* file.                                                                   *)
(*                                                                         *)
(* The four numbers of a result are named by who wrote them (Tag); what a  *)
(* simulator computes is CSim's business.                                  *)
(***************************************************************************)
EXTENDS Integers, Sequences, FiniteSets

CONSTANTS
    N,              \* tests
    weight,         \* test -> weight
    Measures,       \* what a summary counts: hits, misses and evictions
    Answers,        \* program -> test -> the numbers it computes
    Garbage,        \* what may be in a number that was never assigned
    MaxGradings     \* bound: times the grader is started

Tests    == 1 .. N
Programs == {"ref", "test"}     \* ./csim-ref and ./csim
Null     == [q \in Measures |-> -1]

ASSUME GraderAssumption ==
    /\ N \in Nat \ {0} /\ weight \in [Tests -> Nat] /\ IsFiniteSet(Measures)
    /\ Answers \in [Programs -> [Tests -> [Measures -> Nat]]]
    /\ Garbage \subseteq [Measures -> Int]
    /\ MaxGradings \in Nat \ {0}

VARIABLES
    step, who, i,   \* where the grader is: in runtrace for test i, or after
    ref, test,      \* the numbers of the tests, by test
    status, points, \* of the tests
    verdicts,       \* lines TEST_CSIM_RESULTS printed by this grading
    file,           \* .csim_results: Absent, Empty, or a tag
    child,          \* the simulator the grader started last, or NoSim
    orphans,        \* those that gradings that timed out left running
    grading,        \* gradings started
    got,            \* what each program's results were read from (history)
    haunted,        \* an orphan was alive when the grading began (history)
    troubled        \* tests with a call or a program that failed (history)

marks    == <<ref, test, status, points>>
sims     == <<child, orphans>>
history  == <<got, haunted, troubled>>
vars     == <<step, who, i, marks, verdicts, file, sims, grading, history>>

Steps == {"remove", "run", "wait", "read", "clean", "score", "exit", "ended"}

\* A result names the program, the test and the grading it was computed in.
Tag(p, n) == [by |-> p, test |-> n, grading |-> grading]
Absent == [by |-> "absent"]
Empty  == [by |-> "empty"]

\* linked: the file the process has open is still .csim_results.
NoSim == [state |-> "none"]
Simulator(p) == [state |-> "replay", tag |-> Tag(p, i), linked |-> FALSE]
Alive(sim) == sim.state \in {"replay", "open"}

Init ==
    /\ step = "remove" /\ who = "ref" /\ i = 1
    /\ ref = [n \in Tests |-> Null] /\ test = ref
    /\ status = [n \in Tests |-> 0] /\ points = [n \in Tests |-> 0]
    /\ verdicts = 0
    /\ file = Absent
    /\ child = NoSim /\ orphans = {}
    /\ grading = 1
    /\ got = [p \in Programs |-> [n \in Tests |-> Absent]]
    /\ haunted = FALSE /\ troubled = {}

---------------------------------------------------------------------------
(* A simulator, child or orphan: csim.c's main and printSummary.  Each     *)
(* step gives the simulator and the file after it.                         *)

\* fopen "w" makes the file, or empties the one there.
Opens(sim) == <<[sim EXCEPT !.state = "open", !.linked = TRUE], Empty>>

\* fclose writes the line out; into a file that was removed, for nobody.
Writes(sim) ==
    <<[sim EXCEPT !.state = "exit 0"], IF sim.linked THEN sim.tag ELSE file>>

\* printUsage, for an option that is missing or unknown: exit(0), before
\* anything is written.
PrintsUsage(sim) == <<[sim EXCEPT !.state = "usage"], file>>

\* exit(1) for a trace that is not there; a signal, which the shell that ran
\* the program may turn into an exit status.  (The exit(1) for bad options,
\* csim.c:132, 140, is behind printUsage's exit(0).)
Ends(sim) == {<<[sim EXCEPT !.state = state], file>> : state \in {"exit 1", "signal"}}

SimSteps(sim) ==
    CASE sim.state = "replay" -> {Opens(sim), PrintsUsage(sim)} \cup Ends(sim)
      [] sim.state = "open"   -> {Writes(sim)} \cup Ends(sim)
      [] OTHER                -> {}

\* Each runs at its own pace, or for ever.
ChildRuns ==
    /\ \E after \in SimSteps(child) : child' = after[1] /\ file' = after[2]
    /\ UNCHANGED <<step, who, i, marks, verdicts, orphans, grading, history>>

OrphanRuns ==
    /\ \E sim \in orphans : \E after \in SimSteps(sim) :
          /\ orphans' = (orphans \ {sim}) \cup {after[1]}
          /\ file' = after[2]
    /\ UNCHANGED <<step, who, i, marks, verdicts, child, grading, history>>

---------------------------------------------------------------------------
(* runtrace.                                                               *)

\* On to the next test, or to the marks.
NextTest ==
    /\ who' = "ref"
    /\ i' = IF i < N THEN i + 1 ELSE i
    /\ step' = IF i < N THEN "remove" ELSE "score"

\* runtrace returns 0, and test_csim nulls everything out.
Problem ==
    /\ NextTest
    /\ status' = [status EXCEPT ![i] = 0]
    /\ ref' = [ref EXCEPT ![i] = Null] /\ test' = [test EXCEPT ![i] = Null]
    /\ troubled' = troubled \cup {i}
    /\ UNCHANGED <<points, got>>

\* rm -rf: whoever has the file open writes to nobody.
Removed ==
    /\ file' = Absent
    /\ UNCHANGED child
    /\ orphans' = {IF sim.state = "open" THEN [sim EXCEPT !.linked = FALSE] ELSE sim :
                      sim \in orphans}

\* Mutant: the results are removed once, before the reference simulator.
RemoveForRefOnly ==
    /\ step = "remove"
    /\ IF who = "ref" THEN Removed ELSE UNCHANGED <<file, sims>>
    /\ step' = "run"
    /\ UNCHANGED <<who, i, marks, verdicts, grading, history>>

Remove ==
    /\ step = "remove"
    /\ Removed
    /\ step' = "run"
    /\ UNCHANGED <<who, i, marks, verdicts, grading, history>>

\* system() could not make a process.
SystemFails ==
    /\ step \in {"remove", "run", "clean"}
    /\ Problem
    /\ UNCHANGED <<verdicts, file, sims, grading, haunted>>

Run ==
    /\ step = "run"
    /\ child' = Simulator(who)
    /\ step' = "wait"
    /\ UNCHANGED <<who, i, marks, verdicts, file, orphans, grading, history>>

\* An exit status of 1 is a problem; a signal is not seen as one, and a
\* simulator that printed its usage ended with status 0.
Wait ==
    /\ step = "wait" /\ ~Alive(child)
    /\ IF child.state = "exit 1"
       THEN Problem
       ELSE /\ step' = "read"
            /\ troubled' = IF child.state = "exit 0" THEN troubled ELSE troubled \cup {i}
            /\ UNCHANGED <<who, i, marks, got>>
    /\ UNCHANGED <<verdicts, file, sims, grading, haunted>>

\* The numbers in the file; fscanf finds none in an empty one, which is not
\* tested, and the variables keep what they have.
Numbers == IF file = Empty THEN Garbage ELSE {Answers[file.by][file.test]}

Read ==
    /\ step = "read"
    /\ IF file = Absent
       THEN Problem
       ELSE /\ \E numbers \in Numbers :
                  IF who = "ref" THEN ref' = [ref EXCEPT ![i] = numbers] /\ UNCHANGED test
                                 ELSE test' = [test EXCEPT ![i] = numbers] /\ UNCHANGED ref
            /\ got' = [got EXCEPT ![who] = [@ EXCEPT ![i] = file]]
            /\ who' = "test"
            /\ step' = IF who = "ref" THEN "remove" ELSE "clean"
            /\ UNCHANGED <<i, status, points, troubled>>
    /\ UNCHANGED <<verdicts, file, sims, grading, haunted>>

Clean ==
    /\ step = "clean"
    /\ Removed
    /\ status' = [status EXCEPT ![i] = 1]
    /\ NextTest
    /\ UNCHANGED <<ref, test, points, verdicts, grading, history>>

---------------------------------------------------------------------------
(* test_csim's marks, the verdict and the alarm.                           *)

Equal(n) == Cardinality({q \in Measures : ref[n][q] = test[n][q]})

\* Mutants: two nulled results are equal, too; every measure counts once
\* more than it should.
earned_null(n) == Equal(n) * weight[n]
earned_twice(n) == 2 * Equal(n) * weight[n]

earned(n) ==
    IF status[n] # 0 /\ \A q \in Measures : ref[n][q] # -1 /\ test[n][q] # -1
    THEN Equal(n) * weight[n] ELSE 0

Score ==
    /\ step = "score"
    /\ points' = [n \in Tests |-> earned(n)]
    /\ verdicts' = verdicts + 1
    /\ step' = "exit"
    /\ UNCHANGED <<who, i, ref, test, status, file, sims, grading, history>>

Exit ==
    /\ step = "exit"
    /\ step' = "ended"
    /\ UNCHANGED <<who, i, marks, verdicts, file, sims, grading, history>>

\* Mutant: the alarm waits for the simulator.
AlarmBlocked ==
    /\ step \notin {"ended", "wait"}
    /\ verdicts' = verdicts + 1
    /\ step' = "ended"
    /\ UNCHANGED <<who, i, marks, file, sims, grading, history>>

\* sigalrm_handler, any time after alarm(20): zeros, and exit.
Alarm ==
    /\ step # "ended"
    /\ verdicts' = verdicts + 1
    /\ step' = "ended"
    /\ UNCHANGED <<who, i, marks, file, sims, grading, history>>

\* Someone runs the grader again.
Restart ==
    /\ step = "ended" /\ grading < MaxGradings
    /\ step' = "remove" /\ who' = "ref" /\ i' = 1
    /\ ref' = [n \in Tests |-> Null] /\ test' = ref'
    /\ status' = [n \in Tests |-> 0] /\ points' = [n \in Tests |-> 0]
    /\ verdicts' = 0
    /\ grading' = grading + 1
    /\ orphans' = {sim \in orphans \cup {child} : Alive(sim)}
    /\ child' = NoSim
    /\ got' = [p \in Programs |-> [n \in Tests |-> Absent]]
    /\ haunted' = (orphans' # {}) /\ troubled' = {}
    /\ UNCHANGED file

GraderStep ==
    Remove \/ SystemFails \/ Run \/ Wait \/ Read \/ Clean \/ Score \/ Exit

Next == GraderStep \/ Alarm \/ Restart \/ ChildRuns \/ OrphanRuns

Spec == Init /\ [][Next]_vars

\* The grader runs when it can, and alarm(20) comes; no simulator need end.
FairSpec == Spec /\ WF_vars(GraderStep) /\ WF_vars(Alarm)

---------------------------------------------------------------------------
(* The variables have their types; the marks of a test are out of its      *)
(* weight for each measure, which makes the 40 of test-csim.c:203; each    *)
(* grading leaves at most one simulator behind.                            *)
TypeOK ==
    /\ step \in Steps /\ who \in Programs /\ i \in Tests
    /\ ref \in [Tests -> [Measures -> Int]] /\ test \in [Tests -> [Measures -> Int]]
    /\ status \in [Tests -> {0, 1}]
    /\ \A n \in Tests : points[n] \in 0 .. Cardinality(Measures) * weight[n]
    /\ Cardinality(orphans) < MaxGradings

(* The numbers that are marked come from a run of that program, for that    *)
(* test, in this grading, or from nowhere: never from the simulator before  *)
(* it or from an earlier grading, though all of them write one file.        *)
OwnResults ==
    ~haunted => \A p \in Programs, n \in Tests : got[p][n] \in {Absent, Empty, Tag(p, n)}

Deserved(n) ==
    Cardinality({q \in Measures : Answers["ref"][n][q] = Answers["test"][n][q]}) * weight[n]

(* The marks printed are those csim deserves: all of them for a test in     *)
(* which nothing failed, and nothing more for one in which something did.   *)
(* (A simulator killed between fopen and fclose leaves an empty file, whose *)
(* numbers are not tested: test-csim.c:79, 108.)                            *)
Marks ==
    step = "exit" /\ ~haunted =>
        \A n \in Tests :
            IF n \notin troubled THEN points[n] = Deserved(n)
            ELSE Empty \notin {got["ref"][n], got["test"][n]} => points[n] \in {0, Deserved(n)}

(* "Time out and give up after a while" (test-csim.c:230): a grading ends   *)
(* with a verdict, though the simulator it waits for never does.            *)
GradingEnds == step # "ended" ~> step = "ended" /\ verdicts > 0
=============================================================================
