---------------------------- MODULE GraderProofs ----------------------------
(***************************************************************************)
(* Whose numbers the grader marks, and the marks it gives, for any number  *)
(* of tests and gradings and any simulators.                               *)
(***************************************************************************)
EXTENDS Grader, FiniteSetTheorems, TLAPS

\* A simulator that computes result t.
Sim(t) == [state : {"replay", "open", "exit 0", "exit 1", "signal", "usage"},
           tag : {t}, linked : BOOLEAN]

(* The inductive invariant.  In a grading that began with no simulator of   *)
(* an earlier one alive, there is none but the grader's own; that one is    *)
(* alive only while the grader waits, computes the result waited for, and   *)
(* found the file removed.                                                  *)
Alone ==
    /\ orphans = {}
    /\ step \notin {"wait", "ended"} => ~Alive(child)
    /\ step = "wait" => child \in Sim(Tag(who, i))
    /\ step = "run" => file = Absent
    /\ step \in {"wait", "read"} => file \in {Absent, Empty, Tag(who, i)}

IInv ==
    /\ step \in Steps /\ who \in Programs /\ i \in Tests /\ haunted \in BOOLEAN
    /\ got = [p \in Programs |-> [n \in Tests |-> got[p][n]]]
    /\ ~haunted => Alone
    /\ OwnResults

(* One step of a simulator leaves its tag alone, does not bring it back to  *)
(* life, and puts nothing into the file but its result (csim.c:28-35); one  *)
(* that ends well with its file still in place has put it there.            *)
LEMMA SimulatorSteps ==
    ASSUME NEW t, NEW sim \in Sim(t), NEW after \in SimSteps(sim)
    PROVE  /\ after[1] \in Sim(t) /\ after[2] \in {file, Empty, t}
           /\ after[1].state = "open" => after[1].linked
           /\ after[1].state = "exit 0" /\ (sim.state = "open" => sim.linked) => after[2] = t
<1>1. ASSUME after \in Ends(sim)
      PROVE  /\ after[1] \in Sim(t) /\ after[2] = file
             /\ after[1].state \in {"exit 1", "signal"}
  <2>1. PICK state \in {"exit 1", "signal"} : after = <<[sim EXCEPT !.state = state], file>>
    BY <1>1, Zenon DEF Ends
  <2> QED
    BY <2>1 DEF Sim
<1>2. ASSUME after = Opens(sim)
      PROVE  /\ after[1] \in Sim(t) /\ after[2] = Empty
             /\ after[1].state = "open" /\ after[1].linked
  BY <1>2 DEF Opens, Sim
<1>3. ASSUME after = Writes(sim)
      PROVE  /\ after[1] \in Sim(t) /\ after[2] \in {file, t}
             /\ after[1].state = "exit 0" /\ (sim.linked => after[2] = t)
  BY <1>3 DEF Writes, Sim
<1>4. ASSUME after = PrintsUsage(sim)
      PROVE  after[1] \in Sim(t) /\ after[2] = file /\ after[1].state = "usage"
  BY <1>4 DEF PrintsUsage, Sim
<1>5. \/ after \in Ends(sim)
      \/ after = Opens(sim)
      \/ after = PrintsUsage(sim)
      \/ after = Writes(sim) /\ sim.state = "open"
  <2>1. sim.state \in {"replay", "open"}
    BY DEF SimSteps
  <2> QED
    BY <2>1 DEF SimSteps
<1>6. CASE after \in Ends(sim)
  BY <1>1, <1>6
<1>7. CASE after = Opens(sim)
  BY <1>2, <1>7
<1>8. CASE after = Writes(sim) /\ sim.state = "open"
  BY <1>3, <1>8
<1>9. CASE after = PrintsUsage(sim)
  BY <1>4, <1>9
<1> QED
  BY <1>5, <1>6, <1>7, <1>8, <1>9

(* runtrace gives up: on to the next test, or to the marks.                 *)
LEMMA ProblemKeeps ==
    ASSUME IInv, Problem, UNCHANGED <<sims, grading, haunted>>,
           ~haunted => ~Alive(child)
    PROVE  IInv'
<1>1. /\ step' \in {"remove", "score"} /\ who' \in Programs /\ i' \in Tests
      /\ UNCHANGED <<got, grading, haunted, child, orphans>>
  BY GraderAssumption DEF Problem, NextTest, IInv, Programs, Tests, sims
<1>2. OwnResults'
  BY <1>1 DEF IInv, OwnResults, Tag
<1>3. ~haunted' => Alone'
  BY <1>1 DEF IInv, Alone, Alive
<1> QED
  BY <1>1, <1>2, <1>3 DEF IInv, Steps

LEMMA InitIInv == Init => IInv
<1> SUFFICES ASSUME Init PROVE IInv
  OBVIOUS
<1>1. /\ step = "remove" /\ who = "ref" /\ i = 1 /\ haunted = FALSE
      /\ child = NoSim /\ orphans = {}
      /\ got = [p \in Programs |-> [n \in Tests |-> Absent]]
  BY DEF Init
<1>2. i \in Tests
  BY <1>1, GraderAssumption DEF Tests
<1>3. got = [p \in Programs |-> [n \in Tests |-> got[p][n]]] /\ OwnResults
  BY <1>1 DEF OwnResults
<1>4. Alone
  BY <1>1 DEF Alone, NoSim, Alive
<1> QED
  BY <1>1, <1>2, <1>3, <1>4 DEF IInv, Steps, Programs

(* A step of the grader that changes neither the grading nor what was got.  *)
LEMMA OwnResultsKept ==
    ASSUME OwnResults, UNCHANGED <<got, grading, haunted>>
    PROVE  OwnResults'
BY DEF OwnResults, Tag

LEMMA NextIInv == IInv /\ [Next]_vars => IInv'
<1> SUFFICES ASSUME IInv, [Next]_vars PROVE IInv'
  OBVIOUS
<1>1. CASE UNCHANGED vars
  BY <1>1, OwnResultsKept
  DEF IInv, Alone, Alive, Tag, vars, marks, sims, history
<1>2. CASE Remove
  <2>1. /\ step' = "run" /\ file' = Absent /\ child' = child
        /\ UNCHANGED <<who, i, grading, got, haunted>>
    BY <1>2 DEF Remove, Removed, history
  <2>2. orphans = {} => orphans' = {}
    BY <1>2 DEF Remove, Removed
  <2>3. ~haunted => ~Alive(child)
    BY <1>2 DEF Remove, IInv, Alone
  <2> QED
    BY <2>1, <2>2, <2>3, OwnResultsKept DEF IInv, Alone, Alive, Steps
<1>3. CASE SystemFails
  BY <1>3, ProblemKeeps DEF SystemFails, IInv, Alone
<1>4. CASE Run
  <2>1. /\ step' = "wait" /\ child' = Simulator(who)
        /\ UNCHANGED <<who, i, file, orphans, grading, got, haunted>>
    BY <1>4 DEF Run, history
  <2>2. child' \in Sim(Tag(who, i))
    BY <2>1 DEF Simulator, Sim
  <2>3. ~haunted => file = Absent /\ orphans = {}
    BY <1>4 DEF Run, IInv, Alone
  <2> QED
    BY <2>1, <2>2, <2>3, OwnResultsKept DEF IInv, Alone, Steps, Tag
<1>5. CASE Wait
  <2>1. step = "wait" /\ ~Alive(child) /\ UNCHANGED <<file, child, orphans, grading, haunted>>
    BY <1>5 DEF Wait, sims
  <2>2. CASE Problem
    BY <2>1, <2>2, ProblemKeeps DEF sims
  <2>3. CASE step' = "read" /\ UNCHANGED <<who, i, got>>
    BY <2>1, <2>3, OwnResultsKept DEF IInv, Alone, Alive, Steps, Tag
  <2> QED
    BY <1>5, <2>2, <2>3 DEF Wait
<1>6. CASE Read
  <2>1. step = "read" /\ UNCHANGED <<file, child, orphans, grading, haunted>>
    BY <1>6 DEF Read, sims
  <2>2. CASE Problem
    BY <2>1, <2>2, ProblemKeeps DEF sims, IInv, Alone
  <2>3. CASE /\ got' = [got EXCEPT ![who] = [@ EXCEPT ![i] = file]]
             /\ who' = "test" /\ step' \in {"remove", "clean"} /\ UNCHANGED i
    <3>1. got' = [p \in Programs |-> [n \in Tests |->
                     IF p = who /\ n = i THEN file ELSE got[p][n]]]
      BY <2>3 DEF IInv
    <3>2. got' = [p \in Programs |-> [n \in Tests |-> got'[p][n]]]
      BY <3>1
    <3>3. ~haunted => file \in {Absent, Empty, Tag(who, i)}
      BY <2>1 DEF IInv, Alone
    <3>4. OwnResults'
      BY <2>1, <3>1, <3>3 DEF IInv, OwnResults, Tag
    <3>5. ~haunted' => Alone'
      BY <2>1, <2>3 DEF IInv, Alone, Alive
    <3> QED
      BY <2>1, <2>3, <3>2, <3>4, <3>5 DEF IInv, Steps, Programs
  <2> QED
    BY <1>6, <2>2, <2>3 DEF Read
<1>7. CASE Clean
  <2>1. /\ step = "clean" /\ step' \in {"remove", "score"} /\ who' \in Programs
        /\ i' \in Tests /\ child' = child
        /\ UNCHANGED <<grading, got, haunted>>
    BY <1>7, GraderAssumption DEF Clean, NextTest, Removed, history, IInv, Programs, Tests
  <2>2. orphans = {} => orphans' = {}
    BY <1>7 DEF Clean, Removed
  <2> QED
    BY <2>1, <2>2, OwnResultsKept DEF IInv, Alone, Alive, Steps
<1>8. CASE Score \/ Exit
  <2>1. /\ step \in {"score", "exit"} /\ step' \in {"exit", "ended"}
        /\ UNCHANGED <<who, i, file, child, orphans, grading, got, haunted>>
    BY <1>8 DEF Score, Exit, sims, history
  <2> QED
    BY <2>1, OwnResultsKept DEF IInv, Alone, Alive, Steps
<1>9. CASE Alarm
  <2>1. step' = "ended" /\ UNCHANGED <<who, i, file, child, orphans, grading, got, haunted>>
    BY <1>9 DEF Alarm, sims, history
  <2> QED
    BY <2>1, OwnResultsKept DEF IInv, Alone, Alive, Steps
<1>10. CASE Restart
  <2>1. /\ step' = "remove" /\ who' = "ref" /\ i' = 1 /\ child' = NoSim
        /\ got' = [p \in Programs |-> [n \in Tests |-> Absent]]
        /\ haunted' = (orphans' # {})
    BY <1>10, Zenon DEF Restart
  <2>2. i' \in Tests
    BY <2>1, GraderAssumption DEF Tests
  <2>3. ~haunted' => orphans' = {}
    BY <2>1
  <2>4. haunted' \in BOOLEAN
    BY <2>1
  <2>5. OwnResults' /\ got' = [p \in Programs |-> [n \in Tests |-> got'[p][n]]]
    BY <2>1 DEF OwnResults
  <2>6. ~haunted' => Alone'
    BY <2>1, <2>3 DEF Alone, NoSim, Alive
  <2> QED
    BY <2>1, <2>2, <2>4, <2>5, <2>6 DEF IInv, Steps, Programs
<1>11. CASE ChildRuns
  <2>1. PICK after \in SimSteps(child) : child' = after[1] /\ file' = after[2]
    BY <1>11 DEF ChildRuns
  <2>2. UNCHANGED <<step, who, i, orphans, grading, got, haunted>>
    BY <1>11 DEF ChildRuns, history
  <2>3. Alive(child)
    BY <2>1 DEF SimSteps, Alive
  <2>4. ~haunted => step \in {"wait", "ended"}
    BY <2>3 DEF IInv, Alone
  <2>5. CASE ~haunted /\ step = "wait"
    <3>1. child \in Sim(Tag(who, i))
      BY <2>5 DEF IInv, Alone
    <3>2. child' \in Sim(Tag(who, i)) /\ file' \in {file, Empty, Tag(who, i)}
      BY <2>1, <3>1, SimulatorSteps
    <3> QED
      BY <2>2, <2>5, <3>2, OwnResultsKept DEF IInv, Alone, Tag
  <2>6. CASE haunted \/ step = "ended"
    BY <2>2, <2>6, OwnResultsKept DEF IInv, Alone
  <2> QED
    BY <2>4, <2>5, <2>6 DEF IInv
<1>12. CASE OrphanRuns
  <2>1. orphans # {} /\ UNCHANGED <<step, who, i, child, grading, got, haunted>>
    BY <1>12 DEF OrphanRuns, history
  <2>2. haunted
    BY <2>1 DEF IInv, Alone
  <2> QED
    BY <2>1, <2>2, OwnResultsKept DEF IInv
<1> QED
  BY <1>1, <1>2, <1>3, <1>4, <1>5, <1>6, <1>7, <1>8, <1>9, <1>10, <1>11, <1>12
  DEF Next, GraderStep

(* In every grading that began alone, whatever the simulators do and        *)
(* wherever the alarm falls, the numbers marked for a program and a test    *)
(* were written by that program for that test, in that grading.             *)
THEOREM MarksOwnResults == Spec => []OwnResults
<1>1. IInv => OwnResults
  BY DEF IInv
<1> QED
  BY <1>1, InitIInv, NextIInv, PTL DEF Spec

---------------------------------------------------------------------------
(* The types.                                                               *)

Tags == [by : Programs, test : Tests, grading : Nat]
Sims == [state : {"replay", "open", "exit 0", "exit 1", "signal", "usage"},
         tag : Tags, linked : BOOLEAN]

(* The inductive invariant: a grading leaves at most one simulator behind.  *)
FewOrphans == IsFiniteSet(orphans) /\ Cardinality(orphans) < grading

TypeInv ==
    /\ step \in Steps /\ who \in Programs /\ i \in Tests
    /\ ref \in [Tests -> [Measures -> Int]] /\ test \in [Tests -> [Measures -> Int]]
    /\ status \in [Tests -> {0, 1}]
    /\ \A n \in Tests : points[n] \in 0 .. Cardinality(Measures) * weight[n]
    /\ file \in {Absent, Empty} \cup Tags
    /\ child \in {NoSim} \cup Sims
    /\ orphans \subseteq Sims
    /\ grading \in 1 .. MaxGradings
    /\ FewOrphans

(* A simulator of the right type has one after it, and a file.              *)
LEMMA SimulatorTyped ==
    ASSUME NEW sim \in {NoSim} \cup Sims, NEW after \in SimSteps(sim),
           file \in {Absent, Empty} \cup Tags
    PROVE  /\ sim \in Sims /\ after[1] \in Sims
           /\ after[2] \in {Absent, Empty} \cup Tags
<1>1. sim \in Sims
  <2>1. sim.state \in {"replay", "open"}
    BY DEF SimSteps
  <2> QED
    BY <2>1 DEF NoSim
<1>2. sim \in Sim(sim.tag) /\ sim.tag \in Tags
  BY <1>1 DEF Sims, Sim
<1>3. after[1] \in Sim(sim.tag) /\ after[2] \in {file, Empty, sim.tag}
  BY <1>2, SimulatorSteps
<1> QED
  BY <1>1, <1>2, <1>3 DEF Sim, Sims

(* rm -rf makes no simulators.                                              *)
LEMMA RemovedTyped ==
    ASSUME TypeInv, Removed, grading' = grading
    PROVE  /\ orphans' \subseteq Sims /\ FewOrphans'
           /\ file' = Absent /\ child' = child
<1> DEFINE After(sim) == IF sim.state = "open" THEN [sim EXCEPT !.linked = FALSE] ELSE sim
           f == [sim \in orphans |-> After(sim)]
<1>1. orphans' = {After(sim) : sim \in orphans} /\ file' = Absent /\ child' = child
  BY DEF Removed
<1>2. ASSUME NEW sim \in orphans PROVE After(sim) \in Sims
  <2>1. sim \in Sims
    BY DEF TypeInv
  <2> QED
    BY <2>1 DEF Sims
<1> HIDE DEF After
<1>3. f \in Surjection(orphans, orphans')
  BY <1>1 DEF Surjection
<1>4. IsFiniteSet(orphans') /\ Cardinality(orphans') <= Cardinality(orphans)
  BY <1>3, FS_Surjection DEF TypeInv, FewOrphans
<1>5. Cardinality(orphans) \in Nat /\ Cardinality(orphans') \in Nat /\ grading \in Nat
  BY <1>4, FS_CardinalityType DEF TypeInv, FewOrphans
<1>6. FewOrphans'
  BY <1>4, <1>5 DEF TypeInv, FewOrphans
<1> QED
  BY <1>1, <1>2, <1>6

(* runtrace gives up; the test's numbers and its status are nulled.         *)
LEMMA ProblemTyped ==
    ASSUME TypeInv, Problem, UNCHANGED <<file, sims, grading>>
    PROVE  TypeInv'
<1>1. step' \in {"remove", "score"} /\ who' \in Programs /\ i' \in Tests
  BY GraderAssumption DEF Problem, NextTest, TypeInv, Programs, Tests
<1>2. Null \in [Measures -> Int]
  BY DEF Null
<1>3. /\ ref' \in [Tests -> [Measures -> Int]] /\ test' \in [Tests -> [Measures -> Int]]
      /\ status' \in [Tests -> {0, 1}] /\ points' = points
  BY <1>2 DEF Problem, TypeInv
<1> QED
  BY <1>1, <1>3 DEF TypeInv, FewOrphans, Steps, sims

(* The marks of a test are its weight for each measure at most.             *)
LEMMA EarnedTyped ==
    ASSUME NEW n \in Tests PROVE earned(n) \in 0 .. Cardinality(Measures) * weight[n]
<1> DEFINE e == Equal(n)
           c == Cardinality(Measures)
           w == weight[n]
<1>1. e \in Nat /\ c \in Nat /\ e <= c /\ w \in Nat
  <2>1. {q \in Measures : ref[n][q] = test[n][q]} \in SUBSET Measures
    OBVIOUS
  <2> QED
    BY <2>1, GraderAssumption, FS_Subset, FS_CardinalityType DEF Equal
<1>2. earned(n) = e * w \/ earned(n) = 0
  BY DEF earned
<1> HIDE DEF e, c, w
<1>3. e * w \in Nat /\ c * w \in Nat /\ (c - e) * w \in Nat /\ c * w = e * w + (c - e) * w
  BY <1>1
<1>4. e * w <= c * w
  <2> DEFINE x == e * w
             y == c * w
             z == (c - e) * w
  <2>1. x \in Nat /\ y \in Nat /\ z \in Nat /\ y = x + z
    BY <1>3
  <2> HIDE DEF x, y, z
  <2>2. x <= y
    BY <2>1
  <2> QED
    BY <2>2 DEF x, y
<1> QED
  BY <1>2, <1>3, <1>4 DEF c, w

LEMMA NextTyped == TypeInv /\ [Next]_vars => TypeInv'
<1> SUFFICES ASSUME TypeInv, [Next]_vars PROVE TypeInv'
  OBVIOUS
<1>1. CASE UNCHANGED vars
  BY <1>1 DEF TypeInv, FewOrphans, vars, marks, sims
<1>2. CASE Remove
  <2>1. /\ Removed /\ step' = "run"
        /\ UNCHANGED <<who, i, marks, grading>>
    BY <1>2 DEF Remove
  <2> QED
    BY <2>1, RemovedTyped DEF TypeInv, Steps, marks
<1>3. CASE SystemFails
  BY <1>3, ProblemTyped DEF SystemFails
<1>4. CASE Run
  <2>1. step' = "wait" /\ child' = Simulator(who)
        /\ UNCHANGED <<who, i, marks, file, orphans, grading>>
    BY <1>4 DEF Run
  <2>2. Tag(who, i) \in Tags
    BY GraderAssumption DEF Tag, Tags, TypeInv
  <2>3. child' \in Sims
    BY <2>1, <2>2 DEF Simulator, Sims
  <2> QED
    BY <2>1, <2>3 DEF TypeInv, FewOrphans, Steps, marks
<1>5. CASE Wait
  <2>1. UNCHANGED <<file, sims, grading>>
    BY <1>5 DEF Wait
  <2>2. Problem \/ (step' = "read" /\ UNCHANGED <<who, i, marks>>)
    BY <1>5 DEF Wait
  <2>3. CASE Problem
    BY <2>1, <2>3, ProblemTyped
  <2>4. CASE step' = "read" /\ UNCHANGED <<who, i, marks>>
    BY <2>1, <2>4 DEF TypeInv, FewOrphans, Steps, marks, sims
  <2> QED
    BY <2>2, <2>3, <2>4
<1>6. CASE Read
  <2>1. UNCHANGED <<file, sims, grading>>
    BY <1>6 DEF Read
  <2>2. CASE file = Absent
    BY <1>6, <2>1, <2>2, ProblemTyped DEF Read
  <2>3. CASE file # Absent
    <3>1. PICK numbers \in Numbers :
             IF who = "ref" THEN ref' = [ref EXCEPT ![i] = numbers] /\ UNCHANGED test
                            ELSE test' = [test EXCEPT ![i] = numbers] /\ UNCHANGED ref
      BY <1>6, <2>3, Zenon DEF Read
    <3>2. /\ who' = "test" /\ step' \in {"remove", "clean"}
          /\ UNCHANGED <<i, status, points>>
      BY <1>6, <2>3 DEF Read
    <3>3. numbers \in [Measures -> Int]
      <4>1. CASE file = Empty
        BY <4>1, GraderAssumption DEF Numbers
      <4>2. CASE file # Empty
        <5>1. file.by \in Programs /\ file.test \in Tests
          BY <2>3, <4>2 DEF TypeInv, Tags
        <5>2. Answers[file.by][file.test] \in [Measures -> Nat]
          BY <5>1, GraderAssumption
        <5>3. numbers = Answers[file.by][file.test]
          BY <4>2 DEF Numbers
        <5> HIDE DEF Numbers
        <5> QED
          BY <5>2, <5>3
      <4> QED
        BY <4>1, <4>2
    <3>4. ref' \in [Tests -> [Measures -> Int]] /\ test' \in [Tests -> [Measures -> Int]]
      BY <3>1, <3>3 DEF TypeInv
    <3> QED
      BY <2>1, <3>2, <3>4 DEF TypeInv, FewOrphans, Steps, Programs, sims
  <2> QED
    BY <2>2, <2>3
<1>7. CASE Clean
  <2>1. /\ Removed /\ status' = [status EXCEPT ![i] = 1]
        /\ step' \in {"remove", "score"} /\ who' \in Programs /\ i' \in Tests
        /\ UNCHANGED <<ref, test, points, grading>>
    BY <1>7, GraderAssumption DEF Clean, NextTest, TypeInv, Programs, Tests
  <2>2. status' \in [Tests -> {0, 1}]
    BY <2>1 DEF TypeInv
  <2> QED
    BY <2>1, <2>2, RemovedTyped DEF TypeInv, Steps
<1>8. CASE Score
  <2>1. /\ points' = [n \in Tests |-> earned(n)] /\ step' = "exit"
        /\ UNCHANGED <<who, i, ref, test, status, file, sims, grading>>
    BY <1>8 DEF Score
  <2> QED
    BY <2>1, EarnedTyped DEF TypeInv, FewOrphans, Steps, sims
<1>9. CASE Exit \/ Alarm
  BY <1>9 DEF Exit, Alarm, TypeInv, FewOrphans, Steps, marks, sims
<1>10. CASE Restart
  <2>1. /\ step' = "remove" /\ who' = "ref" /\ i' = 1
        /\ ref' = [n \in Tests |-> Null] /\ test' = ref'
        /\ status' = [n \in Tests |-> 0] /\ points' = [n \in Tests |-> 0]
        /\ grading < MaxGradings /\ grading' = grading + 1 /\ child' = NoSim
        /\ orphans' = {sim \in orphans \cup {child} : Alive(sim)}
        /\ UNCHANGED file
    BY <1>10, Zenon DEF Restart
  <2>2. i' \in Tests
    BY <2>1, GraderAssumption DEF Tests
  <2>3. orphans' \subseteq Sims
    <3>1. ~Alive(NoSim)
      BY DEF Alive, NoSim
    <3> QED
      BY <2>1, <3>1 DEF TypeInv
  <2>4. FewOrphans'
    <3>1. IsFiniteSet(orphans \cup {child})
          /\ Cardinality(orphans \cup {child}) <= Cardinality(orphans) + 1
          /\ Cardinality(orphans) \in Nat
      <4>1. IsFiniteSet(orphans) /\ Cardinality(orphans) \in Nat
        BY FS_CardinalityType DEF TypeInv, FewOrphans
      <4>2. /\ IsFiniteSet(orphans \cup {child})
            /\ \/ Cardinality(orphans \cup {child}) = Cardinality(orphans)
               \/ Cardinality(orphans \cup {child}) = Cardinality(orphans) + 1
        BY <4>1, FS_AddElement
      <4> QED
        BY <4>1, <4>2
    <3>2. orphans' \in SUBSET (orphans \cup {child})
      BY <2>1
    <3>3. /\ IsFiniteSet(orphans')
          /\ Cardinality(orphans') <= Cardinality(orphans \cup {child})
      BY <3>1, <3>2, FS_Subset
    <3>4. Cardinality(orphans') \in Nat /\ Cardinality(orphans \cup {child}) \in Nat
      BY <3>1, <3>3, FS_CardinalityType
    <3> QED
      BY <2>1, <3>1, <3>3, <3>4 DEF TypeInv, FewOrphans
  <2>5. Null \in [Measures -> Int]
    BY DEF Null
  <2>6. \A n \in Tests : points'[n] \in 0 .. Cardinality(Measures) * weight[n]
    <3>1. \A n \in Tests : earned(n) \in 0 .. Cardinality(Measures) * weight[n]
      BY EarnedTyped
    <3>2. ASSUME NEW n \in Tests PROVE Cardinality(Measures) * weight[n] \in Nat
      BY GraderAssumption, FS_CardinalityType
    <3> QED
      BY <2>1, <3>2
  <2>7. grading' \in 1 .. MaxGradings
    BY <2>1, GraderAssumption DEF TypeInv
  <2> QED
    BY <2>1, <2>2, <2>3, <2>4, <2>5, <2>6, <2>7 DEF TypeInv, Steps, Programs
<1>11. CASE ChildRuns
  <2>1. PICK after \in SimSteps(child) : child' = after[1] /\ file' = after[2]
    BY <1>11 DEF ChildRuns
  <2>2. UNCHANGED <<step, who, i, marks, orphans, grading>>
    BY <1>11 DEF ChildRuns
  <2>3. child' \in Sims /\ file' \in {Absent, Empty} \cup Tags
    BY <2>1, SimulatorTyped DEF TypeInv
  <2> QED
    BY <2>2, <2>3 DEF TypeInv, FewOrphans, marks
<1>12. CASE OrphanRuns
  <2>0. PICK sim \in orphans : \E after \in SimSteps(sim) :
           orphans' = (orphans \ {sim}) \cup {after[1]} /\ file' = after[2]
    BY <1>12, Zenon DEF OrphanRuns
  <2>1. PICK after \in SimSteps(sim) :
           orphans' = (orphans \ {sim}) \cup {after[1]} /\ file' = after[2]
    BY <2>0
  <2>2. UNCHANGED <<step, who, i, marks, child, grading>>
    BY <1>12 DEF OrphanRuns
  <2>3. sim \in Sims /\ after[1] \in Sims /\ file' \in {Absent, Empty} \cup Tags
    BY <2>1, SimulatorTyped DEF TypeInv
  <2>4. FewOrphans'
    <3>1. IsFiniteSet(orphans) /\ Cardinality(orphans) \in Nat
      BY FS_CardinalityType DEF TypeInv, FewOrphans
    <3>2. IsFiniteSet(orphans \ {sim}) /\ Cardinality(orphans \ {sim}) = Cardinality(orphans) - 1
      BY <2>1, <3>1, FS_RemoveElement
    <3>3. /\ IsFiniteSet(orphans')
          /\ \/ Cardinality(orphans') = Cardinality(orphans) - 1
             \/ Cardinality(orphans') = Cardinality(orphans) - 1 + 1
      BY <2>1, <3>2, FS_AddElement
    <3> QED
      BY <2>2, <3>1, <3>3 DEF TypeInv, FewOrphans
  <2> QED
    BY <2>1, <2>2, <2>3, <2>4 DEF TypeInv, marks
<1> QED
  BY <1>1, <1>2, <1>3, <1>4, <1>5, <1>6, <1>7, <1>8, <1>9, <1>10, <1>11, <1>12
  DEF Next, GraderStep

LEMMA TypesHold == Spec => []TypeInv
<1>1. Init => TypeInv
  <2> SUFFICES ASSUME Init PROVE TypeInv
    OBVIOUS
  <2>1. /\ step = "remove" /\ who = "ref" /\ i = 1
        /\ ref = [n \in Tests |-> Null] /\ test = ref
        /\ status = [n \in Tests |-> 0] /\ points = [n \in Tests |-> 0]
        /\ file = Absent /\ child = NoSim /\ orphans = {} /\ grading = 1
    BY DEF Init
  <2>2. i \in Tests /\ Null \in [Measures -> Int] /\ grading \in 1 .. MaxGradings
    BY <2>1, GraderAssumption DEF Tests, Null
  <2>3. FewOrphans
    BY <2>1, FS_EmptySet DEF FewOrphans
  <2>4. \A n \in Tests : points[n] \in 0 .. Cardinality(Measures) * weight[n]
    <3>1. ASSUME NEW n \in Tests PROVE Cardinality(Measures) * weight[n] \in Nat
      BY GraderAssumption, FS_CardinalityType
    <3> QED
      BY <2>1, <3>1
  <2> QED
    BY <2>1, <2>2, <2>3, <2>4 DEF TypeInv, Steps, Programs
<1>2. TypeInv /\ [Next]_vars => TypeInv'
  BY NextTyped
<1> QED
  BY <1>1, <1>2, PTL DEF Spec

(* Every variable has its type in every run; no test has more marks than    *)
(* its weight for each measure, and no grading leaves more than one         *)
(* simulator behind.                                                        *)
THEOREM GraderTyped == Spec => []TypeOK
<1>1. TypeInv => TypeOK
  <2> SUFFICES ASSUME TypeInv PROVE TypeOK
    OBVIOUS
  <2>1. Cardinality(orphans) \in Nat /\ MaxGradings \in Nat
    BY GraderAssumption, FS_CardinalityType DEF TypeInv, FewOrphans
  <2>2. Cardinality(orphans) < MaxGradings
    BY <2>1 DEF TypeInv, FewOrphans
  <2> QED
    BY <2>2 DEF TypeInv, TypeOK
<1> QED
  BY <1>1, TypesHold, PTL


---------------------------------------------------------------------------
(* The marks.                                                               *)

NumbersOf(p, n) == IF p = "ref" THEN ref[n] ELSE test[n]

\* What p's results for test n were read from, and what was read: the right
\* numbers or nothing; the right numbers where nothing failed.
GotRight(p, n) ==
    /\ got[p][n] = Empty \/ NumbersOf(p, n) = Answers[p][n]
    /\ n \notin troubled => got[p][n] = Tag(p, n)

\* runtrace is done with test n: it gave up, or it has both results.
Concluded(n) ==
    \/ n \in troubled /\ status[n] = 0
    \/ status[n] = 1 /\ GotRight("ref", n) /\ GotRight("test", n)

Past(n) == n < i \/ step \in {"score", "exit"}

\* A simulator that ended well has left its results in the file.
FileInv ==
    /\ step = "wait" => /\ child.state = "open" => child.linked
                        /\ child.state = "exit 0" => file = Tag(who, i)
    /\ step = "read" /\ i \notin troubled => file = Tag(who, i)

TestsInv ==
    /\ step \in {"score", "exit"} => i = N
    /\ \A n \in Tests : Past(n) => Concluded(n)
    /\ who = "test" => GotRight("ref", i)
    /\ step = "clean" => who = "test" /\ GotRight("test", i)
    /\ step = "exit" => \A n \in Tests : points[n] = earned(n)

(* The inductive invariant, in a grading that began alone and is not over.  *)
MarksInv == ~haunted /\ step # "ended" => FileInv /\ TestsInv

\* What is known of test n stays as it is.
KeptFor(n) ==
    /\ ref'[n] = ref[n] /\ test'[n] = test[n] /\ status'[n] = status[n]
    /\ \A p \in Programs : got'[p][n] = got[p][n]
    /\ grading' = grading
    /\ n \in troubled' <=> n \in troubled

LEMMA ConcludedKept ==
    ASSUME NEW n, KeptFor(n)
    PROVE  /\ Concluded(n)' <=> Concluded(n)
           /\ \A p \in Programs : GotRight(p, n)' <=> GotRight(p, n)
<1>1. ASSUME NEW p \in Programs PROVE GotRight(p, n)' <=> GotRight(p, n)
  BY DEF KeptFor, GotRight, NumbersOf, Tag
<1>2. "ref" \in Programs /\ "test" \in Programs
  BY DEF Programs
<1>3. GotRight("ref", n)' <=> GotRight("ref", n)
  BY <1>1, <1>2
<1>4. GotRight("test", n)' <=> GotRight("test", n)
  BY <1>1, <1>2
<1>5. Concluded(n)' <=> Concluded(n)
  BY <1>3, <1>4 DEF KeptFor, Concluded
<1> QED
  BY <1>1, <1>5

(* On to the next test, from one that is concluded.                         *)
LEMMA NextTestConcludes ==
    ASSUME TypeInv, TestsInv, step \notin {"score", "exit"}, NextTest,
           NEW m \in Tests, m = i, Concluded(m)',
           \A n \in Tests : n # m => KeptFor(n)
    PROVE  FileInv' /\ TestsInv'
<1>1. /\ who' = "ref" /\ m \in 1 .. N /\ N \in Nat
      /\ \/ i' = m + 1 /\ m < N /\ step' = "remove"
         \/ i' = m /\ m = N /\ step' = "score"
  BY GraderAssumption DEF NextTest, TypeInv, Tests
<1>2. ASSUME NEW n \in Tests, Past(n)' PROVE Concluded(n)'
  <2>1. n <= m /\ n \in Nat
    BY <1>1, <1>2 DEF Past, Tests
  <2>2. CASE n = m
    BY <2>2
  <2>3. CASE n # m
    <3>1. Past(n)
      BY <1>1, <2>1, <2>3 DEF Past
    <3>2. Concluded(n)
      BY <3>1 DEF TestsInv
    <3>3. KeptFor(n)
      BY <2>3
    <3> QED
      BY <3>2, <3>3, ConcludedKept
  <2> QED
    BY <2>2, <2>3
<1>3. step' \in {"score", "exit"} => i' = N
  BY <1>1
<1>4. step' \notin {"wait", "read", "clean", "exit"} /\ who' # "test"
  BY <1>1
<1> QED
  BY <1>2, <1>3, <1>4 DEF FileInv, TestsInv

(* A step within a test: nothing is past that was not, nothing is marked.   *)
LEMMA TestGoesOn ==
    ASSUME TypeInv, TestsInv, step \notin {"score", "exit"},
           step' \in {"remove", "run", "wait", "read", "clean"}, i' = i,
           \A n \in Tests : n # i => KeptFor(n),
           NEW m, m = i, who' = "test" => GotRight("ref", m)',
           step' = "clean" => who' = "test" /\ GotRight("test", m)'
    PROVE  TestsInv'
<1>1. ASSUME NEW n \in Tests, Past(n)' PROVE Concluded(n)'
  <2>1. n < i /\ n # i
    BY <1>1 DEF Past, TypeInv, Tests
  <2>2. Concluded(n)
    BY <2>1 DEF Past, TestsInv
  <2> QED
    BY <2>1, <2>2, ConcludedKept
<1>2. i' = m
  OBVIOUS
<1> QED
  BY <1>1, <1>2 DEF TestsInv

(* runtrace gives up: the test has no results, and no marks.                *)
LEMMA ProblemConcludes ==
    ASSUME TypeInv, TestsInv, step \notin {"score", "exit"}, Problem,
           UNCHANGED grading
    PROVE  FileInv' /\ TestsInv'
<1>1. PICK m \in Tests : m = i
  BY DEF TypeInv
<1>2. /\ NextTest /\ troubled' = troubled \cup {m} /\ got' = got
      /\ ref' = [ref EXCEPT ![m] = Null] /\ test' = [test EXCEPT ![m] = Null]
      /\ status' = [status EXCEPT ![m] = 0]
  BY <1>1 DEF Problem
<1>3. Concluded(m)'
  BY <1>2 DEF Concluded, TypeInv
<1>4. ASSUME NEW n \in Tests, n # m PROVE KeptFor(n)
  BY <1>2, <1>4 DEF KeptFor, TypeInv
<1> QED
  BY <1>1, <1>2, <1>3, <1>4, NextTestConcludes

LEMMA NextKeepsMarks == TypeInv /\ IInv /\ MarksInv /\ [Next]_vars => MarksInv'
<1> SUFFICES ASSUME TypeInv, IInv, MarksInv, [Next]_vars, ~haunted', step' # "ended"
             PROVE  FileInv' /\ TestsInv'
  BY DEF MarksInv
<1>1. CASE Restart
  <2>1. step' = "remove" /\ who' = "ref" /\ i' = 1
    BY <1>1, Zenon DEF Restart
  <2>2. \A n \in Tests : ~Past(n)'
    BY <2>1 DEF Past, Tests
  <2> QED
    BY <2>1, <2>2 DEF FileInv, TestsInv
<1>2. CASE UNCHANGED vars
  <2>1. FileInv /\ TestsInv
    BY <1>2 DEF MarksInv, vars, history
  <2>2. \A n \in Tests : earned(n)' = earned(n)
    BY <1>2 DEF earned, Equal, vars, marks
  <2>3. \A n \in Tests : KeptFor(n)
    BY <1>2 DEF KeptFor, vars, marks, history
  <2>4. /\ \A n \in Tests : Past(n)' <=> Past(n)
        /\ UNCHANGED <<step, who, i, points, child, file, grading, troubled>>
    BY <1>2 DEF Past, vars, marks, sims, history
  <2>5. PICK m \in Tests : m = i
    BY DEF TypeInv
  <2>6. /\ \A n \in Tests : Concluded(n)' <=> Concluded(n)
        /\ \A p \in Programs : GotRight(p, m)' <=> GotRight(p, m)
    BY <2>3, ConcludedKept
  <2>7. "ref" \in Programs /\ "test" \in Programs
    BY DEF Programs
  <2>8. i' = m
    BY <2>4, <2>5
  <2>9. FileInv'
    BY <2>1, <2>4 DEF FileInv, Tag
  <2>10. TestsInv'
    BY <2>1, <2>2, <2>4, <2>5, <2>6, <2>7, <2>8 DEF TestsInv
  <2> QED
    BY <2>9, <2>10
<1>3. ASSUME haunted' = haunted, step # "ended" PROVE Alone /\ FileInv /\ TestsInv
  BY <1>3 DEF MarksInv, IInv
<1>4. PICK m \in Tests : m = i
  BY DEF TypeInv
<1>5. "ref" \in Programs /\ "test" \in Programs
  BY DEF Programs
<1>6. CASE Remove
  <2>1. /\ step = "remove" /\ step' = "run"
        /\ UNCHANGED <<who, i, marks, grading, history>>
    BY <1>6 DEF Remove
  <2>2. \A n \in Tests : KeptFor(n)
    BY <2>1 DEF KeptFor, marks, history
  <2>3. TestsInv
    BY <1>3, <2>1 DEF history
  <2>4. who' = "test" => GotRight("ref", m)'
    BY <1>4, <1>5, <2>1, <2>2, <2>3, ConcludedKept DEF TestsInv
  <2>5. TestsInv'
    BY <1>4, <2>1, <2>2, <2>3, <2>4, TestGoesOn
  <2> QED
    BY <2>1, <2>5 DEF FileInv
<1>7. CASE SystemFails
  <2>1. step \in {"remove", "run", "clean"} /\ Problem /\ UNCHANGED <<grading, haunted>>
    BY <1>7 DEF SystemFails
  <2>2. TestsInv
    BY <1>3, <2>1
  <2> QED
    BY <2>1, <2>2, ProblemConcludes
<1>8. CASE Run
  <2>1. /\ step = "run" /\ step' = "wait" /\ child' = Simulator(who)
        /\ UNCHANGED <<who, i, marks, grading, history>>
    BY <1>8 DEF Run
  <2>2. \A n \in Tests : KeptFor(n)
    BY <2>1 DEF KeptFor, marks, history
  <2>3. TestsInv
    BY <1>3, <2>1 DEF history
  <2>4. who' = "test" => GotRight("ref", m)'
    BY <1>4, <1>5, <2>1, <2>2, <2>3, ConcludedKept DEF TestsInv
  <2>5. TestsInv'
    BY <1>4, <2>1, <2>2, <2>3, <2>4, TestGoesOn
  <2>6. child'.state = "replay"
    BY <2>1 DEF Simulator
  <2> QED
    BY <2>1, <2>5, <2>6 DEF FileInv
<1>9. CASE Wait
  <2>1. step = "wait" /\ ~Alive(child) /\ UNCHANGED <<file, child, grading, haunted>>
    BY <1>9 DEF Wait, sims
  <2>2. Alone /\ FileInv /\ TestsInv
    BY <1>3, <2>1
  <2>3. CASE Problem
    BY <2>1, <2>2, <2>3, ProblemConcludes
  <2>4. CASE ~Problem
    <3>1. /\ step' = "read" /\ UNCHANGED <<who, i, marks, got>>
          /\ troubled' = IF child.state = "exit 0" THEN troubled ELSE troubled \cup {i}
      BY <1>9, <2>4 DEF Wait
    <3>2. \A n \in Tests : n # i => KeptFor(n)
      BY <2>1, <3>1 DEF KeptFor, marks
    <3>3. who' = "test" => GotRight("ref", m)'
      <4>1. who' = "test" => GotRight("ref", m)
        BY <1>4, <2>2, <3>1 DEF TestsInv
      <4>2. /\ UNCHANGED <<got, ref, test, grading>>
            /\ m \notin troubled' => m \notin troubled
        BY <2>1, <3>1 DEF marks
      <4> QED
        BY <4>1, <4>2 DEF GotRight, NumbersOf, Tag
    <3>4. TestsInv'
      BY <1>4, <2>1, <2>2, <3>1, <3>2, <3>3, TestGoesOn
    <3>5. FileInv'
      BY <2>1, <2>2, <3>1 DEF FileInv, Tag
    <3> QED
      BY <3>4, <3>5
  <2> QED
    BY <2>3, <2>4
<1>10. CASE Read
  <2>1. step = "read" /\ UNCHANGED <<file, child, grading, haunted>>
    BY <1>10 DEF Read, sims
  <2>2. Alone /\ FileInv /\ TestsInv
    BY <1>3, <2>1
  <2>3. CASE file = Absent
    <3>1. Problem
      BY <1>10, <2>3 DEF Read
    <3> QED
      BY <2>1, <2>2, <3>1, ProblemConcludes
  <2>4. CASE file # Absent
    <3>1. PICK numbers \in Numbers :
             IF who = "ref" THEN ref' = [ref EXCEPT ![i] = numbers] /\ UNCHANGED test
                            ELSE test' = [test EXCEPT ![i] = numbers] /\ UNCHANGED ref
      BY <1>10, <2>4, Zenon DEF Read
    <3>2. /\ got' = [got EXCEPT ![who] = [@ EXCEPT ![i] = file]]
          /\ who' = "test" /\ step' = IF who = "ref" THEN "remove" ELSE "clean"
          /\ UNCHANGED <<i, status, points, troubled>>
      BY <1>10, <2>4 DEF Read
    <3>3. got' = [p \in Programs |-> [n \in Tests |->
                     IF p = who /\ n = m THEN file ELSE got[p][n]]]
      BY <1>4, <3>2 DEF IInv
    <3>4. ASSUME NEW n \in Tests, n # i PROVE KeptFor(n)
      <4>1. ref'[n] = ref[n] /\ test'[n] = test[n]
        BY <3>1, <3>4 DEF TypeInv
      <4>2. \A p \in Programs : got'[p][n] = got[p][n]
        BY <1>4, <3>3, <3>4
      <4> QED
        BY <2>1, <3>2, <4>1, <4>2 DEF KeptFor
    <3>5. who \in Programs
      BY DEF TypeInv
    <3>6. PICK w \in Programs : w = who
      BY <3>5
    <3>7. GotRight(w, m)'
      <4>1. file \in {Empty, Tag(w, m)} /\ (m \notin troubled => file = Tag(w, m))
        BY <1>4, <2>1, <2>2, <2>4, <3>6 DEF Alone, FileInv
      <4>2. got'[w][m] = file
        BY <3>3, <3>6
      <4>3. NumbersOf(w, m)' = numbers
        BY <1>4, <3>1, <3>6 DEF NumbersOf, Programs, TypeInv
      <4>4. file = Tag(w, m) => file # Empty /\ numbers = Answers[w][m]
        <5>1. Tag(w, m).by = w /\ Tag(w, m).test = m /\ Empty.by = "empty" /\ w # "empty"
          BY DEF Tag, Empty, Programs
        <5> QED
          BY <5>1 DEF Numbers
      <4>5. Tag(w, m)' = Tag(w, m)
        BY <2>1 DEF Tag
      <4> QED
        BY <3>2, <4>1, <4>2, <4>3, <4>4, <4>5 DEF GotRight
    <3>8. CASE who = "ref"
      <4>1. step' = "remove" /\ GotRight("ref", m)'
        BY <3>2, <3>6, <3>7, <3>8
      <4>2. TestsInv'
        BY <1>4, <2>1, <2>2, <3>2, <3>4, <4>1, TestGoesOn
      <4> QED
        BY <4>1, <4>2 DEF FileInv
    <3>9. CASE who # "ref"
      <4>1. who = "test" /\ step' = "clean" /\ GotRight("test", m)'
        BY <3>2, <3>5, <3>6, <3>7, <3>9 DEF Programs
      <4>2. GotRight("ref", m)
        BY <1>4, <2>2, <4>1 DEF TestsInv
      <4>3. got'["ref"][m] = got["ref"][m] /\ ref' = ref
        BY <1>5, <3>1, <3>3, <3>9
      <4>4. GotRight("ref", m)'
        BY <2>1, <3>2, <4>2, <4>3 DEF GotRight, NumbersOf, Tag
      <4>5. TestsInv'
        BY <1>4, <2>1, <2>2, <3>2, <3>4, <4>1, <4>4, TestGoesOn
      <4> QED
        BY <4>1, <4>5 DEF FileInv
    <3> QED
      BY <3>8, <3>9
  <2> QED
    BY <2>3, <2>4
<1>11. CASE Clean
  <2>1. /\ step = "clean" /\ status' = [status EXCEPT ![m] = 1] /\ NextTest
        /\ UNCHANGED <<ref, test, grading, history>>
    BY <1>4, <1>11 DEF Clean
  <2>2. TestsInv
    BY <1>3, <2>1 DEF history
  <2>3. \A n \in Tests : n # m => KeptFor(n)
    BY <2>1 DEF KeptFor, TypeInv, history
  <2>4. GotRight("ref", m) /\ GotRight("test", m)
    BY <1>4, <2>1, <2>2 DEF TestsInv
  <2>5. GotRight("ref", m)' /\ GotRight("test", m)'
    BY <2>1, <2>4 DEF GotRight, NumbersOf, Tag, history
  <2>6. Concluded(m)'
    BY <2>1, <2>5 DEF Concluded, TypeInv
  <2> QED
    BY <1>4, <2>1, <2>2, <2>3, <2>6, NextTestConcludes
<1>12. CASE Score
  <2>1. /\ step = "score" /\ step' = "exit" /\ points' = [n \in Tests |-> earned(n)]
        /\ UNCHANGED <<who, i, ref, test, status, grading, history>>
    BY <1>12 DEF Score
  <2>2. TestsInv
    BY <1>3, <2>1 DEF history
  <2>3. \A n \in Tests : KeptFor(n)
    BY <2>1 DEF KeptFor, history
  <2>4. \A n \in Tests : Concluded(n)'
    BY <2>1, <2>2, <2>3, ConcludedKept DEF TestsInv, Past
  <2>5. \A n \in Tests : earned(n)' = earned(n)
    BY <2>1 DEF earned, Equal
  <2>6. who' = "test" => GotRight("ref", m)'
    BY <1>4, <1>5, <2>1, <2>2, <2>3, ConcludedKept DEF TestsInv
  <2>7. i' = m /\ i' = N
    BY <1>4, <2>1, <2>2 DEF TestsInv
  <2>8. TestsInv'
    BY <2>1, <2>4, <2>5, <2>6, <2>7 DEF TestsInv
  <2> QED
    BY <2>1, <2>8 DEF FileInv
<1>13. CASE ChildRuns
  <2>1. PICK after \in SimSteps(child) : child' = after[1] /\ file' = after[2]
    BY <1>13 DEF ChildRuns
  <2>2. UNCHANGED <<step, who, i, marks, grading, history>>
    BY <1>13 DEF ChildRuns
  <2>3. Alone /\ FileInv /\ TestsInv
    BY <1>3, <2>2 DEF history
  <2>4. Alive(child)
    BY <2>1 DEF SimSteps, Alive
  <2>5. step = "wait"
    BY <2>2, <2>3, <2>4 DEF Alone
  <2>6. child \in Sim(Tag(who, i))
    BY <2>3, <2>5 DEF Alone
  <2>7. /\ child'.state = "open" => child'.linked
        /\ child'.state = "exit 0" => file' = Tag(who, i)
    BY <2>1, <2>3, <2>5, <2>6, SimulatorSteps DEF FileInv
  <2>8. FileInv'
    BY <2>2, <2>5, <2>7 DEF FileInv, Tag
  <2>9. \A n \in Tests : KeptFor(n)
    BY <2>2 DEF KeptFor, marks, history
  <2>10. who' = "test" => GotRight("ref", m)'
    BY <1>4, <1>5, <2>2, <2>3, <2>9, ConcludedKept DEF TestsInv
  <2>11. TestsInv'
    BY <1>4, <2>2, <2>3, <2>5, <2>9, <2>10, TestGoesOn
  <2> QED
    BY <2>8, <2>11
<1>14. CASE OrphanRuns
  <2>1. orphans # {} /\ UNCHANGED <<step, haunted>>
    BY <1>14 DEF OrphanRuns, history
  <2> QED
    BY <1>3, <2>1 DEF Alone
<1>15. CASE Exit \/ Alarm
  BY <1>15 DEF Exit, Alarm
<1> QED
  BY <1>1, <1>2, <1>6, <1>7, <1>8, <1>9, <1>10, <1>11, <1>12, <1>13, <1>14, <1>15
  DEF Next, GraderStep

(* test-csim.c:173-182, 203: in every grading that began alone, the marks   *)
(* printed are those csim deserves, for every test in which nothing failed, *)
(* and nothing more for one in which something did.                         *)
THEOREM MarksAreDeserved == Spec => []Marks
<1>1. Init => MarksInv
  <2> SUFFICES ASSUME Init PROVE FileInv /\ TestsInv
    BY DEF MarksInv
  <2>1. step = "remove" /\ who = "ref" /\ i = 1
    BY DEF Init
  <2> QED
    BY <2>1 DEF FileInv, TestsInv, Past, Tests
<1>2. TypeInv /\ IInv /\ MarksInv /\ [Next]_vars => MarksInv'
  BY NextKeepsMarks
<1>3. TypeInv /\ MarksInv => Marks
  <2> SUFFICES ASSUME TypeInv, MarksInv, step = "exit", ~haunted, NEW n \in Tests
               PROVE  IF n \notin troubled THEN points[n] = Deserved(n)
                      ELSE Empty \notin {got["ref"][n], got["test"][n]} =>
                               points[n] \in {0, Deserved(n)}
    BY DEF Marks
  <2>1. Concluded(n) /\ points[n] = earned(n)
    BY DEF MarksInv, TestsInv, Past
  <2>2. Tag("ref", n) # Empty /\ Tag("test", n) # Empty
    <3>1. Tag("ref", n).by = "ref" /\ Tag("test", n).by = "test" /\ Empty.by = "empty"
      BY DEF Tag, Empty
    <3> QED
      BY <3>1
  <2>3. ASSUME status[n] = 1, ref[n] = Answers["ref"][n], test[n] = Answers["test"][n]
        PROVE  earned(n) = Deserved(n)
    <3>1. \A q \in Measures : ref[n][q] \in Nat /\ test[n][q] \in Nat
      BY <2>3, GraderAssumption DEF Programs
    <3>2. earned(n) = Equal(n) * weight[n]
      BY <2>3, <3>1 DEF earned
    <3> QED
      BY <2>3, <3>2 DEF Equal, Deserved
  <2>4. CASE status[n] = 0
    <3>1. earned(n) = 0 /\ n \in troubled
      BY <2>1, <2>4 DEF earned, Concluded
    <3> QED
      BY <2>1, <3>1
  <2>5. CASE status[n] # 0
    <3>1. status[n] = 1 /\ GotRight("ref", n) /\ GotRight("test", n)
      BY <2>1, <2>5 DEF Concluded
    <3>2. CASE Empty \notin {got["ref"][n], got["test"][n]}
      <4>1. ref[n] = Answers["ref"][n] /\ test[n] = Answers["test"][n]
        BY <3>1, <3>2 DEF GotRight, NumbersOf
      <4> QED
        BY <2>1, <2>3, <3>1, <4>1
    <3>3. CASE Empty \in {got["ref"][n], got["test"][n]}
      BY <2>2, <3>1, <3>3 DEF GotRight
    <3> QED
      BY <3>2, <3>3
  <2> QED
    BY <2>4, <2>5
<1> QED
  BY <1>1, <1>2, <1>3, TypesHold, InitIInv, NextIInv, PTL DEF Spec

=============================================================================
