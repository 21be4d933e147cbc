------------------------------ MODULE MCGrader ------------------------------
(***************************************************************************)
(* Two tests of different weights and two of the four measures.  csim has  *)
(* the first test right and one measure of the second wrong; its results   *)
(* for one test are not those for the other.                               *)
(***************************************************************************)
EXTENDS Grader

MCWeight == [n \in 1 .. 2 |-> n]
Result(hits, misses) == [q \in {"hits", "misses"} |-> IF q = "hits" THEN hits ELSE misses]
MCAnswers == [p \in {"ref", "test"} |->
                 [n \in 1 .. 2 |-> CASE n = 1    -> Result(4, 1)
                                     [] p = "ref" -> Result(3, 2)
                                     [] OTHER     -> Result(3, 5)]]
\* What a variable holds by chance: nothing sensible, or a right answer.
MCGarbage == {Result(-1, 0), Result(3, 2)}
=============================================================================
