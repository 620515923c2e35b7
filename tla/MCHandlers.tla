----------------------------- MODULE MCHandlers -----------------------------
(* A call of a worker or the sweeper beside a fan-out and the one-statement   *)
(* handlers: two submissions over one suite, so that a claim that has read a  *)
(* row of one can be overtaken by the commit of the other; the first has a    *)
(* spare row for a re-evaluation.                                             *)
EXTENDS Handlers

CONSTANTS r1, r2, r3, s1, s2, u1, w1, c1, c2

MCSubmissionOf == r1 :> s1 @@ r2 :> s1 @@ r3 :> s2
MCSuiteOf == [r \in Run |-> u1]
MCNumSeeds == u1 :> 1
MCServes == c1 :> {"claim", "result", "sweep"}
            @@ c2 :> {"create", "reevaluate"}
Report(status, score) ==
    [status |-> status, score |-> score, error |-> status # "succeeded",
     started |-> TRUE, logs |-> FALSE]
MCPosted == {Report("succeeded", 10), Report("failed", NoScore)}
\* The two rows of s1 are alike.
Exchange == {f \in Permutations({r1, r2}) : TRUE}
=============================================================================
