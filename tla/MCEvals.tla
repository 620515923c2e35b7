------------------------------ MODULE MCEvals -------------------------------
(* Small instances of Evals, two workers each: two submissions with a run    *)
(* each (Two), or a single run (One).                                        *)
EXTENDS Evals, TLC

CONSTANTS r1, r2, s1, s2, u1, w1, w2

TwoSubmissionOf == r1 :> s1 @@ r2 :> s2
TwoSuiteOf == r1 :> u1 @@ r2 :> u1
TwoNumSeeds == u1 :> 1

OneSubmissionOf == r1 :> s1
OneSuiteOf == r1 :> u1
OneNumSeeds == TwoNumSeeds
=============================================================================
