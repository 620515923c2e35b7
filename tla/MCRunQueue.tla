----------------------------- MODULE MCRunQueue -----------------------------
(* One submission with a row in each of two suites of one seed: both in one  *)
(* batch or the second by a re-evaluation, with two prioritizations of        *)
(* whatever is waiting, which compete for the one worker's claim.             *)
EXTENDS QueueHistory, TLC

CONSTANTS r1, r2, s1, s2, u1, u2, w1

MCSubmissionOf == r1 :> s1 @@ r2 :> s1
MCSuiteOf == r1 :> u1 @@ r2 :> u2
MCNumSeeds == u1 :> 1 @@ u2 :> 1
=============================================================================
