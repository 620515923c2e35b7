------------------------------ MODULE RunLedger -----------------------------
(***************************************************************************)
(* What the run queue promises to a reader of the leaderboard and of a     *)
(* submission's counters (wireapi.RunCounts), whatever the workers, the    *)
(* operators and the network do.  A run is absent, then pending (queued or *)
(* in a worker's hands), and ends either scored or dropped (failed, timed  *)
(* out, cancelled).  An operator may put dropped runs back; a scored run   *)
(* keeps its score for ever, and a dropped run is never scored without     *)
(* having been put back first.                                             *)
(***************************************************************************)
CONSTANTS Run, Score

VARIABLE ledger

Absent == [phase |-> "absent"]
Pending == [phase |-> "pending"]
Dropped == [phase |-> "dropped"]
Scored(v) == [phase |-> "scored", score |-> v]

Entry == {Absent, Pending, Dropped} \cup {Scored(v) : v \in Score}

\* The entries equal to `from` that lie in R become `to`.
Move(R, from, to) ==
    ledger' = [r \in Run |-> IF r \in R /\ ledger[r] = from THEN to ELSE ledger[r]]

Init == ledger = [r \in Run |-> Absent]

Submit(R) == Move(R, Absent, Pending)
Drop(R) == Move(R, Pending, Dropped)
PutBack(R) == Move(R, Dropped, Pending)
Settle(r, v) == ledger[r] = Pending /\ Move({r}, Pending, Scored(v))

Next ==
    \/ \E R \in SUBSET Run : Submit(R) \/ Drop(R) \/ PutBack(R)
    \/ \E r \in Run, v \in Score : Settle(r, v)

Spec == Init /\ [][Next]_ledger
=============================================================================
