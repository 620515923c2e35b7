------------------------------ MODULE JobLife -------------------------------
(***************************************************************************)
(* One attempt at a run as the rest of the system sees it: the life of a   *)
(* job in Evals, with the guards under which it moves.  An attempt reports *)
(* "cancelled" exactly when its watchdog read a cancelled row while it     *)
(* ran; otherwise it reports what became of the wrapper.                   *)
(***************************************************************************)
CONSTANTS Slot, NoReport

VARIABLES
    phase,      \* of each slot's attempt
    report,     \* what the attempt will report, or NoReport
    cancelled   \* slots whose run's row is cancelled

lifeVars == <<phase, report, cancelled>>

Outcome == {"succeeded", "failed", "timed_out"}

Init ==
    /\ phase = [x \in Slot |-> "idle"]
    /\ report = [x \in Slot |-> NoReport]
    /\ cancelled = {}

Enter(x, from, to, r) ==
    /\ phase[x] \in from
    /\ phase' = [phase EXCEPT ![x] = to]
    /\ report' = [report EXCEPT ![x] = r]

\* The claim: the run's row is not cancelled.
Claim(x) == Enter(x, {"idle"}, "preparing", NoReport) /\ cancelled' = cancelled \ {x}

Start(x) == Enter(x, {"preparing"}, "running", NoReport) /\ UNCHANGED cancelled

FailToStart(x) == Enter(x, {"preparing"}, "reporting", "failed") /\ UNCHANGED cancelled

SeeCancel(x) ==
    /\ x \in cancelled
    /\ Enter(x, {"running"}, "killing", NoReport)
    /\ UNCHANGED cancelled

ReportKilled(x) == Enter(x, {"killing"}, "reporting", "cancelled") /\ UNCHANGED cancelled

Finish(x) ==
    /\ \E r \in Outcome : Enter(x, {"running"}, "reporting", r)
    /\ UNCHANGED cancelled

\* The report is handled or lost.
Leave(x) == Enter(x, {"reporting"}, "idle", NoReport) /\ UNCHANGED cancelled

Operate(x) ==
    /\ cancelled' \in {cancelled \cup {x}, cancelled \ {x}}
    /\ UNCHANGED <<phase, report>>

\* A process that dies takes the attempts of all its slots with it.
Die(X) ==
    /\ phase' = [x \in Slot |-> IF x \in X THEN "idle" ELSE phase[x]]
    /\ report' = [x \in Slot |-> IF x \in X THEN NoReport ELSE report[x]]
    /\ UNCHANGED cancelled

Next ==
    \/ \E X \in SUBSET Slot : Die(X)
    \/ \E x \in Slot :
        \/ Claim(x) \/ Start(x) \/ FailToStart(x) \/ SeeCancel(x)
        \/ ReportKilled(x) \/ Finish(x) \/ Leave(x) \/ Operate(x)

Spec == Init /\ [][Next]_lifeVars
=============================================================================
