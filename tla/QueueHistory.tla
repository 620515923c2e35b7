---------------------------- MODULE QueueHistory ----------------------------
(***************************************************************************)
(* RunQueue with two history variables, for the promises that relate a     *)
(* claim or a counter to what happened earlier.  `front` is the set of     *)
(* rows the latest effective prioritization bumped; `credit` names, for a  *)
(* succeeded row, the workers whose counter its report raised.             *)
(***************************************************************************)
EXTENDS RunQueue

VARIABLES front, credit

hvars == <<vars, front, credit>>

Bumped == {r \in Run : runs'[r].priority > runs[r].priority}

\* The row that succeeds in this step, if any, and the counters that rise.
Succeeds(r) == runs[r].status # "succeeded" /\ runs'[r].status = "succeeded"
Raised == {w \in Worker : handled'[w] # handled[w]}

HInit == Init /\ front = {} /\ credit = [r \in Run |-> {}]

HNext ==
    /\ Next
    /\ front' = IF Bumped = {} THEN front ELSE Bumped
    /\ credit' = [r \in Run |-> IF Succeeds(r) THEN Raised ELSE credit[r]]

HSpec == HInit /\ [][HNext]_hvars

-----------------------------------------------------------------------------
Pending(r) == runs[r].status = "pending"

\* "The most recently prioritized submission gets claimed next": while a run of
\* the latest prioritization is waiting, every claim takes one of them.  Runs
\* created, retried or swept back to the queue meanwhile never get in between,
\* and a bumped run that was claimed, lost and swept is still in front.
LatestPrioritizedFirst ==
    [][\A r \in Run :
          Pending(r) /\ runs'[r].status = "claimed" /\ (\E q \in front : Pending(q))
             => r \in front]_hvars

\* The workers' runs_handled never count a success twice, although reports
\* repeat, race and come from any worker: each counter is the number of succeeded
\* runs credited to it, and a run is credited to at most one worker (none if the
\* bump, which follows the update without a transaction, was lost).
HandledOncePerRun ==
    /\ \A w \in Worker :
          handled[w] = Cardinality({r \in In({"succeeded"}) : w \in credit[r]})
    /\ \A r \in Run : \A v, w \in credit[r] : v = w
=============================================================================
