------------------------------- MODULE Evals --------------------------------
(***************************************************************************)
(* The whole system: the run queue of the serve process, the worker        *)
(* processes that poll it (internal/worker), the HTTP calls between them   *)
(* (internal/workerclient) and the operators.  Every step that touches the *)
(* queue is an action of RunQueue; this module says who takes it, when.    *)
(*                                                                         *)
(* A job is one call of execute(): an attempt at a run in one of the       *)
(* worker's Concurrency slots, left behind when its wrapper is gone and an *)
(* engine of it is not.  The attempt number is a history variable: no code *)
(* carries it, neither the claim, nor the report, nor the row.             *)
(* `net` holds the reports that were posted and not yet handled.  A claim  *)
(* is one step: between the server's commit and the worker's reading of    *)
(* the answer nobody looks at the worker.                                  *)
(*                                                                         *)
(* Faults names the faults of a configuration, Interventions the operator  *)
(* actions on existing runs, and `budget` bounds how many of both occur.   *)
(***************************************************************************)
EXTENDS RunQueue

CONSTANTS
    Concurrency,    \* cfg.Concurrency, the slots of each worker
    Mortal,         \* workers whose process may die
    Faults,         \* of FaultNames
    Interventions,  \* of "cancel", "retry", "prioritize"
    MaxBudget       \* bound: deaths, faults and interventions in a behaviour

FaultNames ==
    {"restart", "suspect", "lose_claim", "lose_report", "delay", "leave_behind"}

ASSUME PoolAssumption ==
    /\ Concurrency \in Nat \ {0} /\ MaxBudget \in Nat /\ Mortal \subseteq Worker
    /\ Faults \subseteq FaultNames
    /\ Interventions \subseteq {"cancel", "retry", "prioritize"}

VARIABLES jobs, net, alive, attempts, budget

evars == <<vars, jobs, net, alive, attempts, budget>>

Executing == {"preparing", "running", "killing"}
Job == [worker : Worker, run : Run, att : Nat, pc : Executing \cup {"reporting"},
        leftBehind : BOOLEAN]
Report == [worker : Worker, run : Run, att : Nat, body : Bodies]

\* The bodies execute() can report.  A started wrapper always logs something
\* here; RunQueue takes the silent ones too.
Reports == {b \in Bodies : b.logs = b.started}
Failure == CHOOSE b \in Reports : b.status = "failed" /\ ~b.started
Killed == CHOOSE b \in Reports : b.status = "cancelled"
Outcomes == {b \in Reports : b.started /\ b.status # "cancelled"}

JobsOf(w) == {j \in jobs : j.worker = w}
SameAttempt(x, y) == x.worker = y.worker /\ x.run = y.run /\ x.att = y.att

EInit ==
    /\ Init
    /\ jobs = {} /\ net = {} /\ alive = Worker
    /\ attempts = [r \in Run |-> 0]
    /\ budget = MaxBudget

Spend == budget > 0 /\ budget' = budget - 1
Pool == <<jobs, net, alive, attempts>>

-----------------------------------------------------------------------------
(* Worker: pull and execute. *)

\* Variant: pull asks for a run before it has a slot for it.
ClaimBeforeSlot(w, r) ==
    /\ lastSeen[w] = "fresh"
    /\ w \in alive
    /\ HandleClaim(w, r)
    /\ attempts' = [attempts EXCEPT ![r] = @ + 1]
    /\ UNCHANGED <<net, alive>>

\* The claim call passes the heart-beat middleware before the handler runs.
Claim(w, r) ==
    /\ lastSeen[w] = "fresh"
    /\ w \in alive /\ Cardinality(JobsOf(w)) < Concurrency
    /\ HandleClaim(w, r)
    /\ attempts' = [attempts EXCEPT ![r] = @ + 1]
    /\ UNCHANGED <<net, alive>>

Poll(w, r) ==
    /\ Claim(w, r)
    /\ jobs' = jobs \cup
          {[worker |-> w, run |-> r, att |-> attempts'[r], pc |-> "preparing",
            leftBehind |-> FALSE]}
    /\ UNCHANGED budget

\* The row is claimed but the answer never reaches the worker: Claim returns an
\* error, pull frees the slot and nothing tells the server.
LoseClaim(w, r) ==
    /\ "lose_claim" \in Faults /\ Spend
    /\ Claim(w, r)
    /\ UNCHANGED jobs

Advance(j, pc) ==
    /\ jobs' = (jobs \ {j}) \cup {[j EXCEPT !.pc = pc]}
    /\ UNCHANGED <<vars, alive, attempts, budget>>

Post(j, b) ==
    /\ Advance(j, "reporting")
    /\ net' = net \cup {[worker |-> j.worker, run |-> j.run, att |-> j.att, body |-> b]}

\* Bundle, artifact and workdir are in place and the wrapper is started.
Start(j) == j.pc = "preparing" /\ Advance(j, "running") /\ UNCHANGED net

\* Variant: execute returns the error without reporting it.
FailSilently(j) ==
    /\ j.pc = "preparing"
    /\ jobs' = jobs \ {j}
    /\ UNCHANGED <<vars, net, alive, attempts, budget>>

\* One of those steps fails and reportFailure posts it.
FailToStart(j) == j.pc = "preparing" /\ Post(j, Failure)

\* Variant: the status is looked at before the wrapper starts, not while it runs.
SeeCancelEarly(j) ==
    /\ j.pc = "preparing" /\ runs[j.run].status = "cancelled"
    /\ Advance(j, "killing")
    /\ UNCHANGED net

\* The watchdog's poll reads "cancelled"; from here on the attempt will report
\* cancelled, whatever the row says by then and however the wrapper ends.
SeeCancel(j) ==
    /\ j.pc = "running" /\ runs[j.run].status = "cancelled"
    /\ Advance(j, "killing")
    /\ UNCHANGED net

\* The wrapper is gone before anything killed it, and with it the killer; an
\* engine that holds its output open keeps Wait, and the job, from ending.
LeaveBehind(j) ==
    /\ "leave_behind" \in Faults /\ Spend
    /\ j.pc \in {"running", "killing"} /\ ~j.leftBehind
    /\ jobs' = (jobs \ {j}) \cup {[j EXCEPT !.leftBehind = TRUE]}
    /\ UNCHANGED <<vars, net, alive, attempts>>

\* The killed group is gone, or the engine left behind ended by itself.
ReportKilled(j) == j.pc = "killing" /\ Post(j, Killed)

\* The wrapper ended by itself or by the suite timeout, and its output with it.
Finish(j) == j.pc = "running" /\ \E b \in Outcomes : Post(j, b)

-----------------------------------------------------------------------------
(* The report's way to the server. *)

Release(m) == jobs' = {j \in jobs : ~SameAttempt(j, m)}

Deliver(m) ==
    /\ HandleResult(m.worker, m.run, m.body)
    /\ net' = net \ {m}
    /\ Release(m)
    /\ UNCHANGED <<alive, attempts, budget>>

\* ReportResult fails; its error is only logged, never retried.
LoseReport(m) ==
    /\ "lose_report" \in Faults /\ Spend
    /\ net' = net \ {m}
    /\ Release(m)
    /\ UNCHANGED <<vars, alive, attempts>>

\* The HTTP client gives up after its timeout, the request arrives later.
GiveUp(m) ==
    /\ "delay" \in Faults /\ Spend
    /\ \E j \in jobs : SameAttempt(j, m)
    /\ Release(m)
    /\ UNCHANGED <<vars, net, alive, attempts>>

-----------------------------------------------------------------------------
(* Worker processes and the server's view of them. *)

\* SIGKILL, or SIGTERM: with ctx cancelled the drained jobs cannot report.
Crash(w) ==
    /\ w \in alive \cap Mortal /\ Spend
    /\ alive' = alive \ {w}
    /\ jobs' = jobs \ JobsOf(w)
    /\ UNCHANGED <<vars, net, attempts>>

\* The container comes back under the same hostname, so the same worker id.
Restart(w) ==
    /\ "restart" \in Faults /\ w \notin alive /\ Spend
    /\ alive' = alive \cup {w}
    /\ UNCHANGED <<vars, jobs, net, attempts>>

\* Any call of a worker: an idle poll, a watchdog's status poll, or the report a
\* dead worker had already sent.
Touch(w) ==
    /\ w \in alive \/ \E m \in net : m.worker = w
    /\ lastSeen[w] # "fresh"
    /\ UpsertWorker(w)
    /\ UNCHANGED <<Pool, budget>>

Age(w) == w \notin alive /\ GoStale(w) /\ UNCHANGED <<Pool, budget>>

\* A live worker is silent for workerTimeout: a partition, a stalled host, a
\* long download while every slot is preparing.
Suspect(w) ==
    /\ "suspect" \in Faults /\ w \in alive /\ Spend
    /\ GoStale(w)
    /\ UNCHANGED Pool

SweepOrphans == Orphans # {} /\ Sweep /\ UNCHANGED <<Pool, budget>>

-----------------------------------------------------------------------------
(* Operators. *)

Submit(s, U, R) ==
    /\ CreateSubmission(s, U, R) \/ ReevaluateSubmission(s, U, R)
    /\ UNCHANGED <<Pool, budget>>

Cancel(s) ==
    /\ "cancel" \in Interventions /\ RunsOf(s) \cap In(InFlight) # {} /\ Spend
    /\ CancelSubmission(s) \/ \E r \in RunsOf(s) : CancelRun(r)
    /\ UNCHANGED Pool

Retry(s) ==
    /\ "retry" \in Interventions /\ RunsOf(s) \cap In(Retryable) # {} /\ Spend
    /\ RetrySubmission(s)
    /\ UNCHANGED Pool

Prioritize(s) ==
    /\ "prioritize" \in Interventions /\ RunsOf(s) \cap In({"pending"}) # {} /\ Spend
    /\ PrioritizeSubmission(s)
    /\ UNCHANGED Pool

Intervene(s) == Cancel(s) \/ Retry(s) \/ Prioritize(s)

JobStep(j) ==
    \/ Start(j) \/ FailToStart(j) \/ SeeCancel(j) \/ LeaveBehind(j)
    \/ ReportKilled(j) \/ Finish(j)

ENext ==
    \/ \E w \in Worker, r \in Run : Poll(w, r) \/ LoseClaim(w, r)
    \/ \E j \in jobs : JobStep(j)
    \/ \E m \in net : Deliver(m) \/ LoseReport(m) \/ GiveUp(m)
    \/ \E w \in Worker : Crash(w) \/ Restart(w) \/ Touch(w) \/ Age(w) \/ Suspect(w)
    \/ SweepOrphans
    \/ \E s \in Submission, U \in SUBSET Suite, R \in SUBSET Run : Submit(s, U, R)
    \/ \E s \in Submission : Intervene(s)

ESpec == EInit /\ [][ENext]_evars

(***************************************************************************)
(* Fairness.  Poll, Touch and SweepOrphans are driven by tickers of live   *)
(* processes; a dead worker's last_seen ages because time passes; reports  *)
(* reach the handler or fail; a watchdog keeps polling and the process     *)
(* group it kills ends, which says nothing of a job left behind: no kill   *)
(* reaches that one.  Timeouts says that the suite timeout ends every      *)
(* wrapper, and that every engine left behind ends.  Nothing makes a fault *)
(* or an operator act.                                                     *)
(***************************************************************************)
JobsAt(w, r) == {j \in JobsOf(w) : j.run = r}

Scheduling ==
    /\ \A w \in Worker : /\ WF_evars(\E r \in Run : Poll(w, r))
                         /\ WF_evars(w \in alive /\ Touch(w))
                         /\ WF_evars(Age(w))
    /\ \A w \in Worker, r \in Run :
          /\ WF_evars(\E j \in JobsAt(w, r) : Start(j))
          /\ WF_evars(\E j \in JobsAt(w, r) :
                        ~j.leftBehind /\ (SeeCancel(j) \/ ReportKilled(j)))
    /\ WF_evars(\E m \in net : Deliver(m))
    /\ WF_evars(SweepOrphans)

Timeouts ==
    \A w \in Worker, r \in Run :
        WF_evars(\E j \in JobsAt(w, r) : Finish(j) \/ ReportKilled(j))

\* Wrappers, and engines left behind, may run for ever.
EndlessSpec == ESpec /\ Scheduling

FairSpec == ESpec /\ Scheduling /\ Timeouts

-----------------------------------------------------------------------------
(* Properties. *)

\* Shapes, the slots of each worker are respected, and a dead process has no
\* jobs.
PoolTypeOK ==
    /\ jobs \subseteq Job /\ net \subseteq Report /\ alive \subseteq Worker
    /\ attempts \in [Run -> Nat] /\ budget \in 0..MaxBudget
    /\ \A w \in Worker : Cardinality(JobsOf(w)) <= Concurrency
    /\ \A j \in jobs : j.worker \in alive

\* While no live worker is taken for dead and nothing is retried, a run is
\* executed by one job at a time, through deaths, restarts, sweeps and lost or
\* late answers.
SingleExecution ==
    \A j, k \in jobs :
        j.run = k.run /\ j.pc \in Executing /\ k.pc \in Executing => j = k

\* A claimed run is held: its latest attempt is a job of the worker the row
\* names or a report under way, unless that worker is dead (and the sweep will
\* find it).  A claim that nobody holds under a live worker would stay for ever.
ClaimsAreHeld ==
    \A r \in In({"claimed"}) :
        \/ runs[r].worker \notin alive
        \/ \E x \in jobs \cup net :
              x.worker = runs[r].worker /\ x.run = r /\ x.att = attempts[r]

Abandoned(r) ==
    runs[r].status = "claimed" /\ ~\E x \in jobs \cup net : x.run = r

\* The in-flight claims of killed workers return to the queue (README, orphan
\* recovery; sweeper.go).
OrphansRecovered == \A r \in Run : Abandoned(r) ~> ~Abandoned(r)

\* As long as one worker survives, the suite timeout ends every wrapper and the
\* engines that outlive one end too, every enqueued run gets a final status,
\* although workers die, are wrongly swept and operators cancel and retry.
EveryRunSettles ==
    Timeouts =>
        \A r \in Run : runs[r].status \in InFlight ~> runs[r].status \in Terminal

ExecutingCancelled(r) ==
    /\ runs[r].status = "cancelled"
    /\ \E j \in jobs : j.run = r /\ j.pc \in Executing /\ ~j.leftBehind

\* Hard cancel: a cancelled run stops executing even if its wrapper would never
\* end, on every worker that executes it; except where an engine outlived the
\* wrapper, which no cancel reaches.
CancelStops == \A r \in Run : ExecutingCancelled(r) ~> ~ExecutingCancelled(r)

\* README, hard cancel: a natural completion that lands in the kill window does
\* not bring a cancelled run back.  A success is only recorded from the attempt
\* that holds the claim.
LateCompletionIgnored ==
    [][\A m \in net \ net' :
          runs'[m.run].status = "succeeded" /\ runs[m.run].status # "succeeded"
             => runs[m.run].status = "claimed" /\ m.att = attempts[m.run]]_evars
=============================================================================
