---------------------------- MODULE EvalsProofs -----------------------------
(***************************************************************************)
(* Proofs about the composed system, for every number of workers, slots,   *)
(* runs and faults.  First, every step of Evals is a step of RunQueue or   *)
(* leaves the queue alone, so what RunQueueProofs shows of the queue holds *)
(* of the system.  Second, when no live worker is taken for dead and no    *)
(* run is retried, a run is never executed by two jobs at once.            *)
(***************************************************************************)
EXTENDS Evals, RunQueueProofs, FiniteSetTheorems

\* The bodies the workers build are bodies the server expects.
LEMMA ReportsAreBodies == Reports \subseteq Bodies
  BY DEF Reports

\* Every step of the system is a step of the queue or leaves it alone.
LEMMA QueueStep ==
    ASSUME [ENext]_evars, net \subseteq Report
    PROVE  [Next]_vars
<1>1. ASSUME NEW w \in Worker, NEW r \in Run, HandleClaim(w, r)
      PROVE  Next
  BY <1>1 DEF Next, WorkerCall
<1>2. ASSUME NEW m \in net, HandleResult(m.worker, m.run, m.body)
      PROVE  Next
  BY <1>2 DEF Next, WorkerCall, Report
<1>3. ASSUME NEW w \in Worker, UpsertWorker(w) \/ GoStale(w)
      PROVE  Next
  BY <1>3 DEF Next, WorkerCall
<1>4. ASSUME NEW s \in Submission, NEW U \in SUBSET Suite, NEW R \in SUBSET Run,
             Submit(s, U, R)
      PROVE  Next
  BY <1>4 DEF Next, Operator, Submit
<1>5. ASSUME NEW s \in Submission, Intervene(s)
      PROVE  Next
  BY <1>5 DEF Next, Operator, Intervene, Cancel, Retry, Prioritize, RunsOf
<1>6. CASE SweepOrphans
  BY <1>6 DEF SweepOrphans, Next
<1>7. ASSUME NEW j \in jobs, JobStep(j)
      PROVE  UNCHANGED vars
  BY <1>7
  DEF JobStep, Start, FailToStart, SeeCancel, LeaveBehind, ReportKilled, Finish, Post,
      Advance
<1>8. CASE UNCHANGED vars
  BY <1>8
<1>9. ASSUME NEW w \in Worker, NEW r \in Run, Poll(w, r) \/ LoseClaim(w, r)
      PROVE  HandleClaim(w, r)
  BY <1>9 DEF Poll, LoseClaim, Claim
<1>10. ASSUME NEW w \in Worker,
              Crash(w) \/ Restart(w) \/ Touch(w) \/ Age(w) \/ Suspect(w)
       PROVE  UpsertWorker(w) \/ GoStale(w) \/ UNCHANGED vars
  BY <1>10 DEF Crash, Restart, Touch, Age, Suspect
<1>11. ASSUME NEW m \in net, Deliver(m) \/ LoseReport(m) \/ GiveUp(m)
       PROVE  HandleResult(m.worker, m.run, m.body) \/ UNCHANGED vars
  BY <1>11 DEF Deliver, LoseReport, GiveUp
<1> QED
  BY <1>1, <1>2, <1>3, <1>4, <1>5, <1>6, <1>7, <1>8, <1>9, <1>10, <1>11
  DEF ENext, evars

-----------------------------------------------------------------------------
(* Shapes of the pool. *)

PoolTyped ==
    /\ jobs \subseteq Job /\ net \subseteq Report /\ alive \subseteq Worker
    /\ attempts \in [Run -> Nat]

SystemInv == QueueInv /\ PoolTyped

\* The two bodies a worker makes up itself are among the bodies it posts.
LEMMA FixedBodies == Failure \in Bodies /\ Killed \in Bodies
<1> USE NoValuesAssumption DEF NoValuesAssumption
<1> DEFINE failed == [status |-> "failed", score |-> NoScore, error |-> TRUE,
                      started |-> FALSE, logs |-> FALSE]
           killed == [status |-> "cancelled", score |-> NoScore, error |-> TRUE,
                      started |-> TRUE, logs |-> TRUE]
<1>1. failed \in Reports
  BY DEF Reports, Bodies, Body, Terminal
<1>2. killed \in Reports
  BY DEF Reports, Bodies, Body, Terminal
<1>3. Failure \in Reports
  BY <1>1 DEF Failure
<1>4. Killed \in Reports
  BY <1>2 DEF Killed
<1> QED
  BY <1>3, <1>4, ReportsAreBodies

\* A job becomes another state of the same attempt.
Becomes(j, new) ==
    /\ new \in Job /\ jobs' = (jobs \ {j}) \cup {new}
    /\ SameAttempt(new, j)
    /\ new.pc \in Executing => j.pc \in Executing

\* That is all a job does by itself, but for posting its report.
LEMMA JobMoves ==
    ASSUME PoolTyped, NEW j \in jobs, JobStep(j)
    PROVE  /\ UNCHANGED <<vars, alive, attempts>>
           /\ net \subseteq net' /\ net' \subseteq Report
           /\ Spend \/ budget' = budget
           /\ \E new : Becomes(j, new)
<1>1. j \in Job
  BY DEF PoolTyped
<1>2. ASSUME NEW pc \in Executing \cup {"reporting"}, Advance(j, pc),
             pc \in Executing => j.pc \in Executing
      PROVE  UNCHANGED <<vars, alive, attempts, budget>> /\ \E new : Becomes(j, new)
  <2>1. Becomes(j, [j EXCEPT !.pc = pc])
    BY <1>1, <1>2 DEF Becomes, Advance, Job, SameAttempt
  <2> QED
    BY <1>2, <2>1 DEF Advance
<1>3. CASE Start(j) \/ SeeCancel(j)
  <2>1. \E pc \in {"running", "killing"} : Advance(j, pc) /\ j.pc \in Executing
    BY <1>3 DEF Start, SeeCancel, Executing
  <2>2. net' = net
    BY <1>3 DEF Start, SeeCancel
  <2> QED
    BY <1>2, <2>1, <2>2 DEF PoolTyped, Executing
<1>4. CASE LeaveBehind(j)
  <2>1. Becomes(j, [j EXCEPT !.leftBehind = TRUE])
    BY <1>1, <1>4 DEF Becomes, LeaveBehind, Job, SameAttempt
  <2> QED
    BY <1>4, <2>1 DEF LeaveBehind, PoolTyped
<1>5. CASE FailToStart(j) \/ ReportKilled(j) \/ Finish(j)
  <2>1. PICK b \in Bodies : Post(j, b)
    BY <1>5, FixedBodies, ReportsAreBodies DEF FailToStart, ReportKilled, Finish, Outcomes
  <2>2. [worker |-> j.worker, run |-> j.run, att |-> j.att, body |-> b] \in Report
    BY <1>1 DEF Job, Report
  <2>3. net \subseteq net' /\ net' \subseteq Report /\ Advance(j, "reporting")
    BY <2>1, <2>2 DEF Post, PoolTyped
  <2> QED
    BY <1>2, <2>3 DEF Executing
<1> QED
  BY <1>3, <1>4, <1>5 DEF JobStep

\* Every step keeps the types of pools and network.
LEMMA PoolTypedNext == PoolTyped /\ [ENext]_evars => PoolTyped'
<1> SUFFICES ASSUME PoolTyped, [ENext]_evars PROVE PoolTyped'
  OBVIOUS
<1> USE DEF PoolTyped
<1>1. ASSUME NEW w \in Worker, NEW r \in Run, Poll(w, r) \/ LoseClaim(w, r)
      PROVE  PoolTyped'
  <2>1. attempts' \in [Run -> Nat] /\ net' = net /\ alive' = alive
    BY <1>1 DEF Poll, LoseClaim, Claim
  <2>2. [worker |-> w, run |-> r, att |-> attempts'[r], pc |-> "preparing",
         leftBehind |-> FALSE] \in Job
    BY <2>1 DEF Job, Executing
  <2>3. jobs' \subseteq Job
    BY <1>1, <2>2 DEF Poll, LoseClaim
  <2> QED
    BY <2>1, <2>3
<1>4. ASSUME NEW j \in jobs, JobStep(j)
      PROVE  PoolTyped'
  BY <1>4, JobMoves DEF Becomes
<1>5. ASSUME NEW m \in net, Deliver(m) \/ LoseReport(m) \/ GiveUp(m)
      PROVE  PoolTyped'
  BY <1>5 DEF Deliver, LoseReport, GiveUp, Release
<1>6. ASSUME NEW w \in Worker,
             Crash(w) \/ Restart(w) \/ Touch(w) \/ Age(w) \/ Suspect(w)
      PROVE  PoolTyped'
  BY <1>6 DEF Crash, Restart, Touch, Age, Suspect, Pool
<1>7. CASE SweepOrphans
  BY <1>7 DEF SweepOrphans, Pool
<1>8. ASSUME NEW s \in Submission, NEW U \in SUBSET Suite, NEW R \in SUBSET Run,
             Submit(s, U, R)
      PROVE  PoolTyped'
  BY <1>8 DEF Submit, Pool
<1>9. ASSUME NEW s \in Submission, Intervene(s)
      PROVE  PoolTyped'
  BY <1>9 DEF Intervene, Cancel, Retry, Prioritize, Pool
<1>10. CASE UNCHANGED evars
  BY <1>10 DEF evars
<1> QED
  BY <1>1, <1>4, <1>5, <1>6, <1>7, <1>8, <1>9, <1>10 DEF ENext

\* Every step of the system keeps the queue's invariant and those types.
LEMMA SystemInvNext == SystemInv /\ [ENext]_evars => SystemInv'
  BY QueueStep, QueueInvNext, PoolTypedNext DEF SystemInv, PoolTyped

\* Every state of the system is in that invariant.
LEMMA SystemInvariant == ESpec => []SystemInv
<1>1. EInit => SystemInv
  BY QueueInvInit DEF EInit, SystemInv, PoolTyped
<1> QED
  BY <1>1, SystemInvNext, PTL DEF ESpec

\* The system with its workers, network and faults is an implementation of the
\* open queue: the environment RunQueue allows covers the real one.
THEOREM SystemImplementsQueue == ESpec => Spec
<1>1. EInit => Init
  BY DEF EInit
<1>2. SystemInv /\ [ENext]_evars => [Next]_vars
  BY QueueStep DEF SystemInv, PoolTyped
<1> QED
  BY <1>1, <1>2, SystemInvariant, PTL DEF ESpec, Spec

\* So the leaderboard's ledger is kept whatever dies, is lost, late or doubled.
THEOREM SystemKeepsLedger == ESpec => LedgerSpec
  BY SystemImplementsQueue, LedgerImplemented

-----------------------------------------------------------------------------
(* One execution at a time. *)

\* Nobody takes a live worker for dead and nobody retries.
Orderly == "suspect" \notin Faults /\ "retry" \notin Interventions

HeldBy(row, w) == row.status \in Terminal \/ (row.status = "claimed" /\ row.worker = w)

\* What SingleExecution needs to be inductive: a job executes only at a live
\* worker that counts as fresh, on a row that is still claimed by that worker
\* or already settled.  A pending row therefore has no executing job, and the
\* sweep does not make a row of an executing job pending.
ExecutingIsHeld ==
    \A j \in jobs : j.pc \in Executing =>
        /\ j.worker \in alive /\ lastSeen[j.worker] = "fresh"
        /\ HeldBy(runs[j.run], j.worker)

ExecInv == ExecutingIsHeld /\ SingleExecution

\* A row held by a worker stays held by it until it is pending again.
LEMMA StillHeld ==
    ASSUME NEW row, NEW new, NEW w, RowInv(row), RowStep(row, new),
           HeldBy(row, w), new.status # "pending"
    PROVE  HeldBy(new, w)
<1>0. row \in Row /\ row.status \in Terminal \cup {"claimed"}
  BY DEF RowInv, HeldBy
<1>1. CASE new = row
  BY <1>1
<1>2. CASE \E b \in Bodies : new = Recorded(row, b)
  BY <1>0, <1>2 DEF Recorded, Row, Bodies, Body, HeldBy
<1>3. CASE new = CancelledRow(row)
  BY <1>0, <1>3 DEF CancelledRow, Row, HeldBy, Terminal
<1>4. CASE new = Retried(row) \/ new = Swept(row)
  BY <1>0, <1>4 DEF Retried, Swept, Row
<1> QED
  BY <1>0, <1>1, <1>2, <1>3, <1>4 DEF RowStep, Terminal

\* Without retries, only the sweep takes a held row back to the queue.
LEMMA OnlySweepRequeues ==
    ASSUME SystemInv, [ENext]_evars, "retry" \notin Interventions, NEW r \in Run,
           runs[r].status \in Terminal \cup {"claimed"}, runs'[r].status = "pending"
    PROVE  SweepOrphans /\ r \in Orphans
<1>0. runs \in [Run -> Row]
  BY DEF SystemInv, QueueInv, TypeOK
<1>1. ASSUME NEW w \in Worker, NEW q \in Run, HandleClaim(w, q)
      PROVE  FALSE
  BY <1>0, <1>1 DEF HandleClaim, NextUp, ClaimedBy, Row, Terminal
<1>2. ASSUME NEW m \in net, HandleResult(m.worker, m.run, m.body)
      PROVE  FALSE
  <2>1. m.body \in Bodies /\ m.body.status \in Terminal /\ m.run \in Run
    BY DEF SystemInv, PoolTyped, Report, Bodies, Body
  <2>2. CASE runs' = runs
    BY <2>2 DEF Terminal
  <2>3. CASE runs' = [runs EXCEPT ![m.run] = Recorded(@, m.body)]
    BY <1>0, <2>1, <2>3 DEF Recorded, Row, Terminal
  <2> QED
    BY <1>2, <2>2, <2>3 DEF HandleResult, vars
<1>3. ASSUME NEW s \in Submission, NEW U \in SUBSET Suite, NEW R \in SUBSET Run,
             Submit(s, U, R)
      PROVE  FALSE
  BY <1>3 DEF Submit, CreateSubmission, ReevaluateSubmission, Enqueue, Terminal
<1>4. ASSUME NEW s \in Submission, Intervene(s)
      PROVE  FALSE
  <2>1. CASE CancelSubmission(s)
    BY <1>0, <2>1 DEF CancelSubmission, CancelledRow, Row, Terminal
  <2>2. ASSUME NEW q \in RunsOf(s), CancelRun(q)
        PROVE  FALSE
    BY <1>0, <2>2 DEF CancelRun, CancelledRow, Row, Terminal, RunsOf
  <2>3. CASE PrioritizeSubmission(s)
    BY <1>0, <2>3 DEF PrioritizeSubmission, Row, Terminal, In
  <2> QED
    BY <1>4, <2>1, <2>2, <2>3 DEF Intervene, Cancel, Retry, Prioritize
<1>5. CASE SweepOrphans
  BY <1>5 DEF SweepOrphans, Sweep, Terminal
<1>6. CASE UNCHANGED runs
  BY <1>6 DEF Terminal
<1>7. ASSUME NEW j \in jobs, JobStep(j)
      PROVE  UNCHANGED runs
  BY <1>7, JobMoves DEF vars, SystemInv
<1>8. ASSUME NEW w \in Worker, NEW q \in Run, Poll(w, q) \/ LoseClaim(w, q)
      PROVE  HandleClaim(w, q)
  BY <1>8 DEF Poll, LoseClaim, Claim
<1>9. ASSUME NEW w \in Worker,
             Crash(w) \/ Restart(w) \/ Touch(w) \/ Age(w) \/ Suspect(w)
      PROVE  UNCHANGED runs
  BY <1>9 DEF Crash, Restart, Touch, Age, Suspect, UpsertWorker, GoStale, vars
<1>10. ASSUME NEW m \in net, Deliver(m) \/ LoseReport(m) \/ GiveUp(m)
       PROVE  HandleResult(m.worker, m.run, m.body) \/ UNCHANGED runs
  BY <1>10 DEF Deliver, LoseReport, GiveUp, vars
<1> QED
  BY <1>1, <1>2, <1>3, <1>4, <1>5, <1>6, <1>7, <1>8, <1>9, <1>10
  DEF ENext, evars, vars

\* A live worker that counts as fresh goes on doing so: only a suspicion or
\* its death would let it age.
LEMMA FreshStays ==
    ASSUME SystemInv, [ENext]_evars, "suspect" \notin Faults,
           NEW w \in alive, lastSeen[w] = "fresh"
    PROVE  lastSeen'[w] = "fresh"
<1>0. lastSeen \in [Worker -> {"never", "fresh", "stale"}] /\ w \in Worker
  BY DEF SystemInv, QueueInv, TypeOK, PoolTyped
<1>1. ASSUME NEW m \in net, Deliver(m)
      PROVE  lastSeen'[w] = "fresh"
  BY <1>0, <1>1 DEF Deliver, HandleResult, BumpRunsHandled, vars
<1>2. ASSUME NEW v \in Worker, Touch(v) \/ Age(v)
      PROVE  lastSeen'[w] = "fresh"
  BY <1>0, <1>2 DEF Touch, UpsertWorker, Age, GoStale
<1>3. ASSUME NEW v \in Worker, Crash(v) \/ Restart(v) \/ Suspect(v)
      PROVE  lastSeen'[w] = "fresh"
  BY <1>3 DEF Crash, Restart, Suspect, vars
<1>4. ASSUME NEW v \in Worker, NEW r \in Run, Poll(v, r) \/ LoseClaim(v, r)
      PROVE  lastSeen'[w] = "fresh"
  BY <1>4 DEF Poll, LoseClaim, Claim, HandleClaim
<1>5. ASSUME NEW j \in jobs, JobStep(j)
      PROVE  lastSeen'[w] = "fresh"
  BY <1>5, JobMoves DEF vars, SystemInv
<1>6. ASSUME NEW m \in net, LoseReport(m) \/ GiveUp(m)
      PROVE  lastSeen'[w] = "fresh"
  BY <1>6 DEF LoseReport, GiveUp, vars
<1>7. CASE SweepOrphans
  BY <1>7 DEF SweepOrphans, Sweep
<1>8. ASSUME NEW s \in Submission, NEW U \in SUBSET Suite, NEW R \in SUBSET Run,
             Submit(s, U, R)
      PROVE  lastSeen'[w] = "fresh"
  BY <1>8 DEF Submit, CreateSubmission, ReevaluateSubmission, Enqueue
<1>9. ASSUME NEW s \in Submission, Intervene(s)
      PROVE  lastSeen'[w] = "fresh"
  BY <1>9 DEF Intervene, Cancel, Retry, Prioritize, CancelSubmission, CancelRun,
              RetrySubmission, PrioritizeSubmission
<1>10. CASE UNCHANGED evars
  BY <1>10 DEF evars, vars
<1> QED
  BY <1>1, <1>2, <1>3, <1>4, <1>5, <1>6, <1>7, <1>8, <1>9, <1>10 DEF ENext

\* Every step of an orderly system keeps the invariant of executions.
LEMMA ExecInvNext == Orderly /\ SystemInv /\ ExecInv /\ [ENext]_evars => ExecInv'
<1> SUFFICES ASSUME Orderly, SystemInv, ExecInv, [ENext]_evars PROVE ExecInv'
  OBVIOUS
<1>0. /\ jobs \subseteq Job /\ alive \subseteq Worker
      /\ \A r \in Run : RowInv(runs[r]) /\ RowStep(runs[r], runs'[r])
  BY QueueStep, RowSteps DEF SystemInv, PoolTyped, QueueInv, RowsInv
<1>1. ASSUME NEW j \in jobs, j.pc \in Executing
      PROVE  /\ j \in Job /\ j.worker \in alive
             /\ lastSeen'[j.worker] = "fresh" /\ HeldBy(runs'[j.run], j.worker)
  <2>1. /\ j \in Job /\ j.run \in Run /\ j.worker \in alive /\ j.worker \in Worker
        /\ lastSeen[j.worker] = "fresh" /\ HeldBy(runs[j.run], j.worker)
    BY <1>0, <1>1 DEF ExecInv, ExecutingIsHeld, Job
  <2>2. lastSeen'[j.worker] = "fresh"
    BY <2>1, FreshStays DEF Orderly
  <2>3. runs'[j.run].status # "pending"
    <3> SUFFICES ASSUME runs'[j.run].status = "pending" PROVE FALSE
      OBVIOUS
    <3>1. runs[j.run].status \in Terminal \cup {"claimed"}
      BY <2>1 DEF HeldBy
    <3>2. j.run \in Orphans
      BY <2>1, <3>1, OnlySweepRequeues DEF Orderly
    <3>3. runs[j.run].status = "claimed" /\ runs[j.run].worker \notin Fresh
      BY <3>2 DEF Orphans, In
    <3>4. runs[j.run].worker = j.worker
      BY <2>1, <3>3 DEF HeldBy, Terminal
    <3> QED
      BY <2>1, <3>3, <3>4 DEF Fresh
  <2> QED
    BY <1>0, <2>1, <2>2, <2>3, StillHeld
<1>2. ASSUME jobs' \subseteq jobs, \A j \in jobs' : j.worker \in alive => j.worker \in alive'
      PROVE  ExecInv'
  BY <1>1, <1>2 DEF ExecInv, ExecutingIsHeld, SingleExecution
<1>3. ASSUME NEW w \in Worker, NEW r \in Run, Poll(w, r)
      PROVE  ExecInv'
  <2> DEFINE new == [worker |-> w, run |-> r, att |-> attempts'[r],
                     pc |-> "preparing", leftBehind |-> FALSE]
  <2>1. /\ jobs' = jobs \cup {new} /\ alive' = alive /\ w \in alive
        /\ lastSeen[w] = "fresh" /\ lastSeen' = lastSeen
        /\ runs[r].status = "pending"
        /\ runs' = [runs EXCEPT ![r] = ClaimedBy(@, w)]
    BY <1>3 DEF Poll, Claim, HandleClaim, NextUp
  <2>2. \A j \in jobs : j.pc \in Executing => j.run # r
    BY <2>1 DEF ExecInv, ExecutingIsHeld, HeldBy, Terminal
  <2>3. new.worker = w /\ new.run = r /\ HeldBy(runs'[r], w)
    BY <2>1, <1>0 DEF HeldBy, ClaimedBy, RowInv, Row, SystemInv, QueueInv, TypeOK
  <2>4. ExecutingIsHeld'
    BY <1>1, <2>1, <2>3 DEF ExecutingIsHeld
  <2> HIDE DEF new
  <2>5. SingleExecution'
    BY <2>1, <2>2, <2>3 DEF ExecInv, SingleExecution
  <2> QED
    BY <2>4, <2>5 DEF ExecInv
<1>5. ASSUME NEW j \in jobs, JobStep(j)
      PROVE  ExecInv'
  <2>1. PICK new : Becomes(j, new)
    BY <1>5, JobMoves DEF SystemInv
  <2>2. jobs' = (jobs \ {j}) \cup {new} /\ alive' = alive
    BY <1>5, <2>1, JobMoves DEF SystemInv, Becomes
  <2>3. /\ new.worker = j.worker /\ new.run = j.run
        /\ new.pc \in Executing => j.pc \in Executing
    BY <2>1 DEF Becomes, SameAttempt
  <2>4. ExecutingIsHeld'
    BY <1>1, <2>2, <2>3 DEF ExecutingIsHeld
  <2>5. SingleExecution'
    BY <2>2, <2>3 DEF ExecInv, SingleExecution
  <2> QED
    BY <2>4, <2>5 DEF ExecInv
<1>6. ASSUME NEW m \in net, Deliver(m) \/ LoseReport(m) \/ GiveUp(m)
      PROVE  ExecInv'
  BY <1>2, <1>6 DEF Deliver, LoseReport, GiveUp, Release
<1>7. ASSUME NEW w \in Worker, Crash(w)
      PROVE  ExecInv'
  BY <1>2, <1>7 DEF Crash, JobsOf
<1>8. CASE \/ \E w \in Worker : Restart(w) \/ Touch(w) \/ Age(w) \/ Suspect(w)
           \/ \E w \in Worker, r \in Run : LoseClaim(w, r)
  BY <1>2, <1>8 DEF Restart, Touch, Age, Suspect, LoseClaim, Claim, Pool
<1>9. CASE SweepOrphans \/ UNCHANGED evars
  BY <1>2, <1>9 DEF SweepOrphans, Pool, evars
<1>10. CASE \/ \E s \in Submission, U \in SUBSET Suite, R \in SUBSET Run : Submit(s, U, R)
            \/ \E s \in Submission : Intervene(s)
  BY <1>2, <1>10 DEF Submit, Intervene, Cancel, Retry, Prioritize, Pool
<1> QED
  BY <1>3, <1>5, <1>6, <1>7, <1>8, <1>9, <1>10 DEF ENext

\* Through any number of deaths, restarts with the same id, sweeps, lost claims,
\* lost or late reports and cancellations, no run is executed twice at a time.
THEOREM ExecutesOnce ==
    ASSUME "suspect" \notin Faults, "retry" \notin Interventions
    PROVE  ESpec => []SingleExecution
<1>1. Orderly
  BY DEF Orderly
<1>2. EInit => ExecInv
  BY DEF EInit, ExecInv, ExecutingIsHeld, SingleExecution
<1>3. SystemInv /\ ExecInv /\ [ENext]_evars => ExecInv'
  BY <1>1, ExecInvNext
<1>4. ExecInv => SingleExecution
  BY DEF ExecInv
<1> QED
  BY <1>2, <1>3, <1>4, SystemInvariant, PTL DEF ESpec

-----------------------------------------------------------------------------
(* The slots. *)

\* Of PoolTypeOK, what PoolTyped does not say; that the jobs are finitely many
\* is what makes counting them mean something.
SlotsInv ==
    /\ IsFiniteSet(jobs) /\ budget \in 0..MaxBudget
    /\ \A w \in Worker : Cardinality(JobsOf(w)) <= Concurrency
    /\ \A j \in jobs : j.worker \in alive

\* A member added makes a set larger by one at most.
LEMMA CountAfterAdd ==
    ASSUME NEW S, IsFiniteSet(S), NEW y
    PROVE  /\ IsFiniteSet(S \cup {y})
           /\ Cardinality(S \cup {y}) \in {Cardinality(S), Cardinality(S) + 1}
  BY FS_AddElement

\* A member replaced makes a set no larger.
LEMMA CountAfterReplace ==
    ASSUME NEW S, IsFiniteSet(S), NEW x \in S, NEW y
    PROVE  /\ IsFiniteSet((S \ {x}) \cup {y})
           /\ Cardinality((S \ {x}) \cup {y}) <= Cardinality(S)
<1>1. IsFiniteSet(S \ {x}) /\ Cardinality(S \ {x}) = Cardinality(S) - 1
  BY FS_RemoveElement
<1>2. Cardinality(S) \in Nat
  BY FS_CardinalityType
<1>3. /\ IsFiniteSet((S \ {x}) \cup {y})
      /\ \/ Cardinality((S \ {x}) \cup {y}) = Cardinality(S \ {x})
         \/ Cardinality((S \ {x}) \cup {y}) = Cardinality(S \ {x}) + 1
  BY <1>1, FS_AddElement
<1> QED
  BY <1>1, <1>2, <1>3

\* A step that only ends jobs keeps the slots respected.
LEMMA FewerJobs ==
    ASSUME SlotsInv, jobs' \subseteq jobs, budget' \in 0..MaxBudget,
           \A j \in jobs' : j.worker \in alive'
    PROVE  SlotsInv'
<1>1. IsFiniteSet(jobs')
  BY FS_Subset DEF SlotsInv
<1>2. ASSUME NEW w \in Worker
      PROVE  Cardinality(JobsOf(w)') <= Concurrency
  <2>1. JobsOf(w)' \subseteq JobsOf(w) /\ JobsOf(w) \subseteq jobs
    BY DEF JobsOf
  <2>2. IsFiniteSet(JobsOf(w))
    BY <2>1, FS_Subset DEF SlotsInv
  <2>3. /\ Cardinality(JobsOf(w)') <= Cardinality(JobsOf(w))
        /\ Cardinality(JobsOf(w)') \in Nat /\ Cardinality(JobsOf(w)) \in Nat
    BY <2>1, <2>2, FS_Subset, FS_CardinalityType
  <2> QED
    BY <2>3, PoolAssumption DEF SlotsInv, PoolAssumption
<1> QED
  BY <1>1, <1>2 DEF SlotsInv

\* A job that moves on stays in its slot.
LEMMA MoveKeepsSlots ==
    ASSUME SlotsInv, NEW j \in jobs, NEW new, Becomes(j, new), alive' = alive,
           budget' \in 0..MaxBudget
    PROVE  SlotsInv'
<1>1. jobs' = (jobs \ {j}) \cup {new}
  BY DEF Becomes
<1>2. new.worker = j.worker
  BY DEF Becomes, SameAttempt
<1>3. IsFiniteSet(jobs')
  BY <1>1, CountAfterReplace DEF SlotsInv
<1>4. ASSUME NEW w \in Worker
      PROVE  Cardinality(JobsOf(w)') <= Concurrency
  <2>1. IsFiniteSet(JobsOf(w))
    BY FS_Subset DEF SlotsInv, JobsOf
  <2>2. CASE j.worker = w
    <3>1. j \in JobsOf(w) /\ JobsOf(w)' = (JobsOf(w) \ {j}) \cup {new}
      BY <1>1, <1>2, <2>2 DEF JobsOf
    <3>2. /\ Cardinality(JobsOf(w)') <= Cardinality(JobsOf(w))
          /\ Cardinality(JobsOf(w)') \in Nat /\ Cardinality(JobsOf(w)) \in Nat
      BY <2>1, <3>1, CountAfterReplace, FS_CardinalityType
    <3> QED
      BY <3>2, PoolAssumption DEF SlotsInv, PoolAssumption
  <2>3. CASE j.worker # w
    <3>1. JobsOf(w)' = JobsOf(w)
      BY <1>1, <1>2, <2>3 DEF JobsOf
    <3> QED
      BY <3>1 DEF SlotsInv
  <2> QED
    BY <2>2, <2>3
<1> QED
  BY <1>1, <1>2, <1>3, <1>4 DEF SlotsInv

\* A poll fills a slot that was free.
LEMMA PollFillsSlot ==
    ASSUME SlotsInv, NEW v \in Worker, NEW r \in Run, Poll(v, r)
    PROVE  SlotsInv'
<1> DEFINE new == [worker |-> v, run |-> r, att |-> attempts'[r],
                   pc |-> "preparing", leftBehind |-> FALSE]
<1>1. /\ jobs' = jobs \cup {new} /\ new.worker = v
      /\ alive' = alive /\ budget' = budget /\ v \in alive
      /\ Cardinality(JobsOf(v)) < Concurrency
  BY DEF Poll, Claim
<1> HIDE DEF new
<1>2. IsFiniteSet(jobs')
  BY <1>1, CountAfterAdd DEF SlotsInv
<1>3. ASSUME NEW w \in Worker
      PROVE  Cardinality(JobsOf(w)') <= Concurrency
  <2>1. IsFiniteSet(JobsOf(w))
    BY FS_Subset DEF SlotsInv, JobsOf
  <2>2. CASE w = v
    <3>1. JobsOf(w)' = JobsOf(w) \cup {new}
      BY <1>1, <2>2 DEF JobsOf
    <3>2. /\ Cardinality(JobsOf(w)') \in {Cardinality(JobsOf(w)), Cardinality(JobsOf(w)) + 1}
          /\ Cardinality(JobsOf(w)) \in Nat
      BY <2>1, <3>1, CountAfterAdd, FS_CardinalityType
    <3> QED
      BY <1>1, <2>2, <3>2, PoolAssumption DEF PoolAssumption
  <2>3. CASE w # v
    <3>1. JobsOf(w)' = JobsOf(w)
      BY <1>1, <2>3 DEF JobsOf
    <3> QED
      BY <3>1 DEF SlotsInv
  <2> QED
    BY <2>2, <2>3
<1> QED
  BY <1>1, <1>2, <1>3 DEF SlotsInv

\* Every step keeps the accounts of the slots.
LEMMA SlotsNext == PoolTyped /\ SlotsInv /\ [ENext]_evars => SlotsInv'
<1> SUFFICES ASSUME PoolTyped, SlotsInv, [ENext]_evars PROVE SlotsInv'
  OBVIOUS
<1>0. Spend => budget' \in 0..MaxBudget
  BY PoolAssumption DEF Spend, SlotsInv, PoolAssumption
<1>1. ASSUME NEW w \in Worker, NEW r \in Run, Poll(w, r) \/ LoseClaim(w, r)
      PROVE  SlotsInv'
  <2>1. CASE LoseClaim(w, r)
    <3>1. jobs' = jobs /\ alive' = alive /\ budget' \in 0..MaxBudget
      BY <1>0, <2>1 DEF LoseClaim, Claim
    <3> QED
      BY <3>1, FewerJobs DEF SlotsInv
  <2> QED
    BY <1>1, <2>1, PollFillsSlot
<1>2. ASSUME NEW j \in jobs, JobStep(j)
      PROVE  SlotsInv'
  <2>1. budget' \in 0..MaxBudget
    BY <1>0, <1>2, JobMoves DEF SlotsInv
  <2> QED
    BY <1>2, <2>1, JobMoves, MoveKeepsSlots
<1>3. ASSUME NEW m \in net, Deliver(m) \/ LoseReport(m) \/ GiveUp(m)
      PROVE  SlotsInv'
  <2>1. jobs' \subseteq jobs /\ alive' = alive /\ budget' \in 0..MaxBudget
    BY <1>0, <1>3 DEF Deliver, LoseReport, GiveUp, Release, SlotsInv
  <2> QED
    BY <2>1, FewerJobs DEF SlotsInv
<1>4. ASSUME NEW w \in Worker, Crash(w)
      PROVE  SlotsInv'
  <2>1. jobs' \subseteq jobs /\ \A j \in jobs' : j.worker \in alive'
    BY <1>4 DEF Crash, JobsOf, SlotsInv
  <2>2. budget' \in 0..MaxBudget
    BY <1>0, <1>4 DEF Crash
  <2> QED
    BY <2>1, <2>2, FewerJobs
<1>5. ASSUME jobs' = jobs, alive \subseteq alive', Spend \/ budget' = budget
      PROVE  SlotsInv'
  <2>1. budget' \in 0..MaxBudget
    BY <1>0, <1>5 DEF SlotsInv
  <2> QED
    BY <1>5, <2>1, FewerJobs DEF SlotsInv
<1>6. ASSUME NEW w \in Worker, Restart(w) \/ Touch(w) \/ Age(w) \/ Suspect(w)
      PROVE  SlotsInv'
  BY <1>5, <1>6 DEF Restart, Touch, Age, Suspect, Pool
<1>7. CASE SweepOrphans \/ UNCHANGED evars
  BY <1>5, <1>7 DEF SweepOrphans, Pool, evars
<1>8. CASE \/ \E s \in Submission, U \in SUBSET Suite, R \in SUBSET Run : Submit(s, U, R)
           \/ \E s \in Submission : Intervene(s)
  BY <1>5, <1>8 DEF Submit, Intervene, Cancel, Retry, Prioritize, Pool
<1> QED
  BY <1>1, <1>2, <1>3, <1>4, <1>6, <1>7, <1>8 DEF ENext

\* No worker ever holds more jobs than it has slots, and a dead process holds
\* none, with every fault and intervention switched on.
THEOREM SlotsRespected == ESpec => []PoolTypeOK
<1>1. EInit => SlotsInv
  <2> SUFFICES ASSUME EInit PROVE SlotsInv
    OBVIOUS
  <2>1. jobs = {} /\ budget = MaxBudget /\ \A w \in Worker : JobsOf(w) = {}
    BY DEF EInit, JobsOf
  <2> QED
    BY <2>1, FS_EmptySet, PoolAssumption DEF SlotsInv, PoolAssumption
<1>2. SystemInv /\ SlotsInv /\ [ENext]_evars => SlotsInv'
  BY SlotsNext DEF SystemInv
<1>3. SystemInv /\ SlotsInv => PoolTypeOK
  BY DEF SystemInv, PoolTyped, SlotsInv, PoolTypeOK
<1> QED
  BY <1>1, <1>2, <1>3, SystemInvariant, PTL DEF ESpec

-----------------------------------------------------------------------------
(* Claims and their holders. *)

\* The claim's answer and the report arrive, at once or late, and no dead worker
\* comes back under its name: the faults left are deaths and live workers taken
\* for dead.
Delivered == Faults \cap {"lose_claim", "lose_report", "restart"} = {}

Holds(x, w, r, n) == x.worker = w /\ x.run = r /\ x.att = n

\* Only a worker's poll makes a row claimed, or changes who holds a claim.
LEMMA OnlyPollClaims ==
    ASSUME SystemInv, [ENext]_evars, Delivered, NEW r \in Run,
           runs'[r].status = "claimed"
    PROVE  \/ \E w \in Worker : Poll(w, r)
           \/ runs'[r] = runs[r] /\ attempts'[r] = attempts[r]
<1>0. runs \in [Run -> Row]
  BY DEF SystemInv, QueueInv, TypeOK
<1> DEFINE Kept == runs'[r] = runs[r] /\ attempts'[r] = attempts[r]
<1>1. ASSUME NEW w \in Worker, NEW q \in Run, Poll(w, q), q # r
      PROVE  Kept
  BY <1>0, <1>1 DEF Poll, Claim, HandleClaim, SystemInv, PoolTyped
<1>2. ASSUME NEW w \in Worker, NEW q \in Run, LoseClaim(w, q)
      PROVE  FALSE
  BY <1>2 DEF LoseClaim, Delivered
<1>3. ASSUME NEW m \in net, Deliver(m)
      PROVE  Kept
  <2>1. m.body \in Bodies /\ m.body.status \in Terminal /\ m.run \in Run
    BY DEF SystemInv, PoolTyped, Report, Bodies, Body
  <2>2. CASE runs' = runs
    BY <1>3, <2>2 DEF Deliver
  <2>3. CASE runs' = [runs EXCEPT ![m.run] = Recorded(runs[m.run], m.body)]
    <3>1. m.run = r => runs'[r].status = m.body.status
      BY <1>0, <2>3 DEF Recorded, Row
    <3>2. m.run # r
      BY <2>1, <3>1 DEF Terminal
    <3> QED
      BY <1>0, <1>3, <2>3, <3>2 DEF Deliver
  <2> QED
    BY <1>3, <2>2, <2>3 DEF Deliver, HandleResult, vars
<1>4. ASSUME NEW s \in Submission, NEW U \in SUBSET Suite, NEW R \in SUBSET Run,
             Submit(s, U, R)
      PROVE  Kept
  <2>1. attempts' = attempts
    BY <1>4 DEF Submit, Pool
  <2>2. runs' = [q \in Run |-> IF q \in R THEN FreshRow(clock') ELSE runs[q]]
    BY <1>4 DEF Submit, CreateSubmission, ReevaluateSubmission, Enqueue
  <2>3. r \notin R
    BY <2>2 DEF FreshRow, NoRow
  <2> QED
    BY <2>1, <2>2, <2>3
<1>5. ASSUME NEW s \in Submission, Intervene(s)
      PROVE  Kept
  <2>1. attempts' = attempts
    BY <1>5 DEF Intervene, Cancel, Retry, Prioritize, Pool
  <2>2. CASE CancelSubmission(s)
    BY <1>0, <2>1, <2>2 DEF CancelSubmission, CancelledRow, Row
  <2>3. ASSUME NEW q \in RunsOf(s), CancelRun(q)
        PROVE  Kept
    BY <1>0, <2>1, <2>3 DEF CancelRun, CancelledRow, Row, RunsOf
  <2>4. CASE RetrySubmission(s)
    BY <1>0, <2>1, <2>4 DEF RetrySubmission, Retried, Row
  <2>5. CASE PrioritizeSubmission(s)
    BY <1>0, <2>1, <2>5 DEF PrioritizeSubmission, Row, In
  <2> QED
    BY <1>5, <2>2, <2>3, <2>4, <2>5 DEF Intervene, Cancel, Retry, Prioritize
<1>6. CASE SweepOrphans
  BY <1>0, <1>6 DEF SweepOrphans, Sweep, Swept, Row, Pool
<1>7. ASSUME NEW j \in jobs, JobStep(j)
      PROVE  Kept
  BY <1>7, JobMoves DEF vars, SystemInv
<1>8. ASSUME NEW w \in Worker,
             Crash(w) \/ Restart(w) \/ Touch(w) \/ Age(w) \/ Suspect(w)
      PROVE  Kept
  BY <1>8 DEF Crash, Restart, Touch, Age, Suspect, UpsertWorker, GoStale, Pool, vars
<1>9. ASSUME NEW m \in net, LoseReport(m) \/ GiveUp(m)
      PROVE  Kept
  BY <1>9 DEF LoseReport, GiveUp, vars
<1>10. CASE UNCHANGED evars
  BY <1>10 DEF evars, vars
<1>11. ASSUME NEW w \in Worker, NEW q \in Run, Poll(w, q) \/ LoseClaim(w, q)
       PROVE  Kept \/ Poll(w, r)
  BY <1>1, <1>2, <1>11
<1> QED
  BY <1>3, <1>4, <1>5, <1>6, <1>7, <1>8, <1>9, <1>10, <1>11 DEF ENext

\* The holder of a claim stays, as a job or as its report, until the row is
\* settled or the worker dies.
LEMMA HolderStays ==
    ASSUME SystemInv, [ENext]_evars, Delivered, NEW r \in Run,
           runs[r].status = "claimed", runs'[r] = runs[r], attempts'[r] = attempts[r],
           runs[r].worker \in alive', NEW x \in jobs \cup net,
           Holds(x, runs[r].worker, r, attempts[r])
    PROVE  \E y \in jobs' \cup net' : Holds(y, runs'[r].worker, r, attempts'[r])
<1>0. /\ jobs \subseteq Job /\ net \subseteq Report
      /\ x.worker = runs[r].worker /\ x.run = r /\ x.att = attempts[r]
  BY DEF SystemInv, PoolTyped, Holds
<1>1. ASSUME NEW y \in jobs' \cup net', SameAttempt(y, x)
      PROVE  \E z \in jobs' \cup net' : Holds(z, runs'[r].worker, r, attempts'[r])
  BY <1>0, <1>1 DEF Holds, SameAttempt
<1>2. ASSUME jobs \subseteq jobs', net \subseteq net'
      PROVE  \E y \in jobs' \cup net' : SameAttempt(y, x)
  BY <1>2 DEF SameAttempt
<1>4. ASSUME NEW j \in jobs, JobStep(j)
      PROVE  \E y \in jobs' \cup net' : SameAttempt(y, x)
  <2>1. net \subseteq net' /\ \E new : Becomes(j, new)
    BY <1>4, JobMoves DEF SystemInv
  <2> QED
    BY <2>1 DEF Becomes, SameAttempt
<1>5. ASSUME NEW m \in net, Deliver(m)
      PROVE  \E y \in jobs' \cup net' : SameAttempt(y, x)
  <2>1. m.body \in Bodies /\ m.body.status \in Terminal /\ m.run \in Run
    BY <1>0 DEF Report, Bodies, Body
  <2>2. m.run # r
    <3> SUFFICES ASSUME m.run = r PROVE FALSE
      OBVIOUS
    <3>1. ~Ignored(runs[r], m.body)
      BY DEF Ignored
    <3>2. runs' = [runs EXCEPT ![r] = Recorded(runs[r], m.body)]
      BY <1>5, <3>1 DEF Deliver, HandleResult
    <3>3. runs \in [Run -> Row]
      BY DEF SystemInv, QueueInv, TypeOK
    <3>4. runs'[r].status \in Terminal
      BY <2>1, <3>2, <3>3, RecordedRow
    <3> QED
      BY <3>4 DEF Terminal
  <2>3. x \in jobs' \cup net'
    BY <1>0, <1>5, <2>2 DEF Deliver, Release, SameAttempt
  <2> QED
    BY <2>3 DEF SameAttempt
<1>6. ASSUME NEW m \in net, GiveUp(m)
      PROVE  \E y \in jobs' \cup net' : SameAttempt(y, x)
  BY <1>6 DEF GiveUp, Release, SameAttempt
<1>7. ASSUME NEW w \in Worker, Crash(w)
      PROVE  \E y \in jobs' \cup net' : SameAttempt(y, x)
  <2>1. x \in jobs' \cup net'
    BY <1>0, <1>7 DEF Crash, JobsOf
  <2> QED
    BY <2>1 DEF SameAttempt
<1>8. ASSUME NEW w \in Worker, NEW q \in Run, Poll(w, q) \/ LoseClaim(w, q)
      PROVE  \E y \in jobs' \cup net' : SameAttempt(y, x)
  BY <1>2, <1>8 DEF Poll, LoseClaim, Claim
<1>9. ASSUME NEW w \in Worker, Restart(w) \/ Touch(w) \/ Age(w) \/ Suspect(w)
      PROVE  \E y \in jobs' \cup net' : SameAttempt(y, x)
  BY <1>2, <1>9 DEF Restart, Touch, Age, Suspect, Pool
<1>10. CASE SweepOrphans \/ UNCHANGED evars
  <2>1. jobs' = jobs /\ net' = net
    BY <1>10 DEF SweepOrphans, Pool, evars
  <2> QED
    BY <1>2, <2>1
<1>11. CASE \/ \E s \in Submission, U \in SUBSET Suite, R \in SUBSET Run : Submit(s, U, R)
            \/ \E s \in Submission : Intervene(s)
  <2>1. jobs' = jobs /\ net' = net
    BY <1>11 DEF Submit, Intervene, Cancel, Retry, Prioritize, Pool
  <2> QED
    BY <1>2, <2>1
<1>12. \A m \in net : ~LoseReport(m)
  BY DEF LoseReport, Delivered
<1> QED
  BY <1>1, <1>4, <1>5, <1>6, <1>7, <1>8, <1>9, <1>10, <1>11, <1>12 DEF ENext

\* Without a restart, the dead stay dead.
LEMMA DeadStayDead ==
    ASSUME [ENext]_evars, Delivered
    PROVE  alive' \subseteq alive
<1>1. \A w \in Worker : ~Restart(w)
  BY DEF Restart, Delivered
<1>2. ASSUME NEW w \in Worker, NEW r \in Run, Poll(w, r) \/ LoseClaim(w, r)
      PROVE  alive' = alive
  BY <1>2 DEF Poll, LoseClaim, Claim
<1>3. ASSUME NEW j \in jobs, JobStep(j)
      PROVE  alive' = alive
  BY <1>3
  DEF JobStep, Start, FailToStart, SeeCancel, LeaveBehind, ReportKilled, Finish, Post,
      Advance
<1>4. ASSUME NEW m \in net, Deliver(m) \/ LoseReport(m) \/ GiveUp(m)
      PROVE  alive' = alive
  BY <1>4 DEF Deliver, LoseReport, GiveUp
<1>5. ASSUME NEW w \in Worker, Crash(w) \/ Touch(w) \/ Age(w) \/ Suspect(w)
      PROVE  alive' \subseteq alive
  BY <1>5 DEF Crash, Touch, Age, Suspect, Pool
<1>6. CASE SweepOrphans \/ UNCHANGED evars
  BY <1>6 DEF SweepOrphans, Pool, evars
<1>7. CASE \/ \E s \in Submission, U \in SUBSET Suite, R \in SUBSET Run : Submit(s, U, R)
           \/ \E s \in Submission : Intervene(s)
  BY <1>7 DEF Submit, Intervene, Cancel, Retry, Prioritize, Pool
<1> QED
  BY <1>1, <1>2, <1>3, <1>4, <1>5, <1>6, <1>7 DEF ENext

\* Where answers are delivered, every step keeps each claim in the hands of its worker.
LEMMA HeldNext ==
    Delivered /\ SystemInv /\ ClaimsAreHeld /\ [ENext]_evars => ClaimsAreHeld'
<1> SUFFICES ASSUME Delivered, SystemInv, ClaimsAreHeld, [ENext]_evars, NEW r \in Run,
                    runs'[r].status = "claimed", runs'[r].worker \in alive'
             PROVE  \E y \in jobs' \cup net' : Holds(y, runs'[r].worker, r, attempts'[r])
  BY DEF ClaimsAreHeld, In, Holds
<1>1. ASSUME NEW w \in Worker, Poll(w, r)
      PROVE  \E y \in jobs' \cup net' : Holds(y, runs'[r].worker, r, attempts'[r])
  <2> DEFINE new == [worker |-> w, run |-> r, att |-> attempts'[r],
                     pc |-> "preparing", leftBehind |-> FALSE]
  <2>1. new \in jobs' /\ runs' = [runs EXCEPT ![r] = ClaimedBy(@, w)]
    BY <1>1 DEF Poll, Claim, HandleClaim
  <2>2. runs'[r].worker = w
    BY <2>1 DEF ClaimedBy, Row, SystemInv, QueueInv, TypeOK
  <2>3. Holds(new, runs'[r].worker, r, attempts'[r])
    BY <2>2 DEF Holds
  <2> QED
    BY <2>1, <2>3
<1>2. CASE runs'[r] = runs[r] /\ attempts'[r] = attempts[r]
  <2>1. runs[r].worker \in alive
    BY <1>2, DeadStayDead
  <2>2. PICK x \in jobs \cup net : Holds(x, runs[r].worker, r, attempts[r])
    BY <1>2, <2>1 DEF ClaimsAreHeld, In, Holds
  <2> QED
    BY <1>2, <2>2, HolderStays
<1> QED
  BY <1>1, <1>2, OnlyPollClaims

\* Where answers and reports arrive, if late, no claim is left behind under a
\* live worker, however often live workers are wrongly swept and runs cancelled
\* and retried under them.  Each of the three faults left out breaks it.
THEOREM NoClaimLeftBehind ==
    ASSUME Faults \cap {"lose_claim", "lose_report", "restart"} = {}
    PROVE  ESpec => []ClaimsAreHeld
<1>1. Delivered
  BY DEF Delivered
<1>2. EInit => ClaimsAreHeld
  BY DEF EInit, Init, ClaimsAreHeld, In, NoRow
<1>3. SystemInv /\ ClaimsAreHeld /\ [ENext]_evars => ClaimsAreHeld'
  BY <1>1, HeldNext
<1> QED
  BY <1>2, <1>3, SystemInvariant, PTL DEF ESpec
=============================================================================
