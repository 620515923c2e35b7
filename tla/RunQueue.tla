------------------------------ MODULE RunQueue ------------------------------
(***************************************************************************)
(* The `runs` table of the serve process and every operation that writes   *)
(* it: the handlers under /api and /internal, the heart-beat middleware    *)
(* and the sweeper (internal/server).                                      *)
(*                                                                         *)
(* One action is one critical section: a handler that holds writeMu, the   *)
(* single transaction of createSubmission, or one tick of the sweeper.     *)
(* The environment is open: any worker may report any status for any row   *)
(* at any time, because the server checks neither who claimed a row nor    *)
(* for which attempt a report is.  Evals.tla closes the environment with   *)
(* real workers and a real network.                                        *)
(*                                                                         *)
(* Data abstraction.  A row's edges (submission, suite) never change, so   *)
(* they are constants of its id.  Wall-clock stamps that the queue orders  *)
(* by are readings of the logical `clock`; a time that is only shown to    *)
(* the reader is kept as its presence.  Score and Result travel together   *)
(* and are one value; an error text or a log tail is its presence.         *)
(***************************************************************************)
EXTENDS Naturals, FiniteSets

CONSTANTS
    Run,          \* row ids, a pool: a row whose status is "none" does not exist
    Submission, Suite, Worker,
    SubmissionOf, SuiteOf,   \* the edges of each row id
    NumSeeds,     \* length of each suite's seed list
    Score, NoScore, NoWorker,
    MaxClock      \* bound: how many batches and prioritizations are stamped

ASSUME EdgesAssumption == /\ SubmissionOf \in [Run -> Submission]
                          /\ SuiteOf \in [Run -> Suite]
ASSUME SeedsAssumption == NumSeeds \in [Suite -> Nat \ {0}]
ASSUME NoValuesAssumption == NoScore \notin Score /\ NoWorker \notin Worker
ASSUME ClockAssumption == MaxClock \in Nat

VARIABLES
    runs,      \* the runs table
    sealed,    \* suites whose `sealed` column is true
    clock,     \* the last stamp given out
    lastSeen,  \* workers table: no row, or last_seen within / beyond workerTimeout
    handled    \* workers table: runs_handled

vars == <<runs, sealed, clock, lastSeen, handled>>

Terminal == {"succeeded", "failed", "timed_out", "cancelled"}
\* "running" is in the schema's enum, but no statement ever sets it.
InFlight == {"pending", "claimed"}
Retryable == {"failed", "timed_out", "cancelled"}
Status == {"none"} \cup InFlight \cup Terminal

Row == [status    : Status,
        priority  : Nat,                    \* 0 is the column's default
        created   : Nat,
        worker    : Worker \cup {NoWorker}, \* NoWorker is worker_id ""
        claimed   : BOOLEAN,                \* claimed_at is set
        started   : BOOLEAN,                \* started_at is set
        finished  : BOOLEAN,                \* finished_at is set
        score     : Score \cup {NoScore},
        error     : BOOLEAN,                \* error is not ""
        logs      : BOOLEAN]                \* stdout or stderr is not ""

\* What a worker posts: exactly the ResultRequests execute() builds.
Body == [status  : Terminal,
         score   : Score \cup {NoScore},
         error   : BOOLEAN,
         started : BOOLEAN,
         logs    : BOOLEAN]

Bodies ==
    {b \in Body :
        /\ (b.status = "succeeded") <=> (b.score # NoScore)
        /\ (b.status = "succeeded") <=> ~b.error
        /\ (b.status # "failed") => b.started
        /\ b.logs => b.started}

NoRow == [status |-> "none", priority |-> 0, created |-> 0, worker |-> NoWorker,
          claimed |-> FALSE, started |-> FALSE, finished |-> FALSE,
          score |-> NoScore, error |-> FALSE, logs |-> FALSE]

-----------------------------------------------------------------------------
(* Updates of one row. *)

FreshRow(now) == [NoRow EXCEPT !.status = "pending", !.created = now]

\* Variant: the claim already marks the row "running".
ClaimedAsRunning(row, w) ==
    [row EXCEPT !.status = "running", !.worker = w, !.claimed = TRUE]

ClaimedBy(row, w) ==
    [row EXCEPT !.status = "claimed", !.worker = w, !.claimed = TRUE]

\* A body's fields overwrite the row's only where the body carries them.
Recorded(row, b) ==
    [row EXCEPT !.status   = b.status,
                !.finished = TRUE,
                !.score    = IF b.score # NoScore THEN b.score ELSE @,
                !.error    = @ \/ b.error,
                !.started  = @ \/ b.started,
                !.logs     = @ \/ b.logs]

CancelledRow(row) == [row EXCEPT !.status = "cancelled", !.finished = TRUE]

\* Variant: the retry forgets the error text.
RetriedWithError(row) ==
    [row EXCEPT !.status = "pending", !.worker = NoWorker,
                !.claimed = FALSE, !.started = FALSE, !.finished = FALSE,
                !.score = NoScore]

\* What retrySubmission clears; stdout, stderr and priority are not in its list.
Retried(row) ==
    [row EXCEPT !.status = "pending", !.worker = NoWorker,
                !.claimed = FALSE, !.started = FALSE, !.finished = FALSE,
                !.score = NoScore, !.error = FALSE]

Swept(row) ==
    [row EXCEPT !.status = "pending", !.worker = NoWorker, !.claimed = FALSE]

-----------------------------------------------------------------------------
(* Queries. *)

In(S) == {r \in Run : runs[r].status \in S}
RunsOf(s) == {r \in Run : SubmissionOf[r] = s}
Exists(s) == \E r \in RunsOf(s) : runs[r].status # "none"

\* Variant: the query orders by age alone.
OldestFirst(r) ==
    /\ runs[r].status = "pending"
    /\ \A q \in In({"pending"}) : runs[r].created <= runs[q].created

\* The row handleClaim's query returns first: highest priority, then oldest.
NextUp(r) ==
    /\ runs[r].status = "pending"
    /\ \A q \in In({"pending"}) :
          \/ runs[q].priority < runs[r].priority
          \/ /\ runs[q].priority = runs[r].priority
             /\ runs[r].created <= runs[q].created

\* Variants: cancelled is not sticky; a failed row, or a succeeded one, is open
\* to a second report.
CancelNotSticky(row, b) == row.status \in {"succeeded", "failed", "timed_out"}
FailedNotFinal(row, b) ==
    \/ row.status \in {"succeeded", "timed_out"}
    \/ row.status = "cancelled" /\ b.status # "cancelled"
SuccessNotFinal(row, b) ==
    \/ row.status \in {"failed", "timed_out"}
    \/ row.status = "cancelled" /\ b.status # "cancelled"

\* handleResult's guard: a late report for a row that is already settled.
Ignored(row, b) ==
    \/ row.status \in {"succeeded", "failed", "timed_out"}
    \/ row.status = "cancelled" /\ b.status # "cancelled"

\* The workers the sweep counts as alive.
Fresh == {w \in Worker : lastSeen[w] = "fresh"}

\* Variants: the sweep takes every claim; it only looks for workers without a row.
EveryClaim == In({"claimed"})
UnknownClaimants == {r \in In({"claimed"}) : lastSeen[runs[r].worker] = "never"}

Orphans == {r \in In({"claimed"}) : runs[r].worker \notin Fresh}

-----------------------------------------------------------------------------
Init ==
    /\ runs = [r \in Run |-> NoRow]
    /\ sealed = {}
    /\ clock = 0
    /\ lastSeen = [w \in Worker |-> "never"]
    /\ handled = [w \in Worker |-> 0]

\* Variant: the fan-out does not seal its suites.
EnqueueUnsealed(s, U, R) ==
    /\ U # {}
    /\ \A r \in R : /\ runs[r].status = "none"
                    /\ SubmissionOf[r] = s
                    /\ SuiteOf[r] \in U
    /\ \A u \in U : Cardinality({r \in R : SuiteOf[r] = u}) = NumSeeds[u]
    /\ clock < MaxClock
    /\ clock' = clock + 1
    /\ runs' = [r \in Run |-> IF r \in R THEN FreshRow(clock') ELSE runs[r]]
    /\ UNCHANGED <<sealed, lastSeen, handled>>

\* One fresh row per seed of every suite in U, and every suite in U sealed.
Enqueue(s, U, R) ==
    /\ U # {}
    /\ \A r \in R : /\ runs[r].status = "none"
                    /\ SubmissionOf[r] = s
                    /\ SuiteOf[r] \in U
    /\ \A u \in U : Cardinality({r \in R : SuiteOf[r] = u}) = NumSeeds[u]
    /\ clock < MaxClock
    /\ clock' = clock + 1
    /\ runs' = [r \in Run |-> IF r \in R THEN FreshRow(clock') ELSE runs[r]]
    /\ sealed' = sealed \cup U
    /\ UNCHANGED <<lastSeen, handled>>

CreateSubmission(s, U, R) == ~Exists(s) /\ Enqueue(s, U, R)

ReevaluateSubmission(s, U, R) == Exists(s) /\ Enqueue(s, U, R)

HandleClaim(w, r) ==
    /\ NextUp(r)
    /\ runs' = [runs EXCEPT ![r] = ClaimedBy(@, w)]
    /\ UNCHANGED <<sealed, clock, lastSeen, handled>>

\* Only an existing workers row is bumped, and a failed bump is only logged.
BumpRunsHandled(w) ==
    \/ /\ lastSeen[w] # "never"
       /\ handled' = [handled EXCEPT ![w] = @ + 1]
       /\ lastSeen' = [lastSeen EXCEPT ![w] = "fresh"]
    \/ UNCHANGED <<lastSeen, handled>>

HandleResult(w, r, b) ==
    /\ runs[r].status # "none"
    /\ \/ Ignored(runs[r], b) /\ UNCHANGED vars
       \/ /\ ~Ignored(runs[r], b)
          /\ runs' = [runs EXCEPT ![r] = Recorded(@, b)]
          /\ IF b.status = "succeeded" THEN BumpRunsHandled(w)
                                       ELSE UNCHANGED <<lastSeen, handled>>
          /\ UNCHANGED <<sealed, clock>>

\* Variant: the status filter of the cancel lets succeeded rows through.
CancelScored(s) ==
    /\ runs' = [r \in Run |-> IF r \in RunsOf(s) \cap In(InFlight \cup {"succeeded"})
                              THEN CancelledRow(runs[r]) ELSE runs[r]]
    /\ UNCHANGED <<sealed, clock, lastSeen, handled>>

CancelSubmission(s) ==
    /\ runs' = [r \in Run |-> IF r \in RunsOf(s) \cap In(InFlight)
                              THEN CancelledRow(runs[r]) ELSE runs[r]]
    /\ UNCHANGED <<sealed, clock, lastSeen, handled>>

CancelRun(r) ==
    /\ runs[r].status \in InFlight
    /\ runs' = [runs EXCEPT ![r] = CancelledRow(@)]
    /\ UNCHANGED <<sealed, clock, lastSeen, handled>>

RetrySubmission(s) ==
    /\ runs' = [r \in Run |-> IF r \in RunsOf(s) \cap In(Retryable)
                              THEN Retried(runs[r]) ELSE runs[r]]
    /\ UNCHANGED <<sealed, clock, lastSeen, handled>>

PrioritizeSubmission(s) ==
    /\ clock < MaxClock
    /\ clock' = clock + 1
    /\ runs' = [r \in Run |-> IF r \in RunsOf(s) \cap In({"pending"})
                              THEN [runs[r] EXCEPT !.priority = clock']
                              ELSE runs[r]]
    /\ UNCHANGED <<sealed, lastSeen, handled>>

Sweep ==
    /\ runs' = [r \in Run |-> IF r \in Orphans THEN Swept(runs[r]) ELSE runs[r]]
    /\ UNCHANGED <<sealed, clock, lastSeen, handled>>

\* The middleware's own critical section.  The throttle and a failed upsert
\* both show as the step not being taken.
UpsertWorker(w) ==
    /\ lastSeen' = [lastSeen EXCEPT ![w] = "fresh"]
    /\ UNCHANGED <<runs, sealed, clock, handled>>

\* workerTimeout goes by with no write to the worker's last_seen.
GoStale(w) ==
    /\ lastSeen[w] = "fresh"
    /\ lastSeen' = [lastSeen EXCEPT ![w] = "stale"]
    /\ UNCHANGED <<runs, sealed, clock, handled>>

Operator(s) ==
    \/ CancelSubmission(s)
    \/ RetrySubmission(s)
    \/ PrioritizeSubmission(s)
    \/ \E U \in SUBSET Suite, R \in SUBSET Run :
          CreateSubmission(s, U, R) \/ ReevaluateSubmission(s, U, R)

WorkerCall(w) ==
    \/ UpsertWorker(w)
    \/ GoStale(w)
    \/ \E r \in Run : HandleClaim(w, r)
    \/ \E r \in Run, b \in Bodies : HandleResult(w, r, b)

Next ==
    \/ \E s \in Submission : Operator(s)
    \/ \E r \in Run : CancelRun(r)
    \/ \E w \in Worker : WorkerCall(w)
    \/ Sweep

Spec == Init /\ [][Next]_vars
-----------------------------------------------------------------------------
(* Properties. *)

TypeOK ==
    /\ runs \in [Run -> Row]
    /\ sealed \in SUBSET Suite
    /\ clock \in 0..MaxClock
    /\ lastSeen \in [Worker -> {"never", "fresh", "stale"}]
    /\ handled \in [Worker -> Nat]

\* A run that is queued or in a worker's hands carries nothing of an earlier
\* attempt: no score, error or stamps (retrySubmission's "clean slate"), and
\* it names a worker exactly while it is claimed.  Sweeps, retries, claims and
\* reports of several actors have to agree on it.  Log tails are the exception:
\* nothing clears them.
CleanSlate ==
    \A r \in In(InFlight) :
        /\ runs[r].score = NoScore
        /\ ~runs[r].error /\ ~runs[r].started /\ ~runs[r].finished
        /\ (runs[r].status = "claimed") <=> (runs[r].worker # NoWorker)
        /\ (runs[r].status = "claimed") <=> runs[r].claimed

\* A settled run tells one story: it has a score exactly when it succeeded, a
\* success shows no error, a failure or timeout shows one, and each says when
\* it ended, however many claims, sweeps, retries and late reports came before.
OneOutcome ==
    \A r \in In(Terminal) :
        /\ runs[r].finished
        /\ (runs[r].status = "succeeded") <=> (runs[r].score # NoScore)
        /\ runs[r].status = "succeeded" => ~runs[r].error
        /\ runs[r].status \in {"failed", "timed_out"} => runs[r].error

\* A suite that has a run is sealed: it is then shown as immutable and editing
\* it means cloning it.  The two columns live in different tables and are
\* written by both fan-outs (persistSubmission, reevaluateSubmission).
SealedOnceUsed == \A r \in Run : runs[r].status # "none" => SuiteOf[r] \in sealed

\* A settled row is final but for an operator's retry, which takes it back to
\* the queue, and for a cancelled row's own late "cancelled" report, which
\* keeps it cancelled.  A succeeded row never changes at all.
SettledRowsStay ==
    [][\A r \in In(Terminal) :
          \/ runs'[r] = runs[r]
          \/ /\ runs[r].status \in Retryable
             /\ runs'[r] = Retried(runs[r])
          \/ /\ runs[r].status = "cancelled" /\ runs'[r].status = "cancelled"
             /\ runs'[r].score = NoScore]_vars

\* The counters and the leaderboard see the ledger of RunLedger.
Entry(row) ==
    CASE row.status = "none" -> [phase |-> "absent"]
      [] row.status \in InFlight -> [phase |-> "pending"]
      [] row.status \in Retryable -> [phase |-> "dropped"]
      [] OTHER -> [phase |-> "scored", score |-> row.score]

Ledger == INSTANCE RunLedger WITH ledger <- [r \in Run |-> Entry(runs[r])]

\* Every step of the queue is a step of the ledger or none at all: a score is
\* written once, into a run that was pending, and nothing takes it away.
LedgerSpec == Ledger!Spec
=============================================================================
