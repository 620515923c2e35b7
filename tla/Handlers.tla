------------------------------ MODULE Handlers ------------------------------
(***************************************************************************)
(* The serve process statement by statement: every handler that writes a   *)
(* run, the sweeper and the heart beat, over the data layer of Ent.  Where *)
(* RunQueue takes a handler as one step, this module has the mutex         *)
(* writeMu, the SQLite transactions, what each call has read so far, and   *)
(* the failure of any statement.                                           *)
(*                                                                         *)
(* The database is SQLite as the default DSN opens it (config.go:28:       *)
(* foreign keys, WAL, busy_timeout); Postgres, which has concurrent        *)
(* writers, is not modelled.  A transaction works on a copy of the tables  *)
(* taken by its first statement.  A write that is its transaction's first  *)
(* statement waits while another transaction has written; one that         *)
(* follows a read fails at once if anything was committed or is being      *)
(* written since.  createSubmission writes without writeMu, so these       *)
(* waits and failures are real.                                            *)
(*                                                                         *)
(* A handler that takes the mutex, issues one statement and returns is one *)
(* step.  The ids of new rows come from pools.                             *)
(***************************************************************************)
EXTENDS Changes

CONSTANTS
    Run, Submission, Suite, Worker, SubmissionOf, SuiteOf, NumSeeds, Score,
    NoWorker, MaxClock,              \* as in RunQueue
    Call,         \* calls the process serves at a time
    Serves,       \* bound: the handlers each of them runs
    Posted        \* bound: the result bodies workers send

ASSUME EdgesAssumption == /\ SubmissionOf \in [Run -> Submission]
                          /\ SuiteOf \in [Run -> Suite]
ASSUME SeedsAssumption == NumSeeds \in [Suite -> Nat \ {0}]
ASSUME NoValuesAssumption == NoScore \notin Score /\ NoWorker \notin Worker
ASSUME ClockAssumption == MaxClock \in Nat
ASSUME CallAssumption == NULL \notin Call
\* A name and a score are values SQL stores, and no worker is nameless: without a
\* header handleClaim takes it for "unknown" and the heart beat for nobody.
ASSUME ValuesAssumption == {"", NULL} \cap Worker = {} /\ NULL \notin Score

VARIABLES
    db,        \* the committed tables
    writeMu,   \* the call that holds Deps.writeMu, or NULL
    clock,     \* the last stamp given out, as in RunQueue
    calls,     \* the calls under way
    queue      \* what db is to RunQueue: a function of the other variables

hvars == <<db, writeMu, clock, calls, queue>>

Idle == [op |-> "idle", at |-> "", arg |-> NULL, read |-> NULL, todo |-> {},
         open |-> FALSE,     \* a transaction is open
         work |-> NULL,      \* the tables as it sees them
         wrote |-> FALSE,    \* the transaction has written
         stale |-> FALSE,    \* something was committed since its snapshot
         bump |-> FALSE]     \* the counter statement to come will succeed

-----------------------------------------------------------------------------
(* The mutex and the transactions. *)

Free == writeMu = NULL
NoWriter == \A c \in Call : ~calls[c].wrote
Under(c, op, at) == calls[c].op = op /\ calls[c].at = at

Unlocked(c) == IF writeMu = c THEN NULL ELSE writeMu

\* Client.Tx; the first statement, a read, takes the snapshot.
OpenTx(call) == [call EXCEPT !.open = TRUE, !.work = db]

\* A commit of others that changed something makes an open snapshot stale.
Overtaken(d, new) == [calls[d] EXCEPT !.stale = @ \/ (calls[d].open /\ new # db)]

\* A commit, or a statement outside a transaction: from now on all see `new`.
Publish(c, new, record) ==
    /\ new # NULL
    /\ db' = new
    /\ calls' = [d \in Call |-> IF d = c THEN record ELSE Overtaken(d, new)]

\* A handler that issues one statement, without the mutex or with it.
Statement(new) ==
    /\ NoWriter
    /\ new # NULL
    /\ db' = new
    /\ calls' = [d \in Call |-> Overtaken(d, new)]
    /\ UNCHANGED writeMu

LockedStatement(new) == Free /\ Statement(new)

\* Variant: the deferred Unlock is missing.
ReturnLocked(c) == calls' = [calls EXCEPT ![c] = Idle] /\ UNCHANGED <<db, writeMu, clock>>

\* The call ends: an open transaction is rolled back, the mutex released.
Return(c) ==
    /\ calls' = [calls EXCEPT ![c] = Idle]
    /\ writeMu' = Unlocked(c)
    /\ UNCHANGED <<db, clock>>

\* Any statement may fail (busy, disk, a request that was given up).  Nothing
\* fails at a mutex; a failed counter statement is only logged, see BumpResult.
Fail(c) ==
    /\ calls[c].op # "idle"
    /\ calls[c].at \notin {"lock", "bump"}
    /\ Return(c)

-----------------------------------------------------------------------------
(* The worker's handlers. *)

NextPending(d) ==
    LET pending == StatusIn(d, {"pending"})
        ahead(i, j) ==
            \/ d.runs[i].priority > d.runs[j].priority
            \/ /\ d.runs[i].priority = d.runs[j].priority
               /\ d.runs[i].created_at < d.runs[j].created_at
    IN First(pending, ahead)

\* Lock, begin, query.  With nothing pending it answers 204 and changes nothing.
LockClaim(c, w) ==
    /\ calls[c].op = "idle" /\ "claim" \in Serves[c]
    /\ Free
    /\ writeMu' = c
    /\ \E r \in NextPending(db) :
          calls' = [calls EXCEPT ![c] =
                       OpenTx([Idle EXCEPT !.op = "claim", !.at = "update", !.arg = w,
                                           !.read = r])]
    /\ UNCHANGED <<db, clock>>

\* A write that follows a read of its transaction.
MayWrite(c) == NoWriter /\ ~calls[c].stale

UpdateClaim(c) ==
    /\ Under(c, "claim", "update")
    /\ MayWrite(c)
    /\ Publish(c, RunUpdateOne(calls[c].work, calls[c].read, ClaimChange(calls[c].arg)), Idle)
    /\ writeMu' = Unlocked(c)
    /\ UNCHANGED clock

ReadForResult(c, w, r, b) ==
    calls' = [calls EXCEPT ![c] =
        [Idle EXCEPT !.op = "result", !.at = "update", !.arg = [w |-> w, r |-> r, b |-> b],
                     !.read = RunGet(db, r).status]]

\* Variant: handleResult does not take the mutex.
ReadWithoutLock(c, w, r, b) ==
    /\ calls[c].op = "idle" /\ "result" \in Serves[c]
    /\ RunGet(db, r) # NULL
    /\ ReadForResult(c, w, r, b)
    /\ UNCHANGED <<db, writeMu, clock>>

LockResult(c, w, r, b) ==
    /\ calls[c].op = "idle" /\ "result" \in Serves[c]
    /\ RunGet(db, r) # NULL                      \* else 404
    /\ Free
    /\ writeMu' = c
    /\ ReadForResult(c, w, r, b)
    /\ UNCHANGED <<db, clock>>

LateReport(status, b) ==
    \/ status \in {"succeeded", "failed", "timed_out"}
    \/ status = "cancelled" /\ b.status # "cancelled"

UpdateResult(c) ==
    /\ Under(c, "result", "update")
    /\ LET a == calls[c].arg IN
       \/ LateReport(calls[c].read, a.b) /\ Return(c)     \* 204
       \/ /\ ~LateReport(calls[c].read, a.b)
          /\ NoWriter
          /\ \E bump \in IF NameEQ(db, a.w) = {} THEN {FALSE} ELSE BOOLEAN :
                IF a.b.status = "succeeded"
                THEN /\ Publish(c, RunUpdateOne(db, a.r, ResultChange(a.b)),
                                [calls[c] EXCEPT !.at = "bump", !.bump = bump])
                     /\ UNCHANGED <<writeMu, clock>>
                ELSE /\ Publish(c, RunUpdateOne(db, a.r, ResultChange(a.b)), Idle)
                     /\ writeMu' = Unlocked(c)
                     /\ UNCHANGED clock

\* bumpRunsHandled, still under the mutex: a statement of its own, which may fail.
BumpResult(c) ==
    /\ Under(c, "result", "bump")
    /\ IF calls[c].bump
       THEN /\ NoWriter
            /\ Publish(c, WorkerUpdate(db, NameEQ(db, calls[c].arg.w), BumpChange), Idle)
            /\ writeMu' = Unlocked(c)
            /\ UNCHANGED clock
       ELSE Return(c)

UpsertWorker(w) ==
    /\ LockedStatement(WorkerUpsert(db, w, SeenChange(w), "now"))
    /\ UNCHANGED clock

\* A worker's last_seen falls behind the cutoff.  It is an age, not a write: it
\* shows in every copy of the tables.  A sweep under way keeps its own cutoff.
Aged(d, w) ==
    IF w \in DOMAIN d.workers
    THEN [d EXCEPT !.workers[w].last_seen = "stale"] ELSE d

GoStale(w) ==
    /\ w \in DOMAIN db.workers /\ db.workers[w].last_seen = "fresh"
    /\ \A c \in Call : calls[c].op # "sweep"
    /\ db' = Aged(db, w)
    /\ calls' = [c \in Call |-> IF calls[c].open THEN [calls[c] EXCEPT !.work = Aged(@, w)]
                                          ELSE calls[c]]
    /\ UNCHANGED <<writeMu, clock>>

-----------------------------------------------------------------------------
(* The sweeper: two statements under the mutex. *)

\* A tick while nothing is claimed is left out: its statement would find nothing.
LockSweep(c) ==
    /\ calls[c].op = "idle" /\ "sweep" \in Serves[c]
    /\ StatusIn(db, {"claimed"}) # {}
    /\ Free
    /\ writeMu' = c
    /\ calls' = [calls EXCEPT ![c] = [Idle EXCEPT !.op = "sweep", !.at = "update",
                                                  !.read = FreshNames(db)]]
    /\ UNCHANGED <<db, clock>>

\* The NOT IN clause is added only when the list is not empty.
Sweepable(d, fresh) ==
    StatusIn(d, {"claimed"})
        \cap (IF fresh = {} THEN DOMAIN d.runs ELSE WorkerIDNotIn(d, fresh))

UpdateSweep(c) ==
    /\ Under(c, "sweep", "update")
    /\ NoWriter
    /\ Publish(c, RunUpdate(db, Sweepable(db, calls[c].read), SweepChange), Idle)
    /\ writeMu' = Unlocked(c)
    /\ UNCHANGED clock

-----------------------------------------------------------------------------
(* The operator's one-statement handlers. *)

CancelSubmission(s) ==
    /\ LockedStatement(RunUpdate(db, Cancellable(db, s), CancelChange))
    /\ UNCHANGED clock

CancelRun(r) ==
    /\ LockedStatement(RunUpdate(db, {r} \cap StatusIn(db, InFlight), CancelChange))
    /\ UNCHANGED clock

RetrySubmission(s) ==
    /\ LockedStatement(RunUpdate(db, Retryable(db, s), RetryChange))
    /\ UNCHANGED clock

\* Only a statement that finds a row uses up a stamp.
PrioritizeSubmission(s) ==
    LET waiting == HasSubmission(db, s) \cap StatusIn(db, {"pending"}) IN
    /\ waiting # {}
    /\ clock < MaxClock
    /\ clock' = clock + 1
    /\ LockedStatement(RunUpdate(db, waiting, PriorityChange(clock')))

-----------------------------------------------------------------------------
(* The two fan-outs. *)

\* The suites are read before any lock or transaction.
ReadForFanOut(c, op, at, s, U) ==
    /\ calls[c].op = "idle" /\ op \in Serves[c]
    /\ U # {} /\ U \subseteq DOMAIN SuitesIn(db, U)      \* else 400
    /\ calls' = [calls EXCEPT ![c] =
          [Idle EXCEPT !.op = op, !.at = at, !.arg = s, !.read = SuitesIn(db, U), !.todo = U]]
    /\ UNCHANGED <<db, writeMu, clock>>

BeginCreate(c, s, U) ==
    /\ s \notin DOMAIN db.submissions
    /\ \A d \in Call : ~(calls[d].op = "create" /\ calls[d].arg = s)
    /\ ReadForFanOut(c, "create", "insert", s, U)

\* Variant: createSubmission writes without a transaction.
InsertSubmissionAlone(c) ==
    /\ Under(c, "create", "insert")
    /\ NoWriter /\ clock < MaxClock
    /\ LET new == SubmissionCreate(db, calls[c].arg, UploadedArtifact, clock + 1)
       IN Publish(c, new, [calls[c] EXCEPT !.at = "fan"])
    /\ UNCHANGED <<writeMu, clock>>

\* The submission's row is the first statement of the transaction.
InsertSubmission(c) ==
    /\ Under(c, "create", "insert")
    /\ NoWriter /\ clock < MaxClock
    /\ LET new == SubmissionCreate(db, calls[c].arg, UploadedArtifact, clock + 1)
       IN /\ new # NULL
          /\ calls' = [calls EXCEPT ![c].open = TRUE, ![c].work = new, ![c].wrote = TRUE,
                                    ![c].at = "fan"]
    /\ UNCHANGED <<db, writeMu, clock>>

BeginReevaluate(c, s, U) ==
    /\ SubmissionGet(db, s) # NULL               \* else 404
    /\ ReadForFanOut(c, "reevaluate", "lock", s, U)

LockReevaluate(c) ==
    /\ Under(c, "reevaluate", "lock")
    /\ Free
    /\ writeMu' = c
    /\ calls' = [calls EXCEPT ![c].at = "fan"]
    /\ UNCHANGED <<db, clock>>

\* One suite of the loop: its rows, then its seal.
FanOut(c) ==
    /\ calls[c].at = "fan"
    /\ ~calls[c].open => NoWriter /\ clock < MaxClock
    /\ \E u \in calls[c].todo :
         LET d == IF calls[c].open THEN calls[c].work ELSE db
             unused == {r \in Run \ DOMAIN d.runs :
                           SubmissionOf[r] = calls[c].arg /\ SuiteOf[r] = u}
         IN \E ids \in kSubset(calls[c].read[u].seeds, unused) :
              LET rows == InsertRuns(d, calls[c].arg, u, [r \in ids |-> "text"], clock + 1)
                  new == Seal(rows, u, calls[c].read[u])
              IN /\ new # NULL
                 /\ calls' = [calls EXCEPT ![c].open = TRUE, ![c].work = new,
                                           ![c].wrote = TRUE, ![c].todo = @ \ {u},
                                           ![c].at = IF calls[c].todo = {u} THEN "commit" ELSE @]
    /\ UNCHANGED <<db, writeMu, clock>>

Commit(c) ==
    /\ calls[c].at = "commit"
    /\ clock' = clock + 1
    /\ Publish(c, calls[c].work, Idle)
    /\ writeMu' = Unlocked(c)

-----------------------------------------------------------------------------
(* The committed tables, read as RunQueue's state.  A success whose counter   *)
(* statement will succeed counts from the update on: nobody who needs the      *)
(* mutex can tell.                                                             *)

NoRun == [status |-> "none", priority |-> 0, created |-> 0, worker |-> NoWorker,
          claimed |-> FALSE, started |-> FALSE, finished |-> FALSE,
          score |-> NoScore, error |-> FALSE, logs |-> FALSE]

RunRow(row) ==
    LET x == RunScan(row) IN
    [status |-> x.status, priority |-> x.priority, created |-> x.created_at,
     worker |-> IF x.worker_id = "" THEN NoWorker ELSE x.worker_id,
     claimed |-> x.claimed_at # NULL, started |-> x.started_at # NULL,
     finished |-> x.finished_at # NULL,
     score |-> IF x.score = NULL THEN NoScore ELSE x.score,
     error |-> x.error # "", logs |-> x.stdout # "" \/ x.stderr # ""]

Bumping(w) == \E c \in Call : calls[c].bump /\ calls[c].arg.w = w

AsQueue ==
    [runs |-> [r \in Run |-> IF r \in DOMAIN db.runs THEN RunRow(db.runs[r]) ELSE NoRun],
     sealed |-> {u \in DOMAIN db.suites : db.suites[u].sealed},
     lastSeen |-> [w \in Worker |-> IF w \notin DOMAIN db.workers THEN "never"
                                   ELSE IF Bumping(w) THEN "fresh"
                                   ELSE db.workers[w].last_seen],
     handled |-> [w \in Worker |-> IF w \notin DOMAIN db.workers THEN 0
                                   ELSE db.workers[w].runs_handled
                                          + (IF Bumping(w) THEN 1 ELSE 0)]]

-----------------------------------------------------------------------------
\* The database the process opens: a challenge and its suites, none used yet.
SuiteRow(u) ==
    Linking(Setting(NoChange, [name |-> "text", seeds |-> NumSeeds[u]]), [challenge |-> 1])

Opened ==
    LET challenge == Setting(NoChange,
                        [name |-> "text", version |-> "hash", manifest |-> "json",
                         bundle |-> "bytes", bundle_size |-> 1])
    IN Insert(ChallengeCreate(EmptyDatabase, 1, challenge, "now"), "suites",
              [u \in Suite |-> SuiteSpec(SuiteDefaults(SuiteRow(u), "now"))])

Init ==
    /\ db = Opened
    /\ writeMu = NULL
    /\ clock = 0
    /\ calls = [c \in Call |-> Idle]
    /\ queue = AsQueue

\* The next statement of a call under way.
Proceed(c) ==
    \/ UpdateClaim(c)
    \/ UpdateResult(c) \/ BumpResult(c)
    \/ UpdateSweep(c)
    \/ InsertSubmission(c) \/ LockReevaluate(c) \/ FanOut(c) \/ Commit(c)

Arrive(c) ==
    \/ LockSweep(c)
    \/ \E w \in Worker : LockClaim(c, w)
    \/ \E w \in Worker, r \in Run, b \in Posted : LockResult(c, w, r, b)
    \/ \E s \in Submission, U \in SUBSET Suite :
          BeginCreate(c, s, U) \/ BeginReevaluate(c, s, U)

Immediate ==
    \/ \E w \in Worker : UpsertWorker(w) \/ GoStale(w)
    \/ \E s \in Submission :
          CancelSubmission(s) \/ RetrySubmission(s) \/ PrioritizeSubmission(s)
    \/ \E r \in Run : CancelRun(r)

HNext ==
    /\ \/ Immediate
       \/ \E c \in Call : Arrive(c) \/ Proceed(c) \/ Fail(c)
    /\ queue' = AsQueue'

HSpec == Init /\ [][HNext]_hvars
-----------------------------------------------------------------------------
(* Properties. *)

\* The tables satisfy their constraints; the mutex belongs to a call under way;
\* and a transaction is open only in one.
HandlersTypeOK ==
    /\ DOMAIN db = DOMAIN Tables
    /\ Legal(db)
    /\ clock \in 0..MaxClock
    /\ writeMu # NULL => calls[writeMu].op \in {"claim", "result", "sweep", "reevaluate"}
    /\ \A c \in Call : calls[c].wrote => calls[c].open
    /\ Cardinality({c \in Call : calls[c].wrote}) <= 1

\* Nobody ever sees a submission without its runs, whichever statement of the
\* fan-out fails (persistSubmission: "partial failure doesn't leave a submission
\* with missing runs").
WholeSubmissions == \A s \in DOMAIN db.submissions : LoadRuns(db, s) # {}

\* handleClaim builds its answer after the commit from the rows its query
\* loaded, with no check for nil: a row without them would leave a run claimed
\* by a worker that was told nothing.  cloneSuite and the pages take the same
\* edges from the committed tables: a suite without its challenge would end the
\* clone in a panic, a run without its suite or submission be shown as one of
\* suite 0 and nobody's.
EdgesAreLoaded ==
    /\ \A c \in Call :
          Under(c, "claim", "update") =>
              LET run == RunWithEdges(calls[c].work, calls[c].read) IN
              /\ run.submission # {}
              /\ \E suite \in run.suite : suite.challenge # {}
    /\ \A u \in DOMAIN db.suites :
          /\ SuiteDetail(db, u).challenge # {}
          /\ \A r \in HasSuite(db, u) : ExportRows(db, u)[r].submission # {}
    /\ \A s \in DOMAIN db.submissions : \A r \in LoadRuns(db, s) :
          /\ SubmissionDetail(db, s)[r].suite_id \in DOMAIN db.suites
          /\ \E owner \in RunDetail(db, r).submission : owner = SubmissionGet(db, s)

\* Every step of the handlers is a step of RunQueue or none: the critical
\* sections, transactions and guards make each handler one step to the others.
Queue == INSTANCE RunQueue WITH runs <- queue.runs, sealed <- queue.sealed,
                                lastSeen <- queue.lastSeen, handled <- queue.handled

QueueSpec == Queue!Spec

\* Workers post what their clients build.
ASSUME PostedAssumption == Posted \subseteq Queue!Bodies
=============================================================================
