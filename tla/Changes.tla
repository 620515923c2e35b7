-------------------------------- MODULE Changes --------------------------------
(***************************************************************************)
(* What the handlers ask of the data layer: the mutation each of them      *)
(* builds, the rows a fan-out inserts, and what the pages of one row load. *)
(* Handlers issues them statement by statement, Console as whole           *)
(* transactions.                                                           *)
(***************************************************************************)
EXTENDS Ent, FiniteSetsExt

CONSTANT NoScore    \* a result body without a score

InFlight == {"pending", "claimed", "running"}

ClaimChange(w) ==
    Setting(NoChange, [status |-> "claimed", worker_id |-> w, claimed_at |-> "now"])

\* The update's columns depend on which fields the body carries.
ResultChange(b) ==
    LET given(present, columns) == IF present THEN columns ELSE <<>>
    IN Setting(NoChange,
          [status |-> b.status, finished_at |-> "now"]
            ++ given(b.score # NoScore, [score |-> b.score, result |-> "json"])
            ++ given(b.error, [error |-> "text"])
            ++ given(b.started, [started_at |-> "now"])
            ++ given(b.logs, [stdout |-> "text", stderr |-> "text"]))

SweepChange ==
    Clearing(Setting(NoChange, [status |-> "pending", worker_id |-> ""]), {"claimed_at"})

CancelChange == Setting(NoChange, [status |-> "cancelled", finished_at |-> "now"])

RetryChange ==
    Clearing(Setting(NoChange, [status |-> "pending", worker_id |-> "", error |-> ""]),
             {"claimed_at", "started_at", "finished_at", "score", "result"})

PriorityChange(p) == Setting(NoChange, [priority |-> p])

\* bumpRunsHandled
BumpChange == Setting(Adding(NoChange, [runs_handled |-> 1]), [last_seen |-> "fresh"])

\* A poll's upsert.
SeenChange(w) == Setting(NoChange, [name |-> w, last_seen |-> "fresh"])

Cancellable(db, s) == HasSubmission(db, s) \cap StatusIn(db, InFlight)
Retryable(db, s) == HasSubmission(db, s) \cap StatusIn(db, {"failed", "timed_out", "cancelled"})

UploadedArtifact ==
    Setting(NoChange,
        [name |-> "text", submitter |-> "", artifact_name |-> "text",
         artifact |-> "bytes", artifact_size |-> 1, artifact_sha256 |-> "hash"])

NewRun(s, u, seed) ==
    Linking(Setting(NoChange, [seed |-> seed]), [submission |-> s, suite |-> u])

\* One row for each seed of the suite; seedOf gives the new ids their seeds.
InsertRuns(d, s, u, seedOf, now) ==
    IF d = NULL THEN NULL
    ELSE RunCreate(d, [r \in DOMAIN seedOf |-> NewRun(s, u, seedOf[r])], now)

SealChange == Setting(NoChange, [sealed |-> TRUE])

\* The seal follows the suite as it was read, not as it is.
Seal(d, u, asRead) ==
    IF d = NULL \/ asRead.sealed THEN d
    ELSE SuiteUpdateOne(d, u, SealChange)

-----------------------------------------------------------------------------
(* The pages and the export: each is one query with its edges. *)

SuiteDetail(d, u) == SuiteWithChallenge(d, u)

\* NULL stands for the 0 shown when the edge was not loaded.
SuiteIDFromRun(d, r) ==
    IF d.runs[r].suite_runs \in DOMAIN d.suites THEN d.runs[r].suite_runs ELSE NULL

RunSummary(d, r) ==
    LET run == RunScan(d.runs[r]) IN
    [c \in {"seed", "status", "score", "error"} \cup RunTimes \cup Stamp |-> run[c]]
        ++ [suite_id |-> SuiteIDFromRun(d, r)]

RunDetail(d, r) ==
    LET run == RunScan(d.runs[r]) IN
    [c \in RunClaim \cup {"result", "stdout", "stderr"} |-> run[c]]
        ++ [submission |-> LoadSubmission(d, d.runs[r])] ++ RunSummary(d, r)

SubmissionDetail(d, s) == [r \in LoadRuns(d, s) |-> RunSummary(d, r)]

ExportRow(d, r, suiteID) ==
    [suite_id |-> suiteID, submission |-> LoadSubmission(d, d.runs[r])] ++ RunSummary(d, r)

ExportRows(d, u) == [r \in HasSuite(d, u) |-> ExportRow(d, r, u)]
=============================================================================
