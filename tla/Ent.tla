-------------------------------- MODULE Ent --------------------------------
(***************************************************************************)
(* The generated data layer (src/ent) as the handlers use it: mutations,   *)
(* the checks a builder makes before it saves, the statements it issues,   *)
(* the constraints of the five tables and what a query reads back.         *)
(*                                                                         *)
(* A database maps a table's name to its rows, a row id to a row, a        *)
(* column to a value.  A builder collects a mutation: columns to set, to   *)
(* add to and to clear, and edges to other rows, call by call of its       *)
(* methods.  A statement returns the new database, or NULL when the        *)
(* builder or the database refuses it.  A value is as concrete as the      *)
(* handlers' branches need: a text is "" or not, a JSON list is its        *)
(* length.  The SQL engine itself is external code.                        *)
(***************************************************************************)
EXTENDS Integers, FiniteSets, TLC

CONSTANT NULL    \* SQL's null, Go's nil, and the answer of a refused statement

RunStatuses == {"pending", "claimed", "running", "succeeded", "failed",
                "timed_out", "cancelled"}

\* What stands for the other texts, times, JSON values and byte strings.
Opaque == {"", "text", "hash", "json", "bytes", "now", "fresh", "stale"}

ASSUME NullAssumption == NULL \notin RunStatuses \cup Opaque \cup Int \cup BOOLEAN

\* f, and what g adds to it.
f ++ g == [x \in DOMAIN f \cup DOMAIN g |-> IF x \in DOMAIN f THEN f[x] ELSE g[x]]

-----------------------------------------------------------------------------
(* Mutations: the columns of each table, and what the methods of a typed     *)
(* mutation do with them.                                                    *)

NoChange == [set |-> <<>>, add |-> <<>>, clear |-> {}, edge |-> <<>>]

\* When the row was made; no update sets it.
Stamp == {"created_at"}

ChallengeKey == {"name", "version"}
ChallengeContent == {"description", "manifest", "bundle"}
ChallengeSize == {"bundle_size"}
ChallengeFields == ChallengeKey \cup ChallengeContent \cup ChallengeSize \cup Stamp
ChallengeOptional == {"description"}

RunQueueing == {"seed", "status", "priority"}
RunOutcome == {"score", "result"}
RunText == {"error", "stdout", "stderr"}
RunClaim == {"worker_id", "claimed_at"}
RunTimes == {"started_at", "finished_at"}
RunEdges == {"submission", "suite"}
\* The columns with a Clear method.
RunOptional == RunOutcome \cup RunText \cup RunClaim \cup RunTimes
RunFields == RunQueueing \cup RunOptional \cup Stamp
RunAddable == {"priority", "score"}

SubmissionNaming == {"name", "submitter"}
SubmissionArtifact == {"artifact_name", "artifact", "artifact_size"}
SubmissionDigest == {"artifact_sha256"}
SubmissionFields ==
    SubmissionNaming \cup SubmissionArtifact \cup SubmissionDigest \cup Stamp
SubmissionOptional == SubmissionNaming \cup SubmissionDigest

SuiteNaming == {"name", "description"}
SuiteInputs == {"parameters", "seeds"}
SuiteJudging == {"timeout_seconds", "scoring"}
SuiteState == {"sealed"} \cup Stamp
SuiteChallenge == {"challenge"}
SuiteParent == {"parent"}
SuiteFields == SuiteNaming \cup SuiteInputs \cup SuiteJudging \cup SuiteState
SuiteOptional == {"description", "parameters", "scoring"}

WorkerIdentity == {"name", "last_seen"}
WorkerTally == {"runs_handled"}
WorkerFields == WorkerIdentity \cup WorkerTally \cup Stamp

\* The columns with an Add method.
Numbers ==
    RunAddable \cup ChallengeSize \cup {"artifact_size", "timeout_seconds"} \cup WorkerTally

Without(f, C) == [c \in DOMAIN f \ C |-> f[c]]

\* SetX drops what was to be added; a builder resets a number before it sets it,
\* and with it the mark that it is to be cleared.
Setting(m, values) ==
    [m EXCEPT !.set = values ++ @,
              !.add = Without(@, DOMAIN values),
              !.clear = @ \ (Numbers \cap DOMAIN values)]

\* AddX: additions add up.
Adding(m, values) ==
    [m EXCEPT !.add = [c \in DOMAIN @ \cup DOMAIN values |->
                          (IF c \in DOMAIN @ THEN @[c] ELSE 0)
                             + (IF c \in DOMAIN values THEN values[c] ELSE 0)]]

\* ClearX
Clearing(m, C) ==
    [m EXCEPT !.set = Without(@, C), !.add = Without(@, C), !.clear = @ \cup C]

\* SetXID
Linking(m, edges) == [m EXCEPT !.edge = edges ++ @]

\* A builder's defaults fill in only what the caller has not set.
Default(m, defaults) == [m EXCEPT !.set = @ ++ defaults]

Present(m, columns) == columns \subseteq DOMAIN m.set
NotEmpty(m, columns) == \A c \in columns \cap DOMAIN m.set : m.set[c] # ""
NotNegative(m, columns) == \A c \in columns \cap DOMAIN m.set : m.set[c] >= 0

-----------------------------------------------------------------------------
(* Tables: columns that may not be null, columns that refer to another       *)
(* table, and sets of columns no two rows may agree on.                      *)

\* Variant: the table has no unique index.
ChallengesNoIndex ==
    [columns |-> ChallengeFields, notNull |-> ChallengeFields \ ChallengeOptional,
     refs |-> <<>>, unique |-> {}]

ChallengesTable ==
    [columns |-> ChallengeFields, notNull |-> ChallengeFields \ ChallengeOptional,
     refs |-> <<>>, unique |-> {ChallengeKey}]

RunsTable ==
    LET refs == [submission_runs |-> "submissions", suite_runs |-> "suites"] IN
    [columns |-> RunFields \cup DOMAIN refs,
     notNull |-> (RunFields \ RunOptional) \cup DOMAIN refs,
     refs |-> refs, unique |-> {}]

SubmissionsTable ==
    [columns |-> SubmissionFields, notNull |-> SubmissionFields \ SubmissionOptional,
     refs |-> <<>>, unique |-> {}]

SuitesTable ==
    LET refs == [challenge_suites |-> "challenges", suite_clones |-> "suites"] IN
    [columns |-> SuiteFields \cup DOMAIN refs,
     notNull |-> (SuiteFields \ SuiteOptional) \cup {"challenge_suites"},
     refs |-> refs, unique |-> {}]

WorkersTable ==
    [columns |-> WorkerFields, notNull |-> WorkerFields,
     refs |-> <<>>, unique |-> {{"name"}}]

Tables == [challenges |-> ChallengesTable, runs |-> RunsTable,
           submissions |-> SubmissionsTable, suites |-> SuitesTable,
           workers |-> WorkersTable]

EmptyDatabase == [t \in DOMAIN Tables |-> <<>>]

-----------------------------------------------------------------------------
(* The SQL engine: one statement over a snapshot. *)

LegalRow(db, t, i) ==
    LET T == Tables[t]
        row == db[t][i] IN
    /\ \A c \in T.notNull : row[c] # NULL
    /\ \A c \in DOMAIN T.refs : row[c] \in {NULL} \cup DOMAIN db[T.refs[c]]
    /\ \A key \in T.unique, j \in DOMAIN db[t] \ {i} :
          \E c \in key : row[c] # db[t][j][c]

Legal(db) == \A t \in DOMAIN Tables : \A i \in DOMAIN db[t] : LegalRow(db, t, i)

\* The answer of a statement that wrote the rows in ids.
Checked(db, t, ids) == IF \A i \in ids : LegalRow(db, t, i) THEN db ELSE NULL

\* INSERT, one or the several of a loop: rows gives each new id its values, and
\* columns the statement does not name are null.
Insert(db, t, rows) ==
    LET new(values) == [c \in Tables[t].columns |->
                           IF c \in DOMAIN values THEN values[c] ELSE NULL]
    IN Checked([db EXCEPT ![t] = [i \in DOMAIN rows |-> new(rows[i])] ++ @], t, DOMAIN rows)

InsertOne(db, t, id, values) == Insert(db, t, [i \in {id} |-> values])

\* UPDATE of the rows in ids: only the columns of the mutation are written.
UpdateRows(db, t, ids, m) ==
    LET new(row, c) ==
            IF c \in DOMAIN m.set THEN m.set[c]
            ELSE IF c \in DOMAIN m.add
                 THEN IF row[c] = NULL THEN m.add[c] ELSE row[c] + m.add[c]
            ELSE IF c \in m.clear THEN NULL ELSE row[c]
        rows == [i \in DOMAIN db[t] |->
                    IF i \in ids THEN [c \in Tables[t].columns |-> new(db[t][i], c)]
                                 ELSE db[t][i]]
    IN Checked([db EXCEPT ![t] = rows], t, ids)

-----------------------------------------------------------------------------
(* Create builders: defaults, check, the columns and foreign keys of the     *)
(* INSERT (createSpec), and the save.                                        *)

ChallengeDefaults(m, now) == Default(m, [created_at |-> now])

ChallengeCheck(m) ==
    /\ Present(m, ChallengeFields \ ChallengeOptional)
    /\ NotEmpty(m, ChallengeKey)
    /\ NotNegative(m, ChallengeSize)

ChallengeSpec(m) == [c \in ChallengeFields \cap DOMAIN m.set |-> m.set[c]]

ChallengeSave(db, id, m) ==
    IF ChallengeCheck(m) THEN InsertOne(db, "challenges", id, ChallengeSpec(m)) ELSE NULL

ChallengeCreate(db, id, m, now) == ChallengeSave(db, id, ChallengeDefaults(m, now))

RunDefaults(m, now) ==
    Default(m, [status |-> "pending", priority |-> 0, created_at |-> now])

RunCheck(m) ==
    /\ Present(m, RunQueueing \cup Stamp)
    /\ NotEmpty(m, {"seed"})
    /\ m.set.status \in RunStatuses
    /\ RunEdges \subseteq DOMAIN m.edge

RunSpec(m) ==
    [c \in RunFields \cap DOMAIN m.set |-> m.set[c]]
        ++ [submission_runs |-> m.edge.submission, suite_runs |-> m.edge.suite]

\* A loop of creates gives each new id its mutation; one that fails ends it.
RunSave(db, ms) ==
    IF \A id \in DOMAIN ms : RunCheck(ms[id])
    THEN Insert(db, "runs", [id \in DOMAIN ms |-> RunSpec(ms[id])]) ELSE NULL

RunCreate(db, ms, now) == RunSave(db, [id \in DOMAIN ms |-> RunDefaults(ms[id], now)])

SubmissionDefaults(m, now) == Default(m, [created_at |-> now])

SubmissionCheck(m) ==
    /\ Present(m, SubmissionFields \ SubmissionOptional)
    /\ NotEmpty(m, {"artifact_name"})
    /\ NotNegative(m, {"artifact_size"})

SubmissionSpec(m) == [c \in SubmissionFields \cap DOMAIN m.set |-> m.set[c]]

SubmissionSave(db, id, m) ==
    IF SubmissionCheck(m) THEN InsertOne(db, "submissions", id, SubmissionSpec(m)) ELSE NULL

SubmissionCreate(db, id, m, now) == SubmissionSave(db, id, SubmissionDefaults(m, now))

SuiteDefaults(m, now) ==
    Default(m, [timeout_seconds |-> 3600, sealed |-> FALSE, created_at |-> now])

SuiteCheck(m) ==
    /\ Present(m, SuiteFields \ SuiteOptional)
    /\ NotEmpty(m, {"name"})
    /\ m.set.timeout_seconds > 0
    /\ SuiteChallenge \subseteq DOMAIN m.edge

SuiteSpec(m) ==
    [c \in SuiteFields \cap DOMAIN m.set |-> m.set[c]]
        ++ [challenge_suites |-> m.edge.challenge,
            suite_clones |-> IF SuiteParent \subseteq DOMAIN m.edge
                             THEN m.edge.parent ELSE NULL]

SuiteSave(db, id, m) ==
    IF SuiteCheck(m) THEN InsertOne(db, "suites", id, SuiteSpec(m)) ELSE NULL

SuiteCreate(db, id, m, now) == SuiteSave(db, id, SuiteDefaults(m, now))

WorkerDefaults(m, now) ==
    Default(m, [last_seen |-> now, runs_handled |-> 0, created_at |-> now])

WorkerCheck(m) ==
    /\ Present(m, WorkerFields)
    /\ NotEmpty(m, {"name"})
    /\ NotNegative(m, WorkerTally)

WorkerSpec(m) == [c \in WorkerFields \cap DOMAIN m.set |-> m.set[c]]

WorkerSave(db, id, m) ==
    IF WorkerCheck(m) THEN InsertOne(db, "workers", id, WorkerSpec(m)) ELSE NULL

WorkerCreate(db, id, m, now) == WorkerSave(db, id, WorkerDefaults(m, now))

\* UpdateLastSeen: the one column an upsert takes from the proposed row.
OnConflictUpdates(m) == {"last_seen"}

\* INSERT ... ON CONFLICT (name) DO UPDATE.
WorkerUpsert(db, id, m, now) ==
    LET d == WorkerDefaults(m, now)
        same == {i \in DOMAIN db.workers : db.workers[i].name = d.set.name}
        change == [NoChange EXCEPT !.set = [c \in OnConflictUpdates(d) |-> WorkerSpec(d)[c]]]
    IN IF ~WorkerCheck(d) THEN NULL
       ELSE IF same = {} THEN WorkerCreate(db, id, m, now)
       ELSE UpdateRows(db, "workers", same, change)

-----------------------------------------------------------------------------
(* Update builders.  created_at, and a submission's digest, are immutable:   *)
(* an update has no setter for them.                                         *)

RunContentSettable == RunQueueing \cup RunOutcome \cup RunText
RunProgressSettable == RunClaim \cup RunTimes
RunSettable == RunContentSettable \cup RunProgressSettable

RunUpdateCheck(m) ==
    /\ NotEmpty(m, {"seed"})
    /\ "status" \in DOMAIN m.set => m.set.status \in RunStatuses

RunUpdateSpec(m) ==
    [NoChange EXCEPT !.set = [c \in RunSettable \cap DOMAIN m.set |-> m.set[c]],
                     !.add = [c \in RunAddable \cap DOMAIN m.add |-> m.add[c]],
                     !.clear = m.clear \cap RunOptional]

\* Update().Where(...): every row the predicates select, in one statement.
RunUpdate(db, ids, m) ==
    IF RunUpdateCheck(m) THEN UpdateRows(db, "runs", ids, RunUpdateSpec(m)) ELSE NULL

\* UpdateOneID(id): a missing row is NotFound.
RunUpdateOne(db, id, m) ==
    IF id \in DOMAIN db.runs THEN RunUpdate(db, {id}, m) ELSE NULL

SuiteSettable == SuiteFields \ Stamp

SuiteUpdateCheck(m) ==
    /\ NotEmpty(m, {"name"})
    /\ "timeout_seconds" \in DOMAIN m.set => m.set.timeout_seconds > 0

\* The columns; the edges an update could also set, none of the handlers sets.
SuiteUpdateSpec(m) ==
    [NoChange EXCEPT !.set = [c \in SuiteSettable \cap DOMAIN m.set |-> m.set[c]],
                     !.clear = m.clear \cap SuiteOptional]

SuiteUpdateOne(db, id, m) ==
    IF id \in DOMAIN db.suites /\ SuiteUpdateCheck(m)
    THEN UpdateRows(db, "suites", {id}, SuiteUpdateSpec(m)) ELSE NULL

WorkerSettable == WorkerIdentity \cup WorkerTally

WorkerUpdateCheck(m) ==
    /\ NotEmpty(m, {"name"})
    /\ NotNegative(m, WorkerTally)

WorkerUpdateSpec(m) ==
    [NoChange EXCEPT !.set = [c \in WorkerSettable \cap DOMAIN m.set |-> m.set[c]],
                     !.add = [c \in WorkerTally \cap DOMAIN m.add |-> m.add[c]]]

WorkerUpdate(db, ids, m) ==
    IF WorkerUpdateCheck(m) THEN UpdateRows(db, "workers", ids, WorkerUpdateSpec(m)) ELSE NULL

-----------------------------------------------------------------------------
(* Queries.  A scan gives each field the zero value of its Go type where the *)
(* column is null: a text becomes "", a pointer or a map stays nil.          *)

Scan(row, fields, texts) ==
    [c \in fields |-> IF row[c] = NULL /\ c \in texts THEN "" ELSE row[c]]

ChallengeScan(row) == Scan(row, ChallengeFields, ChallengeKey \cup {"description"})
RunScan(row) == Scan(row, RunFields, {"seed", "worker_id"} \cup RunText)
SubmissionScan(row) ==
    Scan(row, SubmissionFields, SubmissionNaming \cup SubmissionDigest \cup {"artifact_name"})
SuiteScan(row) == Scan(row, SuiteFields, SuiteNaming)

\* Get(id) and Query().Where(...).Only(): nil stands for NotFound.
ChallengeGet(db, id) ==
    IF id \in DOMAIN db.challenges THEN ChallengeScan(db.challenges[id]) ELSE NULL
SubmissionGet(db, id) ==
    IF id \in DOMAIN db.submissions THEN SubmissionScan(db.submissions[id]) ELSE NULL

RunGet(db, id) == IF id \in DOMAIN db.runs THEN RunScan(db.runs[id]) ELSE NULL

\* Order(...).First: any of the rows that none is ahead of.
First(ids, Ahead(_, _)) == {i \in ids : \A j \in ids : ~Ahead(j, i)}

ChallengesOf(db, name, version) ==
    {i \in DOMAIN db.challenges : /\ db.challenges[i].name = name
                                  /\ db.challenges[i].version = version}

\* Only fails on several rows as it does on none.
ChallengeOnly(db, name, version) ==
    LET ids == ChallengesOf(db, name, version)
    IN CASE ids = {}              -> "not found"
         [] Cardinality(ids) = 1  -> "found"
         [] OTHER                 -> "not singular"

\* WithChallenge, WithSuite, WithSubmission: the row an edge's column names.  An
\* edge holds the rows its query found, one or, where Go has nil, none.
LoadChallenge(db, row) ==
    {ChallengeScan(db.challenges[i]) : i \in {row.challenge_suites} \cap DOMAIN db.challenges}

SuiteWithChallenge(db, id) ==
    SuiteScan(db.suites[id]) ++ [challenge |-> LoadChallenge(db, db.suites[id])]

\* Variant: the run's query does not ask for its suite's challenge.
LoadSuiteAlone(db, row) ==
    {SuiteScan(db.suites[i]) ++ [challenge |-> {}] :
        i \in {row.suite_runs} \cap DOMAIN db.suites}

LoadSuite(db, row) ==
    {SuiteWithChallenge(db, i) : i \in {row.suite_runs} \cap DOMAIN db.suites}
LoadSubmission(db, row) ==
    {SubmissionScan(db.submissions[i]) :
        i \in {row.submission_runs} \cap DOMAIN db.submissions}
RunWithEdges(db, id) ==
    RunScan(db.runs[id]) ++ [suite |-> LoadSuite(db, db.runs[id]),
                             submission |-> LoadSubmission(db, db.runs[id])]
\* WithRuns.
LoadRuns(db, submission) ==
    {i \in DOMAIN db.runs : db.runs[i].submission_runs = submission}

\* Submission.Query().All().
AllSubmissions(db) == [s \in DOMAIN db.submissions |-> SubmissionScan(db.submissions[s])]

\* Suite.Query().Where(IDIn(ids)).All(): the suites that exist, as they are read.
SuitesIn(db, ids) == [i \in ids \cap DOMAIN db.suites |-> SuiteScan(db.suites[i])]

\* Predicates.
StatusIn(db, S) == {i \in DOMAIN db.runs : db.runs[i].status \in S}
HasSubmission(db, s) == LoadRuns(db, s)
HasSuite(db, u) == {i \in DOMAIN db.runs : db.runs[i].suite_runs = u}
\* SQL's NOT IN is not true of a null.
WorkerIDNotIn(db, names) ==
    {i \in DOMAIN db.runs : db.runs[i].worker_id \notin {NULL} \cup names}
NameEQ(db, name) == {i \in DOMAIN db.workers : db.workers[i].name = name}
FreshNames(db) ==
    {db.workers[i].name : i \in {j \in DOMAIN db.workers : db.workers[j].last_seen = "fresh"}}
=============================================================================
