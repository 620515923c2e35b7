-------------------------------- MODULE Console --------------------------------
(***************************************************************************)
(* What the operator does and sees: challenges are registered, suites      *)
(* created and cloned, submissions made and judged, and meanwhile the      *)
(* readers answer.  A transaction is one step (Handlers shows that the     *)
(* others cannot tell); a reader that issues several statements, and a     *)
(* registration, which checks before it inserts, go statement by           *)
(* statement.  Rows have the numbers SQLite gives them, so that a later    *)
(* row has a later created_at.                                             *)
(***************************************************************************)
EXTENDS Scoreboard, Changes

CONSTANTS
    SeedLists,     \* the seed lists an operator types in
    Posted,        \* the result bodies workers send
    Call,          \* the calls and register-challenge processes at a time
    Serves,        \* bound: what each of them runs
    MaxSuites, MaxSubmissions, MaxRuns,    \* bounds on the rows
    MaxCreated,    \* bound: later suites are clones
    RetryBelow     \* bound: runs are retried while there are fewer than this

ASSUME SeedListsAssumption == SeedLists \subseteq Seq(STRING)
ASSUME PostedAssumption == \A b \in Posted : b.score \in Int \cup {NoScore}

VARIABLES
    db,        \* the committed tables
    calls      \* the reads and registrations under way

cvars == <<db, calls>>

Idle == [op |-> "idle", seen |-> <<>>]

NextID(t) == Cardinality(DOMAIN db[t]) + 1
Commit(new) == new # NULL /\ db' = new /\ UNCHANGED calls

\* Variant: what a call has read outlives it.
ReturnKeeping(c) == calls' = [calls EXCEPT ![c].op = "idle"]

Return(c) == calls' = [calls EXCEPT ![c] = Idle]

-----------------------------------------------------------------------------
(* register-challenge: a process of its own, without a transaction. *)

ChallengeRow ==
    Setting(NoChange, [name |-> "name", version |-> "hash", description |-> "",
                       manifest |-> "json", bundle |-> "bytes", bundle_size |-> 1])

\* A registered challenge is left as it is.
LookupChallenge(c) ==
    /\ calls[c] = Idle /\ "register" \in Serves[c]
    /\ ChallengeOnly(db, "name", "hash") = "not found"
    /\ calls' = [calls EXCEPT ![c].op = "register"]
    /\ UNCHANGED db

InsertChallenge(c) ==
    LET new == ChallengeCreate(db, NextID("challenges"), ChallengeRow, "now") IN
    /\ calls[c].op = "register"
    /\ db' = IF new = NULL THEN db ELSE new      \* else "insert: ... UNIQUE"
    /\ Return(c)

\* Bound: no suite is made while a registration is under way, which reads and
\* writes nothing but challenges.
NoneRegisters == \A c \in Call : calls[c].op # "register"

-----------------------------------------------------------------------------
(* Suites. *)

\* body is a POST's: timeout_seconds 0 stands for a missing one.
SuiteRequest(body) ==
    [name |-> body.name, description |-> "", seeds |-> body.seeds,
     timeout_seconds |-> IF body.timeout_seconds = 0 THEN 3600 ELSE body.timeout_seconds]

CreateSuite(k, body) ==
    /\ NextID("suites") <= MaxCreated
    /\ NoneRegisters
    /\ body.name # "" /\ body.seeds # <<>>       \* else 400
    /\ ChallengeGet(db, k) # NULL                \* else 400
    /\ Commit(SuiteCreate(db, NextID("suites"),
                          Linking(Setting(NoChange, SuiteRequest(body)),
                                  [challenge |-> k]), "now"))

\* Variant: the clone is an exact copy.
CloneSealed(src) ==
    [c \in {"description", "seeds", "timeout_seconds", "sealed"} |-> src[c]] ++ [name |-> "copy"]

\* The columns a clone takes over: not sealed, which starts at its default.
CloneRequest(src) ==
    [c \in {"description", "seeds", "timeout_seconds"} |-> src[c]] ++ [name |-> "copy"]

CloneSuite(u) ==
    /\ NextID("suites") <= MaxSuites
    /\ Commit(SuiteCreate(db, NextID("suites"),
                          Linking(Setting(NoChange, CloneRequest(SuiteWithChallenge(db, u))),
                                  [challenge |-> db.suites[u].challenge_suites,
                                   parent |-> u]), "now"))

-----------------------------------------------------------------------------
(* Submissions and their runs. *)

\* One suite of a fan-out: its rows in the order of its seeds, then its seal.
FanOut(d, s, u) ==
    LET first == Cardinality(DOMAIN d.runs)
        seeds == db.suites[u].seeds
        seedOf == [r \in first + 1 .. first + Len(seeds) |-> seeds[r - first]]
    IN Seal(InsertRuns(d, s, u, seedOf, "now"), u, db.suites[u])

FanOutOver(d, s, U) == FoldLeft(LAMBDA acc, u : FanOut(acc, s, u), d, ByID(U))

RoomFor(U) ==
    Cardinality(DOMAIN db.runs) + MapThenSumSet(LAMBDA u : Len(db.suites[u].seeds), U) <= MaxRuns

CreateSubmission(U) ==
    LET s == NextID("submissions") IN
    /\ s <= MaxSubmissions /\ U # {} /\ RoomFor(U)
    /\ Commit(FanOutOver(SubmissionCreate(db, s, UploadedArtifact, "now"), s, U))

Reevaluate(s, U) ==
    /\ U # {} /\ RoomFor(U)
    /\ Commit(FanOutOver(db, s, U))

\* A claim and the worker's report; what lies between shows as pending here.
Judge(r, b) ==
    LET claimed == RunUpdateOne(db, r, ClaimChange("worker")) IN
    /\ db.runs[r].status = "pending"
    /\ claimed # NULL
    /\ Commit(RunUpdateOne(claimed, r, ResultChange(b)))

Cancel(s) ==
    /\ Cancellable(db, s) # {}
    /\ Commit(RunUpdate(db, Cancellable(db, s), CancelChange))

Retry(s) ==
    /\ Cardinality(DOMAIN db.runs) < RetryBelow
    /\ Retryable(db, s) # {}
    /\ Commit(RunUpdate(db, Retryable(db, s), RetryChange))

-----------------------------------------------------------------------------
(* The readers that issue more than one statement, outside a transaction. *)

\* Rows as a query without ORDER BY returns them: by id.
RowsOf(ids) ==
    LET sorted == ByID(ids) IN
    Computed([i \in DOMAIN sorted |->
        LET run == RunScan(db.runs[sorted[i]]) IN
        [id |-> sorted[i], submission |-> db.runs[sorted[i]].submission_runs,
         seed |-> run.seed, status |-> run.status, score |-> run.score]])

OfSuite(u) == HasSuite(db, u)

\* What a statement returns, of the tables as they are when it runs.
Result(statement) ==
    CASE statement = "in_flight" ->
            [u \in {db.runs[r].suite_runs : r \in StatusIn(db, InFlight)} |->
                Cardinality(OfSuite(u) \cap StatusIn(db, InFlight))]
      [] statement = "suites" ->      \* each with whether it has a mean duration
            [u \in DOMAIN db.suites |-> OfSuite(u) \cap StatusIn(db, {"succeeded"}) # {}]
      [] statement = "submissions" -> AllSubmissions(db)
      [] statement = "counts" ->
            [s \in {db.runs[r].submission_runs : r \in DOMAIN db.runs} |->
                Counts([r \in LoadRuns(db, s) |-> RunScan(db.runs[r])])]

\* Variant: the suites are listed before their runs are counted.
QueueSuitesFirst == <<"suites", "in_flight">>

\* getQueue, as far as its pending runs.  The suites and then the durations of
\* each are statements of their own; they are taken as one.
QueueStatements == <<"in_flight", "suites">>

\* Variant: the counts are taken before the submissions are listed.
CountsFirst == <<"counts", "submissions">>

\* listSubmissions.
ListingStatements == <<"submissions", "counts">>

Statements(op) == IF op = "queue" THEN QueueStatements ELSE ListingStatements

\* The call's last statement: with it, and nothing else, the answer is made.
Answers(c) == /\ calls[c].op \in {"queue", "listing"}
              /\ Len(calls[c].seen) + 1 = Len(Statements(calls[c].op))

\* The next statement of a reader; the first begins the call.
Read(c, op) ==
    /\ op \in Serves[c]
    /\ calls[c] = Idle \/ calls[c].op = op
    /\ ~Answers(c)
    /\ LET seen == calls[c].seen IN
       calls' = [calls EXCEPT ![c] =
                    [op |-> op, seen |-> Append(seen, Result(Statements(op)[Len(seen) + 1]))]]
    /\ UNCHANGED db

Answer(c) == Answers(c) /\ Return(c) /\ UNCHANGED db

\* What a statement of the call has read, or, if it is the last one, reads now.
Seen(c, statement) ==
    LET i == SelectInSeq(Statements(calls[c].op), LAMBDA x : x = statement) IN
    IF i \in DOMAIN calls[c].seen THEN calls[c].seen[i] ELSE Result(statement)

PendingOf(inFlight, u) == IF u \in DOMAIN inFlight THEN inFlight[u] ELSE 0

\* A suite with nothing pending and no mean duration is left out.
QueueAnswer(c) ==
    LET inFlight == Seen(c, "in_flight")
        shown == {u \in DOMAIN Seen(c, "suites") :
                     PendingOf(inFlight, u) # 0 \/ Seen(c, "suites")[u]}
    IN [pending_total |-> SumFunction(inFlight),
        by_suite |-> [u \in shown |-> PendingOf(inFlight, u)]]

\* A submission the counts do not know keeps the zero counts.
ListingAnswer(c) ==
    [s \in DOMAIN Seen(c, "submissions") |->
        IF s \in DOMAIN Seen(c, "counts") THEN Seen(c, "counts")[s] ELSE Counts(<<>>)]

-----------------------------------------------------------------------------
Init ==
    /\ db = EmptyDatabase
    /\ calls = [c \in Call |-> Idle]

Bodies == [name : {"", "text"}, seeds : SeedLists \cup {<<>>}, timeout_seconds : {0}]

Next ==
    \/ \E c \in Call : LookupChallenge(c) \/ InsertChallenge(c)
    \/ \E k \in DOMAIN db.challenges, body \in Bodies : CreateSuite(k, body)
    \/ \E u \in DOMAIN db.suites : CloneSuite(u)
    \/ \E U \in SUBSET DOMAIN db.suites : CreateSubmission(U)
    \/ \E s \in DOMAIN db.submissions, U \in SUBSET DOMAIN db.suites : Reevaluate(s, U)
    \/ \E r \in DOMAIN db.runs, b \in Posted : Judge(r, b)
    \/ \E s \in DOMAIN db.submissions : Cancel(s) \/ Retry(s)
    \/ \E c \in Call : Answer(c) \/ \E op \in {"queue", "listing"} : Read(c, op)

Spec == Init /\ [][Next]_cvars
-----------------------------------------------------------------------------
(* Properties. *)

\* The tables satisfy their constraints, a call has read no more than it reads, and
\* a call that has ended nothing.
ConsoleTypeOK ==
    /\ DOMAIN db = DOMAIN Tables
    /\ Legal(db)
    /\ \A c \in Call : calls[c].op \in {"idle", "register", "queue", "listing"}
                       /\ Len(calls[c].seen) = (IF calls[c].op \in {"queue", "listing"} THEN 1 ELSE 0)

\* register-challenge checks and inserts in two statements and takes no lock;
\* still a name and version are registered once, so that the lookup never finds
\* two (where Only fails) and a suite's challenge is not a matter of chance.
OneChallengePerVersion == ChallengeOnly(db, "name", "hash") # "not singular"

\* A suite is sealed by its first runs and by nothing else: a clone, "the
\* supported way to edit a sealed suite", starts open however often its parent
\* has been used.
SealedIffUsed == \A u \in DOMAIN db.suites : db.suites[u].sealed <=> OfSuite(u) # {}

\* /submissions: the rows and the counts are two statements, with anything
\* committed in between; still every submission listed has its runs counted,
\* each under one heading.
ListingIsWhole ==
    \A c \in Call : Answers(c) /\ calls[c].op = "listing" =>
        \A s \in DOMAIN ListingAnswer(c) :
            LET n == ListingAnswer(c)[s] IN
            /\ n.total > 0
            /\ n.total = n.succeeded + n.failed + n.timed_out + n.cancelled + n.pending

\* GET /api/queue: the total and the suites come of different statements; still
\* the pending runs of the suites shown add up to the total shown.
QueueAddsUp ==
    \A c \in Call : Answers(c) /\ calls[c].op = "queue" =>
        SumFunction(QueueAnswer(c).by_suite) = QueueAnswer(c).pending_total

Submitted(u) == {db.runs[r].submission_runs : r \in OfSuite(u)}

\* The leaderboard of a suite is the same whichever way Go walks its maps: every
\* submission that has runs in it, by mean, those without a score last, and in every
\* tie the earlier submission.
BoardIsRanked ==
    \A u \in DOMAIN db.suites : \A order \in SetToSeqs(Submitted(u)) :
        LET out == Leaderboard(RowsOf(OfSuite(u)), order)
            mean(i) == Metric(out[i], "mean")
        IN /\ {out[i].submission : i \in DOMAIN out} = Submitted(u)
           /\ \A i, j \in DOMAIN out : i < j =>
                 \/ Ranked(out[i]) /\ ~Ranked(out[j])
                 \/ Ranked(out[i]) /\ Ranked(out[j]) /\ mean(i) > mean(j)
                 \/ /\ Ranked(out[i]) <=> Ranked(out[j])
                    /\ Ranked(out[i]) => mean(i) = mean(j)
                    /\ out[i].submission < out[j].submission

\* One answer, now that the order of the maps is known not to matter.
BoardOf(u) == Leaderboard(RowsOf(OfSuite(u)), ByID(Submitted(u)))

\* The p-values compare with the leader, which has none; everyone else who is
\* ranked has one exactly if at least two seeds can be paired with the leader's,
\* and it is 1 exactly if the paired scores of both add up to the same total,
\* even where they differ seed by seed.
LeaderIsCompared ==
    \A u \in DOMAIN db.suites :
        LET rows == RowsOf(OfSuite(u))
            out == BoardOf(u)
            seeds(i) == ScoresBySeed(Of(rows, out[i].submission))
            common(i) == Common(seeds(1), seeds(i))
            total(k, i) == SumFunction([x \in common(i) |-> seeds(k)[x]])
        IN \A i \in DOMAIN out :
              /\ out[i].p # NaN <=> i > 1 /\ Cardinality(common(i)) >= 2
              /\ out[i].p = "1" <=> out[i].p # NaN /\ total(1, i) = total(i, i)

\* The p-values and the ranking come from different data, the last score of each
\* seed and all scores; they agree where the data do: next to a leader with the
\* same seeds, each scored once by both, p = 1 if and only if the means tie.
\* (Up to Scale scores, different means differ in the model too.)
PValueTellsTies ==
    \A u \in DOMAIN db.suites :
        LET rows == RowsOf(OfSuite(u))
            out == BoardOf(u)
            own(i) == Of(rows, out[i].submission)
            seeds(i) == DOMAIN ScoresBySeed(own(i))
            once(i) == Len(ScoresOf(own(i))) = Cardinality(seeds(i))
            comparable(i) == /\ seeds(i) = seeds(1) /\ once(i) /\ once(1)
                             /\ Cardinality(seeds(i)) \in 2..Scale
        IN \A i \in DOMAIN out \ {1} : comparable(i) =>
              (out[i].p = "1" <=> Metric(out[i], "mean") = Metric(out[1], "mean"))

IDs(entries) == [i \in DOMAIN entries |-> entries[i].submission]

\* /distributions, sorted by another sort over other rows, lists the leaderboard's
\* scored entries in the leaderboard's order ("so the SPA's default selection
\* lines up with the leaderboard's top entries").
DistributionsLineUp ==
    \A u \in DOMAIN db.suites :
        LET board == BoardOf(u)
            scored == Among(board, {i \in DOMAIN board : Ranked(board[i])})
        IN \A out \in Distributions(RowsOf(OfSuite(u))) : IDs(out) = IDs(scored)

\* As the table opens (by mean, descending) its numbered rows are the server's
\* ranking without those in flight; so once nothing is in flight the row it labels
\* "leader" is the one the p-values compare with.
PageKeepsRanking ==
    \A u \in DOMAIN db.suites :
        LET board == BoardOf(u) IN
        IDs(RankedRows(board, "mean", "desc")) = IDs(Settled(board))

ScoreLists ==
    {ScoresOf(Of(RowsOf(OfSuite(u)), s)) : u \in DOMAIN db.suites, s \in DOMAIN db.submissions}
        \ {<<>>}

\* What the page computes from a list of scores agrees with the server and with the
\* list: the mode does not depend on the order of its map, the SPA's median is the
\* server's, percentiles grow from the least to the greatest score, and every score
\* is in one bar of a histogram and in one bin of its own line of the overlay, the
\* greatest score included.
StatsAgree ==
    /\ \A xs \in ScoreLists :
          /\ \A o1, o2 \in SetToSeqs(ToSet(xs)) : Mode(xs, o1) = Mode(xs, o2)
          /\ Scale * Percentile(xs, 50) = 100 * Median(xs)
          /\ Percentile(xs, 0) = 100 * Least(xs) /\ Percentile(xs, 100) = 100 * Greatest(xs)
          /\ Percentile(xs, 10) <= Percentile(xs, 50) /\ Percentile(xs, 50) <= Percentile(xs, 90)
          /\ \A bins \in {1, 2, 14} : SumOf(Histogram(xs, bins)) = Len(xs)
    /\ \A u \in DOMAIN db.suites : \A out \in Distributions(RowsOf(OfSuite(u))) :
          \A bins \in {1, 2, 14} :
             LET lines == Overlay([i \in DOMAIN out |-> out[i].scores], bins) IN
             \A i \in DOMAIN lines : SumOf(lines[i]) = Len(out[i].scores)
=============================================================================
