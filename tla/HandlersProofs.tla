---------------------------- MODULE HandlersProofs ----------------------------
(***************************************************************************)
(* What holds of the handlers statement by statement, for every number of  *)
(* calls, suites, runs and workers, whichever statements fail and however  *)
(* the calls interleave.                                                   *)
(*                                                                         *)
(* First HInv, what a call under way may have written that nobody sees     *)
(* yet.  Then the refinement: the handlers implement the queue, where each *)
(* request is one step.  A handler takes effect at one statement: the      *)
(* update of the claim, the report and the sweeper, the commit of a create *)
(* or a re-evaluation.  There the tables change as the queue's action      *)
(* says; every other step is invisible to the queue.  That holds because   *)
(* of what a call may rely on when it gets there, RInv: the holder of the  *)
(* mutex has a current view of the rows it read, a stale claim cannot      *)
(* commit, and a fan-out's transaction holds the committed tables and its  *)
(* own rows, no more.  A success is counted in a statement after the one   *)
(* that writes its row, without a transaction around both; the queue       *)
(* counts it with the row, so AsQueue adds the bumps under way.            *)
(***************************************************************************)
EXTENDS Handlers, EntProofs

-----------------------------------------------------------------------------
(* What the transactions keep: the constraints, a suite's seeds, and a run *)
(* for every submission but those in S.                                      *)

Whole(d, S) == \A s \in DOMAIN d.submissions \ S : LoadRuns(d, s) # {}
Seeded(d) == \A u \in DOMAIN d.suites : d.suites[u].seeds \in Nat \ {0}
Sound(d, S) == IsDatabase(d) /\ Whole(d, S) /\ Seeded(d)

\* A larger set of exceptions asks for less.
LEMMA SoundMore ==
    ASSUME NEW d, NEW S, NEW T, Sound(d, S), S \subseteq T
    PROVE  Sound(d, T)
  BY DEF Sound, Whole

\* Whatever keeps the suites' seeds, the submissions and the runs' owners.
LEMMA SoundIf ==
    ASSUME NEW d, NEW e, NEW S, Sound(d, S), IsDatabase(e),
           DOMAIN e.submissions \subseteq DOMAIN d.submissions \cup S,
           DOMAIN d.runs \subseteq DOMAIN e.runs,
           \A r \in DOMAIN d.runs : e.runs[r].submission_runs = d.runs[r].submission_runs,
           DOMAIN e.suites \subseteq DOMAIN d.suites,
           \A u \in DOMAIN e.suites : e.suites[u].seeds = d.suites[u].seeds
    PROVE  Sound(e, S)
<1>1. Whole(e, S)
  <2> SUFFICES ASSUME NEW s \in DOMAIN e.submissions \ S
               PROVE  LoadRuns(e, s) # {}
    BY DEF Whole
  <2>1. PICK r : r \in LoadRuns(d, s)
    BY DEF Sound, Whole
  <2>2. r \in LoadRuns(e, s)
    BY <2>1 DEF LoadRuns
  <2> QED
    BY <2>2
<1>2. Seeded(e)
  BY DEF Sound, Seeded
<1> QED
  BY <1>1, <1>2 DEF Sound

\* No update of runs moves a run to another submission.
LEMMA RunUpdateKeeps ==
    ASSUME NEW d, NEW S, NEW ids, NEW m,
           Sound(d, S), ids \subseteq DOMAIN d.runs, m.add = <<>>, RunUpdate(d, ids, m) # NULL
    PROVE  Sound(RunUpdate(d, ids, m), S)
<1> DEFINE e == RunUpdate(d, ids, m)
<1>1. /\ IsDatabase(e)
      /\ \A t \in DOMAIN Tables \ {"runs"} : e[t] = d[t]
      /\ DOMAIN e.runs = DOMAIN d.runs
      /\ \A i \in DOMAIN d.runs \ ids : e.runs[i] = d.runs[i]
      /\ \A i \in ids : e.runs[i] = Changed(d.runs[i], m)
  BY RunUpdateOf DEF Sound
<1>2. "submission_runs" \in RunColumns
  BY TableNames DEF RunColumns, RunsTable
<1>3. "submission_runs" \notin RunSettable /\ "submission_runs" \notin RunOptional
  BY DEF RunSettable, RunContentSettable, RunProgressSettable, RunOptional, RunQueueing,
         RunOutcome, RunText, RunClaim, RunTimes
<1>4. \A row : Changed(row, m).submission_runs = row.submission_runs
  BY <1>2, <1>3 DEF Changed
<1>5. e.suites = d.suites /\ e.submissions = d.submissions
  BY <1>1, TableNames
<1> HIDE DEF e
<1>6. \A r \in DOMAIN d.runs : e.runs[r].submission_runs = d.runs[r].submission_runs
  BY <1>1, <1>4
<1>7. Sound(e, S)
  BY <1>1, <1>5, <1>6, SoundIf
<1> QED
  BY <1>7 DEF e

\* The same for the update of one row.
LEMMA RunUpdateOneKeeps ==
    ASSUME NEW d, NEW S, NEW id, NEW m,
           Sound(d, S), m.add = <<>>, RunUpdateOne(d, id, m) # NULL
    PROVE  Sound(RunUpdateOne(d, id, m), S)
  BY RunUpdateKeeps DEF RunUpdateOne

\* Whatever changes workers only.
LEMMA WorkersKeep ==
    ASSUME NEW d, NEW e, NEW S, Sound(d, S), IsDatabase(e),
           \A t \in DOMAIN Tables \ {"workers"} : e[t] = d[t]
    PROVE  Sound(e, S)
<1>1. e.suites = d.suites /\ e.submissions = d.submissions /\ e.runs = d.runs
  BY TableNames
<1> QED
  BY <1>1, SoundIf

\* The update of a worker keeps the tables sound.
LEMMA WorkerUpdateKeeps ==
    ASSUME NEW d, NEW S, NEW ids, NEW m,
           Sound(d, S), ids \subseteq DOMAIN d.workers, WorkerUpdate(d, ids, m) # NULL
    PROVE  Sound(WorkerUpdate(d, ids, m), S)
<1> DEFINE s == WorkerUpdateSpec(m)
           e == UpdateRows(d, "workers", ids, s)
<1>1. WorkerUpdate(d, ids, m) = e
  BY DEF WorkerUpdate
<1>2. IsDatabase(d) /\ "workers" \in DOMAIN Tables /\ ids \subseteq DOMAIN d["workers"]
  BY TableNames DEF Sound
<1> HIDE DEF s
<1>3. IsDatabase(e) /\ \A t \in DOMAIN Tables \ {"workers"} : e[t] = d[t]
  BY <1>1, <1>2, UpdateRowsOf
<1> HIDE DEF e
<1> QED
  BY <1>1, <1>3, WorkersKeep

\* So does the heart beat, whether it inserts or updates.
LEMMA WorkerUpsertKeeps ==
    ASSUME NEW d, NEW S, NEW id, NEW m, NEW now,
           Sound(d, S), WorkerUpsert(d, id, m, now) # NULL
    PROVE  Sound(WorkerUpsert(d, id, m, now), S)
<1> DEFINE f == WorkerDefaults(m, now)
           same == {i \in DOMAIN d.workers : d.workers[i].name = f.set.name}
           change == [NoChange EXCEPT !.set = [c \in OnConflictUpdates(f) |-> WorkerSpec(f)[c]]]
           rows == [i \in {id} |-> WorkerSpec(f)]
           e == WorkerUpsert(d, id, m, now)
<1>1. IsDatabase(d) /\ "workers" \in DOMAIN Tables /\ same \subseteq DOMAIN d["workers"]
  BY TableNames DEF Sound
<1>2. e = Insert(d, "workers", rows) \/ e = UpdateRows(d, "workers", same, change)
  BY DEF WorkerUpsert, WorkerCreate, WorkerSave, InsertOne
<1> HIDE DEF e, rows, change, same
<1>3. CASE e = Insert(d, "workers", rows)
  <2>1. IsDatabase(e) /\ \A t \in DOMAIN Tables \ {"workers"} : e[t] = d[t]
    BY <1>1, <1>3, InsertOf DEF e
  <2> QED
    BY <2>1, WorkersKeep DEF e
<1>4. CASE e = UpdateRows(d, "workers", same, change)
  <2>1. IsDatabase(e) /\ \A t \in DOMAIN Tables \ {"workers"} : e[t] = d[t]
    BY <1>1, <1>4, UpdateRowsOf DEF e
  <2> QED
    BY <2>1, WorkersKeep DEF e
<1> QED
  BY <1>2, <1>3, <1>4 DEF e

\* So does the seal, whatever the handler had read of the suite.
LEMMA SealKeeps ==
    ASSUME NEW d, NEW S, NEW u, NEW asRead, Sound(d, S), Seal(d, u, asRead) # NULL
    PROVE  Sound(Seal(d, u, asRead), S)
<1> DEFINE m == SealChange
           s == SuiteUpdateSpec(m)
           ids == {u}
           e == UpdateRows(d, "suites", ids, s)
<1>1. CASE Seal(d, u, asRead) = d
  BY <1>1
<1>2. CASE Seal(d, u, asRead) # d
  <2>1. Seal(d, u, asRead) = e /\ e # NULL /\ ids \subseteq DOMAIN d["suites"]
    BY <1>2 DEF Seal, SuiteUpdateOne
  <2>2. "seeds" \notin DOMAIN s.set /\ "seeds" \notin DOMAIN s.add /\ "seeds" \notin s.clear
    <3>1. m.set = [sealed |-> TRUE] /\ m.clear = {}
      BY SettingOf DEF SealChange
    <3> HIDE DEF m
    <3> QED
      BY <3>1 DEF SuiteUpdateSpec, NoChange
  <2>3. IsDatabase(d) /\ "suites" \in DOMAIN Tables /\ "seeds" \in Tables["suites"].columns
    BY TableNames DEF Sound, SuitesTable, SuiteFields, SuiteInputs
  <2> HIDE DEF s, ids
  <2>4. /\ IsDatabase(e)
        /\ \A t \in DOMAIN Tables \ {"suites"} : e[t] = d[t]
        /\ DOMAIN e["suites"] = DOMAIN d["suites"]
        /\ \A i \in DOMAIN d["suites"] \ ids : e["suites"][i] = d["suites"][i]
        /\ \A i \in ids :
              e["suites"][i] =
                 [c \in Tables["suites"].columns |->
                    IF c \in DOMAIN s.set THEN s.set[c]
                    ELSE IF c \in DOMAIN s.add
                         THEN IF d["suites"][i][c] = NULL THEN s.add[c] ELSE d["suites"][i][c] + s.add[c]
                    ELSE IF c \in s.clear THEN NULL ELSE d["suites"][i][c]]
    BY <2>1, <2>3, UpdateRowsOf
  <2> HIDE DEF e
  <2>5. ASSUME NEW i \in DOMAIN e.suites
        PROVE  e.suites[i].seeds = d.suites[i].seeds
    <3>1. CASE i \in ids
      <4> DEFINE row == d["suites"][i]
      <4>1. e["suites"][i] =
               [c \in Tables["suites"].columns |->
                  IF c \in DOMAIN s.set THEN s.set[c]
                  ELSE IF c \in DOMAIN s.add
                       THEN IF row[c] = NULL THEN s.add[c] ELSE row[c] + s.add[c]
                  ELSE IF c \in s.clear THEN NULL ELSE row[c]]
        BY <2>4, <3>1
      <4> HIDE DEF row
      <4>2. e["suites"][i]["seeds"] = row["seeds"]
        BY <2>2, <2>3, <4>1
      <4> QED
        BY <4>2 DEF row
    <3>2. CASE i \notin ids
      BY <2>4, <3>2
    <3> QED
      BY <3>1, <3>2
  <2>6. e.runs = d.runs /\ e.submissions = d.submissions
    BY <2>4, TableNames
  <2> QED
    BY <2>1, <2>4, <2>5, <2>6, SoundIf
<1> QED
  BY <1>1, <1>2

\* A submission inserted has no run yet; it is the one exception it adds.
LEMMA SubmissionCreateKeeps ==
    ASSUME NEW d, NEW S, NEW id, NEW m, NEW now,
           Sound(d, S), SubmissionCreate(d, id, m, now) # NULL
    PROVE  Sound(SubmissionCreate(d, id, m, now), S \cup {id})
<1> DEFINE e == SubmissionCreate(d, id, m, now)
<1>1. /\ IsDatabase(e)
      /\ e.runs = d.runs /\ e.suites = d.suites
      /\ DOMAIN e.submissions = DOMAIN d.submissions \cup {id}
  BY SubmissionCreateOf DEF Sound
<1>2. Sound(d, S \cup {id})
  BY SoundMore
<1> HIDE DEF e
<1>3. Sound(e, S \cup {id})
  BY <1>1, <1>2, SoundIf
<1> QED
  BY <1>3 DEF e

\* The submission's first runs end the exception.
LEMMA InsertRunsKeeps ==
    ASSUME NEW d, NEW S, NEW s, NEW u, NEW seedOf, NEW now, d # NULL,
           Sound(d, S), DOMAIN seedOf \cap DOMAIN d.runs = {},
           InsertRuns(d, s, u, seedOf, now) # NULL
    PROVE  LET e == InsertRuns(d, s, u, seedOf, now) IN
           /\ Sound(e, S)
           /\ DOMAIN seedOf # {} => Sound(e, S \ {s})
<1> DEFINE e == InsertRuns(d, s, u, seedOf, now)
           v(r) == RunSpec(RunDefaults(NewRun(s, u, seedOf[r]), now))
<1>1. /\ IsDatabase(e)
      /\ \A t \in DOMAIN Tables \ {"runs"} : e[t] = d[t]
      /\ DOMAIN e.runs = DOMAIN d.runs \cup DOMAIN seedOf
      /\ \A r \in DOMAIN d.runs : e.runs[r] = d.runs[r]
      /\ \A r \in DOMAIN seedOf : e.runs[r] = NewRow("runs", v(r))
  BY InsertRunsOf DEF Sound
<1>2. \A r : "submission_runs" \in DOMAIN v(r) /\ v(r).submission_runs = s
  BY NewRunEdges
<1>3. "submission_runs" \in RunColumns
  BY TableNames DEF RunColumns, RunsTable
<1> HIDE DEF e, v
<1>4. \A r \in DOMAIN seedOf : e.runs[r].submission_runs = s
  BY ZenonT(40), <1>1, <1>2, <1>3 DEF NewRow, RunColumns
<1>5. e.suites = d.suites /\ e.submissions = d.submissions
  BY <1>1, TableNames
<1>6. Sound(e, S)
  BY <1>1, <1>5, SoundIf
<1>7. ASSUME DOMAIN seedOf # {}
      PROVE  Sound(e, S \ {s})
  <2>1. PICK r : r \in DOMAIN seedOf
    BY <1>7
  <2>2. r \in LoadRuns(e, s)
    BY <1>1, <1>4, <2>1 DEF LoadRuns
  <2> QED
    BY <1>6, <2>2 DEF Sound, Whole
<1> QED
  BY <1>6, <1>7 DEF e

-----------------------------------------------------------------------------
(* The inductive invariant.                                                *)

Lockers == {"claim", "result", "sweep", "reevaluate"}

\* The submission whose row a create has inserted and whose runs are to come.
Unfinished(k) == IF k.op = "create" /\ k.at = "fan" THEN {k.arg} ELSE {}

CallOK(k) ==
    /\ DOMAIN k = DOMAIN Idle
    /\ k.wrote => k.open
    /\ k.open => Sound(k.work, Unfinished(k))
    /\ k.at \in {"insert", "lock"} => ~k.open
    /\ k.at = "fan" => /\ k.op \in {"create", "reevaluate"}
                       /\ k.open => k.wrote
                       /\ k.op = "create" => k.open
    /\ k.at = "commit" => k.wrote
    /\ k.op = "claim" => k.open /\ k.at = "update" /\ k.read \in DOMAIN k.work.runs
    /\ k.at \in {"insert", "lock", "fan"} =>
          \A u \in k.todo : k.read[u].seeds \in Nat \ {0}

MutexOK ==
    /\ writeMu \in Call \cup {NULL}
    /\ writeMu # NULL => calls[writeMu].op \in Lockers

OneWriter == \A c, d \in Call : calls[c].wrote /\ calls[d].wrote => c = d

HInv ==
    /\ Sound(db, {})
    /\ clock \in 0..MaxClock
    /\ DOMAIN calls = Call
    /\ \A c \in Call : CallOK(calls[c])
    /\ \A c \in Call : calls[c].wrote => clock < MaxClock
    /\ OneWriter
    /\ MutexOK

-----------------------------------------------------------------------------
(* The three ways a step changes the calls under way.                      *)

\* An idle call has nothing open.
LEMMA IdleOK == CallOK(Idle) /\ ~Idle.wrote /\ ~Idle.open /\ Idle.op = "idle"
  BY DEF CallOK, Idle

\* A call that another commit overtakes is still well formed.
LEMMA OvertakenOK ==
    ASSUME NEW k, NEW x, CallOK(k)
    PROVE  LET e == [k EXCEPT !.stale = x] IN
           CallOK(e) /\ e.op = k.op /\ e.wrote = k.wrote
<1> DEFINE e == [k EXCEPT !.stale = x]
<1>1. DOMAIN k = DOMAIN Idle
  BY DEF CallOK
<1>2. /\ DOMAIN e = DOMAIN Idle
      /\ e.op = k.op /\ e.at = k.at /\ e.arg = k.arg /\ e.read = k.read /\ e.todo = k.todo
      /\ e.open = k.open /\ e.work = k.work /\ e.wrote = k.wrote
  BY <1>1 DEF Idle
<1> HIDE DEF e
<1> QED
  BY <1>2 DEF CallOK, Unfinished, e

\* One call takes a step of its own: nothing is published.
LEMMA CallSteps ==
    ASSUME HInv, NEW c \in Call, NEW k,
           calls' = [calls EXCEPT ![c] = k], db' = db, clock' = clock,
           CallOK(k),
           k.wrote => clock < MaxClock /\ \A d \in Call : calls[d].wrote => d = c,
           writeMu' \in Call \cup {NULL},
           writeMu' = c => k.op \in Lockers,
           writeMu' \in {c, NULL, writeMu}
    PROVE  HInv'
<1>1. /\ DOMAIN calls' = Call /\ calls'[c] = k
      /\ \A d \in Call \ {c} : calls'[d] = calls[d]
  BY DEF HInv
<1>2. \A d \in Call : CallOK(calls'[d])
  BY <1>1 DEF HInv
<1>3. \A d \in Call : calls'[d].wrote => clock' < MaxClock
  BY <1>1 DEF HInv
<1>4. OneWriter'
  BY <1>1 DEF HInv, OneWriter
<1>5. MutexOK'
  BY <1>1 DEF HInv, MutexOK
<1> QED
  BY <1>1, <1>2, <1>3, <1>4, <1>5 DEF HInv

\* A commit: the call goes on as k, the others are overtaken.
LEMMA CommitSteps ==
    ASSUME HInv, NEW c \in Call, NEW k, NEW new,
           Publish(c, new, k), Sound(new, {}), clock' \in 0..MaxClock,
           \A d \in Call : calls[d].wrote => d = c,
           CallOK(k), ~k.wrote,
           writeMu' \in {writeMu, Unlocked(c)},
           writeMu' = c => k.op \in Lockers
    PROVE  HInv'
<1>1. /\ db' = new
      /\ calls' = [d \in Call |-> IF d = c THEN k ELSE Overtaken(d, new)]
  BY DEF Publish
<1>2. /\ DOMAIN calls' = Call /\ calls'[c] = k
      /\ \A d \in Call \ {c} : calls'[d] = Overtaken(d, new)
  BY <1>1
<1>3. \A d \in Call : LET e == Overtaken(d, new) IN
         CallOK(e) /\ e.op = calls[d].op /\ e.wrote = calls[d].wrote
  BY OvertakenOK DEF HInv, Overtaken
<1>4. \A d \in Call : CallOK(calls'[d]) /\ ~calls'[d].wrote
  BY <1>2, <1>3
<1>5. OneWriter'
  BY <1>4 DEF OneWriter
<1>6. MutexOK'
  BY <1>2, <1>3 DEF HInv, MutexOK, Unlocked
<1> QED
  BY <1>1, <1>2, <1>4, <1>5, <1>6 DEF HInv

\* A statement outside every transaction.
LEMMA StatementSteps ==
    ASSUME HInv, NEW new, Statement(new), Sound(new, {}), clock' \in 0..MaxClock
    PROVE  HInv'
<1>1. /\ db' = new /\ NoWriter /\ UNCHANGED writeMu
      /\ DOMAIN calls' = Call
      /\ \A d \in Call : calls'[d] = Overtaken(d, new)
  BY DEF Statement
<1>2. \A d \in Call : LET e == Overtaken(d, new) IN
         CallOK(e) /\ e.op = calls[d].op /\ e.wrote = calls[d].wrote
  BY OvertakenOK DEF HInv, Overtaken
<1>3. \A d \in Call : CallOK(calls'[d]) /\ ~calls'[d].wrote
  BY <1>1, <1>2 DEF NoWriter
<1>4. OneWriter'
  BY <1>3 DEF OneWriter
<1>5. MutexOK'
  BY <1>1, <1>2 DEF HInv, MutexOK
<1> QED
  BY <1>1, <1>3, <1>4, <1>5 DEF HInv

\* The call ends without a commit.
LEMMA ReturnSteps ==
    ASSUME HInv, NEW c \in Call, Return(c)
    PROVE  HInv'
<1>1. CallOK(Idle) /\ ~Idle.wrote
  BY IdleOK
<1>2. /\ calls' = [calls EXCEPT ![c] = Idle] /\ db' = db /\ clock' = clock
      /\ writeMu' = Unlocked(c)
  BY DEF Return
<1>3. writeMu' \in {NULL, writeMu} /\ writeMu' # c /\ writeMu' \in Call \cup {NULL}
  BY <1>2, CallAssumption DEF Unlocked, HInv, MutexOK
<1> QED
  BY <1>1, <1>2, <1>3, CallSteps

-----------------------------------------------------------------------------
(* The handlers of one statement.                                          *)

\* A list of runs by status is a set of rows.
LEMMA StatusRows ==
    ASSUME NEW d, NEW S
    PROVE  StatusIn(d, S) \subseteq DOMAIN d.runs
  BY DEF StatusIn

\* The updates of runs set and clear columns: none adds to one.
LEMMA ChangesAddNothing ==
    /\ \A w : ClaimChange(w).add = <<>>
    /\ \A b : ResultChange(b).add = <<>>
    /\ SweepChange.add = <<>> /\ CancelChange.add = <<>> /\ RetryChange.add = <<>>
    /\ \A p : PriorityChange(p).add = <<>>
  BY ClaimChangeIs, ResultChangeIs, SweepChangeIs, CancelChangeIs, RetryChangeIs, PriorityChangeIs

\* Cancel, retry, prioritize and the heart beat: one statement each.
LEMMA OneStatement ==
    ASSUME HInv, Immediate, \A w \in Worker : ~GoStale(w)
    PROVE  HInv'
<1>1. Sound(db, {}) /\ clock \in 0..MaxClock
  BY DEF HInv
<1>2. ASSUME NEW ids, NEW m, ids \subseteq DOMAIN db.runs, m.add = <<>>,
             LockedStatement(RunUpdate(db, ids, m)), clock' \in 0..MaxClock
      PROVE  HInv'
  <2> DEFINE new == RunUpdate(db, ids, m)
  <2>1. Statement(new) /\ new # NULL
    BY <1>2 DEF LockedStatement, Statement
  <2>2. Sound(new, {})
    BY <1>1, <1>2, <2>1, RunUpdateKeeps
  <2> HIDE DEF new
  <2> QED
    BY <1>2, <2>1, <2>2, StatementSteps
<1>3. ASSUME NEW w \in Worker, UpsertWorker(w)
      PROVE  HInv'
  <2> DEFINE new == WorkerUpsert(db, w, SeenChange(w), "now")
  <2>1. Statement(new) /\ new # NULL /\ clock' = clock
    BY <1>3 DEF UpsertWorker, LockedStatement, Statement
  <2>2. Sound(new, {})
    BY <1>1, <2>1, WorkerUpsertKeeps
  <2> HIDE DEF new
  <2> QED
    BY <1>1, <2>1, <2>2, StatementSteps
<1>4. ASSUME NEW s \in Submission, CancelSubmission(s)
      PROVE  HInv'
  <2>1. Cancellable(db, s) \subseteq DOMAIN db.runs
    BY StatusRows DEF Cancellable
  <2> QED
    BY <1>1, <1>2, <1>4, <2>1, ChangesAddNothing DEF CancelSubmission
<1>5. ASSUME NEW s \in Submission, RetrySubmission(s)
      PROVE  HInv'
  <2>1. Retryable(db, s) \subseteq DOMAIN db.runs
    BY StatusRows DEF Retryable
  <2> QED
    BY <1>1, <1>2, <1>5, <2>1, ChangesAddNothing DEF RetrySubmission
<1>6. ASSUME NEW r \in Run, CancelRun(r)
      PROVE  HInv'
  <2>1. {r} \cap StatusIn(db, InFlight) \subseteq DOMAIN db.runs
    BY StatusRows
  <2> QED
    BY <1>1, <1>2, <1>6, <2>1, ChangesAddNothing DEF CancelRun
<1>7. ASSUME NEW s \in Submission, PrioritizeSubmission(s)
      PROVE  HInv'
  <2> DEFINE ids == HasSubmission(db, s) \cap StatusIn(db, {"pending"})
             m == PriorityChange(clock')
  <2>1. ids \subseteq DOMAIN db.runs
    BY StatusRows
  <2>2. LockedStatement(RunUpdate(db, ids, m)) /\ clock' \in 0..MaxClock
    BY <1>1, <1>7, ClockAssumption DEF PrioritizeSubmission
  <2>3. m.add = <<>>
    <3> DEFINE p == clock'
    <3>1. PriorityChange(p).add = <<>>
      <4> HIDE DEF p
      <4> QED
        BY ChangesAddNothing
    <3> QED
      BY <3>1
  <2> HIDE DEF ids, m
  <2> QED
    BY <1>2, <2>1, <2>2, <2>3
<1> QED
  BY <1>3, <1>4, <1>5, <1>6, <1>7 DEF Immediate

\* An age is not part of any constraint.
LEMMA AgedKeeps ==
    ASSUME NEW d, NEW S, NEW w, Sound(d, S)
    PROVE  Sound(Aged(d, w), S) /\ Aged(d, w).runs = d.runs
<1>1. CASE w \notin DOMAIN d.workers
  BY <1>1 DEF Aged
<1>2. CASE w \in DOMAIN d.workers
  <2> DEFINE e == [d EXCEPT !.workers[w].last_seen = "stale"]
  <2>1. Aged(d, w) = e
    BY <1>2 DEF Aged
  <2>2. IsDatabase(d) /\ "workers" \in DOMAIN Tables /\ "workers" \in DOMAIN d
    BY TableNames DEF Sound, IsDatabase
  <2>3. /\ DOMAIN e = DOMAIN Tables
        /\ \A t \in DOMAIN Tables \ {"workers"} : e[t] = d[t]
        /\ DOMAIN e.workers = DOMAIN d.workers
        /\ \A i \in DOMAIN d.workers \ {w} : e.workers[i] = d.workers[i]
        /\ e.workers[w] = [d.workers[w] EXCEPT !.last_seen = "stale"]
    BY <1>2, <2>2 DEF IsDatabase
  <2> HIDE DEF e
  <2>4. LegalRow(d, "workers", w) /\ DOMAIN d["workers"][w] = WorkerFields
    BY <1>2, <2>2, TableNames DEF IsDatabase, Legal, WorkersTable
  <2>5. /\ Tables["workers"].refs = <<>> /\ Tables["workers"].unique = {{"name"}}
        /\ Tables["workers"].columns = WorkerFields /\ Tables["workers"].notNull = WorkerFields
        /\ {"name", "last_seen"} \subseteq WorkerFields
    BY TableNames DEF WorkersTable, WorkerFields, WorkerIdentity
  <2>0. /\ DOMAIN e.workers[w] = WorkerFields
        /\ e.workers[w].last_seen = "stale"
        /\ \A c \in WorkerFields \ {"last_seen"} : e.workers[w][c] = d.workers[w][c]
    BY <2>3, <2>4, <2>5
  <2>6. \A c \in Tables["workers"].notNull : e.workers[w][c] # NULL
    <3>1. \A c \in WorkerFields : d.workers[w][c] # NULL
      BY <2>4, <2>5 DEF LegalRow
    <3>2. "stale" # NULL
      BY NullAssumption DEF Opaque
    <3> QED
      BY <2>0, <2>5, <3>1, <3>2
  <2>7. ASSUME NEW j \in DOMAIN e.workers \ {w}
        PROVE  \E c \in {"name"} : e.workers[w][c] # e.workers[j][c]
    BY <2>0, <2>3, <2>4, <2>5 DEF LegalRow
  <2>8. LegalRow(e, "workers", w)
    <3>1. DOMAIN Tables["workers"].refs = {}
      BY <2>5
    <3> QED
      BY <2>5, <2>6, <2>7, <3>1 DEF LegalRow
  <2>9. IsDatabase(e)
    <3> DEFINE ids == {w}
    <3>1. \A i \in ids : /\ LegalRow(e, "workers", i)
                         /\ DOMAIN e["workers"][i] = Tables["workers"].columns
      BY <2>0, <2>5, <2>8
    <3>2. \A i \in DOMAIN e["workers"] \ ids : i \in DOMAIN d["workers"] /\ e["workers"][i] = d["workers"][i]
      BY <2>3
    <3>3. DOMAIN d["workers"] \subseteq DOMAIN e["workers"]
      BY <2>3
    <3> HIDE DEF ids
    <3> QED
      BY <2>2, <2>3, <3>1, <3>2, <3>3, LegalAfter
  <2>10. e.runs = d.runs
    BY <2>3, TableNames
  <2> QED
    BY <2>1, <2>3, <2>9, <2>10, WorkersKeep
<1> QED
  BY <1>1, <1>2

\* A worker grows old.
LEMMA GoStaleKeeps ==
    ASSUME HInv, NEW w \in Worker, GoStale(w)
    PROVE  HInv'
<1>1. /\ db' = Aged(db, w) /\ clock' = clock /\ writeMu' = writeMu /\ DOMAIN calls' = Call
      /\ \A c \in Call : calls'[c] = IF calls[c].open
                                     THEN [calls[c] EXCEPT !.work = Aged(@, w)] ELSE calls[c]
  BY DEF GoStale
<1>2. ASSUME NEW k, NEW x, CallOK(k),
             k.open => Sound(x, Unfinished(k)) /\ x.runs = k.work.runs
      PROVE  LET e == [k EXCEPT !.work = x] IN
             CallOK(e) /\ e.op = k.op /\ e.wrote = k.wrote
  <2> DEFINE e == [k EXCEPT !.work = x]
  <2>1. DOMAIN k = DOMAIN Idle
    BY <1>2 DEF CallOK
  <2>2. /\ DOMAIN e = DOMAIN Idle
        /\ e.op = k.op /\ e.at = k.at /\ e.arg = k.arg /\ e.read = k.read /\ e.todo = k.todo
        /\ e.open = k.open /\ e.work = x /\ e.wrote = k.wrote
    BY <2>1 DEF Idle
  <2> HIDE DEF e
  <2> QED
    BY <1>2, <2>2 DEF CallOK, Unfinished, e
<1>3. \A c \in Call : /\ CallOK(calls'[c])
                      /\ calls'[c].op = calls[c].op /\ calls'[c].wrote = calls[c].wrote
  <2> SUFFICES ASSUME NEW c \in Call
               PROVE  /\ CallOK(calls'[c])
                      /\ calls'[c].op = calls[c].op /\ calls'[c].wrote = calls[c].wrote
    OBVIOUS
  <2> DEFINE k == calls[c]
             x == Aged(k.work, w)
  <2>1. CallOK(k)
    BY DEF HInv
  <2>2. CASE ~k.open
    BY <1>1, <2>1, <2>2
  <2>3. CASE k.open
    <3>1. Sound(x, Unfinished(k)) /\ x.runs = k.work.runs
      BY <2>1, <2>3, AgedKeeps DEF CallOK
    <3>2. calls'[c] = [k EXCEPT !.work = x]
      BY <1>1, <2>3
    <3> HIDE DEF k, x
    <3> QED
      BY <1>2, <2>1, <3>1, <3>2 DEF k
  <2> QED
    BY <2>2, <2>3
<1>4. Sound(db', {})
  BY <1>1, AgedKeeps DEF HInv
<1>5. OneWriter'
  BY <1>3 DEF HInv, OneWriter
<1>6. MutexOK'
  BY <1>1, <1>3 DEF HInv, MutexOK
<1> QED
  BY <1>1, <1>3, <1>4, <1>5, <1>6 DEF HInv

-----------------------------------------------------------------------------
(* The claim, the result and the sweep.                                    *)

\* A call that arrives and only reads.
LEMMA ReadsKeep ==
    ASSUME HInv, NEW c \in Call, calls[c].op = "idle",
           NEW k, CallOK(k), ~k.wrote, db' = db, clock' = clock,
           calls' = [calls EXCEPT ![c] = k],
           (writeMu' = c /\ k.op \in Lockers) \/ writeMu' = writeMu
    PROVE  HInv'
<1>1. writeMu # c
  BY CallAssumption DEF HInv, MutexOK, Lockers
<1>2. writeMu \in Call \cup {NULL}
  BY DEF HInv, MutexOK
<1> QED
  BY <1>1, <1>2, CallSteps

\* The claim takes the mutex and reads the next pending row.
LEMMA LockClaimKeeps ==
    ASSUME HInv, NEW c \in Call, NEW w \in Worker, LockClaim(c, w)
    PROVE  HInv'
<1>1. PICK r \in NextPending(db) :
         calls' = [calls EXCEPT ![c] = [Idle EXCEPT !.op = "claim", !.at = "update", !.arg = w,
                                                    !.read = r, !.open = TRUE, !.work = db]]
  BY DEF LockClaim, OpenTx
<1> DEFINE k == [Idle EXCEPT !.op = "claim", !.at = "update", !.arg = w,
                             !.read = r, !.open = TRUE, !.work = db]
<1>2. /\ calls' = [calls EXCEPT ![c] = k] /\ db' = db /\ clock' = clock
      /\ writeMu' = c /\ calls[c].op = "idle"
  BY <1>1 DEF LockClaim
<1>3. /\ DOMAIN k = DOMAIN Idle /\ k.op = "claim" /\ k.at = "update" /\ ~k.wrote
      /\ k.work = db /\ k.open /\ k.read = r
  BY DEF Idle
<1> HIDE DEF k
<1>6. r \in DOMAIN db.runs
  BY DEF NextPending, First, StatusIn
<1>4. CallOK(k)
  BY <1>3, <1>6 DEF CallOK, Unfinished, HInv
<1>5. k.op \in Lockers
  BY <1>3 DEF Lockers
<1> QED
  BY <1>2, <1>3, <1>4, <1>5, ReadsKeep

\* The report takes the mutex and reads its row.
LEMMA LockResultKeeps ==
    ASSUME HInv, NEW c \in Call, NEW w, NEW r, NEW b, LockResult(c, w, r, b)
    PROVE  HInv'
<1> DEFINE k == [Idle EXCEPT !.op = "result", !.at = "update",
                             !.arg = [w |-> w, r |-> r, b |-> b],
                             !.read = RunGet(db, r).status]
<1>1. /\ calls' = [calls EXCEPT ![c] = k] /\ db' = db /\ clock' = clock
      /\ writeMu' = c /\ calls[c].op = "idle"
  BY DEF LockResult, ReadForResult
<1>2. /\ DOMAIN k = DOMAIN Idle /\ k.op = "result" /\ k.at = "update" /\ ~k.wrote /\ ~k.open
  BY DEF Idle
<1> HIDE DEF k
<1>3. CallOK(k) /\ k.op \in Lockers
  BY <1>2 DEF CallOK, Lockers
<1> QED
  BY <1>1, <1>2, <1>3, ReadsKeep

\* The sweeper takes the mutex and reads the fresh workers.
LEMMA LockSweepKeeps ==
    ASSUME HInv, NEW c \in Call, LockSweep(c)
    PROVE  HInv'
<1> DEFINE k == [Idle EXCEPT !.op = "sweep", !.at = "update", !.read = FreshNames(db)]
<1>1. /\ calls' = [calls EXCEPT ![c] = k] /\ db' = db /\ clock' = clock
      /\ writeMu' = c /\ calls[c].op = "idle"
  BY DEF LockSweep
<1>2. /\ DOMAIN k = DOMAIN Idle /\ k.op = "sweep" /\ k.at = "update" /\ ~k.wrote /\ ~k.open
  BY DEF Idle
<1> HIDE DEF k
<1>3. CallOK(k) /\ k.op \in Lockers
  BY <1>2 DEF CallOK, Lockers
<1> QED
  BY <1>1, <1>2, <1>3, ReadsKeep

\* The commit that ends a call.
LEMMA LastCommit ==
    ASSUME HInv, NEW c \in Call, NEW new,
           Publish(c, new, Idle), Sound(new, {}), clock' \in 0..MaxClock,
           \A d \in Call : calls[d].wrote => d = c, writeMu' = Unlocked(c)
    PROVE  HInv'
<1>1. CallOK(Idle) /\ ~Idle.wrote
  BY IdleOK
<1>2. writeMu' # c
  BY CallAssumption DEF Unlocked
<1> QED
  BY <1>1, <1>2, CommitSteps

\* The claim writes its row and commits, or finds the tables have moved on.
LEMMA UpdateClaimKeeps ==
    ASSUME HInv, NEW c \in Call, UpdateClaim(c)
    PROVE  HInv'
<1> DEFINE k == calls[c]
           m == ClaimChange(k.arg)
           new == RunUpdateOne(k.work, k.read, m)
<1>1. /\ Publish(c, new, Idle) /\ new # NULL /\ NoWriter
      /\ writeMu' = Unlocked(c) /\ clock' = clock
  BY DEF UpdateClaim, MayWrite, Publish
<1>2. Sound(k.work, {})
  <2>1. CallOK(k) /\ k.op = "claim" /\ k.at = "update"
    BY DEF HInv, UpdateClaim, Under
  <2> QED
    BY <2>1 DEF CallOK, Unfinished
<1>3. Sound(new, {})
  BY <1>1, <1>2, ChangesAddNothing, RunUpdateOneKeeps
<1> HIDE DEF new
<1> QED
  BY <1>1, <1>3, LastCommit DEF HInv, NoWriter

\* The report writes its row, or drops it as late.
LEMMA UpdateResultKeeps ==
    ASSUME HInv, NEW c \in Call, UpdateResult(c)
    PROVE  HInv'
<1> DEFINE a == calls[c].arg
           m == ResultChange(a.b)
           new == RunUpdateOne(db, a.r, m)
<1>1. CallOK(calls[c]) /\ calls[c].op = "result" /\ calls[c].at = "update"
  BY DEF HInv, UpdateResult, Under
<1>2. CASE Return(c)
  BY <1>2, ReturnSteps
<1>3. ASSUME NEW bump, NoWriter, Publish(c, new, [calls[c] EXCEPT !.at = "bump", !.bump = bump]),
             UNCHANGED <<writeMu, clock>>
      PROVE  HInv'
  <2> DEFINE k == [calls[c] EXCEPT !.at = "bump", !.bump = bump]
  <2>1. Sound(new, {})
    BY <1>3, ChangesAddNothing, RunUpdateOneKeeps DEF HInv, Publish
  <2>2. DOMAIN calls[c] = DOMAIN Idle
    BY <1>1 DEF CallOK
  <2>3. /\ DOMAIN k = DOMAIN Idle /\ k.op = "result" /\ k.at = "bump"
        /\ k.wrote = calls[c].wrote /\ k.open = calls[c].open /\ k.work = calls[c].work
    BY <1>1, <2>2 DEF Idle
  <2>4. ~k.wrote
    BY <1>3, <2>3 DEF NoWriter
  <2> HIDE DEF k, new
  <2>5. CallOK(k) /\ k.op \in Lockers
    BY <1>1, <2>3 DEF CallOK, Lockers, Unfinished
  <2>6. Publish(c, new, k)
    BY <1>3 DEF k
  <2>7. clock' \in 0..MaxClock /\ writeMu' \in {writeMu, Unlocked(c)}
    BY <1>3 DEF HInv
  <2>8. \A d \in Call : ~calls[d].wrote
    BY <1>3 DEF NoWriter
  <2> QED
    BY <2>1, <2>4, <2>5, <2>6, <2>7, <2>8, CommitSteps
<1>4. ASSUME NoWriter, Publish(c, new, Idle), writeMu' = Unlocked(c), UNCHANGED clock
      PROVE  HInv'
  <2>1. Sound(new, {})
    BY <1>4, ChangesAddNothing, RunUpdateOneKeeps DEF HInv, Publish
  <2> HIDE DEF new
  <2> QED
    BY <1>4, <2>1, LastCommit DEF HInv, NoWriter
<1> QED
  BY <1>2, <1>3, <1>4 DEF UpdateResult

\* The report writes the worker's counter.
LEMMA BumpResultKeeps ==
    ASSUME HInv, NEW c \in Call, BumpResult(c)
    PROVE  HInv'
<1> DEFINE ids == NameEQ(db, calls[c].arg.w)
           m == BumpChange
           new == WorkerUpdate(db, ids, m)
<1>1. CASE Return(c)
  BY <1>1, ReturnSteps
<1>2. CASE NoWriter /\ Publish(c, new, Idle) /\ writeMu' = Unlocked(c) /\ UNCHANGED clock
  <2>1. ids \subseteq DOMAIN db.workers
    BY DEF NameEQ
  <2>2. Sound(new, {})
    BY <1>2, <2>1, WorkerUpdateKeeps DEF HInv, Publish
  <2> HIDE DEF new
  <2> QED
    BY <1>2, <2>2, LastCommit DEF HInv, NoWriter
<1> QED
  BY <1>1, <1>2 DEF BumpResult

\* The sweeper writes the orphans.
LEMMA UpdateSweepKeeps ==
    ASSUME HInv, NEW c \in Call, UpdateSweep(c)
    PROVE  HInv'
<1> DEFINE ids == Sweepable(db, calls[c].read)
           new == RunUpdate(db, ids, SweepChange)
<1>1. NoWriter /\ Publish(c, new, Idle) /\ writeMu' = Unlocked(c) /\ clock' = clock
  BY DEF UpdateSweep
<1>2. ids \subseteq DOMAIN db.runs
  BY StatusRows DEF Sweepable
<1>3. Sound(new, {})
  BY <1>1, <1>2, ChangesAddNothing, RunUpdateKeeps DEF HInv, Publish
<1> HIDE DEF new
<1> QED
  BY <1>1, <1>3, LastCommit DEF HInv, NoWriter

-----------------------------------------------------------------------------
(* The two fan-outs.                                                       *)

\* A create or a re-evaluation reads its suites.
LEMMA ReadForFanOutKeeps ==
    ASSUME HInv, NEW c \in Call, NEW op \in {"create", "reevaluate"},
           NEW at \in {"insert", "lock"}, NEW s, NEW U, ReadForFanOut(c, op, at, s, U)
    PROVE  HInv'
<1> DEFINE k == [Idle EXCEPT !.op = op, !.at = at, !.arg = s, !.read = SuitesIn(db, U), !.todo = U]
<1>1. /\ calls' = [calls EXCEPT ![c] = k] /\ db' = db /\ clock' = clock
      /\ writeMu' = writeMu /\ calls[c].op = "idle" /\ U \subseteq DOMAIN SuitesIn(db, U)
  BY DEF ReadForFanOut
<1>2. /\ DOMAIN k = DOMAIN Idle /\ k.op = op /\ k.at = at /\ ~k.wrote /\ ~k.open
      /\ k.read = SuitesIn(db, U) /\ k.todo = U
  BY DEF Idle
<1>3. \A u \in U : SuitesIn(db, U)[u].seeds \in Nat \ {0}
  <2> SUFFICES ASSUME NEW u \in U
               PROVE  SuitesIn(db, U)[u].seeds \in Nat \ {0}
    OBVIOUS
  <2>1. u \in DOMAIN db.suites /\ SuitesIn(db, U)[u] = SuiteScan(db.suites[u])
    BY <1>1 DEF SuitesIn
  <2>2. SuiteScan(db.suites[u]).seeds = db.suites[u].seeds
    BY DEF SuiteScan, Scan, SuiteFields, SuiteInputs, SuiteNaming
  <2> QED
    BY <2>1, <2>2 DEF HInv, Sound, Seeded
<1> HIDE DEF k
<1>4. CallOK(k)
  BY <1>2, <1>3 DEF CallOK
<1> QED
  BY <1>1, <1>2, <1>4, ReadsKeep

\* A create begins its transaction with the submission.
LEMMA InsertSubmissionKeeps ==
    ASSUME HInv, NEW c \in Call, InsertSubmission(c)
    PROVE  HInv'
<1> DEFINE new == SubmissionCreate(db, calls[c].arg, UploadedArtifact, clock + 1)
           k == [calls[c] EXCEPT !.open = TRUE, !.work = new, !.wrote = TRUE, !.at = "fan"]
<1>1. CallOK(calls[c]) /\ calls[c].op = "create" /\ calls[c].at = "insert"
  BY DEF HInv, InsertSubmission, Under
<1>2. /\ NoWriter /\ clock < MaxClock /\ new # NULL /\ db' = db /\ clock' = clock
      /\ writeMu' = writeMu
      /\ calls' = [calls EXCEPT ![c].open = TRUE, ![c].work = new, ![c].wrote = TRUE,
                                ![c].at = "fan"]
  BY DEF InsertSubmission
<1>3. calls' = [calls EXCEPT ![c] = k]
  BY <1>2 DEF HInv
<1>4. Sound(new, {} \cup {calls[c].arg})
  BY <1>2, SubmissionCreateKeeps DEF HInv
<1>5. DOMAIN calls[c] = DOMAIN Idle
  BY <1>1 DEF CallOK
<1>6. /\ DOMAIN k = DOMAIN Idle /\ k.op = "create" /\ k.at = "fan" /\ k.open /\ k.wrote
      /\ k.work = new /\ k.arg = calls[c].arg /\ k.todo = calls[c].todo
      /\ k.read = calls[c].read
  BY <1>1, <1>5 DEF Idle
<1> HIDE DEF new, k
<1>7. CallOK(k)
  BY <1>1, <1>4, <1>6 DEF CallOK, Unfinished
<1>8. writeMu' # c /\ writeMu \in Call \cup {NULL}
  BY <1>1, <1>2, CallAssumption DEF HInv, MutexOK, Lockers
<1> QED
  BY <1>2, <1>3, <1>6, <1>7, <1>8, CallSteps DEF NoWriter

\* A re-evaluation takes the mutex.
LEMMA LockReevaluateKeeps ==
    ASSUME HInv, NEW c \in Call, LockReevaluate(c)
    PROVE  HInv'
<1> DEFINE k == [calls[c] EXCEPT !.at = "fan"]
<1>1. CallOK(calls[c]) /\ calls[c].op = "reevaluate" /\ calls[c].at = "lock"
  BY DEF HInv, LockReevaluate, Under
<1>2. /\ calls' = [calls EXCEPT ![c] = k] /\ db' = db /\ clock' = clock /\ writeMu' = c
  BY DEF LockReevaluate, HInv
<1>3. DOMAIN calls[c] = DOMAIN Idle /\ ~calls[c].wrote
  BY <1>1 DEF CallOK
<1>4. /\ DOMAIN k = DOMAIN Idle /\ k.op = "reevaluate" /\ k.at = "fan"
      /\ k.open = calls[c].open /\ k.wrote = calls[c].wrote
      /\ k.todo = calls[c].todo /\ k.read = calls[c].read
  BY <1>1, <1>3 DEF Idle
<1> HIDE DEF k
<1>5. CallOK(k) /\ k.op \in Lockers
  BY <1>1, <1>3, <1>4 DEF CallOK, Lockers
<1> QED
  BY <1>2, <1>3, <1>4, <1>5, CallSteps

\* The suite's rows complete the submission, the seal leaves it complete.
LEMMA FanOutKeeps ==
    ASSUME HInv, NEW c \in Call, FanOut(c)
    PROVE  HInv'
<1> DEFINE k == calls[c]
           d == IF k.open THEN k.work ELSE db
           unused(u) == {r \in Run \ DOMAIN d.runs : SubmissionOf[r] = k.arg /\ SuiteOf[r] = u}
<1>1. /\ CallOK(k) /\ k.at = "fan" /\ db' = db /\ clock' = clock /\ writeMu' = writeMu
      /\ ~k.open => NoWriter /\ clock < MaxClock
  BY DEF HInv, FanOut
<1> DEFINE fan(u, ids) ==
             LET new == Seal(InsertRuns(d, k.arg, u, [r \in ids |-> "text"], clock + 1),
                             u, k.read[u])
             IN /\ new # NULL
                /\ calls' = [calls EXCEPT ![c].open = TRUE, ![c].work = new, ![c].wrote = TRUE,
                                          ![c].todo = @ \ {u},
                                          ![c].at = IF k.todo = {u} THEN "commit" ELSE @]
<1>0. PICK u \in k.todo : \E ids \in kSubset(k.read[u].seeds, unused(u)) : fan(u, ids)
  BY DEF FanOut
<1>2. PICK ids \in kSubset(k.read[u].seeds, unused(u)) : fan(u, ids)
  BY <1>0
<1> DEFINE seedOf == [r \in ids |-> "text"]
           rows == InsertRuns(d, k.arg, u, seedOf, clock + 1)
           new == Seal(rows, u, k.read[u])
           n == [k EXCEPT !.open = TRUE, !.work = new, !.wrote = TRUE, !.todo = @ \ {u},
                          !.at = IF k.todo = {u} THEN "commit" ELSE @]
<1>3. new # NULL /\ calls' = [calls EXCEPT ![c] = n]
  BY <1>2 DEF HInv
<1>4. d # NULL /\ rows # NULL
  BY <1>3 DEF Seal, InsertRuns
<1>5. Sound(d, Unfinished(k))
  <2>1. CASE k.open
    BY <1>1, <2>1 DEF CallOK
  <2>2. CASE ~k.open
    BY <1>1, <2>2, SoundMore DEF HInv
  <2> QED
    BY <2>1, <2>2
<1>6. ids # {} /\ ids \cap DOMAIN d.runs = {} /\ DOMAIN seedOf = ids
  <2>1. ids \subseteq unused(u) /\ Cardinality(ids) = k.read[u].seeds
    BY <1>2 DEF kSubset
  <2>2. k.read[u].seeds \in Nat \ {0}
    BY <1>1, <1>2 DEF CallOK
  <2>3. ids # {}
    BY <2>1, <2>2, FS_EmptySet
  <2> QED
    BY <2>1, <2>3
<1> HIDE DEF d, unused
<1>7. Sound(rows, Unfinished(k) \ {k.arg})
  BY <1>4, <1>5, <1>6, InsertRunsKeeps
<1>8. Sound(new, {})
  <2>1. Unfinished(k) \ {k.arg} = {}
    BY DEF Unfinished
  <2> HIDE DEF rows
  <2> QED
    BY <1>3, <1>7, <2>1, SealKeeps
<1>9. DOMAIN k = DOMAIN Idle
  BY <1>1 DEF CallOK
<1>10. /\ DOMAIN n = DOMAIN Idle /\ n.op = k.op /\ n.at \in {"fan", "commit"}
       /\ n.open /\ n.wrote /\ n.work = new /\ n.todo = k.todo \ {u} /\ n.read = k.read
  BY <1>1, <1>9 DEF Idle
<1> HIDE DEF n, new
<1>11. CallOK(n)
  <2>1. Sound(n.work, Unfinished(n))
    BY <1>8, <1>10, SoundMore
  <2>2. n.op \in {"create", "reevaluate"}
    BY <1>1, <1>10 DEF CallOK
  <2>3. \A v \in n.todo : n.read[v].seeds \in Nat \ {0}
    BY <1>1, <1>10 DEF CallOK
  <2> QED
    BY <1>10, <2>1, <2>2, <2>3 DEF CallOK
<1>12. clock < MaxClock /\ \A e \in Call : calls[e].wrote => e = c
  <2>1. CASE k.open
    BY <1>1, <2>1 DEF HInv, CallOK, OneWriter
  <2>2. CASE ~k.open
    BY <1>1, <2>2 DEF NoWriter
  <2> QED
    BY <2>1, <2>2
<1>13. writeMu \in Call \cup {NULL} /\ (writeMu = c => n.op \in Lockers)
  BY <1>10, CallAssumption DEF HInv, MutexOK
<1> QED
  BY <1>1, <1>3, <1>11, <1>12, <1>13, CallSteps

\* A fan-out commits when no suite is left to do.
LEMMA CommitKeeps ==
    ASSUME HInv, NEW c \in Call, Commit(c)
    PROVE  HInv'
<1> DEFINE new == calls[c].work
<1>1. CallOK(calls[c]) /\ calls[c].at = "commit" /\ clock' = clock + 1
  BY DEF HInv, Commit
<1>2. Publish(c, new, Idle) /\ writeMu' = Unlocked(c)
  BY DEF Commit
<1>3. calls[c].wrote /\ Sound(new, {})
  BY <1>1 DEF CallOK, Unfinished
<1>4. clock' \in 0..MaxClock
  BY <1>1, <1>3, ClockAssumption DEF HInv
<1>5. \A d \in Call : calls[d].wrote => d = c
  BY <1>3 DEF HInv, OneWriter
<1> HIDE DEF new
<1> QED
  BY <1>2, <1>3, <1>4, <1>5, LastCommit

-----------------------------------------------------------------------------
(* The database the process opens satisfies the constraints.               *)

\* Tables without rows satisfy every constraint.
LEMMA EmptyIsDatabase ==
    /\ IsDatabase(EmptyDatabase)
    /\ \A t \in DOMAIN Tables : DOMAIN EmptyDatabase[t] = {}
  BY DEF IsDatabase, EmptyDatabase, Legal

TheChallenge ==
    [name |-> "text", version |-> "hash", manifest |-> "json", bundle |-> "bytes",
     bundle_size |-> 1, created_at |-> "now"]

OpenedRows == [u \in Suite |-> SuiteSpec(SuiteDefaults(SuiteRow(u), "now"))]

\* The database as opened: a challenge and its suites.
LEMMA OpenedIs ==
    Opened = Insert(Insert(EmptyDatabase, "challenges", [i \in {1} |-> TheChallenge]),
                    "suites", OpenedRows)
<1> DEFINE given == [name |-> "text", version |-> "hash", manifest |-> "json",
                    bundle |-> "bytes", bundle_size |-> 1]
           m == Setting(NoChange, given)
           d == ChallengeDefaults(m, "now")
<1>1. d.set = TheChallenge
  <2>1. m.set = given
    BY SettingOf
  <2>2. d.set = m.set ++ [created_at |-> "now"]
    BY DEF ChallengeDefaults, Default, Setting, NoChange
  <2>3. given ++ [created_at |-> "now"] = TheChallenge
    BY DEF ++, TheChallenge
  <2> HIDE DEF d, m, given
  <2> QED
    BY <2>1, <2>2, <2>3
<1>2. DOMAIN TheChallenge = ChallengeFields \ ChallengeOptional /\ TheChallenge.bundle_size = 1
      /\ TheChallenge.name = "text" /\ TheChallenge.version = "hash"
  BY DEF TheChallenge, ChallengeFields, ChallengeOptional, ChallengeKey, ChallengeContent,
         ChallengeSize, Stamp
<1> HIDE DEF d
<1>3. ChallengeCheck(d)
  <2>1. Present(d, ChallengeFields \ ChallengeOptional)
    BY <1>1, <1>2 DEF Present
  <2>2. NotEmpty(d, ChallengeKey)
    BY <1>1, <1>2 DEF NotEmpty, ChallengeKey
  <2>3. NotNegative(d, ChallengeSize)
    BY <1>1, <1>2 DEF NotNegative, ChallengeSize
  <2> QED
    BY <2>1, <2>2, <2>3 DEF ChallengeCheck
<1>4. ChallengeSpec(d) = TheChallenge
  <2>1. ChallengeFields \cap DOMAIN TheChallenge = DOMAIN TheChallenge
    BY <1>2
  <2>2. ChallengeSpec(d) = [c \in DOMAIN TheChallenge |-> TheChallenge[c]]
    BY <1>1, <2>1 DEF ChallengeSpec
  <2> QED
    BY <2>2 DEF TheChallenge
<1>5. ChallengeCreate(EmptyDatabase, 1, m, "now")
        = Insert(EmptyDatabase, "challenges", [i \in {1} |-> TheChallenge])
  BY <1>3, <1>4 DEF ChallengeCreate, ChallengeSave, InsertOne, d
<1> QED
  BY <1>5 DEF Opened, OpenedRows

\* A suite's row as opened: unsealed, with its seeds.
LEMMA OpenedSuite ==
    ASSUME NEW u \in Suite
    PROVE  LET row == NewRow("suites", OpenedRows[u]) IN
           /\ \A c \in SuitesTable.notNull : row[c] # NULL
           /\ row.challenge_suites = 1 /\ row.suite_clones = NULL
           /\ row.seeds = NumSeeds[u] /\ row.sealed = FALSE
<1> DEFINE m == SuiteDefaults(SuiteRow(u), "now")
           v == SuiteSpec(m)
           row == NewRow("suites", v)
           no == FALSE
<1>0. no = FALSE /\ no \in BOOLEAN
  OBVIOUS
<1>1. /\ DOMAIN m.set = {"name", "seeds", "timeout_seconds", "sealed", "created_at"}
      /\ m.set.name = "text" /\ m.set.seeds = NumSeeds[u] /\ m.set.timeout_seconds = 3600
      /\ m.set.sealed = no /\ m.set.created_at = "now"
      /\ m.edge = [challenge |-> 1]
  <2> DEFINE given == [name |-> "text", seeds |-> NumSeeds[u]]
             defaults == [timeout_seconds |-> 3600, sealed |-> FALSE, created_at |-> "now"]
  <2> DEFINE asked == SuiteRow(u)
  <2>0. asked.set = given /\ asked.edge = [challenge |-> 1]
    BY LinkingOf DEF SuiteRow
  <2>1. m.set = given ++ defaults /\ m.edge = [challenge |-> 1]
    <3>1. {"set", "edge"} \subseteq DOMAIN asked
      BY DEF SuiteRow, Linking, Setting, NoChange
    <3> HIDE DEF asked, given
    <3>2. m.set = asked.set ++ defaults /\ m.edge = asked.edge
      BY <3>1 DEF SuiteDefaults, Default, asked
    <3> QED
      BY <2>0, <3>2
  <2>2. /\ DOMAIN given = {"name", "seeds"}
        /\ DOMAIN defaults = {"timeout_seconds", "sealed", "created_at"}
        /\ given.name = "text" /\ given.seeds = NumSeeds[u]
        /\ defaults.timeout_seconds = 3600 /\ defaults.created_at = "now"
    OBVIOUS
  <2>3. defaults.sealed = no
    OBVIOUS
  <2> HIDE DEF given, defaults, no, m
  <2>4. "sealed" \in DOMAIN defaults \ DOMAIN given
    BY <2>2
  <2>5. m.set.sealed = no
    BY <2>1, <2>3, <2>4 DEF ++
  <2> QED
    BY <2>1, <2>2, <2>5 DEF ++
<1> HIDE DEF m, no
<1>2. SuiteFields \cap DOMAIN m.set = {"name", "seeds", "timeout_seconds", "sealed", "created_at"}
  BY <1>1 DEF SuiteFields, SuiteNaming, SuiteInputs, SuiteJudging, SuiteState, Stamp
<1>3. "challenge_suites" \notin SuiteFields /\ "suite_clones" \notin SuiteFields
  BY DEF SuiteFields, SuiteNaming, SuiteInputs, SuiteJudging, SuiteState, Stamp
<1>4. /\ DOMAIN v = {"name", "seeds", "timeout_seconds", "sealed", "created_at",
                     "challenge_suites", "suite_clones"}
      /\ v.name = "text" /\ v.seeds = NumSeeds[u] /\ v.timeout_seconds = 3600
      /\ v.sealed = no /\ v.created_at = "now"
      /\ v.challenge_suites = 1 /\ v.suite_clones = NULL
  BY <1>1, <1>2, <1>3 DEF SuiteSpec, ++, SuiteParent
<1> HIDE DEF v
<1>5. /\ {"name", "seeds", "timeout_seconds", "sealed", "created_at",
          "challenge_suites", "suite_clones"} \subseteq SuitesTable.columns
      /\ SuitesTable.notNull = {"name", "seeds", "timeout_seconds", "challenge_suites",
                                "sealed", "created_at"}
  BY DEF SuitesTable, SuiteOptional, SuiteFields, SuiteNaming, SuiteInputs, SuiteJudging, SuiteState, Stamp
<1>6. /\ row.name = "text" /\ row.seeds = NumSeeds[u] /\ row.timeout_seconds = 3600
      /\ row.sealed = no /\ row.created_at = "now"
      /\ row.challenge_suites = 1 /\ row.suite_clones = NULL
  BY <1>4, <1>5, TableNames DEF NewRow
<1>7. NumSeeds[u] # NULL /\ 3600 # NULL /\ 1 # NULL
  <2>1. NumSeeds[u] \in Int
    BY SeedsAssumption
  <2> QED
    BY <2>1, NullAssumption
<1>10. "text" # NULL /\ "now" # NULL
  BY NullAssumption DEF Opaque
<1>11. no # NULL
  BY <1>0, NullAssumption
<1>8. \A c \in SuitesTable.notNull : row[c] # NULL
  <2> SUFFICES ASSUME NEW c \in {"name", "seeds", "timeout_seconds", "challenge_suites",
                                 "sealed", "created_at"}
               PROVE  row[c] # NULL
    BY <1>5
  <2>1. CASE c = "sealed"
    <3>1. row["sealed"] # NULL
      BY <1>6, <1>11
    <3> QED
      BY <2>1, <3>1
  <2>2. CASE c # "sealed"
    BY <1>6, <1>7, <1>10, <2>2
  <2> QED
    BY <2>1, <2>2
<1>9. row = NewRow("suites", OpenedRows[u])
  BY DEF row, OpenedRows, v, m
<1>12. row.sealed = FALSE
  <2> DEFINE x == row.sealed
  <2>1. x = no
    BY <1>6
  <2> HIDE DEF x, no
  <2>2. x = FALSE
    BY <1>0, <2>1
  <2> QED
    BY <2>2 DEF x
<1> QED
  BY <1>6, <1>8, <1>9, <1>12

\* The database as opened is sound and has no run, submission or worker.
LEMMA OpenedSound ==
    /\ Sound(Opened, {})
    /\ DOMAIN Opened.suites = Suite /\ DOMAIN Opened.runs = {}
    /\ DOMAIN Opened.submissions = {} /\ DOMAIN Opened.workers = {}
    /\ \A u \in Suite : Opened.suites[u] = NewRow("suites", OpenedRows[u])
<1> DEFINE one == [i \in {1} |-> TheChallenge]
           d == Inserted(EmptyDatabase, "challenges", one)
           e == Inserted(d, "suites", OpenedRows)
<1>1. /\ DOMAIN d = DOMAIN Tables
      /\ \A t \in DOMAIN Tables \ {"challenges"} : d[t] = EmptyDatabase[t]
      /\ DOMAIN d["challenges"] = {1}
      /\ d["challenges"][1] = NewRow("challenges", TheChallenge)
  <2>1. DOMAIN one = {1} /\ one[1] = TheChallenge
    OBVIOUS
  <2> HIDE DEF one
  <2> QED
    BY <2>1, TableNames, EmptyIsDatabase, InsertedRows DEF IsDatabase
<1>2. LegalRow(d, "challenges", 1)
  <2> DEFINE row == NewRow("challenges", TheChallenge)
  <2>1. /\ Tables["challenges"].notNull = {"name", "version", "manifest", "bundle",
                                           "bundle_size", "created_at"}
        /\ DOMAIN Tables["challenges"].refs = {}
        /\ Tables["challenges"].notNull \subseteq Tables["challenges"].columns
    BY TableNames DEF ChallengesTable, ChallengeFields, ChallengeOptional, ChallengeKey,
                      ChallengeContent, ChallengeSize, Stamp
  <2>2. DOMAIN TheChallenge = {"name", "version", "manifest", "bundle",
                               "bundle_size", "created_at"}
    BY DEF TheChallenge
  <2>3. \A c \in Tables["challenges"].notNull : row[c] = TheChallenge[c]
    BY <2>1, <2>2 DEF NewRow
  <2>4. \A c \in DOMAIN TheChallenge : TheChallenge[c] # NULL
    <3>1. \A c \in DOMAIN TheChallenge : TheChallenge[c] \in {"text", "hash", "json", "bytes", 1, "now"}
      BY DEF TheChallenge
    <3>2. NULL \notin {"text", "hash", "json", "bytes", "now"}
      BY NullAssumption DEF Opaque
    <3>3. NULL # 1
      BY NullAssumption
    <3> QED
      BY <3>1, <3>2, <3>3
  <2> HIDE DEF row, d
  <2>5. d["challenges"][1] = row /\ DOMAIN d["challenges"] \ {1} = {}
    BY <1>1 DEF row
  <2> QED
    BY <2>1, <2>2, <2>3, <2>4, <2>5 DEF LegalRow
<1>3. IsDatabase(d) /\ Insert(EmptyDatabase, "challenges", one) = d
  <2>1. DOMAIN one = {1}
    OBVIOUS
  <2> HIDE DEF one
  <2>2. \A i \in DOMAIN one : LegalRow(Inserted(EmptyDatabase, "challenges", one), "challenges", i)
    BY <1>2, <2>1
  <2> QED
    BY <2>2, EmptyIsDatabase, TableNames, InsertedLegal, InsertIs
<1> HIDE DEF d
<1>4. /\ DOMAIN e = DOMAIN Tables
      /\ \A t \in DOMAIN Tables \ {"suites"} : e[t] = d[t]
      /\ DOMAIN e["suites"] = Suite
      /\ \A u \in Suite : e["suites"][u] = NewRow("suites", OpenedRows[u])
  <2>1. DOMAIN OpenedRows = Suite
    BY DEF OpenedRows
  <2>2. DOMAIN d["suites"] = {}
    BY <1>1, TableNames, EmptyIsDatabase
  <2>3. "suites" \in DOMAIN Tables
    BY TableNames
  <2> QED
    <3>1. DOMAIN d = DOMAIN Tables
      BY <1>3 DEF IsDatabase
    <3>2. /\ DOMAIN e = DOMAIN Tables
          /\ \A t \in DOMAIN Tables \ {"suites"} : e[t] = d[t]
          /\ DOMAIN e["suites"] = DOMAIN d["suites"] \cup DOMAIN OpenedRows
          /\ \A u \in DOMAIN OpenedRows : e["suites"][u] = NewRow("suites", OpenedRows[u])
      BY <2>3, <3>1, InsertedRows
    <3> HIDE DEF e
    <3> QED
      BY <2>1, <2>2, <3>2
<1> HIDE DEF e
<1>5. \A u \in Suite : LegalRow(e, "suites", u)
  <2> SUFFICES ASSUME NEW u \in Suite
               PROVE  LegalRow(e, "suites", u)
    OBVIOUS
  <2> DEFINE row == e["suites"][u]
  <2>1. /\ \A c \in SuitesTable.notNull : row[c] # NULL
        /\ row.challenge_suites = 1 /\ row.suite_clones = NULL
    BY ZenonT(40), <1>4, OpenedSuite
  <2>2. /\ Tables["suites"] = SuitesTable /\ SuitesTable.unique = {}
        /\ SuitesTable.refs = [challenge_suites |-> "challenges", suite_clones |-> "suites"]
    BY TableNames DEF SuitesTable
  <2>3. DOMAIN e["challenges"] = {1}
    BY <1>1, <1>4, TableNames
  <2> HIDE DEF row
  <2>4. \A c \in DOMAIN SuitesTable.refs : row[c] \in {NULL} \cup DOMAIN e[SuitesTable.refs[c]]
    BY <2>1, <2>2, <2>3
  <2> QED
    BY <2>1, <2>2, <2>4 DEF LegalRow, row
<1>6. IsDatabase(e) /\ Opened = e
  <2>1. DOMAIN OpenedRows = Suite
    BY DEF OpenedRows
  <2>2. Opened = Insert(d, "suites", OpenedRows)
    BY <1>3, OpenedIs
  <2> QED
    BY <1>3, <1>5, <2>1, <2>2, TableNames, InsertedLegal, InsertIs DEF e
<1>7. DOMAIN e.runs = {} /\ DOMAIN e.submissions = {} /\ DOMAIN e.workers = {}
  BY <1>1, <1>4, TableNames, EmptyIsDatabase
<1>8. Seeded(e)
  <2>1. \A u \in Suite : e.suites[u].seeds = NumSeeds[u]
    BY <1>4, OpenedSuite
  <2> QED
    BY <1>4, <2>1, SeedsAssumption DEF Seeded
<1>9. Whole(e, {})
  BY <1>7 DEF Whole
<1> QED
  BY <1>4, <1>6, <1>7, <1>8, <1>9 DEF Sound

-----------------------------------------------------------------------------
(* What a query loads with a row.                                          *)

\* A run's edges lead to rows.
LEMMA RunOwners ==
    ASSUME NEW d, IsDatabase(d), NEW r \in DOMAIN d.runs
    PROVE  /\ d.runs[r].submission_runs \in DOMAIN d.submissions
           /\ d.runs[r].suite_runs \in DOMAIN d.suites
<1>1. LegalRow(d, "runs", r)
  BY TableNames DEF IsDatabase, Legal
<1>2. /\ {"submission_runs", "suite_runs"} \subseteq Tables["runs"].notNull
      /\ DOMAIN Tables["runs"].refs = {"submission_runs", "suite_runs"}
      /\ Tables["runs"].refs["submission_runs"] = "submissions"
      /\ Tables["runs"].refs["suite_runs"] = "suites"
  BY TableNames DEF RunsTable
<1> QED
  BY <1>1, <1>2 DEF LegalRow

\* A suite's edge leads to a challenge.
LEMMA SuiteOwner ==
    ASSUME NEW d, IsDatabase(d), NEW u \in DOMAIN d.suites
    PROVE  d.suites[u].challenge_suites \in DOMAIN d.challenges
<1>1. LegalRow(d, "suites", u)
  BY TableNames DEF IsDatabase, Legal
<1>2. /\ "challenge_suites" \in Tables["suites"].notNull
      /\ "challenge_suites" \in DOMAIN Tables["suites"].refs
      /\ Tables["suites"].refs["challenge_suites"] = "challenges"
  BY TableNames DEF SuitesTable
<1> QED
  BY <1>1, <1>2 DEF LegalRow

\* Loading a run's edges finds its suite and its submission.
LEMMA EdgesLoaded ==
    ASSUME NEW d, NEW r
    PROVE  LET run == RunWithEdges(d, r) IN
           /\ run.suite = LoadSuite(d, d.runs[r])
           /\ run.submission = LoadSubmission(d, d.runs[r])
<1> DEFINE x == RunScan(d.runs[r])
           edges == [suite |-> LoadSuite(d, d.runs[r]),
                     submission |-> LoadSubmission(d, d.runs[r])]
<1>1. DOMAIN x = RunFields
  BY DEF RunScan, Scan
<1>2. "suite" \notin RunFields /\ "submission" \notin RunFields
  BY DEF RunFields, RunQueueing, RunOptional, RunOutcome, RunText, RunClaim, RunTimes, Stamp
<1>3. /\ DOMAIN edges = {"suite", "submission"}
      /\ edges.suite = LoadSuite(d, d.runs[r])
      /\ edges.submission = LoadSubmission(d, d.runs[r])
  OBVIOUS
<1>4. RunWithEdges(d, r) = x ++ edges
  BY DEF RunWithEdges
<1> HIDE DEF x, edges
<1> QED
  BY <1>1, <1>2, <1>3, <1>4 DEF ++

\* Loading the suite's edge finds its challenge.
LEMMA ChallengeLoaded ==
    ASSUME NEW d, NEW u
    PROVE  SuiteWithChallenge(d, u).challenge = LoadChallenge(d, d.suites[u])
<1> DEFINE x == SuiteScan(d.suites[u])
           edge == [challenge |-> LoadChallenge(d, d.suites[u])]
<1>1. DOMAIN x = SuiteFields
  BY DEF SuiteScan, Scan
<1>2. "challenge" \notin SuiteFields
  BY DEF SuiteFields, SuiteNaming, SuiteInputs, SuiteJudging, SuiteState, Stamp
<1>3. DOMAIN edge = {"challenge"} /\ edge.challenge = LoadChallenge(d, d.suites[u])
  OBVIOUS
<1>4. SuiteWithChallenge(d, u) = x ++ edge
  BY DEF SuiteWithChallenge
<1> HIDE DEF x, edge
<1> QED
  BY <1>1, <1>2, <1>3, <1>4 DEF ++

\* The summary of a run names its suite.
LEMMA SummaryNamesSuite ==
    ASSUME NEW d, IsDatabase(d), NEW r \in DOMAIN d.runs
    PROVE  RunSummary(d, r).suite_id = d.runs[r].suite_runs
<1> DEFINE x == RunScan(d.runs[r])
           f == [c \in {"seed", "status", "score", "error"} \cup RunTimes \cup Stamp |-> x[c]]
           g == [suite_id |-> SuiteIDFromRun(d, r)]
<1>1. "suite_id" \notin DOMAIN f
  BY DEF RunTimes, Stamp
<1>2. DOMAIN g = {"suite_id"} /\ g.suite_id = SuiteIDFromRun(d, r)
  OBVIOUS
<1>3. SuiteIDFromRun(d, r) = d.runs[r].suite_runs
  BY RunOwners DEF SuiteIDFromRun
<1>4. RunSummary(d, r) = f ++ g
  BY DEF RunSummary
<1> HIDE DEF x, f, g
<1> QED
  BY <1>1, <1>2, <1>3, <1>4 DEF ++

\* The page of a run and its row in an export hold the submission as it is read.
LEMMA SubmissionShown ==
    ASSUME NEW d, NEW r, NEW u
    PROVE  /\ RunDetail(d, r).submission = LoadSubmission(d, d.runs[r])
           /\ ExportRow(d, r, u).submission = LoadSubmission(d, d.runs[r])
<1> DEFINE x == RunScan(d.runs[r])
           f == [c \in RunClaim \cup {"result", "stdout", "stderr"} |-> x[c]]
           g == [submission |-> LoadSubmission(d, d.runs[r])]
           e == [suite_id |-> u, submission |-> LoadSubmission(d, d.runs[r])]
           y == RunSummary(d, r)
<1>1. "submission" \notin DOMAIN f
  BY DEF RunClaim
<1>2. /\ DOMAIN g = {"submission"} /\ g.submission = LoadSubmission(d, d.runs[r])
      /\ DOMAIN e = {"suite_id", "submission"} /\ e.submission = LoadSubmission(d, d.runs[r])
  OBVIOUS
<1>3. RunDetail(d, r) = f ++ g ++ y /\ ExportRow(d, r, u) = e ++ y
  BY DEF RunDetail, ExportRow
<1> HIDE DEF x, f, g, e, y
<1> QED
  BY <1>1, <1>2, <1>3 DEF ++

-----------------------------------------------------------------------------
(* The theorems.                                                           *)

\* The opened database and idle calls satisfy HInv.
LEMMA HInit == Init => HInv
<1> SUFFICES ASSUME Init
             PROVE  HInv
  OBVIOUS
<1>1. Sound(db, {})
  BY OpenedSound DEF Init
<1>2. clock \in 0..MaxClock
  BY ClockAssumption DEF Init
<1>3. DOMAIN calls = Call /\ \A c \in Call : CallOK(calls[c]) /\ ~calls[c].wrote
  BY IdleOK DEF Init
<1>4. OneWriter
  BY <1>3 DEF OneWriter
<1>5. MutexOK
  BY DEF Init, MutexOK
<1> QED
  BY <1>1, <1>2, <1>3, <1>4, <1>5 DEF HInv

\* Every statement keeps HInv.
LEMMA HStep == HInv /\ [HNext]_hvars => HInv'
<1> SUFFICES ASSUME HInv, [HNext]_hvars
             PROVE  HInv'
  OBVIOUS
<1>1. CASE UNCHANGED hvars
  BY <1>1 DEF hvars, HInv, OneWriter, MutexOK
<1>2. CASE Immediate
  <2>1. CASE \E w \in Worker : GoStale(w)
    BY <2>1, GoStaleKeeps
  <2>2. CASE \A w \in Worker : ~GoStale(w)
    BY <1>2, <2>2, OneStatement
  <2> QED
    BY <2>1, <2>2
<1>3. ASSUME NEW c \in Call, Arrive(c)
      PROVE  HInv'
  <2>1. CASE LockSweep(c)
    BY <2>1, LockSweepKeeps
  <2>2. CASE \E w \in Worker : LockClaim(c, w)
    BY <2>2, LockClaimKeeps
  <2>3. CASE \E w \in Worker, r \in Run, b \in Posted : LockResult(c, w, r, b)
    BY <2>3, LockResultKeeps
  <2>4. CASE \E s \in Submission, U \in SUBSET Suite :
                BeginCreate(c, s, U) \/ BeginReevaluate(c, s, U)
    BY <2>4, ReadForFanOutKeeps DEF BeginCreate, BeginReevaluate
  <2> QED
    BY <1>3, <2>1, <2>2, <2>3, <2>4 DEF Arrive
<1>4. ASSUME NEW c \in Call, Proceed(c)
      PROVE  HInv'
  BY <1>4, UpdateClaimKeeps, UpdateResultKeeps, BumpResultKeeps, UpdateSweepKeeps,
     InsertSubmissionKeeps, LockReevaluateKeeps, FanOutKeeps, CommitKeeps DEF Proceed
<1>5. ASSUME NEW c \in Call, Fail(c)
      PROVE  HInv'
  BY <1>5, ReturnSteps DEF Fail
<1> QED
  BY <1>1, <1>2, <1>3, <1>4, <1>5 DEF HNext

\* What every state of the serve process satisfies, statement by statement.
THEOREM HandlersInvariant == HSpec => []HInv
<1> QED
  BY HInit, HStep, PTL DEF HSpec

\* The committed tables satisfy the constraints of the schema, the mutex belongs
\* to a handler that takes it, and one transaction at a time has written.
THEOREM TablesStayLegal == HSpec => []HandlersTypeOK
<1>1. ASSUME HInv
      PROVE  HandlersTypeOK
  <2> DEFINE W == {c \in Call : calls[c].wrote}
  <2>1. Cardinality(W) <= 1
    <3>1. CASE W = {}
      BY <3>1, FS_EmptySet
    <3>2. CASE W # {}
      <4>1. PICK c \in Call : c \in W
        BY <3>2
      <4>2. W = {c}
        BY <1>1, <4>1 DEF HInv, OneWriter
      <4> HIDE DEF W
      <4> QED
        BY <4>2, FS_Singleton
    <3> QED
      BY <3>1, <3>2
  <2>2. DOMAIN db = DOMAIN Tables /\ Legal(db) /\ clock \in 0..MaxClock
    BY <1>1 DEF HInv, Sound, IsDatabase
  <2>3. writeMu # NULL => calls[writeMu].op \in {"claim", "result", "sweep", "reevaluate"}
    BY <1>1 DEF HInv, MutexOK, Lockers
  <2>4. \A c \in Call : calls[c].wrote => calls[c].open
    BY <1>1 DEF HInv, CallOK
  <2> QED
    BY <2>1, <2>2, <2>3, <2>4 DEF HandlersTypeOK
<1> QED
  BY <1>1, HandlersInvariant, PTL

\* Whatever statement of a fan-out fails and whatever commits in between, no
\* submission is ever visible without a run.
THEOREM SubmissionsComeWithRuns == HSpec => []WholeSubmissions
<1>1. HInv => WholeSubmissions
  BY DEF HInv, Sound, Whole, WholeSubmissions
<1> QED
  BY <1>1, HandlersInvariant, PTL

\* The row handleClaim is about to claim has its submission, its suite and the
\* suite's challenge in the snapshot, because the schema's foreign keys hold in
\* every snapshot: the answer built from them dereferences no nil.  The same
\* keys hold in the committed tables, from which clones and pages are made.
THEOREM AnswersHaveEdges == HSpec => []EdgesAreLoaded
<1>1. ASSUME HInv, NEW c \in Call, Under(c, "claim", "update")
      PROVE  LET run == RunWithEdges(calls[c].work, calls[c].read) IN
             /\ run.submission # {}
             /\ \E suite \in run.suite : suite.challenge # {}
  <2> DEFINE d == calls[c].work
             r == calls[c].read
             run == RunWithEdges(d, r)
             row == d.runs[r]
             u == row.suite_runs
  <2>1. CallOK(calls[c]) /\ calls[c].op = "claim"
    BY <1>1 DEF HInv, Under
  <2>2. IsDatabase(d) /\ r \in DOMAIN d.runs
    BY <2>1 DEF CallOK, Sound
  <2> HIDE DEF d, r
  <2>3. row.submission_runs \in DOMAIN d.submissions /\ u \in DOMAIN d.suites
    BY <2>2, RunOwners
  <2>4. d.suites[u].challenge_suites \in DOMAIN d.challenges
    BY <2>2, <2>3, SuiteOwner
  <2>5. run.suite = LoadSuite(d, row) /\ run.submission = LoadSubmission(d, row)
    BY EdgesLoaded
  <2>6. LoadSubmission(d, row) # {}
    BY <2>3 DEF LoadSubmission
  <2>7. SuiteWithChallenge(d, u) \in LoadSuite(d, row)
    BY <2>3 DEF LoadSuite
  <2>8. SuiteWithChallenge(d, u).challenge # {}
    BY <2>4, ChallengeLoaded DEF LoadChallenge
  <2> QED
    BY <2>5, <2>6, <2>7, <2>8 DEF d, r
<1>2. ASSUME HInv, NEW u \in DOMAIN db.suites
      PROVE  /\ SuiteDetail(db, u).challenge # {}
             /\ \A r \in HasSuite(db, u) : ExportRows(db, u)[r].submission # {}
  <2>1. IsDatabase(db)
    BY <1>2 DEF HInv, Sound
  <2>2. SuiteDetail(db, u).challenge # {}
    <3>1. db.suites[u].challenge_suites \in DOMAIN db.challenges
      BY <1>2, <2>1, SuiteOwner
    <3> QED
      BY <3>1, ChallengeLoaded DEF LoadChallenge, SuiteDetail
  <2>3. ASSUME NEW r \in HasSuite(db, u)
        PROVE  ExportRows(db, u)[r].submission # {}
    <3>1. db.runs[r].submission_runs \in DOMAIN db.submissions
      BY <2>1, RunOwners DEF HasSuite
    <3>2. ExportRow(db, r, u).submission # {}
      BY <3>1, SubmissionShown DEF LoadSubmission
    <3> QED
      BY <3>2 DEF ExportRows
  <2> QED
    BY <2>2, <2>3
<1>3. ASSUME HInv, NEW s \in DOMAIN db.submissions, NEW r \in LoadRuns(db, s)
      PROVE  /\ SubmissionDetail(db, s)[r].suite_id \in DOMAIN db.suites
             /\ \E owner \in RunDetail(db, r).submission : owner = SubmissionGet(db, s)
  <2>1. IsDatabase(db) /\ r \in DOMAIN db.runs /\ db.runs[r].submission_runs = s
    BY <1>3 DEF HInv, Sound, LoadRuns
  <2>2. db.runs[r].suite_runs \in DOMAIN db.suites
    BY <2>1, RunOwners
  <2>3. SubmissionDetail(db, s)[r] = RunSummary(db, r)
    BY <1>3 DEF SubmissionDetail
  <2>4. SubmissionGet(db, s) \in LoadSubmission(db, db.runs[r])
    BY <1>3, <2>1 DEF LoadSubmission, SubmissionGet
  <2>5. SubmissionGet(db, s) \in RunDetail(db, r).submission
    BY <2>4, SubmissionShown
  <2> QED
    BY <2>1, <2>2, <2>3, <2>5, SummaryNamesSuite
<1>4. HInv => EdgesAreLoaded
  BY <1>1, <1>2, <1>3 DEF EdgesAreLoaded
<1> QED
  BY <1>4, HandlersInvariant, PTL

-----------------------------------------------------------------------------
(* One row: what each update writes, and what the queue reads there.       *)

Flags == {"claimed", "started", "finished", "error", "logs"}
RowFields == {"status", "priority", "created", "worker", "score"} \cup Flags

\* A row of RunQueue, as far as its fields go.
IsRow(p) == p = [f \in RowFields |-> p[f]] /\ \A f \in Flags : p[f] \in BOOLEAN

\* Two rows of the queue are the same when their fields are.
LEMMA SameRow ==
    ASSUME NEW p, NEW q, IsRow(p), IsRow(q),
           \A f \in RowFields \ Flags : p[f] = q[f],
           \A f \in Flags : p[f] <=> q[f]
    PROVE  p = q
<1>1. \A f \in RowFields : p[f] = q[f]
  BY DEF IsRow
<1> QED
  BY <1>1 DEF IsRow

\* What RunRow reads in a row of the table, field by field.
LEMMA RunRowIs ==
    ASSUME NEW row
    PROVE  LET q == RunRow(row) IN
           /\ IsRow(q)
           /\ q.status = row.status /\ q.priority = row.priority /\ q.created = row.created_at
           /\ q.worker = IF row.worker_id \in {NULL, ""} THEN NoWorker ELSE row.worker_id
           /\ q.score = IF row.score = NULL THEN NoScore ELSE row.score
           /\ q.claimed <=> row.claimed_at # NULL
           /\ q.started <=> row.started_at # NULL
           /\ q.finished <=> row.finished_at # NULL
           /\ q.error <=> row.error \notin {NULL, ""}
           /\ q.logs <=> row.stdout \notin {NULL, ""} \/ row.stderr \notin {NULL, ""}
<1> DEFINE x == RunScan(row)
           texts == {"seed", "worker_id"} \cup RunText
           q == RunRow(row)
<1>1. \A c \in RunFields : x[c] = IF row[c] = NULL /\ c \in texts THEN "" ELSE row[c]
  BY DEF RunScan, Scan
<1>2. {"status", "priority", "created_at", "worker_id", "claimed_at", "started_at",
       "finished_at", "score", "error", "stdout", "stderr"} \subseteq RunFields
  BY DEF RunFields, RunQueueing, RunOptional, RunOutcome, RunText, RunClaim, RunTimes, Stamp
<1>3. {"status", "priority", "created_at", "claimed_at", "started_at", "finished_at",
       "score"} \cap texts = {}
      /\ {"worker_id", "error", "stdout", "stderr"} \subseteq texts
  BY DEF RunText
<1> HIDE DEF x, texts
<1>4. /\ x.status = row.status /\ x.priority = row.priority /\ x.created_at = row.created_at
      /\ x.claimed_at = row.claimed_at /\ x.started_at = row.started_at
      /\ x.finished_at = row.finished_at /\ x.score = row.score
      /\ x.worker_id = IF row.worker_id = NULL THEN "" ELSE row.worker_id
      /\ x.error = IF row.error = NULL THEN "" ELSE row.error
      /\ x.stdout = IF row.stdout = NULL THEN "" ELSE row.stdout
      /\ x.stderr = IF row.stderr = NULL THEN "" ELSE row.stderr
  BY <1>1, <1>2, <1>3
<1>5. q = [status |-> x.status, priority |-> x.priority, created |-> x.created_at,
           worker |-> IF x.worker_id = "" THEN NoWorker ELSE x.worker_id,
           claimed |-> x.claimed_at # NULL, started |-> x.started_at # NULL,
           finished |-> x.finished_at # NULL,
           score |-> IF x.score = NULL THEN NoScore ELSE x.score,
           error |-> x.error # "", logs |-> x.stdout # "" \/ x.stderr # ""]
  BY DEF RunRow, x
<1> HIDE DEF q
<1>6. IsRow(q)
  <2>1. DOMAIN q = RowFields
    <3>1. DOMAIN q = {"status", "priority", "created", "worker", "claimed", "started",
                      "finished", "score", "error", "logs"}
      BY <1>5
    <3> QED
      BY <3>1 DEF RowFields, Flags
  <2>2. q = [f \in DOMAIN q |-> q[f]]
    BY ZenonT(60), <1>5
  <2>3. \A f \in Flags : q[f] \in BOOLEAN
    <3>1. /\ q.claimed \in BOOLEAN /\ q.started \in BOOLEAN /\ q.finished \in BOOLEAN
          /\ q.error \in BOOLEAN /\ q.logs \in BOOLEAN
      BY <1>5
    <3> QED
      BY <3>1 DEF Flags
  <2> QED
    BY <2>1, <2>2, <2>3 DEF IsRow
<1>7. /\ q.status = x.status /\ q.priority = x.priority /\ q.created = x.created_at
      /\ q.worker = IF x.worker_id = "" THEN NoWorker ELSE x.worker_id
      /\ q.score = IF x.score = NULL THEN NoScore ELSE x.score
  BY <1>5
<1>8. /\ q.claimed <=> x.claimed_at # NULL
      /\ q.started <=> x.started_at # NULL
      /\ q.finished <=> x.finished_at # NULL
      /\ q.error <=> x.error # ""
      /\ q.logs <=> x.stdout # "" \/ x.stderr # ""
  BY <1>5
<1> QED
  BY <1>4, <1>6, <1>7, <1>8 DEF q

\* e is what RunRow reads in row.
Reads(e, row) ==
    /\ e.status = row.status /\ e.priority = row.priority /\ e.created = row.created_at
    /\ e.worker = IF row.worker_id \in {NULL, ""} THEN NoWorker ELSE row.worker_id
    /\ e.score = IF row.score = NULL THEN NoScore ELSE row.score
    /\ e.claimed <=> row.claimed_at # NULL
    /\ e.started <=> row.started_at # NULL
    /\ e.finished <=> row.finished_at # NULL
    /\ e.error <=> row.error \notin {NULL, ""}
    /\ e.logs <=> row.stdout \notin {NULL, ""} \/ row.stderr \notin {NULL, ""}

\* These fields determine the row of the queue.
LEMMA ReadsOnce ==
    ASSUME NEW row, NEW e, IsRow(e), Reads(e, row)
    PROVE  RunRow(row) = e
<1> DEFINE q == RunRow(row)
<1>1. IsRow(q) /\ Reads(q, row)
  BY RunRowIs DEF Reads
<1> HIDE DEF q
<1>2. \A f \in RowFields \ Flags : q[f] = e[f]
  BY <1>1 DEF Reads, RowFields, Flags
<1>3. \A f \in Flags : q[f] <=> e[f]
  BY <1>1 DEF Reads, Flags
<1>4. q = e
  BY <1>1, <1>2, <1>3, SameRow
<1> QED
  BY <1>4 DEF q

\* The columns RunRow reads.
Settable == {"status", "priority", "worker_id", "claimed_at", "started_at", "finished_at",
             "score", "error", "stdout", "stderr"}

\* What an update leaves in the columns RunRow reads: set before cleared.
LEMMA ChangedIs ==
    ASSUME NEW row, NEW m
    PROVE  LET n == Changed(row, m) IN
           /\ \A c \in Settable :
                 n[c] = IF c \in DOMAIN m.set THEN m.set[c]
                        ELSE IF c \in m.clear /\ c \in RunOptional THEN NULL ELSE row[c]
           /\ n.created_at = row.created_at /\ n.submission_runs = row.submission_runs
<1>1. /\ Settable \cup {"created_at", "submission_runs"} \subseteq RunColumns
      /\ Settable \subseteq RunSettable
      /\ {"created_at", "submission_runs"} \cap (RunSettable \cup RunOptional) = {}
  BY TableNames DEF Settable, RunColumns, RunsTable, RunFields, RunSettable, RunContentSettable,
     RunProgressSettable, RunQueueing, RunOptional, RunOutcome, RunText, RunClaim, RunTimes, Stamp
<1>2. \A c \in RunColumns :
         Changed(row, m)[c] = IF c \in RunSettable \cap DOMAIN m.set THEN m.set[c]
                              ELSE IF c \in m.clear \cap RunOptional THEN NULL ELSE row[c]
  BY DEF Changed
<1> QED
  BY <1>1, <1>2

\* The cancel's update is the queue's CancelledRow.
LEMMA CancelIs ==
    ASSUME NEW row
    PROVE  LET n == Changed(row, CancelChange) IN
           /\ n.status = "cancelled"
           /\ n.priority = row.priority /\ n.created_at = row.created_at
           /\ n.submission_runs = row.submission_runs
           /\ RunRow(n) = Queue!CancelledRow(RunRow(row))
<1> DEFINE n == Changed(row, CancelChange)
           q == RunRow(row)
           e == [q EXCEPT !.status = "cancelled", !.finished = TRUE]
<1>1. /\ DOMAIN CancelChange.set = {"status", "finished_at"} /\ CancelChange.clear = {}
      /\ CancelChange.set.status = "cancelled" /\ CancelChange.set.finished_at = "now"
  BY CancelChangeIs
<1>2. /\ n.status = "cancelled" /\ n.finished_at = "now" /\ n.created_at = row.created_at
      /\ n.priority = row.priority /\ n.worker_id = row.worker_id /\ n.claimed_at = row.claimed_at
      /\ n.started_at = row.started_at /\ n.score = row.score /\ n.error = row.error
      /\ n.stdout = row.stdout /\ n.stderr = row.stderr
      /\ n.submission_runs = row.submission_runs
  BY <1>1, ChangedIs DEF Settable
<1> HIDE DEF n
<1>3. IsRow(q) /\ Reads(q, row)
  BY RunRowIs DEF Reads
<1> HIDE DEF q
<1>4. /\ IsRow(e) /\ e.status = "cancelled" /\ e.finished
      /\ e.priority = q.priority /\ e.created = q.created /\ e.worker = q.worker
      /\ e.score = q.score /\ e.claimed = q.claimed /\ e.started = q.started
      /\ e.error = q.error /\ e.logs = q.logs
  BY <1>3 DEF IsRow, RowFields, Flags
<1> HIDE DEF e
<1>5. "now" # NULL
  BY NullAssumption DEF Opaque
<1>6. Reads(e, n)
  BY ZenonT(40), <1>2, <1>3, <1>4, <1>5 DEF Reads
<1>7. RunRow(n) = e
  BY <1>4, <1>6, ReadsOnce
<1> QED
  BY <1>2, <1>7 DEF n, q, e, Queue!CancelledRow

\* The retry's update is the queue's Retried.
LEMMA RetryIs ==
    ASSUME NEW row
    PROVE  LET n == Changed(row, RetryChange) IN
           /\ n.status = "pending"
           /\ n.priority = row.priority /\ n.created_at = row.created_at
           /\ n.submission_runs = row.submission_runs
           /\ RunRow(n) = Queue!Retried(RunRow(row))
<1> DEFINE n == Changed(row, RetryChange)
           q == RunRow(row)
           e == [q EXCEPT !.status = "pending", !.worker = NoWorker,
                          !.claimed = FALSE, !.started = FALSE, !.finished = FALSE,
                          !.score = NoScore, !.error = FALSE]
           m == RetryChange
<1>1. /\ DOMAIN m.set = {"status", "worker_id", "error"}
      /\ m.clear = {"claimed_at", "started_at", "finished_at", "score", "result"}
      /\ m.set.status = "pending" /\ m.set.worker_id = "" /\ m.set.error = ""
  BY RetryChangeIs
<1>2. {"claimed_at", "started_at", "finished_at", "score", "result"} \subseteq RunOptional
  BY DEF RunOptional, RunOutcome, RunText, RunClaim, RunTimes
<1> HIDE DEF m
<1>3. /\ n.status = "pending" /\ n.worker_id = "" /\ n.error = ""
      /\ n.claimed_at = NULL /\ n.started_at = NULL /\ n.finished_at = NULL /\ n.score = NULL
      /\ n.created_at = row.created_at /\ n.priority = row.priority
      /\ n.stdout = row.stdout /\ n.stderr = row.stderr
      /\ n.submission_runs = row.submission_runs
  <2>1. /\ \A c \in Settable :
              n[c] = IF c \in DOMAIN m.set THEN m.set[c]
                     ELSE IF c \in m.clear /\ c \in RunOptional THEN NULL ELSE row[c]
        /\ n.created_at = row.created_at /\ n.submission_runs = row.submission_runs
    BY ChangedIs DEF m
  <2> HIDE DEF n
  <2> QED
    BY <1>1, <1>2, <2>1 DEF Settable
<1> HIDE DEF n
<1>4. IsRow(q) /\ Reads(q, row)
  BY RunRowIs DEF Reads
<1> HIDE DEF q
<1>5. /\ IsRow(e) /\ e.status = "pending" /\ e.worker = NoWorker /\ e.score = NoScore
      /\ ~e.claimed /\ ~e.started /\ ~e.finished /\ ~e.error
      /\ e.priority = q.priority /\ e.created = q.created /\ e.logs = q.logs
  BY <1>4 DEF IsRow, RowFields, Flags
<1> HIDE DEF e
<1>6. Reads(e, n)
  BY <1>3, <1>4, <1>5 DEF Reads
<1>7. RunRow(n) = e
  BY <1>5, <1>6, ReadsOnce
<1> QED
  BY <1>3, <1>7 DEF n, q, e, Queue!Retried

\* The sweeper's update is the queue's Swept.
LEMMA SweepIs ==
    ASSUME NEW row
    PROVE  LET n == Changed(row, SweepChange) IN
           /\ n.status = "pending"
           /\ n.priority = row.priority /\ n.created_at = row.created_at
           /\ n.submission_runs = row.submission_runs
           /\ RunRow(n) = Queue!Swept(RunRow(row))
<1> DEFINE n == Changed(row, SweepChange)
           q == RunRow(row)
           e == [q EXCEPT !.status = "pending", !.worker = NoWorker, !.claimed = FALSE]
           m == SweepChange
<1>1. /\ DOMAIN m.set = {"status", "worker_id"} /\ m.clear = {"claimed_at"}
      /\ m.set.status = "pending" /\ m.set.worker_id = ""
  BY SweepChangeIs
<1>2. "claimed_at" \in RunOptional
  BY DEF RunOptional, RunClaim
<1> HIDE DEF m
<1>3. /\ n.status = "pending" /\ n.worker_id = "" /\ n.claimed_at = NULL
      /\ n.started_at = row.started_at /\ n.finished_at = row.finished_at
      /\ n.score = row.score /\ n.error = row.error
      /\ n.created_at = row.created_at /\ n.priority = row.priority
      /\ n.stdout = row.stdout /\ n.stderr = row.stderr
      /\ n.submission_runs = row.submission_runs
  <2>1. /\ \A c \in Settable :
              n[c] = IF c \in DOMAIN m.set THEN m.set[c]
                     ELSE IF c \in m.clear /\ c \in RunOptional THEN NULL ELSE row[c]
        /\ n.created_at = row.created_at /\ n.submission_runs = row.submission_runs
    BY ChangedIs DEF m
  <2> HIDE DEF n
  <2> QED
    BY <1>1, <1>2, <2>1 DEF Settable
<1> HIDE DEF n
<1>4. IsRow(q) /\ Reads(q, row)
  BY RunRowIs DEF Reads
<1> HIDE DEF q
<1>5. /\ IsRow(e) /\ e.status = "pending" /\ e.worker = NoWorker /\ ~e.claimed
      /\ e.score = q.score /\ e.started = q.started /\ e.finished = q.finished
      /\ e.error = q.error
      /\ e.priority = q.priority /\ e.created = q.created /\ e.logs = q.logs
  BY <1>4 DEF IsRow, RowFields, Flags
<1> HIDE DEF e
<1>6. Reads(e, n)
  BY ZenonT(40), <1>3, <1>4, <1>5 DEF Reads
<1>7. RunRow(n) = e
  BY <1>5, <1>6, ReadsOnce
<1> QED
  BY <1>3, <1>7 DEF n, q, e, Queue!Swept

\* The claim's update is the queue's ClaimedBy.
LEMMA ClaimIs ==
    ASSUME NEW row, NEW w \in Worker
    PROVE  LET n == Changed(row, ClaimChange(w)) IN
           /\ n.status = "claimed" /\ n.worker_id = w
           /\ n.priority = row.priority /\ n.created_at = row.created_at
           /\ n.submission_runs = row.submission_runs
           /\ RunRow(n) = Queue!ClaimedBy(RunRow(row), w)
<1> DEFINE n == Changed(row, ClaimChange(w))
           q == RunRow(row)
           e == [q EXCEPT !.status = "claimed", !.worker = w, !.claimed = TRUE]
           m == ClaimChange(w)
<1>1. /\ DOMAIN m.set = {"status", "worker_id", "claimed_at"} /\ m.clear = {}
      /\ m.set.status = "claimed" /\ m.set.worker_id = w /\ m.set.claimed_at = "now"
  BY ClaimChangeIs
<1> HIDE DEF m
<1>2. /\ n.status = "claimed" /\ n.worker_id = w /\ n.claimed_at = "now"
      /\ n.started_at = row.started_at /\ n.finished_at = row.finished_at
      /\ n.score = row.score /\ n.error = row.error
      /\ n.created_at = row.created_at /\ n.priority = row.priority
      /\ n.stdout = row.stdout /\ n.stderr = row.stderr
      /\ n.submission_runs = row.submission_runs
  BY <1>1, ChangedIs DEF Settable, m
<1> HIDE DEF n
<1>3. IsRow(q) /\ Reads(q, row)
  BY RunRowIs DEF Reads
<1> HIDE DEF q
<1>4. /\ IsRow(e) /\ e.status = "claimed" /\ e.worker = w /\ e.claimed
      /\ e.score = q.score /\ e.started = q.started /\ e.finished = q.finished
      /\ e.error = q.error
      /\ e.priority = q.priority /\ e.created = q.created /\ e.logs = q.logs
  BY <1>3 DEF IsRow, RowFields, Flags
<1> HIDE DEF e
<1>5. "now" # NULL /\ w \notin {NULL, ""}
  BY NullAssumption, ValuesAssumption DEF Opaque
<1>6. Reads(e, n)
  BY ZenonT(40), <1>2, <1>3, <1>4, <1>5 DEF Reads
<1>7. RunRow(n) = e
  BY <1>4, <1>6, ReadsOnce
<1> QED
  BY <1>2, <1>7 DEF n, q, e, Queue!ClaimedBy

\* The prioritization writes the priority and nothing else.
LEMMA PriorityIs ==
    ASSUME NEW row, NEW p, NEW m,
           DOMAIN m.set = {"priority"}, m.set.priority = p, m.clear = {}
    PROVE  LET n == Changed(row, m) IN
           /\ n.status = row.status /\ n.worker_id = row.worker_id
           /\ n.priority = p /\ n.created_at = row.created_at
           /\ n.submission_runs = row.submission_runs
           /\ RunRow(n) = [RunRow(row) EXCEPT !.priority = p]
<1> DEFINE n == Changed(row, m)
           q == RunRow(row)
           e == [q EXCEPT !.priority = p]
<1>1. /\ n.status = row.status /\ n.worker_id = row.worker_id /\ n.claimed_at = row.claimed_at
      /\ n.started_at = row.started_at /\ n.finished_at = row.finished_at
      /\ n.score = row.score /\ n.error = row.error
      /\ n.created_at = row.created_at /\ n.priority = p
      /\ n.stdout = row.stdout /\ n.stderr = row.stderr
      /\ n.submission_runs = row.submission_runs
  BY ChangedIs DEF Settable
<1> HIDE DEF n
<1>2. IsRow(q) /\ Reads(q, row)
  BY RunRowIs DEF Reads
<1> HIDE DEF q
<1>3. /\ IsRow(e) /\ e.priority = p /\ e.status = q.status /\ e.worker = q.worker
      /\ e.score = q.score /\ e.started = q.started /\ e.finished = q.finished
      /\ e.error = q.error /\ e.claimed = q.claimed
      /\ e.created = q.created /\ e.logs = q.logs
  BY <1>2 DEF IsRow, RowFields, Flags
<1> HIDE DEF e
<1>4. Reads(e, n)
  BY ZenonT(40), <1>1, <1>2, <1>3 DEF Reads
<1>5. RunRow(n) = e
  BY <1>3, <1>4, ReadsOnce
<1> QED
  BY <1>1, <1>5 DEF n, q, e

\* The columns a report sets: those its body carries.
LEMMA ResultColumns ==
    ASSUME NEW b, b.error \in BOOLEAN, b.started \in BOOLEAN, b.logs \in BOOLEAN
    PROVE  LET set == ResultChange(b).set IN
           /\ {"status", "finished_at"} \subseteq DOMAIN set
           /\ set.status = b.status /\ set.finished_at = "now"
           /\ {"priority", "worker_id", "claimed_at"} \cap DOMAIN set = {}
           /\ "score" \in DOMAIN set <=> b.score # NoScore
           /\ b.score # NoScore => set.score = b.score
           /\ "error" \in DOMAIN set <=> b.error
           /\ b.error => set.error = "text"
           /\ "started_at" \in DOMAIN set <=> b.started
           /\ b.started => set.started_at = "now"
           /\ {"stdout", "stderr"} \cap DOMAIN set = IF b.logs THEN {"stdout", "stderr"} ELSE {}
           /\ b.logs => set.stdout = "text" /\ set.stderr = "text"
           /\ ResultChange(b).clear = {}
<1> DEFINE base == [status |-> b.status, finished_at |-> "now"]
           s == IF b.score # NoScore THEN [score |-> b.score, result |-> "json"] ELSE <<>>
           e == IF b.error THEN [error |-> "text"] ELSE <<>>
           t == IF b.started THEN [started_at |-> "now"] ELSE <<>>
           l == IF b.logs THEN [stdout |-> "text", stderr |-> "text"] ELSE <<>>
           set == base ++ s ++ e ++ t ++ l
<1>1. ResultChange(b).set = set /\ ResultChange(b).clear = {}
  BY ResultChangeIs
<1>2. /\ DOMAIN base = {"status", "finished_at"}
      /\ base.status = b.status /\ base.finished_at = "now"
  OBVIOUS
<1>3. /\ DOMAIN s = IF b.score # NoScore THEN {"score", "result"} ELSE {}
      /\ b.score # NoScore => s.score = b.score
  OBVIOUS
<1>4. /\ DOMAIN e = IF b.error THEN {"error"} ELSE {}
      /\ b.error => e.error = "text"
  OBVIOUS
<1>5. /\ DOMAIN t = IF b.started THEN {"started_at"} ELSE {}
      /\ b.started => t.started_at = "now"
  OBVIOUS
<1>6. /\ DOMAIN l = IF b.logs THEN {"stdout", "stderr"} ELSE {}
      /\ b.logs => l.stdout = "text" /\ l.stderr = "text"
  OBVIOUS
<1> HIDE DEF base, s, e, t, l
<1> DEFINE s1 == base ++ s
           s2 == s1 ++ e
           s3 == s2 ++ t
<1>7. /\ DOMAIN s1 = DOMAIN base \cup DOMAIN s
      /\ \A x \in DOMAIN s1 : s1[x] = IF x \in DOMAIN base THEN base[x] ELSE s[x]
  BY DEF ++
<1> HIDE DEF s1
<1>8. /\ DOMAIN s2 = DOMAIN s1 \cup DOMAIN e
      /\ \A x \in DOMAIN s2 : s2[x] = IF x \in DOMAIN s1 THEN s1[x] ELSE e[x]
  BY DEF ++
<1> HIDE DEF s2
<1>9. /\ DOMAIN s3 = DOMAIN s2 \cup DOMAIN t
      /\ \A x \in DOMAIN s3 : s3[x] = IF x \in DOMAIN s2 THEN s2[x] ELSE t[x]
  BY DEF ++
<1> HIDE DEF s3
<1>10. /\ DOMAIN set = DOMAIN s3 \cup DOMAIN l
       /\ \A x \in DOMAIN set : set[x] = IF x \in DOMAIN s3 THEN s3[x] ELSE l[x]
  BY DEF ++, s1, s2, s3
<1> HIDE DEF set
<1>11. DOMAIN set = {"status", "finished_at"} \cup DOMAIN s \cup DOMAIN e \cup DOMAIN t \cup DOMAIN l
  BY <1>2, <1>7, <1>8, <1>9, <1>10
<1>12. /\ \A x \in DOMAIN base : set[x] = base[x]
       /\ \A x \in DOMAIN s \ DOMAIN base : set[x] = s[x]
       /\ \A x \in DOMAIN e \ (DOMAIN base \cup DOMAIN s) : set[x] = e[x]
       /\ \A x \in DOMAIN t \ (DOMAIN base \cup DOMAIN s \cup DOMAIN e) : set[x] = t[x]
       /\ \A x \in DOMAIN l \ (DOMAIN base \cup DOMAIN s \cup DOMAIN e \cup DOMAIN t) :
             set[x] = l[x]
  BY <1>7, <1>8, <1>9, <1>10
<1>13. set.status = b.status /\ set.finished_at = "now"
  BY <1>2, <1>12
<1>14. b.score # NoScore => set.score = b.score
  BY <1>2, <1>3, <1>12
<1>15. b.error => set.error = "text"
  BY <1>2, <1>3, <1>4, <1>12
<1>16. b.started => set.started_at = "now"
  BY <1>2, <1>3, <1>4, <1>5, <1>12
<1>17. b.logs => set.stdout = "text" /\ set.stderr = "text"
  BY <1>2, <1>3, <1>4, <1>5, <1>6, <1>12
<1>18. /\ {"status", "finished_at"} \subseteq DOMAIN set
       /\ {"priority", "worker_id", "claimed_at"} \cap DOMAIN set = {}
       /\ "score" \in DOMAIN set <=> b.score # NoScore
       /\ "error" \in DOMAIN set <=> b.error
       /\ "started_at" \in DOMAIN set <=> b.started
       /\ {"stdout", "stderr"} \cap DOMAIN set = IF b.logs THEN {"stdout", "stderr"} ELSE {}
  BY <1>3, <1>4, <1>5, <1>6, <1>11
<1> QED
  BY <1>1, <1>13, <1>14, <1>15, <1>16, <1>17, <1>18

\* A posted body carries one of four statuses, and a score or none.
LEMMA BodyFields ==
    ASSUME NEW b \in Posted
    PROVE  /\ b.error \in BOOLEAN /\ b.started \in BOOLEAN /\ b.logs \in BOOLEAN
           /\ b.status \in {"succeeded", "failed", "timed_out", "cancelled"}
           /\ b.score \in Score \cup {NoScore}
  BY PostedAssumption DEF Queue!Bodies, Queue!Body, Queue!Terminal

\* The report's update is the queue's Recorded.
LEMMA ResultIs ==
    ASSUME NEW row, NEW b \in Posted
    PROVE  LET n == Changed(row, ResultChange(b)) IN
           /\ n.status = b.status
           /\ n.priority = row.priority /\ n.created_at = row.created_at
           /\ n.submission_runs = row.submission_runs
           /\ RunRow(n) = Queue!Recorded(RunRow(row), b)
<1> DEFINE n == Changed(row, ResultChange(b))
           q == RunRow(row)
           score == IF b.score # NoScore THEN b.score ELSE q.score
           error == q.error \/ b.error
           started == q.started \/ b.started
           logs == q.logs \/ b.logs
           e == [q EXCEPT !.status = b.status, !.finished = TRUE, !.score = score,
                          !.error = error, !.started = started, !.logs = logs]
           m == ResultChange(b)
<1>1. /\ b.error \in BOOLEAN /\ b.started \in BOOLEAN /\ b.logs \in BOOLEAN
      /\ b.score \in Score \cup {NoScore}
  BY BodyFields
<1>2. LET set == m.set IN
      /\ {"status", "finished_at"} \subseteq DOMAIN set
      /\ set.status = b.status /\ set.finished_at = "now"
      /\ {"priority", "worker_id", "claimed_at"} \cap DOMAIN set = {}
      /\ "score" \in DOMAIN set <=> b.score # NoScore
      /\ b.score # NoScore => set.score = b.score
      /\ "error" \in DOMAIN set <=> b.error
      /\ b.error => set.error = "text"
      /\ "started_at" \in DOMAIN set <=> b.started
      /\ b.started => set.started_at = "now"
      /\ {"stdout", "stderr"} \cap DOMAIN set = IF b.logs THEN {"stdout", "stderr"} ELSE {}
      /\ b.logs => set.stdout = "text" /\ set.stderr = "text"
      /\ m.clear = {}
  BY <1>1, ResultColumns
<1>3. /\ \A c \in Settable :
            n[c] = IF c \in DOMAIN m.set THEN m.set[c]
                   ELSE IF c \in m.clear /\ c \in RunOptional THEN NULL ELSE row[c]
      /\ n.created_at = row.created_at /\ n.submission_runs = row.submission_runs
  BY ChangedIs
<1> HIDE DEF n, m
<1>4. /\ n.status = b.status /\ n.finished_at = "now"
      /\ n.priority = row.priority /\ n.worker_id = row.worker_id /\ n.claimed_at = row.claimed_at
      /\ n.score = IF b.score # NoScore THEN b.score ELSE row.score
      /\ n.error = IF b.error THEN "text" ELSE row.error
      /\ n.started_at = IF b.started THEN "now" ELSE row.started_at
      /\ n.stdout = IF b.logs THEN "text" ELSE row.stdout
      /\ n.stderr = IF b.logs THEN "text" ELSE row.stderr
  BY <1>1, <1>2, <1>3 DEF Settable
<1>5. IsRow(q) /\ Reads(q, row)
  BY RunRowIs DEF Reads
<1> HIDE DEF q
<1>6. error \in BOOLEAN /\ started \in BOOLEAN /\ logs \in BOOLEAN
  OBVIOUS
<1> HIDE DEF score, error, started, logs
<1>7. /\ IsRow(e) /\ e.status = b.status /\ e.finished /\ e.score = score
      /\ e.error = error /\ e.started = started /\ e.logs = logs
      /\ e.priority = q.priority /\ e.created = q.created /\ e.worker = q.worker
      /\ e.claimed = q.claimed
  BY <1>5, <1>6 DEF IsRow, RowFields, Flags
<1> HIDE DEF e
<1>8. "now" # NULL /\ "text" # NULL
  BY NullAssumption DEF Opaque
<1>9. /\ e.score = IF n.score = NULL THEN NoScore ELSE n.score
  BY <1>1, <1>4, <1>5, <1>7, ValuesAssumption DEF Reads, score
<1>10. /\ e.error <=> n.error \notin {NULL, ""}
       /\ e.started <=> n.started_at # NULL
       /\ e.logs <=> n.stdout \notin {NULL, ""} \/ n.stderr \notin {NULL, ""}
  BY <1>1, <1>4, <1>5, <1>7, <1>8 DEF Reads, error, started, logs
<1>11. Reads(e, n)
  BY ZenonT(40), <1>3, <1>4, <1>5, <1>7, <1>8, <1>9, <1>10 DEF Reads
<1>12. RunRow(n) = e
  BY <1>7, <1>11, ReadsOnce
<1>13. e = Queue!Recorded(q, b)
  BY DEF e, score, error, started, logs, Queue!Recorded
<1> QED
  BY <1>3, <1>4, <1>12, <1>13 DEF n, q, m

-----------------------------------------------------------------------------
(* What the rows look like, and what each call knows of the tables.        *)

\* The rows as the handlers leave them.
RowOK(r, row) ==
    /\ r \in Run
    /\ row.status \in RunStatuses \ {"running"}
    /\ row.priority \in Nat /\ row.created_at \in Nat
    /\ row.submission_runs = SubmissionOf[r]
    /\ row.status = "claimed" => row.worker_id \in Worker

WorkerOK(w, row) ==
    /\ w \in Worker /\ row.name = w /\ row.runs_handled \in Nat
    /\ row.last_seen \in {"fresh", "stale"}

TablesOK(d) ==
    /\ \A r \in DOMAIN d.runs : RowOK(r, d.runs[r])
    /\ \A w \in DOMAIN d.workers : WorkerOK(w, d.workers[w])
    /\ \A u \in DOMAIN d.suites : d.suites[u].seeds = NumSeeds[u]

\* What a fan-out's transaction has added to the committed tables d: the rows of
\* the suites it is done with, and their seals.
Progress(d, stamp, k) ==
    LET new == DOMAIN k.work.runs \ DOMAIN d.runs
        done == DOMAIN k.read \ k.todo
    IN /\ DOMAIN d.runs \subseteq DOMAIN k.work.runs
       /\ \A r \in DOMAIN d.runs : k.work.runs[r] = d.runs[r]
       /\ \A r \in new : /\ r \in Run /\ SubmissionOf[r] = k.arg /\ SuiteOf[r] \in done
                         /\ IsNewRow(k.work.runs[r], k.arg, stamp)
       /\ \A u \in done : Cardinality({r \in new : SuiteOf[r] = u}) = NumSeeds[u]
       /\ DOMAIN k.work.suites = DOMAIN d.suites
       /\ \A u \in DOMAIN d.suites :
             /\ k.work.suites[u].seeds = d.suites[u].seeds
             /\ k.work.suites[u].sealed <=> (d.suites[u].sealed \/ u \in done)
       /\ k.work.workers = d.workers
       /\ DOMAIN k.work.submissions
             = DOMAIN d.submissions \cup (IF k.op = "create" THEN {k.arg} ELSE {})

FansOut(k) == k.op \in {"create", "reevaluate"}

\* The suites of a fan-out, read before it had the mutex or a transaction.
SuitesRead(d, k) ==
    /\ k.arg \in Submission
    /\ DOMAIN k.read # {} /\ k.todo \subseteq DOMAIN k.read
    /\ \A u \in DOMAIN k.read : /\ u \in Suite /\ u \in DOMAIN d.suites
                                /\ k.read[u].seeds = NumSeeds[u]
                                /\ k.read[u].sealed => d.suites[u].sealed
    /\ k.op = "create" <=> k.arg \notin DOMAIN d.submissions
    /\ k.op = "create" => k.at \in {"insert", "fan", "commit"}
    /\ k.op = "reevaluate" => k.at \in {"lock", "fan", "commit"}
    /\ ~k.wrote => k.todo = DOMAIN k.read
    /\ k.at = "commit" => k.todo = {}

NeedsMutex(k) ==
    \/ k.op \in {"claim", "result", "sweep"}
    \/ k.op = "reevaluate" /\ k.at \in {"fan", "commit"}

\* What call c, in state k, knows of the committed tables d, while mu holds the
\* mutex and stamp is the next to be given out.
Knows(d, mu, stamp, c, k) ==
    /\ NeedsMutex(k) => mu = c
    /\ k.op = "claim" => /\ k.arg \in Worker
                         /\ ~k.stale => k.work = d /\ k.read \in NextPending(d)
    /\ k.op = "result" =>
          /\ k.arg.w \in Worker /\ k.arg.r \in DOMAIN d.runs /\ k.arg.b \in Posted
          /\ k.at \in {"update", "bump"}
          /\ k.at = "update" => k.read = d.runs[k.arg.r].status
    /\ k.bump => k.op = "result" /\ k.at = "bump" /\ k.arg.w \in DOMAIN d.workers
    /\ k.op = "sweep" => k.read = FreshNames(d)
    /\ FansOut(k) => SuitesRead(d, k)
    /\ k.open => k.op = "claim" \/ k.wrote
    /\ k.wrote => FansOut(k) /\ Progress(d, stamp, k)

OneCreate ==
    \A c, d \in Call :
        calls[c].op = "create" /\ calls[d].op = "create" /\ calls[c].arg = calls[d].arg => c = d

RInv ==
    /\ TablesOK(db)
    /\ \A c \in Call : Knows(db, writeMu, clock + 1, c, calls[c])
    /\ OneCreate
    /\ queue = AsQueue

-----------------------------------------------------------------------------
(* Calls that stand by while another publishes.                            *)

\* Marking a call stale touches no other field of it.
LEMMA StaleOnly ==
    ASSUME NEW k, NEW x, DOMAIN k = DOMAIN Idle
    PROVE  LET e == [k EXCEPT !.stale = x] IN
           /\ e.op = k.op /\ e.at = k.at /\ e.arg = k.arg /\ e.read = k.read /\ e.todo = k.todo
           /\ e.open = k.open /\ e.work = k.work /\ e.wrote = k.wrote /\ e.bump = k.bump
           /\ e.stale = x
  BY DEF Idle

\* Without the mutex or a transaction a call knows only the suites it read.
LEMMA KnowsBystander ==
    ASSUME NEW d, NEW e, NEW mu, NEW mu2, NEW t, NEW t2, NEW c, NEW k, NEW x,
           Knows(d, mu, t, c, k), DOMAIN k = DOMAIN Idle, ~NeedsMutex(k), ~k.wrote,
           e.suites = d.suites, DOMAIN e.submissions = DOMAIN d.submissions
    PROVE  Knows(e, mu2, t2, c, [k EXCEPT !.stale = x])
<1> DEFINE f == [k EXCEPT !.stale = x]
<1>1. /\ f.op = k.op /\ f.at = k.at /\ f.arg = k.arg /\ f.read = k.read /\ f.todo = k.todo
      /\ f.open = k.open /\ f.work = k.work /\ f.wrote = k.wrote /\ f.bump = k.bump
  BY StaleOnly
<1> HIDE DEF f
<1>2. ~NeedsMutex(f)
  BY <1>1 DEF NeedsMutex
<1>3. FansOut(f) => SuitesRead(e, f)
  BY <1>1 DEF Knows, FansOut, SuitesRead
<1>4. f.op \notin {"claim", "result", "sweep"} /\ ~f.bump /\ ~f.open /\ ~f.wrote
  BY <1>1 DEF Knows, NeedsMutex
<1>5. Knows(e, mu2, t2, c, f)
  BY <1>2, <1>3, <1>4 DEF Knows
<1> QED
  BY <1>5 DEF f

\* A fan-out commits: rows, seals and submissions are only added.
LEMMA KnowsCommitted ==
    ASSUME NEW d, NEW e, NEW mu, NEW mu2, NEW t, NEW t2, NEW c, NEW k, NEW x, NEW S,
           Knows(d, mu, t, c, k), DOMAIN k = DOMAIN Idle, ~k.wrote,
           NeedsMutex(k) => mu2 = c, k.op = "claim" => k.open,
           ~x => ~k.stale /\ (k.open => e = d),
           DOMAIN d.runs \subseteq DOMAIN e.runs,
           \A r \in DOMAIN d.runs : e.runs[r] = d.runs[r],
           e.workers = d.workers, DOMAIN e.suites = DOMAIN d.suites,
           \A u \in DOMAIN d.suites : d.suites[u].sealed => e.suites[u].sealed,
           DOMAIN e.submissions = DOMAIN d.submissions \cup S,
           k.op = "create" => k.arg \notin S
    PROVE  Knows(e, mu2, t2, c, [k EXCEPT !.stale = x])
<1> DEFINE f == [k EXCEPT !.stale = x]
<1>1. /\ f.op = k.op /\ f.at = k.at /\ f.arg = k.arg /\ f.read = k.read /\ f.todo = k.todo
      /\ f.open = k.open /\ f.work = k.work /\ f.wrote = k.wrote /\ f.bump = k.bump
      /\ f.stale = x
  BY StaleOnly
<1> HIDE DEF f
<1>2. NeedsMutex(f) => mu2 = c
  BY <1>1 DEF NeedsMutex
<1>3. FansOut(f) => SuitesRead(e, f)
  <2>1. FansOut(f) => SuitesRead(d, k)
    BY <1>1 DEF Knows, FansOut
  <2> QED
    BY <1>1, <2>1 DEF SuitesRead, FansOut
<1>4. f.op = "claim" => /\ f.arg \in Worker
                        /\ ~f.stale => f.work = e /\ f.read \in NextPending(e)
  <2>1. CASE f.op = "claim" /\ ~f.stale
    <3>1. e = d
      BY <1>1, <2>1
    <3> QED
      BY <1>1, <2>1, <3>1 DEF Knows
  <2> QED
    BY <1>1, <2>1 DEF Knows
<1>5. f.op = "result" =>
          /\ f.arg.w \in Worker /\ f.arg.r \in DOMAIN e.runs /\ f.arg.b \in Posted
          /\ f.at \in {"update", "bump"}
          /\ f.at = "update" => f.read = e.runs[f.arg.r].status
  BY <1>1 DEF Knows
<1>6. f.bump => f.op = "result" /\ f.at = "bump" /\ f.arg.w \in DOMAIN e.workers
  BY <1>1 DEF Knows
<1>7. f.op = "sweep" => f.read = FreshNames(e)
  BY <1>1 DEF Knows, FreshNames
<1>8. (f.open => f.op = "claim" \/ f.wrote) /\ ~f.wrote
  BY <1>1 DEF Knows
<1>9. Knows(e, mu2, t2, c, f)
  BY <1>2, <1>3, <1>4, <1>5, <1>6, <1>7, <1>8 DEF Knows
<1> QED
  BY <1>9 DEF f

\* A worker's stamp ages and nothing else of the tables changes.
LEMMA AgedIs ==
    ASSUME NEW d, NEW w, IsDatabase(d)
    PROVE  LET e == Aged(d, w) IN
           /\ e.runs = d.runs /\ e.suites = d.suites /\ e.submissions = d.submissions
           /\ w \in DOMAIN d.workers =>
                 e.workers = [d.workers EXCEPT ![w].last_seen = "stale"]
           /\ w \notin DOMAIN d.workers => e.workers = d.workers
           /\ DOMAIN e.workers = DOMAIN d.workers
<1>1. /\ DOMAIN d = DOMAIN Tables
      /\ {"workers", "runs", "suites", "submissions"} \subseteq DOMAIN Tables
  BY TableNames DEF IsDatabase
<1>2. CASE w \in DOMAIN d.workers
  BY <1>1, <1>2 DEF Aged
<1>3. CASE w \notin DOMAIN d.workers
  BY <1>1, <1>3 DEF Aged
<1> QED
  BY <1>2, <1>3

\* The tables that Progress reads, unchanged.
LEMMA ProgressSame ==
    ASSUME NEW d, NEW e, NEW t, NEW k, NEW f, Progress(d, t, k),
           e.runs = d.runs, e.suites = d.suites, e.submissions = d.submissions,
           f.op = k.op, f.arg = k.arg, f.read = k.read, f.todo = k.todo,
           f.work.runs = k.work.runs, f.work.suites = k.work.suites,
           f.work.submissions = k.work.submissions, f.work.workers = e.workers
    PROVE  Progress(e, t, f)
<1> DEFINE new == DOMAIN k.work.runs \ DOMAIN d.runs
           done == DOMAIN k.read \ k.todo
           fnew == DOMAIN f.work.runs \ DOMAIN e.runs
           fdone == DOMAIN f.read \ f.todo
<1>1. fnew = new /\ fdone = done
  OBVIOUS
<1>2. /\ DOMAIN d.runs \subseteq DOMAIN k.work.runs
      /\ \A r \in DOMAIN d.runs : k.work.runs[r] = d.runs[r]
      /\ \A r \in new : /\ r \in Run /\ SubmissionOf[r] = k.arg /\ SuiteOf[r] \in done
                        /\ IsNewRow(k.work.runs[r], k.arg, t)
      /\ \A u \in done : Cardinality({r \in new : SuiteOf[r] = u}) = NumSeeds[u]
      /\ DOMAIN k.work.suites = DOMAIN d.suites
      /\ \A u \in DOMAIN d.suites :
            /\ k.work.suites[u].seeds = d.suites[u].seeds
            /\ k.work.suites[u].sealed <=> (d.suites[u].sealed \/ u \in done)
      /\ DOMAIN k.work.submissions
            = DOMAIN d.submissions \cup (IF k.op = "create" THEN {k.arg} ELSE {})
  BY DEF Progress
<1> HIDE DEF new, done
<1>3. /\ DOMAIN e.runs \subseteq DOMAIN f.work.runs
      /\ \A r \in DOMAIN e.runs : f.work.runs[r] = e.runs[r]
      /\ \A r \in fnew : /\ r \in Run /\ SubmissionOf[r] = f.arg /\ SuiteOf[r] \in fdone
                         /\ IsNewRow(f.work.runs[r], f.arg, t)
  BY <1>1, <1>2
<1>4. \A u \in fdone : Cardinality({r \in fnew : SuiteOf[r] = u}) = NumSeeds[u]
  <2> HIDE DEF fnew, fdone
  <2> QED
    BY <1>1, <1>2
<1>5. /\ DOMAIN f.work.suites = DOMAIN e.suites
      /\ \A u \in DOMAIN e.suites :
            /\ f.work.suites[u].seeds = e.suites[u].seeds
            /\ f.work.suites[u].sealed <=> (e.suites[u].sealed \/ u \in fdone)
  BY <1>1, <1>2
<1>6. DOMAIN f.work.submissions
            = DOMAIN e.submissions \cup (IF f.op = "create" THEN {f.arg} ELSE {})
  BY <1>2
<1> QED
  BY <1>3, <1>4, <1>5, <1>6 DEF Progress

\* A worker ages: so does every open transaction's copy of its row.
LEMMA KnowsAged ==
    ASSUME NEW d, NEW mu, NEW t, NEW c, NEW k, NEW w,
           Knows(d, mu, t, c, k), DOMAIN k = DOMAIN Idle, k.op # "sweep",
           k.op = "claim" => k.open, k.wrote => k.open,
           IsDatabase(d), k.open => IsDatabase(k.work)
    PROVE  Knows(Aged(d, w), mu, t, c, IF k.open THEN [k EXCEPT !.work = Aged(@, w)] ELSE k)
<1> DEFINE e == Aged(d, w)
           y == Aged(k.work, w)
           f == IF k.open THEN [k EXCEPT !.work = y] ELSE k
<1>1. /\ f.op = k.op /\ f.at = k.at /\ f.arg = k.arg /\ f.read = k.read /\ f.todo = k.todo
      /\ f.open = k.open /\ f.wrote = k.wrote /\ f.bump = k.bump /\ f.stale = k.stale
      /\ k.open => f.work = y
  BY DEF Idle
<1>2. /\ e.runs = d.runs /\ e.suites = d.suites /\ e.submissions = d.submissions
      /\ DOMAIN e.workers = DOMAIN d.workers
  BY AgedIs
<1>3. k.open => /\ y.runs = k.work.runs /\ y.suites = k.work.suites
                /\ y.submissions = k.work.submissions
  BY AgedIs
<1>13. k.open /\ k.work.workers = d.workers => y.workers = e.workers
  <2> SUFFICES ASSUME k.open, k.work.workers = d.workers
               PROVE  y.workers = e.workers
    OBVIOUS
  <2>1. CASE w \in DOMAIN d.workers
    <3>1. e.workers = [d.workers EXCEPT ![w].last_seen = "stale"]
      BY <2>1, AgedIs
    <3>2. y.workers = [k.work.workers EXCEPT ![w].last_seen = "stale"]
      BY <2>1, AgedIs
    <3> QED
      BY <3>1, <3>2
  <2>2. CASE w \notin DOMAIN d.workers
    <3>1. e.workers = d.workers
      BY ZenonT(40), <2>2, AgedIs
    <3>2. y.workers = k.work.workers
      BY ZenonT(40), <2>2, AgedIs
    <3> QED
      BY <3>1, <3>2
  <2> QED
    BY <2>1, <2>2
<1>4. k.work = d => y = e
  OBVIOUS
<1> HIDE DEF e, y, f
<1>5. NeedsMutex(f) => mu = c
  BY <1>1 DEF NeedsMutex, Knows
<1>6. FansOut(f) => SuitesRead(e, f)
  BY <1>1, <1>2 DEF Knows, FansOut, SuitesRead
<1>7. f.op = "claim" => /\ f.arg \in Worker
                        /\ ~f.stale => f.work = e /\ f.read \in NextPending(e)
  <2>1. NextPending(e) = NextPending(d)
    BY <1>2 DEF NextPending, StatusIn
  <2> QED
    BY <1>1, <1>4, <2>1 DEF Knows
<1>8. f.op = "result" =>
          /\ f.arg.w \in Worker /\ f.arg.r \in DOMAIN e.runs /\ f.arg.b \in Posted
          /\ f.at \in {"update", "bump"}
          /\ f.at = "update" => f.read = e.runs[f.arg.r].status
  BY <1>1, <1>2 DEF Knows
<1>9. f.bump => f.op = "result" /\ f.at = "bump" /\ f.arg.w \in DOMAIN e.workers
  BY <1>1, <1>2 DEF Knows
<1>10. (f.open => f.op = "claim" \/ f.wrote) /\ f.op # "sweep"
  BY <1>1 DEF Knows
<1>11. f.wrote => FansOut(f) /\ Progress(e, t, f)
  <2> SUFFICES ASSUME f.wrote
               PROVE  FansOut(f) /\ Progress(e, t, f)
    OBVIOUS
  <2>1. FansOut(k) /\ Progress(d, t, k) /\ k.open /\ f.work = y
    BY <1>1 DEF Knows
  <2>2. f.work.workers = e.workers
    BY <1>13, <2>1 DEF Progress
  <2>3. f.work.runs = k.work.runs /\ f.work.suites = k.work.suites
        /\ f.work.submissions = k.work.submissions
    BY <1>3, <2>1
  <2>4. Progress(e, t, f)
    BY <1>1, <1>2, <2>1, <2>2, <2>3, ProgressSame
  <2> QED
    BY <1>1, <2>1, <2>4 DEF FansOut
<1>12. Knows(e, mu, t, c, f)
  BY <1>5, <1>6, <1>7, <1>8, <1>9, <1>10, <1>11 DEF Knows
<1> QED
  BY <1>12 DEF e, f, y

-----------------------------------------------------------------------------
(* The tables as the queue sees them, given the workers B whose counter is *)
(* about to be written.                                                        *)

Rows(d) == [r \in Run |-> IF r \in DOMAIN d.runs THEN RunRow(d.runs[r]) ELSE NoRun]
SealedIn(d) == {u \in DOMAIN d.suites : d.suites[u].sealed}
LastSeen(d, B) == [w \in Worker |-> IF w \notin DOMAIN d.workers THEN "never"
                                    ELSE IF w \in B THEN "fresh"
                                    ELSE d.workers[w].last_seen]
Handled(d, B) == [w \in Worker |-> IF w \notin DOMAIN d.workers THEN 0
                                   ELSE d.workers[w].runs_handled + (IF w \in B THEN 1 ELSE 0)]
Bumped == {w \in Worker : Bumping(w)}

\* AsQueue in terms of the tables and the bumped workers.
LEMMA AsQueueIs ==
    /\ AsQueue.runs = Rows(db) /\ AsQueue.sealed = SealedIn(db)
    /\ AsQueue.lastSeen = LastSeen(db, Bumped) /\ AsQueue.handled = Handled(db, Bumped)
<1>1. \A w \in Worker : w \in Bumped <=> Bumping(w)
  BY DEF Bumped
<1>2. AsQueue.runs = Rows(db) /\ AsQueue.sealed = SealedIn(db)
  BY DEF AsQueue, Rows, SealedIn
<1>3. AsQueue.lastSeen = LastSeen(db, Bumped)
  <2>1. AsQueue.lastSeen = [w \in Worker |-> IF w \notin DOMAIN db.workers THEN "never"
                                   ELSE IF Bumping(w) THEN "fresh"
                                   ELSE db.workers[w].last_seen]
    BY DEF AsQueue
  <2> QED
    BY <1>1, <2>1, Zenon DEF LastSeen
<1>4. AsQueue.handled = Handled(db, Bumped)
  <2>1. AsQueue.handled = [w \in Worker |-> IF w \notin DOMAIN db.workers THEN 0
                                   ELSE db.workers[w].runs_handled
                                          + (IF Bumping(w) THEN 1 ELSE 0)]
    BY DEF AsQueue
  <2> QED
    BY <1>1, <2>1 DEF Handled
<1> QED
  BY <1>2, <1>3, <1>4

\* The queue's variables before and after a step.
LEMMA Views ==
    ASSUME RInv, queue' = AsQueue'
    PROVE  /\ queue.runs = Rows(db) /\ queue.sealed = SealedIn(db)
           /\ queue.lastSeen = LastSeen(db, Bumped) /\ queue.handled = Handled(db, Bumped)
           /\ queue'.runs = Rows(db') /\ queue'.sealed = SealedIn(db')
           /\ queue'.lastSeen = LastSeen(db', Bumped') /\ queue'.handled = Handled(db', Bumped')
<1>1. queue = AsQueue
  BY DEF RInv
<1>3. (/\ AsQueue.runs = Rows(db) /\ AsQueue.sealed = SealedIn(db)
       /\ AsQueue.lastSeen = LastSeen(db, Bumped) /\ AsQueue.handled = Handled(db, Bumped))'
  BY AsQueueIs, PTL
<1>2. /\ AsQueue'.runs = Rows(db') /\ AsQueue'.sealed = SealedIn(db')
      /\ AsQueue'.lastSeen = LastSeen(db', Bumped') /\ AsQueue'.handled = Handled(db', Bumped')
  BY <1>3
<1> QED
  BY <1>1, <1>2, AsQueueIs

\* A row of the table and the queue's row agree on what the guards read.
LEMMA RowsStatus ==
    ASSUME NEW d, TablesOK(d), NEW r \in Run
    PROVE  /\ r \in DOMAIN d.runs =>
                /\ Rows(d)[r] = RunRow(d.runs[r])
                /\ Rows(d)[r].status = d.runs[r].status
                /\ Rows(d)[r].priority = d.runs[r].priority
                /\ Rows(d)[r].created = d.runs[r].created_at
                /\ Rows(d)[r].status # "none" /\ Rows(d)[r].status # "running"
                /\ d.runs[r].submission_runs = SubmissionOf[r]
                /\ d.runs[r].status = "claimed" =>
                       d.runs[r].worker_id \in Worker /\ Rows(d)[r].worker = d.runs[r].worker_id
           /\ r \notin DOMAIN d.runs => Rows(d)[r] = NoRun /\ Rows(d)[r].status = "none"
<1>1. CASE r \in DOMAIN d.runs
  <2>1. Rows(d)[r] = RunRow(d.runs[r])
    BY <1>1 DEF Rows
  <2>2. RowOK(r, d.runs[r])
    BY <1>1 DEF TablesOK
  <2> DEFINE row == d.runs[r]
             q == RunRow(row)
  <2>3. /\ q.status = row.status /\ q.priority = row.priority /\ q.created = row.created_at
        /\ q.worker = IF row.worker_id \in {NULL, ""} THEN NoWorker ELSE row.worker_id
    BY RunRowIs
  <2> HIDE DEF q, row
  <2>4. row.status = "claimed" => row.worker_id \in Worker /\ row.worker_id \notin {NULL, ""}
    BY <2>2, ValuesAssumption DEF RowOK, row
  <2>5. "none" \notin RunStatuses
    BY DEF RunStatuses
  <2> QED
    BY <1>1, <2>1, <2>2, <2>3, <2>4, <2>5 DEF RowOK, q, row
<1>2. CASE r \notin DOMAIN d.runs
  BY <1>2 DEF Rows, NoRun
<1> QED
  BY <1>1, <1>2

\* A step of one call that starts and ends no bump leaves the bumped workers alone.
LEMMA BumpSame ==
    ASSUME NEW c \in Call, ~calls[c].bump, ~calls'[c].bump,
           \A d \in Call \ {c} : (calls'[d].bump <=> calls[d].bump) /\ calls'[d].arg = calls[d].arg
    PROVE  Bumped' = Bumped
  BY DEF Bumped, Bumping

\* A step that leaves runs, suites, workers and bumps alone is none of the queue.
LEMMA Stutter ==
    ASSUME RInv, queue' = AsQueue', clock' = clock, Bumped' = Bumped,
           db'.runs = db.runs, db'.suites = db.suites, db'.workers = db.workers
    PROVE  UNCHANGED Queue!vars
<1>1. Rows(db') = Rows(db) /\ SealedIn(db') = SealedIn(db)
  BY DEF Rows, SealedIn
<1>2. LastSeen(db', Bumped') = LastSeen(db, Bumped) /\ Handled(db', Bumped') = Handled(db, Bumped)
  BY DEF LastSeen, Handled
<1> QED
  BY <1>1, <1>2, Views DEF Queue!vars

-----------------------------------------------------------------------------
(* Steps of one call that publish nothing.                                 *)

\* A call that moves on by itself, publishing nothing, is no step of the queue.
LEMMA Private ==
    ASSUME HInv, RInv, queue' = AsQueue', NEW c \in Call, NEW k,
           calls' = [calls EXCEPT ![c] = k], db' = db, clock' = clock,
           ~calls[c].bump, ~k.bump, Knows(db, writeMu', clock + 1, c, k),
           writeMu' = writeMu \/ writeMu \in {c, NULL},
           k.op = "create" => \A d \in Call \ {c} : ~(calls[d].op = "create" /\ calls[d].arg = k.arg)
    PROVE  RInv' /\ UNCHANGED Queue!vars
<1>1. /\ calls'[c] = k
      /\ \A d \in Call \ {c} : calls'[d] = calls[d]
  BY DEF HInv
<1>2. \A d \in Call : Knows(db', writeMu', clock' + 1, d, calls'[d])
  <2> SUFFICES ASSUME NEW d \in Call \ {c}
               PROVE  Knows(db, writeMu', clock + 1, d, calls[d])
    BY <1>1
  <2>1. Knows(db, writeMu, clock + 1, d, calls[d])
    BY DEF RInv
  <2>2. NeedsMutex(calls[d]) => writeMu' = d
    BY <2>1, CallAssumption DEF Knows
  <2> QED
    BY <2>1, <2>2 DEF Knows
<1>3. OneCreate'
  BY <1>1 DEF OneCreate, RInv
<1>4. Bumped' = Bumped
  BY <1>1, BumpSame
<1>5. UNCHANGED Queue!vars
  BY <1>4, Stutter
<1> QED
  BY <1>2, <1>3, <1>5 DEF RInv

-----------------------------------------------------------------------------
(* Steps that publish nothing: reading, locking, returning, failing.       *)

\* An idle call knows nothing and may stand by anything.
LEMMA IdleKnows ==
    ASSUME NEW d, NEW mu, NEW t, NEW c
    PROVE  Knows(d, mu, t, c, Idle) /\ ~Idle.bump
  BY DEF Knows, Idle, NeedsMutex, FansOut

\* A call returns.
LEMMA ReturnStutters ==
    ASSUME HInv, RInv, queue' = AsQueue', NEW c \in Call, Return(c), ~calls[c].bump
    PROVE  RInv' /\ UNCHANGED Queue!vars
<1>1. /\ calls' = [calls EXCEPT ![c] = Idle] /\ db' = db /\ clock' = clock
      /\ writeMu' = writeMu \/ writeMu = c
  BY DEF Return, Unlocked
<1>2. Idle.op # "create"
  BY DEF Idle
<1>3. Knows(db, writeMu', clock + 1, c, Idle) /\ ~Idle.bump
  BY IdleKnows
<1> QED
  BY <1>1, <1>2, <1>3, Private

\* A statement fails and the handler gives up: an open transaction rolls back.
LEMMA FailStutters ==
    ASSUME HInv, RInv, queue' = AsQueue', NEW c \in Call, Fail(c)
    PROVE  RInv' /\ UNCHANGED Queue!vars
<1>1. Knows(db, writeMu, clock + 1, c, calls[c])
  BY DEF RInv
<1>2. ~calls[c].bump
  BY <1>1 DEF Fail, Knows
<1> QED
  BY <1>2, ReturnStutters DEF Fail

\* A call that was idle.
LEMMA ArrivalStutters ==
    ASSUME HInv, RInv, queue' = AsQueue', NEW c \in Call, NEW k,
           calls[c].op = "idle", calls' = [calls EXCEPT ![c] = k], db' = db, clock' = clock,
           ~k.bump, Knows(db, writeMu', clock + 1, c, k),
           writeMu' = writeMu \/ writeMu = NULL,
           k.op = "create" => \A d \in Call \ {c} : ~(calls[d].op = "create" /\ calls[d].arg = k.arg)
    PROVE  RInv' /\ UNCHANGED Queue!vars
<1>1. Knows(db, writeMu, clock + 1, c, calls[c])
  BY DEF RInv
<1>2. ~calls[c].bump
  BY <1>1 DEF Knows
<1> QED
  BY <1>2, Private

\* A claim takes the mutex, begins its transaction and reads the next pending row.
LEMMA LockClaimStutters ==
    ASSUME HInv, RInv, queue' = AsQueue', NEW c \in Call, NEW w \in Worker, LockClaim(c, w)
    PROVE  RInv' /\ UNCHANGED Queue!vars
<1>1. PICK r \in NextPending(db) :
         calls' = [calls EXCEPT ![c] = [Idle EXCEPT !.op = "claim", !.at = "update", !.arg = w,
                                                    !.read = r, !.open = TRUE, !.work = db]]
  BY DEF LockClaim, OpenTx
<1> DEFINE k == [Idle EXCEPT !.op = "claim", !.at = "update", !.arg = w,
                             !.read = r, !.open = TRUE, !.work = db]
<1>2. /\ calls' = [calls EXCEPT ![c] = k] /\ db' = db /\ clock' = clock
      /\ writeMu' = c /\ writeMu = NULL /\ calls[c].op = "idle"
  BY <1>1 DEF LockClaim, Free
<1>3. /\ k.op = "claim" /\ k.arg = w /\ ~k.wrote /\ ~k.bump /\ k.work = db /\ k.read = r
  BY DEF Idle
<1> HIDE DEF k
<1>4. Knows(db, writeMu', clock + 1, c, k)
  BY <1>2, <1>3 DEF Knows, FansOut
<1> QED
  BY <1>2, <1>3, <1>4, ArrivalStutters

\* A report takes the mutex and reads the status of its row.
LEMMA LockResultStutters ==
    ASSUME HInv, RInv, queue' = AsQueue', NEW c \in Call,
           NEW w \in Worker, NEW r \in Run, NEW b \in Posted, LockResult(c, w, r, b)
    PROVE  RInv' /\ UNCHANGED Queue!vars
<1> DEFINE k == [Idle EXCEPT !.op = "result", !.at = "update",
                             !.arg = [w |-> w, r |-> r, b |-> b],
                             !.read = RunGet(db, r).status]
<1>1. /\ calls' = [calls EXCEPT ![c] = k] /\ db' = db /\ clock' = clock
      /\ writeMu' = c /\ writeMu = NULL /\ calls[c].op = "idle" /\ RunGet(db, r) # NULL
  BY DEF LockResult, ReadForResult, Free
<1>2. r \in DOMAIN db.runs /\ RunGet(db, r).status = db.runs[r].status
  <2>1. r \in DOMAIN db.runs /\ RunGet(db, r) = RunScan(db.runs[r])
    BY <1>1 DEF RunGet
  <2>2. "status" \in RunFields /\ "status" \notin {"seed", "worker_id"} \cup RunText
    BY DEF RunFields, RunQueueing, RunText
  <2>3. RunScan(db.runs[r])["status"] = db.runs[r]["status"]
    BY <2>2 DEF RunScan, Scan
  <2> QED
    BY <2>1, <2>3
<1>3. /\ k.op = "result" /\ k.at = "update" /\ k.arg = [w |-> w, r |-> r, b |-> b]
      /\ k.read = db.runs[r].status /\ ~k.wrote /\ ~k.open /\ ~k.bump
  BY <1>2 DEF Idle
<1> HIDE DEF k
<1>4. k.arg.w = w /\ k.arg.r = r /\ k.arg.b = b
  BY <1>3
<1>5. Knows(db, writeMu', clock + 1, c, k)
  BY <1>1, <1>2, <1>3, <1>4 DEF Knows, FansOut
<1> QED
  BY <1>1, <1>3, <1>5, ArrivalStutters

\* The sweeper takes the mutex and reads the names of the fresh workers.
LEMMA LockSweepStutters ==
    ASSUME HInv, RInv, queue' = AsQueue', NEW c \in Call, LockSweep(c)
    PROVE  RInv' /\ UNCHANGED Queue!vars
<1> DEFINE k == [Idle EXCEPT !.op = "sweep", !.at = "update", !.read = FreshNames(db)]
<1>1. /\ calls' = [calls EXCEPT ![c] = k] /\ db' = db /\ clock' = clock
      /\ writeMu' = c /\ writeMu = NULL /\ calls[c].op = "idle"
  BY DEF LockSweep, Free
<1>2. /\ k.op = "sweep" /\ k.read = FreshNames(db) /\ ~k.wrote /\ ~k.open /\ ~k.bump
  BY DEF Idle
<1> HIDE DEF k
<1>3. Knows(db, writeMu', clock + 1, c, k)
  BY <1>1, <1>2 DEF Knows, FansOut
<1> QED
  BY <1>1, <1>2, <1>3, ArrivalStutters

\* A create or a re-evaluation reads its suites, before it takes the mutex.
LEMMA ReadForFanOutStutters ==
    ASSUME HInv, RInv, queue' = AsQueue', NEW c \in Call, NEW s \in Submission,
           NEW U \in SUBSET Suite, BeginCreate(c, s, U) \/ BeginReevaluate(c, s, U)
    PROVE  RInv' /\ UNCHANGED Queue!vars
<1>1. ASSUME NEW op, NEW at,
             \/ op = "create" /\ at = "insert"
             \/ op = "reevaluate" /\ at = "lock",
             ReadForFanOut(c, op, at, s, U),
             op = "create" <=> s \notin DOMAIN db.submissions,
             op = "create" => \A d \in Call : ~(calls[d].op = "create" /\ calls[d].arg = s)
      PROVE  RInv' /\ UNCHANGED Queue!vars
  <2> DEFINE k == [Idle EXCEPT !.op = op, !.at = at, !.arg = s, !.read = SuitesIn(db, U),
                               !.todo = U]
  <2>1. /\ calls' = [calls EXCEPT ![c] = k] /\ db' = db /\ clock' = clock
        /\ writeMu' = writeMu /\ calls[c].op = "idle" /\ U # {} /\ U \subseteq DOMAIN SuitesIn(db, U)
    BY <1>1 DEF ReadForFanOut
  <2>2. /\ k.op = op /\ k.at = at /\ k.arg = s /\ ~k.wrote /\ ~k.open /\ ~k.bump
        /\ k.read = SuitesIn(db, U) /\ k.todo = U
    BY DEF Idle
  <2>3. DOMAIN SuitesIn(db, U) = U /\ U \subseteq DOMAIN db.suites
    BY <2>1 DEF SuitesIn
  <2>4. \A u \in U : /\ SuitesIn(db, U)[u].seeds = NumSeeds[u]
                     /\ SuitesIn(db, U)[u].sealed => db.suites[u].sealed
    <3> SUFFICES ASSUME NEW u \in U
                 PROVE  /\ SuitesIn(db, U)[u].seeds = NumSeeds[u]
                        /\ SuitesIn(db, U)[u].sealed => db.suites[u].sealed
      OBVIOUS
    <3>1. SuitesIn(db, U)[u] = SuiteScan(db.suites[u])
      BY <2>3 DEF SuitesIn
    <3>2. /\ SuiteScan(db.suites[u]).seeds = db.suites[u].seeds
          /\ SuiteScan(db.suites[u]).sealed = db.suites[u].sealed
      BY DEF SuiteScan, Scan, SuiteFields, SuiteInputs, SuiteNaming, SuiteState
    <3>3. db.suites[u].seeds = NumSeeds[u]
      BY <2>3 DEF RInv, TablesOK
    <3> QED
      BY <3>1, <3>2, <3>3
  <2> HIDE DEF k
  <2>5. SuitesRead(db, k)
    BY <1>1, <2>1, <2>2, <2>3, <2>4 DEF SuitesRead
  <2>6. Knows(db, writeMu', clock + 1, c, k)
    BY <1>1, <2>2, <2>5 DEF Knows, NeedsMutex
  <2> QED
    BY <1>1, <2>1, <2>2, <2>6, ArrivalStutters
<1>2. CASE BeginCreate(c, s, U)
  <2>1. /\ ReadForFanOut(c, "create", "insert", s, U) /\ s \notin DOMAIN db.submissions
        /\ \A d \in Call : ~(calls[d].op = "create" /\ calls[d].arg = s)
    BY <1>2 DEF BeginCreate
  <2> QED
    BY <1>1, <2>1
<1>3. CASE BeginReevaluate(c, s, U)
  <2>1. s \in DOMAIN db.submissions /\ ReadForFanOut(c, "reevaluate", "lock", s, U)
    BY <1>3 DEF BeginReevaluate, SubmissionGet
  <2> QED
    BY <1>1, <2>1
<1> QED
  BY <1>2, <1>3

\* A re-evaluation takes the mutex.
LEMMA LockReevaluateStutters ==
    ASSUME HInv, RInv, queue' = AsQueue', NEW c \in Call, LockReevaluate(c)
    PROVE  RInv' /\ UNCHANGED Queue!vars
<1> DEFINE j == calls[c]
           k == [j EXCEPT !.at = "fan"]
<1>1. /\ calls' = [calls EXCEPT ![c] = k] /\ db' = db /\ clock' = clock
      /\ writeMu' = c /\ writeMu = NULL /\ j.op = "reevaluate" /\ j.at = "lock"
  BY DEF LockReevaluate, Free, Under, HInv
<1>2. CallOK(j) /\ Knows(db, writeMu, clock + 1, c, j)
  BY DEF HInv, RInv
<1>3. DOMAIN j = DOMAIN Idle /\ ~j.open /\ ~j.wrote /\ ~j.bump /\ SuitesRead(db, j)
  BY <1>1, <1>2 DEF CallOK, Knows, FansOut
<1>4. /\ k.op = "reevaluate" /\ k.at = "fan" /\ k.arg = j.arg /\ k.read = j.read
      /\ k.todo = j.todo /\ k.open = j.open /\ k.wrote = j.wrote /\ k.bump = j.bump
  BY <1>1, <1>3 DEF Idle
<1> HIDE DEF j, k
<1>5. SuitesRead(db, k)
  BY <1>1, <1>3, <1>4 DEF SuitesRead
<1>6. Knows(db, writeMu', clock + 1, c, k)
  BY <1>1, <1>3, <1>4, <1>5 DEF Knows
<1>7. ~calls[c].bump /\ ~k.bump
  BY <1>3, <1>4 DEF j
<1> QED
  BY <1>1, <1>4, <1>6, <1>7, Private

-----------------------------------------------------------------------------
(* A fan-out inside its transaction.                                       *)

\* The suite u of a fan-out: n is what j becomes.
LEMMA ProgressMore ==
    ASSUME NEW d, NEW t, NEW j, NEW n, NEW u \in j.todo, NEW ids \in SUBSET Run,
           Progress(d, t, j), j.todo \subseteq DOMAIN j.read,
           n.op = j.op, n.arg = j.arg, n.read = j.read, n.todo = j.todo \ {u},
           ids \cap DOMAIN j.work.runs = {}, Cardinality(ids) = NumSeeds[u],
           \A r \in ids : /\ SubmissionOf[r] = j.arg /\ SuiteOf[r] = u
                          /\ IsNewRow(n.work.runs[r], j.arg, t),
           DOMAIN n.work.runs = DOMAIN j.work.runs \cup ids,
           \A r \in DOMAIN j.work.runs : n.work.runs[r] = j.work.runs[r],
           DOMAIN n.work.suites = DOMAIN j.work.suites,
           \A i \in DOMAIN j.work.suites :
              /\ n.work.suites[i].seeds = j.work.suites[i].seeds
              /\ n.work.suites[i].sealed <=> (j.work.suites[i].sealed \/ i = u),
           n.work.workers = j.work.workers,
           DOMAIN n.work.submissions = DOMAIN j.work.submissions
    PROVE  Progress(d, t, n)
<1> DEFINE new == DOMAIN j.work.runs \ DOMAIN d.runs
           done == DOMAIN j.read \ j.todo
           nnew == DOMAIN n.work.runs \ DOMAIN d.runs
           ndone == DOMAIN n.read \ n.todo
<1>1. /\ DOMAIN d.runs \subseteq DOMAIN j.work.runs
      /\ \A r \in DOMAIN d.runs : j.work.runs[r] = d.runs[r]
      /\ \A r \in new : /\ r \in Run /\ SubmissionOf[r] = j.arg /\ SuiteOf[r] \in done
                        /\ IsNewRow(j.work.runs[r], j.arg, t)
      /\ \A v \in done : Cardinality({r \in new : SuiteOf[r] = v}) = NumSeeds[v]
      /\ DOMAIN j.work.suites = DOMAIN d.suites
      /\ \A i \in DOMAIN d.suites :
            /\ j.work.suites[i].seeds = d.suites[i].seeds
            /\ j.work.suites[i].sealed <=> (d.suites[i].sealed \/ i \in done)
      /\ j.work.workers = d.workers
      /\ DOMAIN j.work.submissions
            = DOMAIN d.submissions \cup (IF j.op = "create" THEN {j.arg} ELSE {})
  BY DEF Progress
<1>2. nnew = new \cup ids /\ ndone = done \cup {u} /\ u \notin done /\ new \subseteq DOMAIN j.work.runs
  BY <1>1
<1> HIDE DEF new, done
<1>3. /\ DOMAIN d.runs \subseteq DOMAIN n.work.runs
      /\ \A r \in DOMAIN d.runs : n.work.runs[r] = d.runs[r]
  BY <1>1
<1>4. \A r \in nnew : /\ r \in Run /\ SubmissionOf[r] = n.arg /\ SuiteOf[r] \in ndone
                      /\ IsNewRow(n.work.runs[r], n.arg, t)
  <2> HIDE DEF nnew, ndone
  <2> QED
    BY <1>1, <1>2
<1>5. \A v \in ndone : Cardinality({r \in nnew : SuiteOf[r] = v}) = NumSeeds[v]
  <2> HIDE DEF nnew, ndone
  <2> SUFFICES ASSUME NEW v \in done \cup {u}
               PROVE  Cardinality({r \in nnew : SuiteOf[r] = v}) = NumSeeds[v]
    BY <1>2
  <2>1. CASE v = u
    <3>1. {r \in nnew : SuiteOf[r] = v} = ids
      BY <1>1, <1>2, <2>1
    <3> QED
      BY <2>1, <3>1
  <2>2. CASE v # u
    <3>1. {r \in nnew : SuiteOf[r] = v} = {r \in new : SuiteOf[r] = v}
      BY <1>2, <2>2
    <3> QED
      BY <1>1, <2>2, <3>1
  <2> QED
    BY <2>1, <2>2
<1>6. \A i \in DOMAIN d.suites :
          /\ n.work.suites[i].seeds = d.suites[i].seeds
          /\ n.work.suites[i].sealed <=> (d.suites[i].sealed \/ i \in ndone)
  <2> HIDE DEF ndone
  <2> QED
    BY <1>1, <1>2
<1>7. /\ DOMAIN n.work.suites = DOMAIN d.suites /\ n.work.workers = d.workers
      /\ DOMAIN n.work.submissions
            = DOMAIN d.submissions \cup (IF n.op = "create" THEN {n.arg} ELSE {})
  BY <1>1
<1> QED
  BY <1>3, <1>4, <1>5, <1>6, <1>7 DEF Progress

\* Before its first suite, a fan-out has added nothing.
LEMMA ProgressNone ==
    ASSUME NEW d, NEW t, NEW k, DOMAIN k.read \ k.todo = {},
           k.work.runs = d.runs, k.work.suites = d.suites, k.work.workers = d.workers,
           DOMAIN k.work.submissions
             = DOMAIN d.submissions \cup (IF k.op = "create" THEN {k.arg} ELSE {})
    PROVE  Progress(d, t, k)
  BY DEF Progress

\* A create inserts its submission in a transaction nobody sees yet.
LEMMA InsertSubmissionStutters ==
    ASSUME HInv, RInv, queue' = AsQueue', NEW c \in Call, InsertSubmission(c)
    PROVE  RInv' /\ UNCHANGED Queue!vars
<1> DEFINE j == calls[c]
           new == SubmissionCreate(db, j.arg, UploadedArtifact, clock + 1)
           k == [j EXCEPT !.open = TRUE, !.work = new, !.wrote = TRUE, !.at = "fan"]
<1>1. /\ db' = db /\ clock' = clock /\ writeMu' = writeMu /\ new # NULL
      /\ calls' = [calls EXCEPT ![c] = k] /\ j.op = "create" /\ j.at = "insert"
  BY DEF InsertSubmission, Under, HInv
<1>2. CallOK(j) /\ Knows(db, writeMu, clock + 1, c, j)
  BY DEF HInv, RInv
<1>3. DOMAIN j = DOMAIN Idle /\ ~j.open /\ ~j.wrote /\ ~j.bump /\ SuitesRead(db, j)
  BY <1>1, <1>2 DEF CallOK, Knows, FansOut
<1>4. /\ k.op = "create" /\ k.at = "fan" /\ k.arg = j.arg /\ k.read = j.read
      /\ k.todo = j.todo /\ k.open /\ k.wrote /\ k.bump = j.bump /\ k.work = new
  BY <1>1, <1>3 DEF Idle
<1>5. /\ new.runs = db.runs /\ new.suites = db.suites /\ new.workers = db.workers
      /\ DOMAIN new.submissions = DOMAIN db.submissions \cup {j.arg}
  BY <1>1, SubmissionCreateOf DEF HInv, Sound
<1> HIDE DEF new, k
<1>6. SuitesRead(db, k)
  BY <1>1, <1>3, <1>4 DEF SuitesRead
<1>7. Progress(db, clock + 1, k)
  <2>1. DOMAIN k.read \ k.todo = {}
    BY <1>3, <1>4 DEF SuitesRead
  <2> QED
    BY <1>4, <1>5, <2>1, ProgressNone
<1>8. Knows(db, writeMu', clock + 1, c, k)
  BY <1>3, <1>4, <1>6, <1>7 DEF Knows, NeedsMutex, FansOut
<1>9. \A d \in Call \ {c} : ~(calls[d].op = "create" /\ calls[d].arg = k.arg)
  BY <1>1, <1>4 DEF RInv, OneCreate
<1>10. ~calls[c].bump /\ ~k.bump
  BY <1>3, <1>4
<1> HIDE DEF j
<1> QED
  BY <1>1, <1>8, <1>9, <1>10, Private

\* A suite fanned out in the transaction: its runs and its seal, unseen yet.
LEMMA FanOutStutters ==
    ASSUME HInv, RInv, queue' = AsQueue', NEW c \in Call, FanOut(c)
    PROVE  RInv' /\ UNCHANGED Queue!vars
<1> DEFINE j == calls[c]
           d == IF j.open THEN j.work ELSE db
           t == clock + 1
           unused(u) == {r \in Run \ DOMAIN d.runs : SubmissionOf[r] = j.arg /\ SuiteOf[r] = u}
           fan(u, ids) ==
             LET new == Seal(InsertRuns(d, j.arg, u, [r \in ids |-> "text"], t), u, j.read[u])
             IN /\ new # NULL
                /\ calls' = [calls EXCEPT ![c].open = TRUE, ![c].work = new, ![c].wrote = TRUE,
                                          ![c].todo = @ \ {u},
                                          ![c].at = IF j.todo = {u} THEN "commit" ELSE @]
<1>1. PICK u \in j.todo : \E ids \in kSubset(j.read[u].seeds, unused(u)) : fan(u, ids)
  BY DEF FanOut
<1>2. PICK ids \in kSubset(j.read[u].seeds, unused(u)) : fan(u, ids)
  BY <1>1
<1> DEFINE seedOf == [r \in ids |-> "text"]
           rows == InsertRuns(d, j.arg, u, seedOf, t)
           new == Seal(rows, u, j.read[u])
           n == [j EXCEPT !.open = TRUE, !.work = new, !.wrote = TRUE, !.todo = @ \ {u},
                          !.at = IF j.todo = {u} THEN "commit" ELSE @]
           b == [j EXCEPT !.work = d]
<1>3. /\ new # NULL /\ calls' = [calls EXCEPT ![c] = n]
      /\ j.at = "fan" /\ db' = db /\ clock' = clock /\ writeMu' = writeMu
  <2>1. new # NULL /\ calls' = [calls EXCEPT ![c] = n]
    BY <1>2 DEF HInv
  <2>2. j.at = "fan" /\ db' = db /\ clock' = clock /\ writeMu' = writeMu
    BY DEF FanOut
  <2> QED
    BY <2>1, <2>2
<1>4. CallOK(j) /\ Knows(db, writeMu, t, c, j)
  BY DEF HInv, RInv
<1>5. DOMAIN j = DOMAIN Idle /\ FansOut(j) /\ ~j.bump /\ SuitesRead(db, j)
  BY <1>3, <1>4 DEF CallOK, Knows, FansOut
<1>6. IsDatabase(d)
  BY <1>4 DEF CallOK, Sound, HInv
<1>7. /\ b.op = j.op /\ b.arg = j.arg /\ b.read = j.read /\ b.todo = j.todo /\ b.work = d
  BY <1>5 DEF Idle
<1>8. Progress(db, t, b)
  <2>1. CASE j.open
    <3>1. Progress(db, t, j) /\ d = j.work
      BY <1>3, <1>4, <2>1 DEF CallOK, Knows
    <3>2. d.workers = db.workers
      BY <3>1 DEF Progress
    <3> HIDE DEF b, d, j
    <3> QED
      BY <1>7, <3>1, <3>2, ProgressSame
  <2>2. CASE ~j.open
    <3>1. j.op # "create" /\ ~j.wrote /\ d = db
      BY <1>3, <1>4, <2>2 DEF CallOK
    <3>2. j.todo = DOMAIN j.read
      BY <1>5, <3>1 DEF SuitesRead
    <3> HIDE DEF b, d, j
    <3> QED
      BY <1>7, <3>1, <3>2, ProgressNone
  <2> QED
    BY <2>1, <2>2
<1>9. /\ ids \in SUBSET Run /\ ids \cap DOMAIN d.runs = {} /\ DOMAIN seedOf = ids
      /\ \A r \in ids : SubmissionOf[r] = j.arg /\ SuiteOf[r] = u
      /\ Cardinality(ids) = j.read[u].seeds
  <2>1. ids \subseteq unused(u) /\ Cardinality(ids) = j.read[u].seeds
    BY <1>2 DEF kSubset
  <2> QED
    BY <2>1
<1>10. /\ u \in DOMAIN db.suites /\ j.read[u].seeds = NumSeeds[u]
       /\ j.read[u].sealed => db.suites[u].sealed
       /\ j.todo \subseteq DOMAIN j.read
  BY <1>5 DEF SuitesRead
<1>11. d # NULL /\ rows # NULL
  BY <1>3 DEF Seal, InsertRuns
<1> HIDE DEF d, unused, fan
<1>12. /\ IsDatabase(rows)
       /\ \A x \in DOMAIN Tables \ {"runs"} : rows[x] = d[x]
       /\ DOMAIN rows.runs = DOMAIN d.runs \cup ids
       /\ \A r \in DOMAIN d.runs : rows.runs[r] = d.runs[r]
       /\ \A r \in ids : IsNewRow(rows.runs[r], j.arg, t)
  <2>1. /\ IsDatabase(rows)
        /\ \A x \in DOMAIN Tables \ {"runs"} : rows[x] = d[x]
        /\ DOMAIN rows.runs = DOMAIN d.runs \cup DOMAIN seedOf
        /\ \A r \in DOMAIN d.runs : rows.runs[r] = d.runs[r]
        /\ \A r \in DOMAIN seedOf :
              rows.runs[r] = NewRow("runs", RunSpec(RunDefaults(NewRun(j.arg, u, seedOf[r]), t)))
    BY <1>6, <1>9, <1>11, InsertRunsOf
  <2> HIDE DEF rows, seedOf
  <2>2. \A r \in ids : IsNewRow(rows.runs[r], j.arg, t)
    BY <1>9, <2>1, NewRunIs
  <2> QED
    BY <1>9, <2>1, <2>2
<1> HIDE DEF rows, seedOf
<1>13. /\ rows.suites = d.suites /\ rows.workers = d.workers /\ rows.submissions = d.submissions
  BY <1>12, TableNames
<1>14. j.read[u].sealed => rows.suites[u].sealed
  BY <1>7, <1>8, <1>10, <1>13 DEF Progress
<1>15. /\ \A x \in DOMAIN Tables \ {"suites"} : new[x] = rows[x]
       /\ DOMAIN new.suites = DOMAIN rows.suites
       /\ \A i \in DOMAIN rows.suites :
             /\ new.suites[i].seeds = rows.suites[i].seeds
             /\ new.suites[i].sealed <=> (rows.suites[i].sealed \/ i = u)
  BY SMTT(30), <1>3, <1>11, <1>12, <1>14, SealOf
<1> HIDE DEF new
<1>16. /\ new.runs = rows.runs /\ new.workers = rows.workers /\ new.submissions = rows.submissions
  BY <1>15, TableNames
<1>17. /\ n.op = j.op /\ n.arg = j.arg /\ n.read = j.read /\ n.todo = j.todo \ {u}
       /\ n.work = new /\ n.open /\ n.wrote /\ n.bump = j.bump
       /\ n.at = IF j.todo = {u} THEN "commit" ELSE "fan"
  BY <1>3, <1>5 DEF Idle
<1> HIDE DEF n, b
<1>18. Progress(db, t, n)
  <2>1. /\ n.op = b.op /\ n.arg = b.arg /\ n.read = b.read /\ n.todo = b.todo \ {u}
        /\ u \in b.todo /\ b.todo \subseteq DOMAIN b.read
    BY <1>7, <1>10, <1>17
  <2>2. /\ ids \cap DOMAIN b.work.runs = {} /\ Cardinality(ids) = NumSeeds[u]
        /\ \A r \in ids : /\ SubmissionOf[r] = b.arg /\ SuiteOf[r] = u
                          /\ IsNewRow(n.work.runs[r], b.arg, t)
    BY <1>7, <1>9, <1>10, <1>12, <1>16, <1>17
  <2>3. /\ DOMAIN n.work.runs = DOMAIN b.work.runs \cup ids
        /\ \A r \in DOMAIN b.work.runs : n.work.runs[r] = b.work.runs[r]
        /\ DOMAIN n.work.suites = DOMAIN b.work.suites
        /\ n.work.workers = b.work.workers
        /\ DOMAIN n.work.submissions = DOMAIN b.work.submissions
    BY <1>7, <1>12, <1>13, <1>15, <1>16, <1>17
  <2>4. \A i \in DOMAIN b.work.suites :
              /\ n.work.suites[i].seeds = b.work.suites[i].seeds
              /\ n.work.suites[i].sealed <=> (b.work.suites[i].sealed \/ i = u)
    BY <1>7, <1>13, <1>15, <1>17
  <2> HIDE DEF t, j
  <2> QED
    BY SMTT(30), <1>8, <1>9, <2>1, <2>2, <2>3, <2>4, ProgressMore
<1>19. SuitesRead(db, n)
  BY <1>3, <1>5, <1>17 DEF SuitesRead, FansOut
<1>20. Knows(db, writeMu', clock + 1, c, n)
  <2>1. NeedsMutex(n) => writeMu = c
    BY <1>3, <1>4, <1>5, <1>17 DEF NeedsMutex, Knows, FansOut
  <2> QED
    BY <1>3, <1>5, <1>17, <1>18, <1>19, <2>1 DEF Knows, FansOut
<1>21. n.op = "create" => \A e \in Call \ {c} : ~(calls[e].op = "create" /\ calls[e].arg = n.arg)
  BY <1>17 DEF RInv, OneCreate
<1>22. ~calls[c].bump /\ ~n.bump
  BY <1>5, <1>17
<1> HIDE DEF j
<1> QED
  BY <1>3, <1>20, <1>21, <1>22, Private

-----------------------------------------------------------------------------
(* Steps that publish while no other call holds the mutex or has written.  *)

\* While nobody else has written, a call without the mutex has nothing at stake.
LEMMA Bystanders ==
    ASSUME HInv, RInv, NoWriter, NEW d \in Call, writeMu # d
    PROVE  /\ DOMAIN calls[d] = DOMAIN Idle /\ ~NeedsMutex(calls[d])
           /\ ~calls[d].wrote /\ ~calls[d].bump
<1>1. CallOK(calls[d]) /\ Knows(db, writeMu, clock + 1, d, calls[d])
  BY DEF HInv, RInv
<1>2. ~NeedsMutex(calls[d])
  BY <1>1 DEF Knows
<1> QED
  BY <1>1, <1>2 DEF CallOK, Knows, NeedsMutex, NoWriter

\* A published write marks the other calls stale, and changes no more of them.
LEMMA OvertakenIs ==
    ASSUME NEW d \in Call, NEW new, DOMAIN calls[d] = DOMAIN Idle
    PROVE  LET e == Overtaken(d, new) IN
           e.op = calls[d].op /\ e.arg = calls[d].arg /\ (e.bump <=> calls[d].bump)
  BY DEF Overtaken, Idle

\* A publication that leaves the suites and the submissions alone keeps RInv.
LEMMA Alone ==
    ASSUME HInv, RInv, queue' = AsQueue', NEW c \in Call, NEW k, NEW new,
           Publish(c, new, k), NoWriter, writeMu \in {c, NULL}, TablesOK(new),
           new.suites = db.suites, new.submissions = db.submissions,
           Knows(new, writeMu', clock' + 1, c, k), k.op # "create"
    PROVE  /\ RInv'
           /\ Bumped = IF calls[c].bump THEN {calls[c].arg.w} ELSE {}
           /\ Bumped' = IF k.bump THEN {k.arg.w} ELSE {}
<1>1. /\ db' = new /\ calls'[c] = k
      /\ \A d \in Call \ {c} : calls'[d] = Overtaken(d, new)
  BY DEF Publish
<1>2. \A d \in Call \ {c} :
         /\ DOMAIN calls[d] = DOMAIN Idle /\ ~NeedsMutex(calls[d])
         /\ ~calls[d].wrote /\ ~calls[d].bump
  BY Bystanders, CallAssumption
<1>3. \A d \in Call : Knows(new, writeMu', clock' + 1, d, calls'[d])
  <2> SUFFICES ASSUME NEW d \in Call \ {c}
               PROVE  Knows(new, writeMu', clock' + 1, d, calls'[d])
    BY <1>1
  <2> DEFINE x == calls[d].stale \/ (calls[d].open /\ new # db)
  <2>1. Knows(db, writeMu, clock + 1, d, calls[d])
    BY DEF RInv
  <2>2. calls'[d] = [calls[d] EXCEPT !.stale = x]
    BY <1>1 DEF Overtaken
  <2>3. /\ DOMAIN calls[d] = DOMAIN Idle /\ ~NeedsMutex(calls[d]) /\ ~calls[d].wrote
        /\ DOMAIN new.submissions = DOMAIN db.submissions
    BY <1>2
  <2> HIDE DEF x
  <2>4. Knows(new, writeMu', clock' + 1, d, [calls[d] EXCEPT !.stale = x])
    BY <2>1, <2>3, KnowsBystander
  <2> QED
    BY <2>2, <2>4
<1>4. \A d \in Call \ {c} :
         /\ calls'[d].op = calls[d].op /\ calls'[d].arg = calls[d].arg /\ ~calls'[d].bump
  BY <1>1, <1>2, OvertakenIs
<1>5. OneCreate'
  BY <1>1, <1>4 DEF RInv, OneCreate
<1>6. RInv'
  BY <1>1, <1>3, <1>5 DEF RInv
<1>7. Bumped = IF calls[c].bump THEN {calls[c].arg.w} ELSE {}
  <2>1. calls[c].bump => calls[c].arg.w \in Worker
    BY DEF RInv, Knows
  <2> QED
    BY <1>2, <2>1 DEF Bumped, Bumping
<1>8. Bumped' = IF k.bump THEN {k.arg.w} ELSE {}
  <2>1. k.bump => k.arg.w \in Worker
    BY DEF Knows
  <2> QED
    BY <1>1, <1>4, <2>1 DEF Bumped, Bumping
<1> QED
  BY <1>6, <1>7, <1>8

\* The same for one statement under a free mutex.
LEMMA Unheld ==
    ASSUME HInv, RInv, queue' = AsQueue', NEW new, LockedStatement(new), TablesOK(new),
           new.suites = db.suites, new.submissions = db.submissions
    PROVE  RInv' /\ Bumped = {} /\ Bumped' = {}
<1>1. /\ db' = new /\ NoWriter /\ writeMu = NULL /\ writeMu' = writeMu
      /\ \A d \in Call : calls'[d] = Overtaken(d, new)
  BY DEF LockedStatement, Statement, Free
<1>2. \A d \in Call :
         /\ DOMAIN calls[d] = DOMAIN Idle /\ ~NeedsMutex(calls[d])
         /\ ~calls[d].wrote /\ ~calls[d].bump
  BY <1>1, Bystanders, CallAssumption
<1>3. \A d \in Call : Knows(new, writeMu', clock' + 1, d, calls'[d])
  <2> SUFFICES ASSUME NEW d \in Call
               PROVE  Knows(new, writeMu', clock' + 1, d, calls'[d])
    OBVIOUS
  <2> DEFINE x == calls[d].stale \/ (calls[d].open /\ new # db)
  <2>1. Knows(db, writeMu, clock + 1, d, calls[d])
    BY DEF RInv
  <2>2. calls'[d] = [calls[d] EXCEPT !.stale = x]
    BY <1>1 DEF Overtaken
  <2>3. /\ DOMAIN calls[d] = DOMAIN Idle /\ ~NeedsMutex(calls[d]) /\ ~calls[d].wrote
        /\ DOMAIN new.submissions = DOMAIN db.submissions
    BY <1>2
  <2> HIDE DEF x
  <2>4. Knows(new, writeMu', clock' + 1, d, [calls[d] EXCEPT !.stale = x])
    BY <2>1, <2>3, KnowsBystander
  <2> QED
    BY <2>2, <2>4
<1>4. \A d \in Call :
         /\ calls'[d].op = calls[d].op /\ calls'[d].arg = calls[d].arg /\ ~calls'[d].bump
  BY <1>1, <1>2, OvertakenIs
<1>5. OneCreate'
  BY <1>4 DEF RInv, OneCreate
<1> QED
  BY <1>1, <1>2, <1>3, <1>4, <1>5 DEF RInv, Bumped, Bumping

-----------------------------------------------------------------------------
(* An update of runs, as the queue sees it.                                *)

\* An update of runs changes its rows in the queue and no other.
LEMMA RunUpdateView ==
    ASSUME NEW d, NEW ids, NEW m, Sound(d, {}), TablesOK(d),
           ids \subseteq DOMAIN d.runs, m.add = <<>>, RunUpdate(d, ids, m) # NULL,
           \A r \in ids : RowOK(r, Changed(d.runs[r], m))
    PROVE  LET e == RunUpdate(d, ids, m) IN
           /\ TablesOK(e)
           /\ e.suites = d.suites /\ e.workers = d.workers /\ e.submissions = d.submissions
           /\ Rows(e) = [r \in Run |-> IF r \in ids THEN RunRow(Changed(d.runs[r], m))
                                                    ELSE Rows(d)[r]]
<1> DEFINE e == RunUpdate(d, ids, m)
<1>1. /\ \A t \in DOMAIN Tables \ {"runs"} : e[t] = d[t]
      /\ DOMAIN e.runs = DOMAIN d.runs
      /\ \A i \in DOMAIN d.runs \ ids : e.runs[i] = d.runs[i]
      /\ \A i \in ids : e.runs[i] = Changed(d.runs[i], m)
  BY RunUpdateOf DEF Sound
<1>2. e.suites = d.suites /\ e.workers = d.workers /\ e.submissions = d.submissions
  BY <1>1, TableNames
<1> HIDE DEF e
<1>3. TablesOK(e)
  BY <1>1, <1>2 DEF TablesOK
<1>4. ASSUME NEW r \in Run
      PROVE  Rows(e)[r] = IF r \in ids THEN RunRow(Changed(d.runs[r], m)) ELSE Rows(d)[r]
  BY <1>1 DEF Rows
<1>5. Rows(e) = [r \in Run |-> Rows(e)[r]]
  BY DEF Rows
<1> QED
  BY <1>2, <1>3, <1>4, <1>5 DEF e

\* A statement on runs under a free mutex.
LEMMA RunStatement ==
    ASSUME HInv, RInv, queue' = AsQueue', NEW ids, NEW m,
           LockedStatement(RunUpdate(db, ids, m)), ids \subseteq DOMAIN db.runs, m.add = <<>>,
           \A r \in ids : RowOK(r, Changed(db.runs[r], m))
    PROVE  /\ RInv'
           /\ queue.runs = Rows(db)
           /\ queue'.runs = [r \in Run |-> IF r \in ids THEN RunRow(Changed(db.runs[r], m))
                                                       ELSE Rows(db)[r]]
           /\ queue'.sealed = queue.sealed /\ queue'.lastSeen = queue.lastSeen
           /\ queue'.handled = queue.handled
<1> DEFINE e == RunUpdate(db, ids, m)
<1>1. e # NULL /\ db' = e
  BY DEF LockedStatement, Statement
<1>2. /\ TablesOK(e)
      /\ e.suites = db.suites /\ e.workers = db.workers /\ e.submissions = db.submissions
      /\ Rows(e) = [r \in Run |-> IF r \in ids THEN RunRow(Changed(db.runs[r], m))
                                               ELSE Rows(db)[r]]
  BY <1>1, RunUpdateView DEF HInv, RInv
<1> HIDE DEF e
<1>3. RInv' /\ Bumped = {} /\ Bumped' = {}
  BY <1>2, Unheld DEF e
<1>4. SealedIn(e) = SealedIn(db) /\ LastSeen(e, {}) = LastSeen(db, {}) /\ Handled(e, {}) = Handled(db, {})
  BY <1>2 DEF SealedIn, LastSeen, Handled
<1> QED
  BY <1>1, <1>2, <1>3, <1>4, Views

-----------------------------------------------------------------------------
(* The operator's requests.                                                *)

\* The rows with a status: no handler writes 'running', so reading it adds none.
LEMMA StatusSet ==
    ASSUME NEW d, TablesOK(d), NEW S \in SUBSET (RunStatuses \ {"running"}),
           NEW T \in {S, S \cup {"running"}}
    PROVE  \A r : r \in StatusIn(d, T) <=> r \in Run /\ Rows(d)[r].status \in S
<1>1. \A r \in DOMAIN d.runs : r \in Run /\ d.runs[r].status \in RunStatuses \ {"running"}
  BY DEF TablesOK, RowOK
<1>2. "none" \notin S /\ "running" \notin S
  BY DEF RunStatuses
<1>3. \A r \in Run : /\ r \in DOMAIN d.runs => Rows(d)[r].status = d.runs[r].status
                     /\ r \notin DOMAIN d.runs => Rows(d)[r].status = "none"
  BY RowsStatus
<1> QED
  BY <1>1, <1>2, <1>3 DEF StatusIn

\* The rows of a submission, by its edge and by the queue's SubmissionOf.
LEMMA Owners ==
    ASSUME NEW d, TablesOK(d), NEW s
    PROVE  HasSubmission(d, s) = {r \in DOMAIN d.runs : SubmissionOf[r] = s}
  BY DEF HasSubmission, LoadRuns, TablesOK, RowOK

\* The rows of submission s with a status in S, in the tables and in the queue.
LEMMA Selected ==
    ASSUME RInv, NEW S \in SUBSET (RunStatuses \ {"running"}), NEW s, queue.runs = Rows(db),
           NEW T \in {S, S \cup {"running"}}
    PROVE  /\ StatusIn(db, T) = Queue!In(S)
           /\ HasSubmission(db, s) \cap StatusIn(db, T) = Queue!RunsOf(s) \cap Queue!In(S)
<1>1. /\ \A r : r \in StatusIn(db, T) <=> r \in Run /\ Rows(db)[r].status \in S
      /\ HasSubmission(db, s) = {r \in DOMAIN db.runs : SubmissionOf[r] = s}
  <2>1. TablesOK(db)
    BY DEF RInv
  <2>2. \A r : r \in StatusIn(db, T) <=> r \in Run /\ Rows(db)[r].status \in S
    BY <2>1, StatusSet
  <2>3. HasSubmission(db, s) = {r \in DOMAIN db.runs : SubmissionOf[r] = s}
    BY <2>1, Owners
  <2> QED
    BY <2>2, <2>3
<1>2. StatusIn(db, T) \subseteq DOMAIN db.runs
  BY StatusRows
<1> QED
  BY <1>1, <1>2 DEF Queue!In, Queue!RunsOf

\* The operator's updates leave well-formed rows.
LEMMA UpdatedRowsOK ==
    ASSUME RInv, NEW r \in DOMAIN db.runs
    PROVE  /\ RowOK(r, Changed(db.runs[r], CancelChange))
           /\ RowOK(r, Changed(db.runs[r], RetryChange))
           /\ RowOK(r, Changed(db.runs[r], SweepChange))
           /\ \A w \in Worker : RowOK(r, Changed(db.runs[r], ClaimChange(w)))
           /\ \A b \in Posted : RowOK(r, Changed(db.runs[r], ResultChange(b)))
           /\ \A p \in Nat : RowOK(r, Changed(db.runs[r], PriorityChange(p)))
<1>1. RowOK(r, db.runs[r])
  BY DEF RInv, TablesOK
<1>2. {"cancelled", "pending", "claimed", "succeeded", "failed", "timed_out"}
        \subseteq RunStatuses \ {"running"}
  BY DEF RunStatuses
<1>3. RowOK(r, Changed(db.runs[r], CancelChange))
  BY <1>1, <1>2, CancelIs DEF RowOK
<1>4. RowOK(r, Changed(db.runs[r], RetryChange))
  BY <1>1, <1>2, RetryIs DEF RowOK
<1>5. RowOK(r, Changed(db.runs[r], SweepChange))
  BY <1>1, <1>2, SweepIs DEF RowOK
<1>6. ASSUME NEW w \in Worker PROVE RowOK(r, Changed(db.runs[r], ClaimChange(w)))
  BY <1>1, <1>2, ClaimIs DEF RowOK
<1>7. ASSUME NEW b \in Posted PROVE RowOK(r, Changed(db.runs[r], ResultChange(b)))
  BY <1>1, <1>2, ResultIs, BodyFields DEF RowOK
<1>8. ASSUME NEW p \in Nat
      PROVE  RowOK(r, Changed(db.runs[r], PriorityChange(p)))
  <2> DEFINE m == PriorityChange(p)
             row == db.runs[r]
             n == Changed(row, m)
  <2>1. /\ n.status = row.status /\ n.worker_id = row.worker_id
        /\ n.priority = p /\ n.created_at = row.created_at
        /\ n.submission_runs = row.submission_runs
    <3>1. DOMAIN m.set = {"priority"} /\ m.set.priority = p /\ m.clear = {}
      BY PriorityChangeIs
    <3> HIDE DEF row, m
    <3> QED
      BY <3>1, PriorityIs
  <2> HIDE DEF n, m
  <2>2. RowOK(r, n)
    BY <1>1, <1>8, <2>1 DEF RowOK, row
  <2> QED
    BY <2>2 DEF n, m, row
<1> QED
  BY <1>3, <1>4, <1>5, <1>6, <1>7, <1>8

\* Cancelling a submission is the queue's CancelSubmission.
LEMMA CancelSubmissionIs ==
    ASSUME HInv, RInv, queue' = AsQueue', NEW s \in Submission, CancelSubmission(s)
    PROVE  RInv' /\ Queue!CancelSubmission(s)
<1> DEFINE ids == Cancellable(db, s)
           m == CancelChange
<1>1. LockedStatement(RunUpdate(db, ids, m)) /\ clock' = clock
  BY DEF CancelSubmission
<1>2. ids \subseteq DOMAIN db.runs /\ m.add = <<>>
  BY StatusRows, ChangesAddNothing DEF Cancellable
<1>3. queue.runs = Rows(db)
  BY Views
<1>4. ids = Queue!RunsOf(s) \cap Queue!In(Queue!InFlight)
  <2>1. InFlight = Queue!InFlight \cup {"running"} /\ Queue!InFlight \in SUBSET (RunStatuses \ {"running"})
    BY DEF InFlight, Queue!InFlight, RunStatuses
  <2> QED
    BY <1>3, <2>1, Selected DEF Cancellable
<1>5. \A r \in ids : /\ RowOK(r, Changed(db.runs[r], m))
                     /\ RunRow(Changed(db.runs[r], m)) = Queue!CancelledRow(queue.runs[r])
  BY <1>2, <1>3, UpdatedRowsOK, CancelIs, RowsStatus DEF RInv, TablesOK, RowOK
<1> HIDE DEF ids, m
<1>6. /\ RInv'
      /\ queue'.runs = [r \in Run |-> IF r \in ids THEN RunRow(Changed(db.runs[r], m))
                                                  ELSE Rows(db)[r]]
      /\ queue'.sealed = queue.sealed /\ queue'.lastSeen = queue.lastSeen
      /\ queue'.handled = queue.handled
  BY <1>1, <1>2, <1>5, RunStatement
<1>7. queue'.runs = [r \in Run |-> IF r \in ids THEN Queue!CancelledRow(queue.runs[r])
                                                ELSE queue.runs[r]]
  BY <1>3, <1>5, <1>6
<1> QED
  BY <1>1, <1>4, <1>6, <1>7 DEF Queue!CancelSubmission

\* Retrying a submission is the queue's RetrySubmission.
LEMMA RetrySubmissionIs ==
    ASSUME HInv, RInv, queue' = AsQueue', NEW s \in Submission, RetrySubmission(s)
    PROVE  RInv' /\ Queue!RetrySubmission(s)
<1> DEFINE ids == Retryable(db, s)
           m == RetryChange
<1>1. LockedStatement(RunUpdate(db, ids, m)) /\ clock' = clock
  BY DEF RetrySubmission
<1>2. ids \subseteq DOMAIN db.runs /\ m.add = <<>>
  BY StatusRows, ChangesAddNothing DEF Retryable
<1>3. queue.runs = Rows(db)
  BY Views
<1>4. ids = Queue!RunsOf(s) \cap Queue!In(Queue!Retryable)
  <2>1. /\ Queue!Retryable = {"failed", "timed_out", "cancelled"}
        /\ Queue!Retryable \in SUBSET (RunStatuses \ {"running"})
    BY DEF Queue!Retryable, RunStatuses
  <2> QED
    BY <1>3, <2>1, Selected DEF Retryable
<1>5. \A r \in ids : /\ RowOK(r, Changed(db.runs[r], m))
                     /\ RunRow(Changed(db.runs[r], m)) = Queue!Retried(queue.runs[r])
  BY <1>2, <1>3, UpdatedRowsOK, RetryIs, RowsStatus DEF RInv, TablesOK, RowOK
<1> HIDE DEF ids, m
<1>6. /\ RInv'
      /\ queue'.runs = [r \in Run |-> IF r \in ids THEN RunRow(Changed(db.runs[r], m))
                                                  ELSE Rows(db)[r]]
      /\ queue'.sealed = queue.sealed /\ queue'.lastSeen = queue.lastSeen
      /\ queue'.handled = queue.handled
  BY <1>1, <1>2, <1>5, RunStatement
<1>7. queue'.runs = [r \in Run |-> IF r \in ids THEN Queue!Retried(queue.runs[r])
                                                ELSE queue.runs[r]]
  BY <1>3, <1>5, <1>6
<1> QED
  BY <1>1, <1>4, <1>6, <1>7 DEF Queue!RetrySubmission

\* Cancelling a run is the queue's CancelRun, or nothing was in flight.
LEMMA CancelRunIs ==
    ASSUME HInv, RInv, queue' = AsQueue', NEW r \in Run, CancelRun(r)
    PROVE  RInv' /\ (Queue!CancelRun(r) \/ UNCHANGED Queue!vars)
<1> DEFINE ids == {r} \cap StatusIn(db, InFlight)
           m == CancelChange
<1>1. LockedStatement(RunUpdate(db, ids, m)) /\ clock' = clock
  BY DEF CancelRun
<1>2. ids \subseteq DOMAIN db.runs /\ m.add = <<>>
  BY StatusRows, ChangesAddNothing
<1>3. queue.runs = Rows(db)
  BY Views
<1>4. ids = {r} \cap Queue!In(Queue!InFlight)
  <2>1. InFlight = Queue!InFlight \cup {"running"} /\ Queue!InFlight \in SUBSET (RunStatuses \ {"running"})
    BY DEF InFlight, Queue!InFlight, RunStatuses
  <2> QED
    BY <1>3, <2>1, Selected
<1>5. \A q \in ids : /\ RowOK(q, Changed(db.runs[q], m))
                     /\ RunRow(Changed(db.runs[q], m)) = Queue!CancelledRow(queue.runs[q])
  BY SMTT(30), <1>2, <1>3, UpdatedRowsOK, CancelIs, RowsStatus DEF RInv, TablesOK, RowOK
<1> HIDE DEF ids, m
<1>6. /\ RInv'
      /\ queue'.runs = [q \in Run |-> IF q \in ids THEN RunRow(Changed(db.runs[q], m))
                                                  ELSE Rows(db)[q]]
      /\ queue'.sealed = queue.sealed /\ queue'.lastSeen = queue.lastSeen
      /\ queue'.handled = queue.handled
  BY <1>1, <1>2, <1>5, RunStatement
<1>7. queue'.runs = [q \in Run |-> IF q \in ids THEN Queue!CancelledRow(queue.runs[q])
                                                ELSE queue.runs[q]]
  BY <1>3, <1>5, <1>6
<1>8. queue.runs = [q \in Run |-> queue.runs[q]]
  BY <1>3 DEF Rows
<1>9. CASE r \in ids
  <2>1. queue.runs[r].status \in Queue!InFlight /\ ids = {r}
    BY <1>4, <1>9 DEF Queue!In
  <2>2. queue'.runs = [queue.runs EXCEPT ![r] = Queue!CancelledRow(@)]
    BY <1>7, <1>8, <2>1
  <2> QED
    BY <1>1, <1>6, <2>1, <2>2 DEF Queue!CancelRun
<1>10. CASE r \notin ids
  <2>1. ids = {}
    BY <1>4, <1>10
  <2>2. queue'.runs = queue.runs
    BY <1>7, <1>8, <2>1
  <2> QED
    BY <1>1, <1>6, <2>2 DEF Queue!vars
<1> QED
  BY <1>9, <1>10

\* Prioritizing a submission is the queue's PrioritizeSubmission.
LEMMA PrioritizeSubmissionIs ==
    ASSUME HInv, RInv, queue' = AsQueue', NEW s \in Submission, PrioritizeSubmission(s)
    PROVE  RInv' /\ Queue!PrioritizeSubmission(s)
<1>0. clock' = clock + 1 /\ clock' \in Nat
  BY ClockAssumption DEF PrioritizeSubmission, HInv
<1> PICK p \in Nat : p = clock'
  BY <1>0
<1> DEFINE ids == HasSubmission(db, s) \cap StatusIn(db, {"pending"})
           m == PriorityChange(p)
<1>1. LockedStatement(RunUpdate(db, ids, m)) /\ clock < MaxClock
  BY DEF PrioritizeSubmission
<1>2. ids \subseteq DOMAIN db.runs /\ m.add = <<>>
  BY StatusRows, ChangesAddNothing
<1>3. queue.runs = Rows(db)
  BY Views
<1>4. ids = Queue!RunsOf(s) \cap Queue!In({"pending"})
  <2>1. {"pending"} \in SUBSET (RunStatuses \ {"running"})
    BY DEF RunStatuses
  <2> QED
    BY <1>3, <2>1, Selected
<1> HIDE DEF ids
<1>5. \A r \in ids : /\ RowOK(r, Changed(db.runs[r], m))
                     /\ RunRow(Changed(db.runs[r], m)) = [queue.runs[r] EXCEPT !.priority = p]
  <2> SUFFICES ASSUME NEW r \in ids
               PROVE  /\ RowOK(r, Changed(db.runs[r], m))
                      /\ RunRow(Changed(db.runs[r], m)) = [queue.runs[r] EXCEPT !.priority = p]
    OBVIOUS
  <2>1. RowOK(r, Changed(db.runs[r], m))
    BY <1>1, <1>2, UpdatedRowsOK
  <2>2. RunRow(Changed(db.runs[r], m)) = [RunRow(db.runs[r]) EXCEPT !.priority = p]
    <3>1. DOMAIN m.set = {"priority"} /\ m.set.priority = p /\ m.clear = {}
      BY PriorityChangeIs
    <3> HIDE DEF m
    <3> QED
      BY <3>1, PriorityIs
  <2>3. queue.runs[r] = RunRow(db.runs[r])
    BY <1>2, <1>3, RowsStatus DEF RInv, TablesOK, RowOK
  <2> QED
    BY <2>1, <2>2, <2>3
<1> HIDE DEF m
<1>6. /\ RInv'
      /\ queue'.runs = [r \in Run |-> IF r \in ids THEN RunRow(Changed(db.runs[r], m))
                                                  ELSE Rows(db)[r]]
      /\ queue'.sealed = queue.sealed /\ queue'.lastSeen = queue.lastSeen
      /\ queue'.handled = queue.handled
  <2>1. LockedStatement(RunUpdate(db, ids, m)) /\ ids \subseteq DOMAIN db.runs /\ m.add = <<>>
    BY <1>1, <1>2
  <2>2. \A r \in ids : RowOK(r, Changed(db.runs[r], m))
    BY <1>5
  <2> QED
    BY <2>1, <2>2, RunStatement
<1>7. queue'.runs = [r \in Run |-> IF r \in ids THEN [queue.runs[r] EXCEPT !.priority = clock']
                                                ELSE queue.runs[r]]
  BY <1>3, <1>5, <1>6
<1> QED
  BY <1>0, <1>1, <1>4, <1>6, <1>7 DEF Queue!PrioritizeSubmission

-----------------------------------------------------------------------------
(* The workers.                                                            *)

\* The heart beat's upsert, in tables where a worker's id is its name.
LEMMA WorkerUpsertOf ==
    ASSUME NEW d, NEW w \in Worker, IsDatabase(d), TablesOK(d),
           WorkerUpsert(d, w, SeenChange(w), "now") # NULL
    PROVE  LET e == WorkerUpsert(d, w, SeenChange(w), "now")
           IN /\ e.runs = d.runs /\ e.suites = d.suites /\ e.submissions = d.submissions
              /\ DOMAIN e.workers = DOMAIN d.workers \cup {w}
              /\ \A v \in DOMAIN d.workers \ {w} : e.workers[v] = d.workers[v]
              /\ e.workers[w].name = w /\ e.workers[w].last_seen = "fresh"
              /\ e.workers[w].runs_handled
                    = IF w \in DOMAIN d.workers THEN d.workers[w].runs_handled ELSE 0
<1> DEFINE m == SeenChange(w)
           f == WorkerDefaults(m, "now")
           given == [name |-> w, last_seen |-> "fresh"]
           defaults == [last_seen |-> "now", runs_handled |-> 0, created_at |-> "now"]
           same == {i \in DOMAIN d.workers : d.workers[i].name = f.set.name}
           spec == WorkerSpec(f)
           change == [NoChange EXCEPT !.set = [c \in OnConflictUpdates(f) |-> spec[c]]]
           ids == {w}
           rows == [i \in {w} |-> spec]
           e == WorkerUpsert(d, w, m, "now")
<1>1. /\ f.set.name = w /\ f.set.last_seen = "fresh" /\ f.set.runs_handled = 0
      /\ DOMAIN f.set = WorkerFields
  <2>1. f.set = given ++ defaults
    <3>1. m.set = given /\ "set" \in DOMAIN m
      BY SeenChangeIs
    <3> HIDE DEF m, given
    <3> QED
      BY <3>1 DEF WorkerDefaults, Default
  <2>2. /\ DOMAIN given = {"name", "last_seen"} /\ given.name = w /\ given.last_seen = "fresh"
        /\ DOMAIN defaults = {"last_seen", "runs_handled", "created_at"}
        /\ defaults.runs_handled = 0
    OBVIOUS
  <2> HIDE DEF given, defaults, f
  <2> QED
    BY <2>1, <2>2 DEF ++, WorkerFields, WorkerIdentity, WorkerTally, Stamp
<1>2. /\ DOMAIN spec = WorkerFields
      /\ spec.name = w /\ spec.last_seen = "fresh" /\ spec.runs_handled = 0
  <2> HIDE DEF f
  <2> QED
    BY <1>1 DEF WorkerSpec, WorkerFields, WorkerIdentity, WorkerTally
<1>3. same = {w} \cap DOMAIN d.workers
  <2>1. \A i \in DOMAIN d.workers : d.workers[i].name = i
    BY DEF TablesOK, WorkerOK
  <2> HIDE DEF f
  <2> QED
    BY <1>1, <2>1
<1>4. e = IF same = {} THEN Insert(d, "workers", rows) ELSE UpdateRows(d, "workers", same, change)
  BY DEF WorkerUpsert, WorkerCreate, WorkerSave, InsertOne
<1>5. /\ DOMAIN change.set = {"last_seen"} /\ change.set["last_seen"] = "fresh"
      /\ DOMAIN change.add = {} /\ change.clear = {}
  <2> HIDE DEF spec
  <2> QED
    BY <1>2 DEF NoChange, OnConflictUpdates
<1>6. DOMAIN rows = {w} /\ rows[w] = spec
  OBVIOUS
<1>7. /\ "workers" \in DOMAIN Tables /\ Tables["workers"].columns = WorkerFields
      /\ {"name", "last_seen", "runs_handled"} \subseteq WorkerFields
      /\ e # NULL
  BY TableNames DEF WorkersTable, WorkerFields, WorkerIdentity, WorkerTally
<1> HIDE DEF e, rows, change, same, spec, f, m
<1>8. CASE w \notin DOMAIN d.workers
  <2>1. e = Insert(d, "workers", rows)
    BY <1>3, <1>4, <1>8
  <2>2. /\ \A t \in DOMAIN Tables \ {"workers"} : e[t] = d[t]
        /\ DOMAIN e["workers"] = DOMAIN d["workers"] \cup DOMAIN rows
        /\ \A i \in DOMAIN d["workers"] \ DOMAIN rows : e["workers"][i] = d["workers"][i]
        /\ \A i \in DOMAIN rows : e["workers"][i] = NewRow("workers", rows[i])
    BY SMTT(30), <1>7, <2>1, InsertOf
  <2>3. e["workers"][w] = NewRow("workers", spec)
    BY <1>6, <2>2
  <2>4. /\ e.workers[w].name = w /\ e.workers[w].last_seen = "fresh"
        /\ e.workers[w].runs_handled = 0
    BY <1>2, <1>7, <2>3 DEF NewRow
  <2> QED
    BY <1>6, <1>8, <2>2, <2>4, TableNames DEF e, m
<1>9. CASE w \in DOMAIN d.workers
  <2> DEFINE row == d["workers"][w]
  <2>1. e = UpdateRows(d, "workers", ids, change) /\ ids \subseteq DOMAIN d["workers"]
    BY <1>3, <1>4, <1>9
  <2>2. w \in ids /\ \A i \in ids : i = w
    OBVIOUS
  <2> HIDE DEF ids
  <2>3. /\ \A t \in DOMAIN Tables \ {"workers"} : e[t] = d[t]
        /\ DOMAIN e["workers"] = DOMAIN d["workers"]
        /\ \A i \in DOMAIN d["workers"] \ ids : e["workers"][i] = d["workers"][i]
        /\ \A i \in ids :
              e["workers"][i] =
                 [c \in Tables["workers"].columns |->
                    IF c \in DOMAIN change.set THEN change.set[c]
                    ELSE IF c \in DOMAIN change.add
                         THEN IF d["workers"][i][c] = NULL THEN change.add[c]
                              ELSE d["workers"][i][c] + change.add[c]
                    ELSE IF c \in change.clear THEN NULL ELSE d["workers"][i][c]]
    BY <1>7, <2>1, UpdateRowsOf
  <2>4. e["workers"][w] =
                 [c \in WorkerFields |->
                    IF c \in DOMAIN change.set THEN change.set[c]
                    ELSE IF c \in DOMAIN change.add
                         THEN IF row[c] = NULL THEN change.add[c] ELSE row[c] + change.add[c]
                    ELSE IF c \in change.clear THEN NULL ELSE row[c]]
    BY <1>7, <2>2, <2>3
  <2>5. row.name = w
    BY <1>9 DEF TablesOK, WorkerOK
  <2> HIDE DEF row
  <2>6. /\ e.workers[w].name = w /\ e.workers[w].last_seen = "fresh"
        /\ e.workers[w].runs_handled = row.runs_handled
    BY <1>5, <1>7, <2>4, <2>5
  <2> QED
    BY <1>9, <2>2, <2>3, <2>6, TableNames DEF e, m, row
<1> QED
  BY <1>8, <1>9

\* The heart beat is the queue's UpsertWorker.
LEMMA UpsertWorkerIs ==
    ASSUME HInv, RInv, queue' = AsQueue', NEW w \in Worker, UpsertWorker(w)
    PROVE  RInv' /\ Queue!UpsertWorker(w)
<1> DEFINE new == WorkerUpsert(db, w, SeenChange(w), "now")
<1>1. LockedStatement(new) /\ new # NULL /\ db' = new /\ clock' = clock
  BY DEF UpsertWorker, LockedStatement, Statement
<1>2. IsDatabase(db) /\ TablesOK(db)
  BY DEF HInv, Sound, RInv
<1>3. /\ new.runs = db.runs /\ new.suites = db.suites /\ new.submissions = db.submissions
      /\ DOMAIN new.workers = DOMAIN db.workers \cup {w}
      /\ \A v \in DOMAIN db.workers \ {w} : new.workers[v] = db.workers[v]
      /\ new.workers[w].name = w /\ new.workers[w].last_seen = "fresh"
      /\ new.workers[w].runs_handled
            = IF w \in DOMAIN db.workers THEN db.workers[w].runs_handled ELSE 0
  BY <1>1, <1>2, WorkerUpsertOf
<1> HIDE DEF new
<1>4. TablesOK(new)
  BY <1>2, <1>3 DEF TablesOK, WorkerOK
<1>5. RInv' /\ Bumped = {} /\ Bumped' = {}
  BY <1>1, <1>3, <1>4, Unheld
<1>6. Rows(new) = Rows(db) /\ SealedIn(new) = SealedIn(db)
  BY <1>3 DEF Rows, SealedIn
<1>7. LastSeen(new, {}) = [LastSeen(db, {}) EXCEPT ![w] = "fresh"]
  BY <1>3 DEF LastSeen
<1>8. Handled(new, {}) = Handled(db, {})
  <2>1. \A v \in DOMAIN db.workers : db.workers[v].runs_handled \in Nat
    BY <1>2 DEF TablesOK, WorkerOK
  <2> QED
    BY <1>3, <2>1 DEF Handled
<1> QED
  BY <1>1, <1>5, <1>6, <1>7, <1>8, Views DEF Queue!UpsertWorker

\* A worker ages: its other columns, and the other workers, stay.
LEMMA AgedColumns ==
    ASSUME NEW d, NEW w \in DOMAIN d.workers, IsDatabase(d), TablesOK(d)
    PROVE  LET e == Aged(d, w) IN
           /\ TablesOK(e)
           /\ \A v \in DOMAIN d.workers \ {w} : e.workers[v] = d.workers[v]
           /\ e.workers[w].last_seen = "stale"
           /\ e.workers[w].runs_handled = d.workers[w].runs_handled
<1> DEFINE e == Aged(d, w)
           row == d.workers[w]
<1>1. /\ e.runs = d.runs /\ e.suites = d.suites /\ DOMAIN e.workers = DOMAIN d.workers
      /\ e.workers = [d.workers EXCEPT ![w].last_seen = "stale"]
  BY AgedIs
<1>2. {"name", "last_seen", "runs_handled"} \subseteq DOMAIN row
  BY TableNames DEF IsDatabase, WorkersTable, WorkerFields, WorkerIdentity, WorkerTally
<1> HIDE DEF e
<1>3. \A v \in DOMAIN d.workers \ {w} : e.workers[v] = d.workers[v]
  BY <1>1
<1>4. e.workers[w] = [row EXCEPT !.last_seen = "stale"]
  BY <1>1
<1> HIDE DEF row
<1>5. /\ e.workers[w].name = row.name /\ e.workers[w].runs_handled = row.runs_handled
      /\ e.workers[w].last_seen = "stale"
  BY <1>2, <1>4
<1>6. TablesOK(e)
  BY <1>1, <1>3, <1>5 DEF TablesOK, WorkerOK, row
<1> QED
  BY <1>3, <1>5, <1>6 DEF e, row

\* A worker goes stale as in the queue, unless its counter is about to be written.
LEMMA GoStaleIs ==
    ASSUME HInv, RInv, queue' = AsQueue', NEW w \in Worker, GoStale(w)
    PROVE  RInv' /\ (Queue!GoStale(w) \/ UNCHANGED Queue!vars)
<1> DEFINE e == Aged(db, w)
<1>1. /\ db' = e /\ writeMu' = writeMu /\ clock' = clock
      /\ w \in DOMAIN db.workers /\ db.workers[w].last_seen = "fresh"
      /\ \A c \in Call : calls[c].op # "sweep"
      /\ \A c \in Call : calls'[c] = IF calls[c].open
                                     THEN [calls[c] EXCEPT !.work = Aged(@, w)] ELSE calls[c]
  BY DEF GoStale
<1>2. IsDatabase(db) /\ TablesOK(db)
  BY DEF HInv, Sound, RInv
<1>3. /\ e.runs = db.runs /\ e.suites = db.suites
      /\ DOMAIN e.workers = DOMAIN db.workers
  BY <1>2, AgedIs
<1>4. /\ TablesOK(e)
      /\ \A v \in DOMAIN db.workers \ {w} : e.workers[v] = db.workers[v]
      /\ e.workers[w].last_seen = "stale"
      /\ e.workers[w].runs_handled = db.workers[w].runs_handled
  BY <1>1, <1>2, AgedColumns
<1>5. \A c \in Call : Knows(e, writeMu', clock' + 1, c, calls'[c])
  <2> SUFFICES ASSUME NEW c \in Call
               PROVE  Knows(e, writeMu', clock' + 1, c, calls'[c])
    OBVIOUS
  <2>1. Knows(db, writeMu, clock + 1, c, calls[c]) /\ CallOK(calls[c])
    BY DEF HInv, RInv
  <2>2. /\ DOMAIN calls[c] = DOMAIN Idle
        /\ calls[c].op = "claim" => calls[c].open
        /\ calls[c].wrote => calls[c].open
        /\ calls[c].open => IsDatabase(calls[c].work)
    BY <2>1 DEF CallOK, Sound
  <2>3. Knows(e, writeMu, clock + 1, c, IF calls[c].open
                                  THEN [calls[c] EXCEPT !.work = Aged(@, w)] ELSE calls[c])
    BY <1>1, <1>2, <2>1, <2>2, KnowsAged
  <2> QED
    BY <1>1, <2>3
<1>6. \A c \in Call : /\ calls'[c].op = calls[c].op /\ calls'[c].arg = calls[c].arg
                      /\ calls'[c].bump <=> calls[c].bump
  <2> SUFFICES ASSUME NEW c \in Call
               PROVE  /\ calls'[c].op = calls[c].op /\ calls'[c].arg = calls[c].arg
                      /\ calls'[c].bump <=> calls[c].bump
    OBVIOUS
  <2>1. DOMAIN calls[c] = DOMAIN Idle
    BY DEF HInv, CallOK
  <2>2. {"op", "arg", "bump", "work"} \subseteq DOMAIN Idle
    BY DEF Idle
  <2>3. CASE calls[c].open
    <3> DEFINE k == calls[c]
               x == Aged(k.work, w)
    <3>1. calls'[c] = [k EXCEPT !.work = x]
      BY <1>1, <2>3
    <3> HIDE DEF k, x
    <3>2. calls'[c].op = k.op /\ calls'[c].arg = k.arg /\ calls'[c].bump = k.bump
      BY <2>1, <2>2, <3>1 DEF k
    <3> QED
      BY <3>2 DEF k
  <2>4. CASE ~calls[c].open
    BY <1>1, <2>4
  <2> QED
    BY <2>3, <2>4
<1>7. RInv'
  BY <1>1, <1>4, <1>5, <1>6 DEF RInv, OneCreate
<1>8. Bumped' = Bumped
  BY <1>6 DEF Bumped, Bumping
<1> HIDE DEF e
<1>9. /\ Rows(e) = Rows(db) /\ SealedIn(e) = SealedIn(db)
  BY <1>3 DEF Rows, SealedIn
<1>10. Handled(e, Bumped) = Handled(db, Bumped)
  BY <1>3, <1>4 DEF Handled
<1>11. CASE w \in Bumped
  <2>1. LastSeen(e, Bumped) = LastSeen(db, Bumped)
    BY <1>3, <1>4, <1>11 DEF LastSeen
  <2> QED
    BY <1>1, <1>7, <1>8, <1>9, <1>10, <2>1, Views DEF Queue!vars
<1>12. CASE w \notin Bumped
  <2>1. LastSeen(e, Bumped) = [LastSeen(db, Bumped) EXCEPT ![w] = "stale"]
    <3> DEFINE f == LastSeen(e, Bumped)
               g == LastSeen(db, Bumped)
    <3>1. f = [v \in Worker |-> f[v]] /\ g = [v \in Worker |-> g[v]]
      BY DEF LastSeen
    <3>2. f[w] = "stale"
      BY <1>1, <1>3, <1>4, <1>12 DEF LastSeen
    <3>3. \A v \in Worker \ {w} : f[v] = g[v]
      BY <1>3, <1>4 DEF LastSeen
    <3> HIDE DEF f, g
    <3>4. f = [g EXCEPT ![w] = "stale"]
      BY <3>1, <3>2, <3>3
    <3> QED
      BY <3>4 DEF f, g
  <2>2. LastSeen(db, Bumped)[w] = "fresh"
    BY <1>1, <1>12 DEF LastSeen
  <2> QED
    BY <1>1, <1>7, <1>8, <1>9, <1>10, <2>1, <2>2, Views DEF Queue!GoStale
<1> QED
  BY <1>11, <1>12

-----------------------------------------------------------------------------
(* An update of runs by the call that holds the mutex.                     *)

\* An update of runs published by the holder of the mutex, with or without a bump to come.
LEMMA RunPublish ==
    ASSUME HInv, RInv, queue' = AsQueue', NEW c \in Call, NEW k, NEW ids, NEW m,
           Publish(c, RunUpdate(db, ids, m), k), NoWriter, writeMu = c, ~calls[c].bump,
           ids \subseteq DOMAIN db.runs, m.add = <<>>,
           \A r \in ids : RowOK(r, Changed(db.runs[r], m)),
           Knows(RunUpdate(db, ids, m), writeMu', clock' + 1, c, k), k.op # "create",
           NEW B, k.bump => B = {k.arg.w}, ~k.bump => B = {}
    PROVE  /\ RInv'
           /\ queue.runs = Rows(db)
           /\ queue'.runs = [r \in Run |-> IF r \in ids THEN RunRow(Changed(db.runs[r], m))
                                                       ELSE Rows(db)[r]]
           /\ queue'.sealed = queue.sealed
           /\ queue.lastSeen = LastSeen(db, {}) /\ queue'.lastSeen = LastSeen(db, B)
           /\ queue.handled = Handled(db, {}) /\ queue'.handled = Handled(db, B)
<1> DEFINE e == RunUpdate(db, ids, m)
<1>1. e # NULL /\ db' = e
  BY DEF Publish
<1>2. /\ TablesOK(e)
      /\ e.suites = db.suites /\ e.workers = db.workers /\ e.submissions = db.submissions
      /\ Rows(e) = [r \in Run |-> IF r \in ids THEN RunRow(Changed(db.runs[r], m))
                                               ELSE Rows(db)[r]]
  BY <1>1, RunUpdateView DEF HInv, RInv
<1>0. Publish(c, e, k) /\ Knows(e, writeMu', clock' + 1, c, k)
  OBVIOUS
<1> HIDE DEF e
<1>3. RInv' /\ Bumped = {} /\ Bumped' = B
  BY <1>0, <1>2, Alone
<1>4. SealedIn(e) = SealedIn(db) /\ LastSeen(e, B) = LastSeen(db, B) /\ Handled(e, B) = Handled(db, B)
  BY <1>2 DEF SealedIn, LastSeen, Handled
<1> QED
  BY <1>1, <1>2, <1>3, <1>4, Views

\* The claim's ORDER BY picks the queue's NextUp.
LEMMA NextPendingIs ==
    ASSUME RInv, queue.runs = Rows(db), NEW r \in NextPending(db)
    PROVE  r \in DOMAIN db.runs /\ r \in Run /\ Queue!NextUp(r)
<1>1. /\ r \in StatusIn(db, {"pending"})
      /\ \A j \in StatusIn(db, {"pending"}) :
            ~(\/ db.runs[j].priority > db.runs[r].priority
              \/ /\ db.runs[j].priority = db.runs[r].priority
                 /\ db.runs[j].created_at < db.runs[r].created_at)
  BY DEF NextPending, First
<1>2. TablesOK(db)
  BY DEF RInv
<1>3. r \in DOMAIN db.runs /\ r \in Run /\ StatusIn(db, {"pending"}) \subseteq DOMAIN db.runs
  BY <1>1, <1>2 DEF StatusIn, TablesOK, RowOK
<1>4. StatusIn(db, {"pending"}) = Queue!In({"pending"})
  <2>1. {"pending"} \in SUBSET (RunStatuses \ {"running"})
    BY DEF RunStatuses
  <2> QED
    BY <2>1, Selected
<1>5. \A q \in DOMAIN db.runs :
         /\ queue.runs[q].priority = db.runs[q].priority
         /\ queue.runs[q].created = db.runs[q].created_at
         /\ queue.runs[q].status = db.runs[q].status
         /\ db.runs[q].priority \in Nat /\ db.runs[q].created_at \in Nat
  BY <1>2, RowsStatus DEF TablesOK, RowOK
<1>6. \A q \in Queue!In({"pending"}) :
          \/ queue.runs[q].priority < queue.runs[r].priority
          \/ /\ queue.runs[q].priority = queue.runs[r].priority
             /\ queue.runs[r].created <= queue.runs[q].created
  BY <1>1, <1>3, <1>4, <1>5
<1>7. queue.runs[r].status = "pending"
  BY <1>1, <1>5 DEF StatusIn
<1> QED
  BY <1>3, <1>6, <1>7 DEF Queue!NextUp

\* The claim's update and commit are the queue's HandleClaim.
LEMMA UpdateClaimIs ==
    ASSUME HInv, RInv, queue' = AsQueue', NEW c \in Call, UpdateClaim(c)
    PROVE  RInv' /\ \E w \in Worker, r \in Run : Queue!HandleClaim(w, r)
<1> DEFINE w == calls[c].arg
           r == calls[c].read
           m == ClaimChange(w)
           ids == {r}
           e == RunUpdate(db, ids, m)
<1>1. Knows(db, writeMu, clock + 1, c, calls[c])
  BY DEF RInv
<1>2. /\ w \in Worker /\ calls[c].work = db /\ r \in NextPending(db)
      /\ writeMu = c /\ ~calls[c].bump /\ NoWriter /\ clock' = clock
  BY <1>1 DEF UpdateClaim, Under, MayWrite, Knows, NeedsMutex
<1>3. queue.runs = Rows(db)
  BY Views
<1>4. r \in DOMAIN db.runs /\ r \in Run /\ Queue!NextUp(r)
  BY <1>2, <1>3, NextPendingIs
<1>5. Publish(c, e, Idle)
  BY <1>2, <1>4 DEF UpdateClaim, RunUpdateOne
<1>6. ids \subseteq DOMAIN db.runs /\ m.add = <<>> /\ r \in ids /\ \A q \in ids : q = r
  BY <1>4, ChangesAddNothing
<1>7. RowOK(r, Changed(db.runs[r], m)) /\ RunRow(Changed(db.runs[r], m)) = Queue!ClaimedBy(queue.runs[r], w)
  <2>1. queue.runs[r] = RunRow(db.runs[r])
    BY <1>3, <1>4, RowsStatus DEF RInv
  <2> QED
    BY <1>2, <1>4, <2>1, UpdatedRowsOK, ClaimIs
<1> HIDE DEF ids, m
<1>8. Knows(e, writeMu', clock' + 1, c, Idle) /\ ~Idle.bump /\ Idle.op # "create"
  BY IdleKnows DEF Idle
<1>9. \A q \in ids : RowOK(q, Changed(db.runs[q], m))
  BY <1>6, <1>7
<1>10. /\ RInv'
       /\ queue'.runs = [q \in Run |-> IF q \in ids THEN RunRow(Changed(db.runs[q], m))
                                                   ELSE Rows(db)[q]]
       /\ queue'.sealed = queue.sealed
       /\ queue'.lastSeen = queue.lastSeen /\ queue'.handled = queue.handled
  <2>0. ~Idle.bump
    BY <1>8
  <2>1. /\ RInv'
        /\ queue'.runs = [q \in Run |-> IF q \in ids THEN RunRow(Changed(db.runs[q], m))
                                                    ELSE Rows(db)[q]]
        /\ queue'.sealed = queue.sealed
        /\ queue.lastSeen = LastSeen(db, {}) /\ queue'.lastSeen = LastSeen(db, {})
        /\ queue.handled = Handled(db, {}) /\ queue'.handled = Handled(db, {})
    BY SMTT(30), <1>2, <1>5, <1>6, <1>8, <1>9, <2>0, RunPublish
  <2> QED
    BY <1>8, <2>1
<1>11. queue.runs = [q \in Run |-> queue.runs[q]]
  BY <1>3 DEF Rows
<1>12. queue'.runs = [queue.runs EXCEPT ![r] = Queue!ClaimedBy(@, w)]
  BY <1>3, <1>4, <1>6, <1>7, <1>10, <1>11
<1>13. Queue!HandleClaim(w, r)
  BY <1>2, <1>4, <1>10, <1>12 DEF Queue!HandleClaim
<1> QED
  BY <1>2, <1>4, <1>10, <1>13

\* The sweeper's update is the queue's Sweep, though it read the workers first.
LEMMA UpdateSweepIs ==
    ASSUME HInv, RInv, queue' = AsQueue', NEW c \in Call, UpdateSweep(c)
    PROVE  RInv' /\ Queue!Sweep
<1> DEFINE fresh == calls[c].read
           m == SweepChange
           ids == Sweepable(db, fresh)
           e == RunUpdate(db, ids, m)
<1>1. Knows(db, writeMu, clock + 1, c, calls[c])
  BY DEF RInv
<1>2. /\ fresh = FreshNames(db) /\ writeMu = c /\ ~calls[c].bump /\ NoWriter /\ clock' = clock
      /\ Publish(c, e, Idle)
  BY <1>1 DEF UpdateSweep, Under, Knows, NeedsMutex
<1>3. queue.runs = Rows(db)
  BY Views
<1>4. ids \subseteq DOMAIN db.runs /\ m.add = <<>>
  BY StatusRows, ChangesAddNothing DEF Sweepable
<1>5. \A q \in ids : /\ RowOK(q, Changed(db.runs[q], m))
                     /\ RunRow(Changed(db.runs[q], m)) = Queue!Swept(queue.runs[q])
  BY <1>3, <1>4, UpdatedRowsOK, SweepIs, RowsStatus DEF RInv, TablesOK, RowOK
<1> HIDE DEF m
<1>6. Knows(e, writeMu', clock' + 1, c, Idle) /\ ~Idle.bump /\ Idle.op # "create"
  BY IdleKnows DEF Idle
<1>7. /\ RInv'
      /\ queue'.runs = [q \in Run |-> IF q \in ids THEN RunRow(Changed(db.runs[q], m))
                                                  ELSE Rows(db)[q]]
      /\ queue'.sealed = queue.sealed
      /\ queue.lastSeen = LastSeen(db, {})
      /\ queue'.lastSeen = queue.lastSeen /\ queue'.handled = queue.handled
  <2> HIDE DEF ids
  <2>0. ~Idle.bump
    BY <1>6
  <2>1. /\ RInv'
        /\ queue'.runs = [q \in Run |-> IF q \in ids THEN RunRow(Changed(db.runs[q], m))
                                                    ELSE Rows(db)[q]]
        /\ queue'.sealed = queue.sealed
        /\ queue.lastSeen = LastSeen(db, {}) /\ queue'.lastSeen = LastSeen(db, {})
        /\ queue.handled = Handled(db, {}) /\ queue'.handled = Handled(db, {})
    <3>1. Publish(c, RunUpdate(db, ids, m), Idle) /\ NoWriter /\ writeMu = c /\ ~calls[c].bump
      BY <1>2
    <3>2. \A q \in ids : RowOK(q, Changed(db.runs[q], m))
      BY <1>5
    <3> HIDE DEF e
    <3> QED
      BY <1>4, <1>6, <2>0, <3>1, <3>2, RunPublish DEF e
  <2> QED
    BY <1>6, <2>1
<1>8. fresh = Queue!Fresh
  <2>1. \A i \in DOMAIN db.workers : i \in Worker /\ db.workers[i].name = i
    BY DEF RInv, TablesOK, WorkerOK
  <2>2. \A i : i \in fresh <=> i \in DOMAIN db.workers /\ db.workers[i].last_seen = "fresh"
    BY <1>2, <2>1 DEF FreshNames
  <2>3. \A i \in Worker : queue.lastSeen[i] = "fresh" <=> i \in DOMAIN db.workers /\ db.workers[i].last_seen = "fresh"
    BY <1>7 DEF LastSeen
  <2> QED
    BY <2>1, <2>2, <2>3 DEF Queue!Fresh
<1>9. StatusIn(db, {"claimed"}) = Queue!In({"claimed"})
  <2>1. {"claimed"} \in SUBSET (RunStatuses \ {"running"})
    BY DEF RunStatuses
  <2> QED
    BY <1>3, <2>1, Selected
<1>10. \A q \in StatusIn(db, {"claimed"}) :
          /\ q \in DOMAIN db.runs /\ db.runs[q].worker_id \in Worker
          /\ queue.runs[q].worker = db.runs[q].worker_id
  <2>1. TablesOK(db)
    BY DEF RInv
  <2> QED
    BY <1>3, <2>1, RowsStatus DEF StatusIn, TablesOK, RowOK
<1>11. ids = Queue!Orphans
  <2>1. NULL \notin Worker
    BY ValuesAssumption
  <2> HIDE DEF fresh
  <2>2. \A q \in StatusIn(db, {"claimed"}) : q \in ids <=> queue.runs[q].worker \notin fresh
    BY <1>10, <2>1 DEF Sweepable, WorkerIDNotIn
  <2>3. ids \subseteq StatusIn(db, {"claimed"})
    BY DEF Sweepable
  <2> HIDE DEF ids
  <2> QED
    BY <1>8, <1>9, <2>2, <2>3 DEF Queue!Orphans
<1> HIDE DEF ids
<1>12. queue'.runs = [q \in Run |-> IF q \in Queue!Orphans THEN Queue!Swept(queue.runs[q])
                                                          ELSE queue.runs[q]]
  BY <1>3, <1>5, <1>7, <1>11
<1> QED
  BY <1>2, <1>7, <1>12 DEF Queue!Sweep

-----------------------------------------------------------------------------
(* The report.                                                             *)

\* The report's update is the queue's HandleResult: the counter it is about to
\* write counts already.
LEMMA ResultUpdateStep ==
    ASSUME HInv, RInv, queue' = AsQueue', NEW c \in Call, NEW bump \in BOOLEAN, NEW k,
           Under(c, "result", "update"), NoWriter,
           ~LateReport(calls[c].read, calls[c].arg.b),
           bump => NameEQ(db, calls[c].arg.w) # {},
           Publish(c, RunUpdateOne(db, calls[c].arg.r, ResultChange(calls[c].arg.b)), k),
           \/ /\ calls[c].arg.b.status = "succeeded"
              /\ k = [calls[c] EXCEPT !.at = "bump", !.bump = bump]
              /\ writeMu' = writeMu
           \/ calls[c].arg.b.status # "succeeded" /\ k = Idle,
           clock' = clock
    PROVE  RInv' /\ \E w \in Worker, r \in Run, b \in Queue!Bodies : Queue!HandleResult(w, r, b)
<1> DEFINE w == calls[c].arg.w
           r == calls[c].arg.r
           b == calls[c].arg.b
           m == ResultChange(b)
           ids == {r}
           e == RunUpdate(db, ids, m)
<1>1. Knows(db, writeMu, clock + 1, c, calls[c]) /\ CallOK(calls[c])
  BY DEF HInv, RInv
<1>2. /\ w \in Worker /\ r \in DOMAIN db.runs /\ b \in Posted
      /\ calls[c].read = db.runs[r].status
      /\ writeMu = c /\ ~calls[c].bump /\ ~calls[c].open /\ ~calls[c].wrote
      /\ DOMAIN calls[c] = DOMAIN Idle /\ calls[c].op = "result"
  BY <1>1 DEF Under, Knows, NeedsMutex, FansOut, CallOK
<1>3. TablesOK(db) /\ IsDatabase(db)
  BY DEF RInv, HInv, Sound
<1>4. queue.runs = Rows(db)
  BY Views
<1>5. /\ r \in Run /\ queue.runs[r] = RunRow(db.runs[r])
      /\ queue.runs[r].status = calls[c].read /\ queue.runs[r].status # "none"
  <2> HIDE DEF r
  <2>1. r \in Run
    BY <1>2, <1>3 DEF TablesOK, RowOK
  <2>2. /\ Rows(db)[r] = RunRow(db.runs[r]) /\ Rows(db)[r].status = db.runs[r].status
        /\ Rows(db)[r].status # "none"
    BY <1>2, <1>3, <2>1, RowsStatus
  <2> QED
    BY <1>2, <1>4, <2>1, <2>2
<1>6. ~Queue!Ignored(queue.runs[r], b)
  BY <1>5 DEF LateReport, Queue!Ignored
<1>7. Publish(c, e, k) /\ e # NULL
  BY <1>2 DEF RunUpdateOne, Publish
<1>8. ids \subseteq DOMAIN db.runs /\ m.add = <<>> /\ r \in ids /\ \A q \in ids : q = r
  BY <1>2, ChangesAddNothing
<1>9. /\ RowOK(r, Changed(db.runs[r], m))
      /\ RunRow(Changed(db.runs[r], m)) = Queue!Recorded(queue.runs[r], b)
  <2>1. RowOK(r, Changed(db.runs[r], m))
    BY <1>2, UpdatedRowsOK
  <2>2. RunRow(Changed(db.runs[r], m)) = Queue!Recorded(RunRow(db.runs[r]), b)
    BY <1>2, ResultIs
  <2> QED
    BY <1>5, <2>1, <2>2
<1> HIDE DEF ids, m
<1>10. DOMAIN e.runs = DOMAIN db.runs /\ e.workers = db.workers
  BY <1>3, <1>7, <1>8, RunUpdateOf, TableNames
<1>11. bump => w \in DOMAIN db.workers
  BY <1>3 DEF NameEQ, TablesOK, WorkerOK
<1>12. \/ /\ b.status = "succeeded" /\ k.op = "result" /\ k.at = "bump" /\ k.arg = calls[c].arg
          /\ ~k.wrote /\ ~k.open /\ k.bump = bump /\ writeMu' = writeMu
       \/ b.status # "succeeded" /\ k = Idle
  <2> DEFINE j == calls[c]
  <2>1. CASE k = [j EXCEPT !.at = "bump", !.bump = bump] /\ b.status = "succeeded" /\ writeMu' = writeMu
    <3> HIDE DEF j
    <3>1. /\ k.op = j.op /\ k.at = "bump" /\ k.arg = j.arg /\ k.wrote = j.wrote /\ k.open = j.open
          /\ k.bump = bump
      BY <1>2, <2>1 DEF Idle, j
    <3> QED
      BY <1>2, <2>1, <3>1 DEF j
  <2> QED
    BY <2>1
<1>13. Knows(e, writeMu', clock' + 1, c, k) /\ k.op # "create"
  <2>1. CASE k = Idle
    BY <2>1, IdleKnows DEF Idle
  <2>2. CASE k # Idle
    <3> HIDE DEF e
    <3> QED
      BY <1>2, <1>10, <1>11, <1>12, <2>2 DEF Knows, FansOut
  <2> QED
    BY <2>1, <2>2
<1> DEFINE B == IF k.bump THEN {k.arg.w} ELSE {}
<1>14. \A q \in ids : RowOK(q, Changed(db.runs[q], m))
  BY <1>8, <1>9
<1>15. /\ RInv'
       /\ queue'.runs = [q \in Run |-> IF q \in ids THEN RunRow(Changed(db.runs[q], m))
                                                   ELSE Rows(db)[q]]
       /\ queue'.sealed = queue.sealed
       /\ queue.lastSeen = LastSeen(db, {}) /\ queue'.lastSeen = LastSeen(db, B)
       /\ queue.handled = Handled(db, {}) /\ queue'.handled = Handled(db, B)
  <2>1. (k.bump => B = {k.arg.w}) /\ (~k.bump => B = {})
    OBVIOUS
  <2>2. Publish(c, RunUpdate(db, ids, m), k) /\ NoWriter /\ writeMu = c /\ ~calls[c].bump
    BY <1>2, <1>7
  <2>3. Knows(RunUpdate(db, ids, m), writeMu', clock' + 1, c, k) /\ k.op # "create"
    BY <1>13
  <2>4. ids \subseteq DOMAIN db.runs /\ m.add = <<>>
    BY <1>8
  <2> HIDE DEF B, e
  <2> QED
    BY <1>14, <2>1, <2>2, <2>3, <2>4, RunPublish
<1>16. queue.runs = [q \in Run |-> queue.runs[q]]
  BY <1>4 DEF Rows
<1>17. queue'.runs = [queue.runs EXCEPT ![r] = Queue!Recorded(@, b)]
  <2>1. \A q \in Run : queue'.runs[q] = IF q = r THEN Queue!Recorded(queue.runs[r], b)
                                             ELSE queue.runs[q]
    <3> HIDE DEF r, b, ids, m
    <3>1. ASSUME NEW q \in Run, q # r PROVE queue'.runs[q] = queue.runs[q]
      BY <1>4, <1>8, <1>15, <3>1
    <3>2. queue'.runs[r] = RunRow(Changed(db.runs[r], m))
      BY <1>5, <1>8, <1>15
    <3> QED
      BY <1>9, <3>1, <3>2
  <2> HIDE DEF r, b
  <2>2. queue'.runs = [q \in Run |-> queue'.runs[q]]
    BY <1>15
  <2> QED
    BY <1>5, <1>16, <2>1, <2>2
<1>18. IF b.status = "succeeded" THEN Queue!BumpRunsHandled(w)
                                 ELSE UNCHANGED <<queue.lastSeen, queue.handled>>
  <2>1. CASE k.bump
    <3>0. ~Idle.bump
      BY DEF Idle
    <3>1. b.status = "succeeded" /\ w \in DOMAIN db.workers /\ B = {w}
      BY <1>11, <1>12, <2>1, <3>0
    <3> DEFINE s0 == LastSeen(db, {})
               s1 == LastSeen(db, B)
               h0 == Handled(db, {})
               h1 == Handled(db, B)
    <3>2. db.workers[w].last_seen # "never" /\ db.workers[w].runs_handled \in Nat
      BY <1>3, <3>1 DEF TablesOK, WorkerOK
    <3> HIDE DEF B, w, b
    <3>3. /\ s0 = [v \in Worker |-> s0[v]] /\ s1 = [v \in Worker |-> s1[v]]
          /\ h0 = [v \in Worker |-> h0[v]] /\ h1 = [v \in Worker |-> h1[v]]
      BY DEF LastSeen, Handled
    <3>4. s0[w] # "never" /\ s1[w] = "fresh" /\ \A v \in Worker \ {w} : s1[v] = s0[v]
      BY <1>2, <3>1, <3>2 DEF LastSeen
    <3>5. h1[w] = h0[w] + 1
      BY <1>2, <3>1, <3>2 DEF Handled
    <3>6. \A v \in Worker \ {w} : h1[v] = h0[v]
      BY <3>1 DEF Handled
    <3> HIDE DEF s0, s1, h0, h1
    <3>7. s1 = [s0 EXCEPT ![w] = "fresh"]
      BY <1>2, <3>3, <3>4
    <3>8. h1 = [h0 EXCEPT ![w] = @ + 1]
      BY <1>2, <3>3, <3>5, <3>6
    <3> QED
      BY <1>15, <3>1, <3>4, <3>7, <3>8 DEF Queue!BumpRunsHandled, s0, s1, h0, h1
  <2>2. CASE ~k.bump
    <3>1. B = {}
      BY <2>2
    <3> QED
      BY <1>15, <3>1 DEF Queue!BumpRunsHandled
  <2> QED
    BY <2>1, <2>2
<1>19. Queue!HandleResult(w, r, b)
  BY <1>5, <1>6, <1>15, <1>17, <1>18 DEF Queue!HandleResult
<1> QED
  BY <1>2, <1>5, <1>15, <1>19, PostedAssumption

\* A report is recorded, or is late and dropped.
LEMMA UpdateResultIs ==
    ASSUME HInv, RInv, queue' = AsQueue', NEW c \in Call, UpdateResult(c)
    PROVE  /\ RInv'
           /\ \/ \E w \in Worker, r \in Run, b \in Queue!Bodies : Queue!HandleResult(w, r, b)
              \/ UNCHANGED Queue!vars
<1> DEFINE a == calls[c].arg
           e == RunUpdateOne(db, a.r, ResultChange(a.b))
<1>1. Under(c, "result", "update")
  BY DEF UpdateResult
<1>2. Knows(db, writeMu, clock + 1, c, calls[c])
  BY DEF RInv
<1>3. ~calls[c].bump /\ writeMu = c
  BY <1>1, <1>2 DEF Knows, Under, NeedsMutex
<1>4. CASE Return(c)
  BY <1>3, <1>4, ReturnStutters
<1>5. ASSUME ~LateReport(calls[c].read, a.b), NoWriter,
             NEW bump \in IF NameEQ(db, a.w) = {} THEN {FALSE} ELSE BOOLEAN,
             IF a.b.status = "succeeded"
             THEN /\ Publish(c, e, [calls[c] EXCEPT !.at = "bump", !.bump = bump])
                  /\ UNCHANGED <<writeMu, clock>>
             ELSE /\ Publish(c, e, Idle) /\ writeMu' = Unlocked(c) /\ UNCHANGED clock
      PROVE  RInv' /\ \E w \in Worker, r \in Run, b \in Queue!Bodies : Queue!HandleResult(w, r, b)
  <2> DEFINE k == IF a.b.status = "succeeded"
                  THEN [calls[c] EXCEPT !.at = "bump", !.bump = bump] ELSE Idle
  <2>1. bump \in BOOLEAN /\ (bump => NameEQ(db, a.w) # {}) /\ clock' = clock
    BY <1>5
  <2>2. Publish(c, e, k)
    BY <1>5
  <2>3. \/ /\ a.b.status = "succeeded"
           /\ k = [calls[c] EXCEPT !.at = "bump", !.bump = bump]
           /\ writeMu' = writeMu
        \/ a.b.status # "succeeded" /\ k = Idle
    BY <1>5
  <2> HIDE DEF k
  <2> QED
    BY <1>1, <1>5, <2>1, <2>2, <2>3, ResultUpdateStep
<1> QED
  BY <1>4, <1>5 DEF UpdateResult

\* The counter's update, in tables where a worker's id is its name.
LEMMA WorkerUpdateOf ==
    ASSUME NEW d, NEW w \in DOMAIN d.workers, IsDatabase(d), TablesOK(d), NEW m,
           m = BumpChange,
           WorkerUpdate(d, NameEQ(d, w), m) # NULL
    PROVE  LET e == WorkerUpdate(d, NameEQ(d, w), m) IN
           /\ e.runs = d.runs /\ e.suites = d.suites /\ e.submissions = d.submissions
           /\ DOMAIN e.workers = DOMAIN d.workers
           /\ \A v \in DOMAIN d.workers \ {w} : e.workers[v] = d.workers[v]
           /\ e.workers[w].name = w /\ e.workers[w].last_seen = "fresh"
           /\ e.workers[w].runs_handled = d.workers[w].runs_handled + 1
<1> DEFINE ids == NameEQ(d, w)
           s == WorkerUpdateSpec(m)
           e == UpdateRows(d, "workers", ids, s)
           row == d.workers[w]
<1>1. WorkerUpdate(d, ids, m) = e /\ e # NULL
  BY DEF WorkerUpdate
<1>2. w \in ids /\ \A i \in ids : i = w /\ i \in DOMAIN d.workers
  BY DEF NameEQ, TablesOK, WorkerOK
<1>3. /\ DOMAIN s.set = {"last_seen"} /\ s.set["last_seen"] = "fresh"
      /\ DOMAIN s.add = {"runs_handled"} /\ s.add["runs_handled"] = 1 /\ s.clear = {}
  <2>1. /\ DOMAIN m.set = {"last_seen"} /\ m.set["last_seen"] = "fresh"
        /\ DOMAIN m.add = {"runs_handled"} /\ m.add["runs_handled"] = 1
    BY BumpChangeIs
  <2> QED
    BY <2>1 DEF WorkerUpdateSpec, NoChange, WorkerSettable, WorkerIdentity, WorkerTally
<1>4. /\ "workers" \in DOMAIN Tables /\ Tables["workers"].columns = WorkerFields
      /\ {"name", "last_seen", "runs_handled"} \subseteq WorkerFields
  BY TableNames DEF WorkersTable, WorkerFields, WorkerIdentity, WorkerTally
<1> HIDE DEF ids, s
<1>5. /\ \A t \in DOMAIN Tables \ {"workers"} : e[t] = d[t]
      /\ DOMAIN e["workers"] = DOMAIN d["workers"]
      /\ \A i \in DOMAIN d["workers"] \ ids : e["workers"][i] = d["workers"][i]
      /\ \A i \in ids :
            e["workers"][i] =
               [c \in Tables["workers"].columns |->
                  IF c \in DOMAIN s.set THEN s.set[c]
                  ELSE IF c \in DOMAIN s.add
                       THEN IF d["workers"][i][c] = NULL THEN s.add[c]
                            ELSE d["workers"][i][c] + s.add[c]
                  ELSE IF c \in s.clear THEN NULL ELSE d["workers"][i][c]]
  <2>1. ids \subseteq DOMAIN d["workers"]
    BY <1>2
  <2> QED
    BY <1>1, <1>4, <2>1, UpdateRowsOf
<1> HIDE DEF e
<1>6. e["workers"][w] =
               [c \in WorkerFields |->
                  IF c \in DOMAIN s.set THEN s.set[c]
                  ELSE IF c \in DOMAIN s.add
                       THEN IF row[c] = NULL THEN s.add[c] ELSE row[c] + s.add[c]
                  ELSE IF c \in s.clear THEN NULL ELSE row[c]]
  BY <1>2, <1>4, <1>5
<1>7. row.name = w /\ row.runs_handled \in Nat /\ row.runs_handled # NULL
  BY NullAssumption DEF TablesOK, WorkerOK
<1> HIDE DEF row
<1>8. e.workers[w].name = w /\ e.workers[w].last_seen = "fresh"
  BY <1>3, <1>4, <1>6, <1>7
<1>9. e.workers[w].runs_handled = row.runs_handled + 1
  BY <1>3, <1>4, <1>6, <1>7
<1>10. e.runs = d.runs /\ e.suites = d.suites /\ e.submissions = d.submissions
  BY <1>5, TableNames
<1> QED
  BY <1>1, <1>2, <1>5, <1>8, <1>9, <1>10 DEF ids, row

\* The counter is written, or that fails: the queue counted it with the row.
LEMMA BumpResultStutters ==
    ASSUME HInv, RInv, queue' = AsQueue', NEW c \in Call, BumpResult(c)
    PROVE  RInv' /\ UNCHANGED Queue!vars
<1> DEFINE w == calls[c].arg.w
           m == BumpChange
           e == WorkerUpdate(db, NameEQ(db, w), m)
<1>1. Knows(db, writeMu, clock + 1, c, calls[c])
  BY DEF RInv
<1>2. CASE ~calls[c].bump
  BY <1>2, ReturnStutters DEF BumpResult
<1>3. CASE calls[c].bump
  <2>1. /\ w \in Worker /\ w \in DOMAIN db.workers /\ writeMu = c
    BY <1>1, <1>3 DEF Knows, NeedsMutex
  <2>2. Publish(c, e, Idle) /\ NoWriter /\ clock' = clock /\ e # NULL /\ db' = e
    BY <1>3 DEF BumpResult, Publish
  <2>3. TablesOK(db) /\ IsDatabase(db)
    BY DEF RInv, HInv, Sound
  <2>4. m = BumpChange
    OBVIOUS
  <2> HIDE DEF m
  <2>5. /\ e.runs = db.runs /\ e.suites = db.suites /\ e.submissions = db.submissions
        /\ DOMAIN e.workers = DOMAIN db.workers
        /\ \A v \in DOMAIN db.workers \ {w} : e.workers[v] = db.workers[v]
        /\ e.workers[w].name = w /\ e.workers[w].last_seen = "fresh"
        /\ e.workers[w].runs_handled = db.workers[w].runs_handled + 1
    <3> HIDE DEF w
    <3> QED
      BY <2>1, <2>2, <2>3, <2>4, WorkerUpdateOf
  <2> HIDE DEF e
  <2>6. db.workers[w].runs_handled \in Nat
    BY <2>1, <2>3 DEF TablesOK, WorkerOK
  <2>7. TablesOK(e)
    BY SMTT(30), <2>1, <2>3, <2>5, <2>6 DEF TablesOK, WorkerOK
  <2>8. Knows(e, writeMu', clock' + 1, c, Idle) /\ ~Idle.bump /\ Idle.op # "create"
    BY IdleKnows DEF Idle
  <2>9. /\ RInv'
        /\ Bumped = IF calls[c].bump THEN {calls[c].arg.w} ELSE {}
        /\ Bumped' = IF Idle.bump THEN {Idle.arg.w} ELSE {}
    BY <2>1, <2>2, <2>5, <2>7, <2>8, Alone
  <2>10. Bumped = {w} /\ Bumped' = {}
    BY <1>3, <2>8, <2>9
  <2>11. Rows(e) = Rows(db) /\ SealedIn(e) = SealedIn(db)
    BY <2>5 DEF Rows, SealedIn
  <2> HIDE DEF w
  <2>12. LastSeen(e, {}) = LastSeen(db, {w})
    BY <2>1, <2>5 DEF LastSeen
  <2>13. Handled(e, {}) = Handled(db, {w})
    <3>1. \A v \in DOMAIN db.workers : db.workers[v].runs_handled \in Nat
      BY <2>3 DEF TablesOK, WorkerOK
    <3> QED
      BY <2>1, <2>5, <3>1 DEF Handled
  <2> QED
    BY <2>2, <2>9, <2>10, <2>11, <2>12, <2>13, Views DEF Queue!vars
<1> QED
  BY <1>2, <1>3

-----------------------------------------------------------------------------
(* A fan-out commits.                                                      *)

\* A row of the fan-out is the queue's FreshRow.
LEMMA NewRowIs ==
    ASSUME NEW row, NEW s, NEW t, IsNewRow(row, s, t)
    PROVE  RunRow(row) = Queue!FreshRow(t)
<1> DEFINE n == Queue!NoRow
           q == [n EXCEPT !.status = "pending", !.created = t]
<1>0. Queue!FreshRow(t) = q
  BY DEF Queue!FreshRow
<1>1. /\ n.status = "none" /\ n.priority = 0 /\ n.worker = NoWorker
      /\ ~n.claimed /\ ~n.started /\ ~n.finished /\ ~n.error /\ ~n.logs /\ n.score = NoScore
      /\ IsRow(n)
  BY DEF Queue!NoRow, IsRow, RowFields, Flags
<1> HIDE DEF n
<1>2. /\ IsRow(q) /\ q.status = "pending" /\ q.created = t
      /\ q.priority = 0 /\ q.worker = NoWorker /\ q.score = NoScore
      /\ ~q.claimed /\ ~q.started /\ ~q.finished /\ ~q.error /\ ~q.logs
  BY <1>1 DEF IsRow, RowFields, Flags
<1> HIDE DEF q
<1>3. /\ row.status = "pending" /\ row.priority = 0 /\ row.created_at = t
      /\ row.worker_id = NULL /\ row.claimed_at = NULL /\ row.started_at = NULL
      /\ row.finished_at = NULL /\ row.score = NULL /\ row.error = NULL
      /\ row.stdout = NULL /\ row.stderr = NULL
  <2>1. {"worker_id", "claimed_at", "started_at", "finished_at", "score", "error",
         "stdout", "stderr"} \subseteq RunOptional
    BY DEF RunOptional, RunOutcome, RunText, RunClaim, RunTimes
  <2> QED
    BY <2>1 DEF IsNewRow
<1>4. Reads(q, row)
  BY <1>2, <1>3 DEF Reads
<1>5. RunRow(row) = q
  BY <1>2, <1>4, ReadsOnce
<1> QED
  BY <1>0, <1>5

\* The queue has a submission exactly when the table has its row.
LEMMA ExistsIs ==
    ASSUME HInv, RInv, queue.runs = Rows(db), NEW s
    PROVE  Queue!Exists(s) <=> s \in DOMAIN db.submissions
<1>1. TablesOK(db) /\ IsDatabase(db) /\ Whole(db, {})
  BY DEF RInv, HInv, Sound
<1>2. ASSUME Queue!Exists(s) PROVE s \in DOMAIN db.submissions
  <2>1. PICK r \in Run : SubmissionOf[r] = s /\ queue.runs[r].status # "none"
    BY <1>2 DEF Queue!Exists, Queue!RunsOf
  <2>2. r \in DOMAIN db.runs
    BY <1>1, <2>1, RowsStatus
  <2>3. db.runs[r].submission_runs = s
    BY <1>1, <2>1, <2>2 DEF TablesOK, RowOK
  <2> QED
    BY <1>1, <2>2, <2>3, RunOwners
<1>3. ASSUME s \in DOMAIN db.submissions PROVE Queue!Exists(s)
  <2>1. PICK r \in DOMAIN db.runs : db.runs[r].submission_runs = s
    BY <1>1, <1>3 DEF Whole, LoadRuns
  <2>2. r \in Run /\ SubmissionOf[r] = s
    BY <1>1, <2>1 DEF TablesOK, RowOK
  <2>3. queue.runs[r].status # "none"
    BY <1>1, <2>1, <2>2, RowsStatus
  <2> QED
    BY <2>2, <2>3 DEF Queue!Exists, Queue!RunsOf
<1> QED
  BY <1>2, <1>3

\* A fan-out's transaction holds well-formed rows.
LEMMA CommittedTables ==
    ASSUME NEW d, NEW t \in Nat, NEW k, TablesOK(d), Progress(d, t, k)
    PROVE  TablesOK(k.work)
<1> DEFINE e == k.work
<1>1. /\ \A r \in DOMAIN d.runs : e.runs[r] = d.runs[r]
      /\ \A r \in DOMAIN e.runs \ DOMAIN d.runs :
            r \in Run /\ SubmissionOf[r] = k.arg /\ IsNewRow(e.runs[r], k.arg, t)
      /\ DOMAIN e.suites = DOMAIN d.suites /\ e.workers = d.workers
      /\ \A u \in DOMAIN d.suites : e.suites[u].seeds = d.suites[u].seeds
  BY DEF Progress
<1> HIDE DEF e
<1>2. ASSUME NEW r \in DOMAIN e.runs PROVE RowOK(r, e.runs[r])
  <2>1. CASE r \in DOMAIN d.runs
    BY <1>1, <2>1 DEF TablesOK
  <2>2. CASE r \notin DOMAIN d.runs
    <3>1. "pending" \in RunStatuses \ {"running"}
      BY DEF RunStatuses
    <3> QED
      BY <1>1, <1>2, <2>2, <3>1 DEF RowOK, IsNewRow
  <2> QED
    BY <2>1, <2>2
<1>3. TablesOK(e)
  BY <1>1, <1>2 DEF TablesOK
<1> QED
  BY <1>3 DEF e

\* What a fan-out's commit does to the queue's rows.
LEMMA CommittedRows ==
    ASSUME NEW d, NEW t, NEW k, Progress(d, t, k), NEW R,
           R = DOMAIN k.work.runs \ DOMAIN d.runs
    PROVE  \A r \in Run : Rows(k.work)[r] = IF r \in R THEN Queue!FreshRow(t) ELSE Rows(d)[r]
<1> DEFINE e == k.work
<1>1. /\ DOMAIN d.runs \subseteq DOMAIN e.runs
      /\ \A r \in DOMAIN d.runs : e.runs[r] = d.runs[r]
      /\ \A r \in R : IsNewRow(e.runs[r], k.arg, t)
  BY DEF Progress
<1> HIDE DEF e
<1>2. \A r \in R : RunRow(e.runs[r]) = Queue!FreshRow(t)
  BY <1>1, NewRowIs
<1>3. R = DOMAIN e.runs \ DOMAIN d.runs
  BY DEF e
<1>4. ASSUME NEW r \in Run
      PROVE  Rows(e)[r] = IF r \in R THEN Queue!FreshRow(t) ELSE Rows(d)[r]
  BY <1>1, <1>2, <1>3 DEF Rows
<1> QED
  BY <1>4 DEF e

\* Queue!Cardinality and this module's are the same operator.
LEMMA SameCardinality == \A T : Queue!Cardinality(T) = Cardinality(T)
  BY Zenon DEF Queue!Cardinality, Cardinality

\* A fan-out's commit is the queue's CreateSubmission or ReevaluateSubmission.
LEMMA CommitIs ==
    ASSUME HInv, RInv, queue' = AsQueue', NEW c \in Call, Commit(c)
    PROVE  RInv' /\ \E s \in Submission, U \in SUBSET Suite, R \in SUBSET Run :
                        Queue!CreateSubmission(s, U, R) \/ Queue!ReevaluateSubmission(s, U, R)
<1> DEFINE k == calls[c]
           e == k.work
           s == k.arg
           U == DOMAIN k.read
           R == DOMAIN e.runs \ DOMAIN db.runs
           t == clock + 1
           S == IF k.op = "create" THEN {s} ELSE {}
<1>1. /\ k.at = "commit" /\ clock' = t /\ writeMu' = Unlocked(c) /\ db' = e
      /\ Publish(c, e, Idle)
  BY DEF Commit, Publish
<1>2. Knows(db, writeMu, t, c, k) /\ CallOK(k) /\ k.wrote
  BY <1>1 DEF RInv, HInv, CallOK
<1>3. /\ FansOut(k) /\ Progress(db, t, k) /\ SuitesRead(db, k) /\ k.todo = {} /\ ~k.bump
  BY <1>1, <1>2 DEF Knows, FansOut, SuitesRead
<1>4. clock < MaxClock /\ t \in Nat /\ \A d \in Call \ {c} : ~calls[d].wrote
  BY <1>2, ClockAssumption DEF HInv, OneWriter
<1>5. /\ calls'[c] = Idle
      /\ \A d \in Call \ {c} : calls'[d] = Overtaken(d, e)
  BY <1>1 DEF Publish
<1>6. /\ DOMAIN db.runs \subseteq DOMAIN e.runs
      /\ \A r \in DOMAIN db.runs : e.runs[r] = db.runs[r]
      /\ \A r \in R : r \in Run /\ SubmissionOf[r] = s /\ SuiteOf[r] \in U
      /\ \A u \in U : Cardinality({r \in R : SuiteOf[r] = u}) = NumSeeds[u]
      /\ DOMAIN e.suites = DOMAIN db.suites
      /\ \A u \in DOMAIN db.suites : e.suites[u].sealed <=> (db.suites[u].sealed \/ u \in U)
      /\ e.workers = db.workers
      /\ DOMAIN e.submissions = DOMAIN db.submissions \cup S
  <2>1. DOMAIN k.read \ k.todo = U
    BY <1>3
  <2> QED
    BY <1>3, <2>1 DEF Progress
<1>7. /\ s \in Submission /\ U # {} /\ U \subseteq Suite /\ U \subseteq DOMAIN db.suites
      /\ k.op = "create" <=> s \notin DOMAIN db.submissions
  BY <1>3 DEF SuitesRead
<1>8. TablesOK(db) /\ TablesOK(e)
  BY <1>3, <1>4, CommittedTables DEF RInv
<1>9. \A d \in Call \ {c} : /\ DOMAIN calls[d] = DOMAIN Idle
                            /\ calls[d].op = "claim" => calls[d].open
                            /\ Knows(db, writeMu, t, d, calls[d])
  BY DEF HInv, CallOK, RInv
<1>10. \A d \in Call \ {c} : Knows(e, writeMu', clock' + 1, d, calls'[d])
  <2> SUFFICES ASSUME NEW d \in Call \ {c}
               PROVE  Knows(e, writeMu', clock' + 1, d, calls'[d])
    OBVIOUS
  <2> DEFINE j == calls[d]
             x == j.stale \/ (j.open /\ e # db)
  <2>1. calls'[d] = [j EXCEPT !.stale = x]
    BY <1>5 DEF Overtaken
  <2>2. NeedsMutex(j) => writeMu' = d
    BY <1>1, <1>9 DEF Knows, Unlocked
  <2>3. j.op = "create" => j.arg \notin S
    BY DEF RInv, OneCreate
  <2>4. ~j.wrote /\ DOMAIN j = DOMAIN Idle /\ (j.op = "claim" => j.open) /\ Knows(db, writeMu, t, d, j)
    BY <1>4, <1>9
  <2>5. ~x => ~j.stale /\ (j.open => e = db)
    OBVIOUS
  <2>6. \A u \in DOMAIN db.suites : db.suites[u].sealed => e.suites[u].sealed
    BY <1>6
  <2> HIDE DEF x, j, S, t, e, k
  <2>7. Knows(e, writeMu', clock' + 1, d, [j EXCEPT !.stale = x])
    BY <1>6, <2>2, <2>3, <2>4, <2>5, <2>6, KnowsCommitted
  <2> QED
    BY <2>1, <2>7
<1>11. Knows(e, writeMu', clock' + 1, c, calls'[c]) /\ ~calls'[c].bump /\ calls'[c].op # "create"
  <2>1. Knows(e, writeMu', clock' + 1, c, Idle) /\ ~Idle.bump
    BY IdleKnows
  <2>2. Idle.op # "create"
    BY DEF Idle
  <2> QED
    BY <1>5, <2>1, <2>2
<1>12. \A d \in Call \ {c} : /\ calls'[d].op = calls[d].op /\ calls'[d].arg = calls[d].arg
                             /\ calls'[d].bump <=> calls[d].bump
  BY <1>5, <1>9, OvertakenIs
<1>13. OneCreate'
  BY <1>11, <1>12 DEF RInv, OneCreate
<1>14. RInv'
  BY <1>1, <1>8, <1>10, <1>11, <1>13 DEF RInv
<1>15. Bumped' = Bumped
  BY <1>3, <1>11, <1>12, BumpSame
<1>16. queue.runs = Rows(db)
  BY Views
<1>17. Rows(e) = [r \in Run |-> IF r \in R THEN Queue!FreshRow(t) ELSE Rows(db)[r]]
  <2>1. Progress(db, t, k) /\ R = DOMAIN k.work.runs \ DOMAIN db.runs
    BY <1>3
  <2>2. Rows(e) = [r \in Run |-> Rows(e)[r]]
    BY DEF Rows
  <2> HIDE DEF t, R, k
  <2>3. \A r \in Run : Rows(k.work)[r] = IF r \in R THEN Queue!FreshRow(t) ELSE Rows(db)[r]
    BY <2>1, CommittedRows
  <2> QED
    BY <2>2, <2>3
<1>18. Queue!Exists(s) <=> s \in DOMAIN db.submissions
  BY <1>16, ExistsIs
<1> HIDE DEF e, R, U, S, s, k
<1>19. SealedIn(e) = SealedIn(db) \cup U
  BY <1>6, <1>7 DEF SealedIn
<1>20. LastSeen(e, Bumped) = LastSeen(db, Bumped) /\ Handled(e, Bumped) = Handled(db, Bumped)
  BY <1>6 DEF LastSeen, Handled
<1>21. \A r \in R : queue.runs[r].status = "none" /\ r \in Run
  BY <1>6, <1>8, <1>16, RowsStatus DEF R
<1>22. Queue!Enqueue(s, U, R)
  <2>1. queue'.runs = [r \in Run |-> IF r \in R THEN Queue!FreshRow(clock') ELSE queue.runs[r]]
    BY <1>1, <1>16, <1>17, Views
  <2>2. queue'.sealed = queue.sealed \cup U
    BY <1>1, <1>19, Views
  <2>3. queue'.lastSeen = queue.lastSeen /\ queue'.handled = queue.handled
    BY <1>1, <1>15, <1>20, Views
  <2>4. U # {} /\ clock < MaxClock /\ clock' = clock + 1
    BY <1>1, <1>4, <1>7
  <2>5. \A r \in R : /\ queue.runs[r].status = "none" /\ SubmissionOf[r] = s /\ SuiteOf[r] \in U
    BY <1>6, <1>21
  <2>6. \A u \in U : Queue!Cardinality({r \in R : SuiteOf[r] = u}) = NumSeeds[u]
    BY <1>6, SameCardinality
  <2> HIDE DEF t
  <2> QED
    BY <2>1, <2>2, <2>3, <2>4, <2>5, <2>6 DEF Queue!Enqueue
<1>23. s \in Submission /\ U \in SUBSET Suite /\ R \in SUBSET Run
  BY <1>7, <1>21
<1>24. Queue!CreateSubmission(s, U, R) \/ Queue!ReevaluateSubmission(s, U, R)
  BY <1>18, <1>22 DEF Queue!CreateSubmission, Queue!ReevaluateSubmission
<1> QED
  BY <1>14, <1>23, <1>24

-----------------------------------------------------------------------------
(* The refinement.                                                         *)

\* The empty tables are those of an empty queue.
LEMMA RInit == Init => RInv /\ Queue!Init
<1> SUFFICES ASSUME Init
             PROVE  RInv /\ Queue!Init
  OBVIOUS
<1>1. /\ db = Opened /\ clock = 0 /\ queue = AsQueue
      /\ \A c \in Call : calls[c] = Idle
  BY DEF Init
<1>2. /\ DOMAIN db.runs = {} /\ DOMAIN db.workers = {} /\ DOMAIN db.suites = Suite
      /\ \A u \in Suite : db.suites[u] = NewRow("suites", OpenedRows[u])
  BY <1>1, OpenedSound
<1>3. \A u \in Suite : db.suites[u].seeds = NumSeeds[u] /\ ~db.suites[u].sealed
  BY <1>2, OpenedSuite
<1>4. TablesOK(db)
  BY <1>2, <1>3 DEF TablesOK
<1>5. \A c \in Call : Knows(db, writeMu, clock + 1, c, calls[c]) /\ ~calls[c].bump
  BY <1>1, IdleKnows
<1>6. OneCreate
  <2>1. Idle.op # "create"
    BY DEF Idle
  <2> QED
    BY <1>1, <2>1 DEF OneCreate
<1>7. RInv
  BY <1>1, <1>4, <1>5, <1>6 DEF RInv
<1>8. queue.runs = [r \in Run |-> Queue!NoRow]
  <2>1. Rows(db) = [r \in Run |-> NoRun]
    BY <1>2 DEF Rows
  <2>2. NoRun = Queue!NoRow
    BY DEF NoRun, Queue!NoRow
  <2> QED
    BY <1>1, <2>1, <2>2, AsQueueIs
<1>9. queue.sealed = {}
  BY <1>1, <1>2, <1>3, AsQueueIs DEF SealedIn
<1>10. queue.lastSeen = [w \in Worker |-> "never"] /\ queue.handled = [w \in Worker |-> 0]
  <2>1. LastSeen(db, Bumped) = [w \in Worker |-> "never"]
    BY <1>2 DEF LastSeen
  <2>2. Handled(db, Bumped) = [w \in Worker |-> 0]
    BY <1>2 DEF Handled
  <2> QED
    BY <1>1, <2>1, <2>2, AsQueueIs
<1> QED
  BY <1>1, <1>7, <1>8, <1>9, <1>10 DEF Queue!Init

\* Each step of the handlers is one of the queue, or none, and keeps RInv.
LEMMA RStep == HInv /\ RInv /\ [HNext]_hvars => RInv' /\ [Queue!Next]_Queue!vars
<1> SUFFICES ASSUME HInv, RInv, [HNext]_hvars
             PROVE  RInv' /\ [Queue!Next]_Queue!vars
  OBVIOUS
<1>1. CASE UNCHANGED hvars
  <2>1. Bumped' = Bumped
    BY <1>1 DEF hvars, Bumped, Bumping
  <2>2. queue' = AsQueue' /\ clock' = clock /\ db' = db
    BY <1>1 DEF hvars, RInv, AsQueue, Bumping
  <2>3. UNCHANGED Queue!vars
    BY <2>1, <2>2, Stutter
  <2>4. RInv'
    BY <1>1, <2>2 DEF hvars, RInv, OneCreate
  <2> QED
    BY <2>3, <2>4
<1>2. ASSUME HNext PROVE queue' = AsQueue'
  BY <1>2 DEF HNext
<1>3. ASSUME queue' = AsQueue', Immediate
      PROVE  RInv' /\ [Queue!Next]_Queue!vars
  <2>1. CASE \E w \in Worker : UpsertWorker(w)
    BY <1>3, <2>1, UpsertWorkerIs DEF Queue!Next, Queue!WorkerCall
  <2>2. CASE \E w \in Worker : GoStale(w)
    BY <1>3, <2>2, GoStaleIs DEF Queue!Next, Queue!WorkerCall
  <2>3. CASE \E s \in Submission : CancelSubmission(s)
    BY <1>3, <2>3, CancelSubmissionIs DEF Queue!Next, Queue!Operator
  <2>4. CASE \E s \in Submission : RetrySubmission(s)
    BY <1>3, <2>4, RetrySubmissionIs DEF Queue!Next, Queue!Operator
  <2>5. CASE \E s \in Submission : PrioritizeSubmission(s)
    BY <1>3, <2>5, PrioritizeSubmissionIs DEF Queue!Next, Queue!Operator
  <2>6. CASE \E r \in Run : CancelRun(r)
    BY <1>3, <2>6, CancelRunIs DEF Queue!Next
  <2> QED
    BY <1>3, <2>1, <2>2, <2>3, <2>4, <2>5, <2>6 DEF Immediate
<1>4. ASSUME queue' = AsQueue', NEW c \in Call, Arrive(c)
      PROVE  RInv' /\ UNCHANGED Queue!vars
  <2>1. CASE LockSweep(c)
    BY <1>4, <2>1, LockSweepStutters
  <2>2. CASE \E w \in Worker : LockClaim(c, w)
    BY <1>4, <2>2, LockClaimStutters
  <2>3. CASE \E w \in Worker, r \in Run, b \in Posted : LockResult(c, w, r, b)
    BY <1>4, <2>3, LockResultStutters
  <2>4. CASE \E s \in Submission, U \in SUBSET Suite :
                BeginCreate(c, s, U) \/ BeginReevaluate(c, s, U)
    BY <1>4, <2>4, ReadForFanOutStutters
  <2> QED
    BY <1>4, <2>1, <2>2, <2>3, <2>4 DEF Arrive
<1>5. ASSUME queue' = AsQueue', NEW c \in Call, Proceed(c)
      PROVE  RInv' /\ [Queue!Next]_Queue!vars
  <2>1. CASE UpdateClaim(c)
    BY <1>5, <2>1, UpdateClaimIs DEF Queue!Next, Queue!WorkerCall
  <2>2. CASE UpdateResult(c)
    BY <1>5, <2>2, UpdateResultIs DEF Queue!Next, Queue!WorkerCall
  <2>3. CASE BumpResult(c)
    BY <1>5, <2>3, BumpResultStutters
  <2>4. CASE UpdateSweep(c)
    BY <1>5, <2>4, UpdateSweepIs DEF Queue!Next
  <2>5. CASE InsertSubmission(c)
    BY <1>5, <2>5, InsertSubmissionStutters
  <2>6. CASE LockReevaluate(c)
    BY <1>5, <2>6, LockReevaluateStutters
  <2>7. CASE FanOut(c)
    BY <1>5, <2>7, FanOutStutters
  <2>8. CASE Commit(c)
    BY <1>5, <2>8, CommitIs DEF Queue!Next, Queue!Operator
  <2> QED
    BY <1>5, <2>1, <2>2, <2>3, <2>4, <2>5, <2>6, <2>7, <2>8 DEF Proceed
<1>6. ASSUME queue' = AsQueue', NEW c \in Call, Fail(c)
      PROVE  RInv' /\ UNCHANGED Queue!vars
  BY <1>6, FailStutters
<1> QED
  BY <1>1, <1>2, <1>3, <1>4, <1>5, <1>6 DEF HNext

(* Every behaviour of the handlers, read through AsQueue, is one of RunQueue:
   each statement is one step of the queue or none, whichever statements fail
   and however claims, reports, sweeps and fan-outs interleave.  What is proved
   of the queue therefore holds of its code with its mutex and transactions. *)
THEOREM HandlersImplementQueue == HSpec => QueueSpec
<1>1. Init => HInv /\ RInv /\ Queue!Init
  BY HInit, RInit
<1>2. HInv /\ RInv /\ [HNext]_hvars => HInv' /\ RInv' /\ [Queue!Next]_Queue!vars
  BY HStep, RStep
<1> QED
  BY <1>1, <1>2, PTL DEF HSpec, QueueSpec, Queue!Spec

-----------------------------------------------------------------------------
(* What is proved of the queue, for the handlers.                          *)

Proved == INSTANCE RunQueueProofs WITH runs <- queue.runs, sealed <- queue.sealed,
                                       lastSeen <- queue.lastSeen, handled <- queue.handled,
                                       front <- {}, credit <- <<>>    \* no history is kept

\* Queue and Proved are two instances of one module: the same actions.
LEMMA SameActions ==
    /\ \A s \in Submission : Queue!Operator(s) => Proved!Operator(s)
    /\ \A w \in Worker : Queue!WorkerCall(w) => Proved!WorkerCall(w)
    /\ \A r \in Run : Queue!CancelRun(r) => Proved!CancelRun(r)
    /\ Queue!Sweep => Proved!Sweep
<1>1. ASSUME NEW s, NEW U, NEW R, Queue!Enqueue(s, U, R)
      PROVE  Proved!Enqueue(s, U, R)
  <2>1. \A T : Queue!Cardinality(T) = Proved!Cardinality(T)
    BY DEF Queue!Cardinality, Proved!Cardinality
  <2> QED
    BY <1>1, <2>1 DEF Queue!Enqueue, Queue!FreshRow, Queue!NoRow,
                      Proved!Enqueue, Proved!FreshRow, Proved!NoRow
<1>2. ASSUME NEW s, NEW U, NEW R
      PROVE  /\ Queue!CreateSubmission(s, U, R) => Proved!CreateSubmission(s, U, R)
             /\ Queue!ReevaluateSubmission(s, U, R) => Proved!ReevaluateSubmission(s, U, R)
  <2>1. Queue!Exists(s) <=> Proved!Exists(s)
    BY DEF Queue!Exists, Queue!RunsOf, Proved!Exists, Proved!RunsOf
  <2> QED
    BY <1>1, <2>1 DEF Queue!CreateSubmission, Queue!ReevaluateSubmission,
                      Proved!CreateSubmission, Proved!ReevaluateSubmission
<1>3. ASSUME NEW s
      PROVE  /\ Queue!CancelSubmission(s) => Proved!CancelSubmission(s)
             /\ Queue!RetrySubmission(s) => Proved!RetrySubmission(s)
             /\ Queue!PrioritizeSubmission(s) => Proved!PrioritizeSubmission(s)
  BY DEF Queue!CancelSubmission, Queue!RetrySubmission, Queue!PrioritizeSubmission,
         Queue!RunsOf, Queue!In, Queue!InFlight, Queue!Retryable, Queue!CancelledRow, Queue!Retried,
         Proved!CancelSubmission, Proved!RetrySubmission, Proved!PrioritizeSubmission,
         Proved!RunsOf, Proved!In, Proved!InFlight, Proved!Retryable, Proved!CancelledRow, Proved!Retried
<1>4. ASSUME NEW r PROVE Queue!CancelRun(r) => Proved!CancelRun(r)
  BY DEF Queue!CancelRun, Queue!InFlight, Queue!CancelledRow,
         Proved!CancelRun, Proved!InFlight, Proved!CancelledRow
<1>5. ASSUME NEW w, NEW r PROVE Queue!HandleClaim(w, r) => Proved!HandleClaim(w, r)
  BY DEF Queue!HandleClaim, Queue!NextUp, Queue!In, Queue!ClaimedBy,
         Proved!HandleClaim, Proved!NextUp, Proved!In, Proved!ClaimedBy
<1>6. Queue!Bodies = Proved!Bodies
  BY DEF Queue!Bodies, Queue!Body, Queue!Terminal, Proved!Bodies, Proved!Body, Proved!Terminal
<1>7. ASSUME NEW w, NEW r, NEW b PROVE Queue!HandleResult(w, r, b) => Proved!HandleResult(w, r, b)
  BY DEF Queue!HandleResult, Queue!Ignored, Queue!Recorded, Queue!BumpRunsHandled, Queue!vars,
         Proved!HandleResult, Proved!Ignored, Proved!Recorded, Proved!BumpRunsHandled, Proved!vars
<1>8. Queue!Sweep => Proved!Sweep
  BY DEF Queue!Sweep, Queue!Orphans, Queue!Fresh, Queue!In, Queue!Swept,
         Proved!Sweep, Proved!Orphans, Proved!Fresh, Proved!In, Proved!Swept
<1>9. ASSUME NEW w
      PROVE  /\ Queue!UpsertWorker(w) => Proved!UpsertWorker(w)
             /\ Queue!GoStale(w) => Proved!GoStale(w)
  BY DEF Queue!UpsertWorker, Queue!GoStale, Proved!UpsertWorker, Proved!GoStale
<1> QED
  BY <1>2, <1>3, <1>4, <1>5, <1>6, <1>7, <1>8, <1>9
     DEF Queue!Operator, Queue!WorkerCall, Proved!Operator, Proved!WorkerCall

\* The tables behind the handlers keep what the queue keeps: a clean slate and one
\* outcome per row, sealed suites, settled rows that stay, and the ledger of scores.
THEOREM TablesKeepTheirStory ==
    HSpec => /\ []Proved!CleanSlate /\ []Proved!OneOutcome /\ []Proved!SealedOnceUsed
             /\ Proved!SettledRowsStay /\ Proved!LedgerSpec
<1>1. Queue!Init => Proved!Init
  BY DEF Queue!Init, Queue!NoRow, Proved!Init, Proved!NoRow
<1>2. [Queue!Next]_Queue!vars => [Proved!Next]_Proved!vars
  BY SameActions DEF Queue!Next, Queue!vars, Proved!Next, Proved!vars
<1>3. HSpec => Proved!Spec
  BY <1>1, <1>2, HandlersImplementQueue, PTL DEF QueueSpec, Queue!Spec, Proved!Spec
<1>4. /\ MaxClock \in Nat
      /\ NoScore \notin Score /\ NoWorker \notin Worker
      /\ NumSeeds \in [Suite -> Nat \ {0}]
      /\ SubmissionOf \in [Run -> Submission] /\ SuiteOf \in [Run -> Suite]
  BY ClockAssumption, NoValuesAssumption, SeedsAssumption, EdgesAssumption
<1> QED
  BY <1>3, <1>4, Proved!SlateIsClean, Proved!OutcomeIsOne, Proved!SealedHold,
     Proved!SettledRowsHold, Proved!LedgerImplemented, PTL

===============================================================================
