------------------------------ MODULE EntProofs ------------------------------
(***************************************************************************)
(* The data layer: what a statement that was not refused leaves in the     *)
(* tables.  A statement checks only the rows it writes; that a legal       *)
(* database stays legal is what these lemmas are for.                      *)
(***************************************************************************)
EXTENDS Changes, TLAPS, FiniteSetTheorems

\* Tables whose rows have the table's columns and satisfy every constraint.
IsDatabase(d) ==
    /\ DOMAIN d = DOMAIN Tables
    /\ \A t \in DOMAIN Tables : \A i \in DOMAIN d[t] : DOMAIN d[t][i] = Tables[t].columns
    /\ Legal(d)

\* The schema has five tables.
LEMMA TableNames ==
    /\ DOMAIN Tables = {"challenges", "runs", "submissions", "suites", "workers"}
    /\ Tables["runs"] = RunsTable /\ Tables["suites"] = SuitesTable
    /\ Tables["workers"] = WorkersTable /\ Tables["challenges"] = ChallengesTable
    /\ Tables["submissions"] = SubmissionsTable
  BY DEF Tables

\* A foreign key names a table of the schema.
LEMMA RefsNameTables ==
    \A t \in DOMAIN Tables : \A c \in DOMAIN Tables[t].refs :
        Tables[t].refs[c] \in DOMAIN Tables
  BY TableNames DEF RunsTable, SuitesTable, WorkersTable, ChallengesTable, SubmissionsTable

-----------------------------------------------------------------------------
(* Statements.                                                             *)

\* A statement checks the rows it writes; the others stay legal because no row
\* goes away and a key is compared both ways.
LEMMA LegalAfter ==
    ASSUME NEW d, NEW e, NEW t \in DOMAIN Tables, NEW ids,
           IsDatabase(d), DOMAIN e = DOMAIN Tables,
           \A t2 \in DOMAIN Tables \ {t} : e[t2] = d[t2],
           DOMAIN d[t] \subseteq DOMAIN e[t],
           \A i \in DOMAIN e[t] \ ids : i \in DOMAIN d[t] /\ e[t][i] = d[t][i],
           \A i \in ids : LegalRow(e, t, i) /\ DOMAIN e[t][i] = Tables[t].columns
    PROVE  IsDatabase(e)
<1> SUFFICES ASSUME NEW t2 \in DOMAIN Tables, NEW i \in DOMAIN e[t2]
             PROVE  LegalRow(e, t2, i) /\ DOMAIN e[t2][i] = Tables[t2].columns
  BY DEF IsDatabase, Legal
<1>1. \A t3 \in DOMAIN Tables : DOMAIN d[t3] \subseteq DOMAIN e[t3]
  OBVIOUS
<1>2. CASE t2 = t /\ i \in ids
  BY <1>2
<1>3. CASE t2 # t \/ i \notin ids
  <2>1. /\ i \in DOMAIN d[t2] /\ e[t2][i] = d[t2][i] /\ LegalRow(d, t2, i)
        /\ DOMAIN d[t2][i] = Tables[t2].columns
    BY <1>3 DEF IsDatabase, Legal
  <2>2. \A c \in Tables[t2].notNull : e[t2][i][c] # NULL
    BY <2>1 DEF LegalRow
  <2>3. \A c \in DOMAIN Tables[t2].refs :
           e[t2][i][c] \in {NULL} \cup DOMAIN e[Tables[t2].refs[c]]
    BY <1>1, <2>1, RefsNameTables DEF LegalRow
  <2>4. ASSUME NEW key \in Tables[t2].unique, NEW j \in DOMAIN e[t2] \ {i}
        PROVE  \E c \in key : e[t2][i][c] # e[t2][j][c]
    <3>1. CASE t2 = t /\ j \in ids
      BY <3>1 DEF LegalRow
    <3>2. CASE t2 # t \/ j \notin ids
      <4>1. j \in DOMAIN d[t2] \ {i} /\ e[t2][j] = d[t2][j]
        BY <3>2
      <4> QED
        BY <2>1, <4>1 DEF LegalRow
    <3> QED
      BY <3>1, <3>2
  <2> QED
    BY <2>1, <2>2, <2>3, <2>4 DEF LegalRow
<1> QED
  BY <1>2, <1>3

\* UPDATE: the rows in ids, column by column, and nothing else.
LEMMA UpdateRowsOf ==
    ASSUME NEW d, NEW t \in DOMAIN Tables, NEW ids, NEW m,
           IsDatabase(d), ids \subseteq DOMAIN d[t], UpdateRows(d, t, ids, m) # NULL
    PROVE  LET e == UpdateRows(d, t, ids, m) IN
           /\ IsDatabase(e)
           /\ \A t2 \in DOMAIN Tables \ {t} : e[t2] = d[t2]
           /\ DOMAIN e[t] = DOMAIN d[t]
           /\ \A i \in DOMAIN d[t] \ ids : e[t][i] = d[t][i]
           /\ \A i \in ids :
                 e[t][i] = [c \in Tables[t].columns |->
                              IF c \in DOMAIN m.set THEN m.set[c]
                              ELSE IF c \in DOMAIN m.add
                                   THEN IF d[t][i][c] = NULL THEN m.add[c] ELSE d[t][i][c] + m.add[c]
                              ELSE IF c \in m.clear THEN NULL ELSE d[t][i][c]]
<1> DEFINE row(i) == [c \in Tables[t].columns |->
                        IF c \in DOMAIN m.set THEN m.set[c]
                        ELSE IF c \in DOMAIN m.add
                             THEN IF d[t][i][c] = NULL THEN m.add[c] ELSE d[t][i][c] + m.add[c]
                        ELSE IF c \in m.clear THEN NULL ELSE d[t][i][c]]
           rows == [i \in DOMAIN d[t] |-> IF i \in ids THEN row(i) ELSE d[t][i]]
           e == [d EXCEPT ![t] = rows]
<1>1. UpdateRows(d, t, ids, m) = Checked(e, t, ids)
  BY DEF UpdateRows
<1>2. UpdateRows(d, t, ids, m) = e /\ \A i \in ids : LegalRow(e, t, i)
  BY <1>1 DEF Checked
<1>3. /\ DOMAIN e = DOMAIN Tables
      /\ \A t2 \in DOMAIN Tables \ {t} : e[t2] = d[t2]
      /\ e[t] = rows
  BY DEF IsDatabase
<1> HIDE DEF e
<1>4. /\ DOMAIN e[t] = DOMAIN d[t]
      /\ \A i \in DOMAIN d[t] \ ids : e[t][i] = d[t][i]
      /\ \A i \in ids : e[t][i] = row(i)
  BY <1>3
<1>0. \A i : DOMAIN row(i) = Tables[t].columns
  OBVIOUS
<1> HIDE DEF row, rows
<1>5. IsDatabase(e)
  BY <1>2, <1>3, <1>4, <1>0, LegalAfter
<1> QED
  BY <1>2, <1>3, <1>4, <1>5 DEF row

\* INSERT: the new rows, and nothing else.
NewRow(t, values) ==
    [c \in Tables[t].columns |-> IF c \in DOMAIN values THEN values[c] ELSE NULL]

Inserted(d, t, rows) == [d EXCEPT ![t] = [i \in DOMAIN rows |-> NewRow(t, rows[i])] ++ d[t]]

\* INSERT: the new rows are there, the others are as they were.
LEMMA InsertedRows ==
    ASSUME NEW d, NEW t \in DOMAIN Tables, NEW rows, DOMAIN d = DOMAIN Tables
    PROVE  LET e == Inserted(d, t, rows) IN
           /\ DOMAIN e = DOMAIN Tables
           /\ \A t2 \in DOMAIN Tables \ {t} : e[t2] = d[t2]
           /\ DOMAIN e[t] = DOMAIN d[t] \cup DOMAIN rows
           /\ \A i \in DOMAIN d[t] \ DOMAIN rows : e[t][i] = d[t][i]
           /\ \A i \in DOMAIN rows : e[t][i] = NewRow(t, rows[i])
<1> DEFINE new == [i \in DOMAIN rows |-> NewRow(t, rows[i])]
           e == [d EXCEPT ![t] = new ++ d[t]]
<1>1. /\ DOMAIN e = DOMAIN Tables
      /\ \A t2 \in DOMAIN Tables \ {t} : e[t2] = d[t2]
      /\ e[t] = new ++ d[t]
  OBVIOUS
<1>2. DOMAIN new = DOMAIN rows /\ \A i \in DOMAIN rows : new[i] = NewRow(t, rows[i])
  OBVIOUS
<1>3. e = Inserted(d, t, rows)
  BY DEF Inserted
<1> HIDE DEF e, new
<1> QED
  BY <1>1, <1>2, <1>3 DEF ++

\* An INSERT that was not refused leaves a legal database.
LEMMA InsertedLegal ==
    ASSUME NEW d, NEW t \in DOMAIN Tables, NEW rows, IsDatabase(d),
           \A i \in DOMAIN rows : LegalRow(Inserted(d, t, rows), t, i)
    PROVE  IsDatabase(Inserted(d, t, rows))
<1> DEFINE e == Inserted(d, t, rows)
<1>1. /\ DOMAIN e = DOMAIN Tables
      /\ \A t2 \in DOMAIN Tables \ {t} : e[t2] = d[t2]
      /\ DOMAIN e[t] = DOMAIN d[t] \cup DOMAIN rows
      /\ \A i \in DOMAIN d[t] \ DOMAIN rows : e[t][i] = d[t][i]
      /\ \A i \in DOMAIN rows : e[t][i] = NewRow(t, rows[i])
  BY InsertedRows DEF IsDatabase
<1>2. \A i : DOMAIN NewRow(t, rows[i]) = Tables[t].columns
  BY DEF NewRow
<1> HIDE DEF e
<1>3. \A i \in DOMAIN rows : LegalRow(e, t, i)
  BY DEF e
<1> DEFINE ids == DOMAIN rows
<1>4. /\ DOMAIN d[t] \subseteq DOMAIN e[t]
      /\ \A i \in DOMAIN e[t] \ ids : i \in DOMAIN d[t] /\ e[t][i] = d[t][i]
      /\ \A i \in ids : LegalRow(e, t, i) /\ DOMAIN e[t][i] = Tables[t].columns
  BY <1>1, <1>2, <1>3
<1> HIDE DEF ids
<1>5. IsDatabase(e)
  BY <1>1, <1>4, LegalAfter
<1> QED
  BY <1>5 DEF e

\* An INSERT that was not refused is Inserted, and its rows passed the checks.
LEMMA InsertIs ==
    ASSUME NEW d, NEW t, NEW rows
    PROVE  Insert(d, t, rows) = IF \A i \in DOMAIN rows : LegalRow(Inserted(d, t, rows), t, i)
                                THEN Inserted(d, t, rows) ELSE NULL
  BY DEF Insert, Checked, Inserted, NewRow

\* The two together, as the handlers use them.
LEMMA InsertOf ==
    ASSUME NEW d, NEW t \in DOMAIN Tables, NEW rows,
           IsDatabase(d), Insert(d, t, rows) # NULL
    PROVE  LET e == Insert(d, t, rows) IN
           /\ IsDatabase(e)
           /\ \A t2 \in DOMAIN Tables \ {t} : e[t2] = d[t2]
           /\ DOMAIN e[t] = DOMAIN d[t] \cup DOMAIN rows
           /\ \A i \in DOMAIN d[t] \ DOMAIN rows : e[t][i] = d[t][i]
           /\ \A i \in DOMAIN rows : e[t][i] = NewRow(t, rows[i])
<1> DEFINE e == Inserted(d, t, rows)
<1>1. Insert(d, t, rows) = e /\ \A i \in DOMAIN rows : LegalRow(e, t, i)
  BY InsertIs
<1>2. IsDatabase(e)
  BY <1>1, InsertedLegal
<1>3. DOMAIN d = DOMAIN Tables
  BY DEF IsDatabase
<1> QED
  BY <1>1, <1>2, <1>3, InsertedRows

-----------------------------------------------------------------------------
(* Mutations: what is in a mutation after the calls a handler makes.       *)

\* Nothing taken from nothing.
LEMMA WithoutAny == \A C : Without(<<>>, C) = <<>>
  BY DEF Without

\* A function extended by nothing.
LEMMA ExtendedByNothing ==
    ASSUME NEW x, x = [c \in DOMAIN x |-> x[c]]
    PROVE  x ++ <<>> = x
  BY DEF ++

\* The columns set are there, and nothing else.
LEMMA SettingOf ==
    ASSUME NEW x, x = [c \in DOMAIN x |-> x[c]]
    PROVE  LET m == Setting(NoChange, x) IN
           m.set = x /\ m.add = <<>> /\ m.clear = {} /\ m.edge = <<>>
<1>1. \A D : {} \ D = {}
  OBVIOUS
<1> QED
  BY <1>1, WithoutAny, ExtendedByNothing DEF Setting, NoChange

\* Columns set, then others cleared.
LEMMA ClearingOf ==
    ASSUME NEW x, NEW C, x = [c \in DOMAIN x |-> x[c]], C \cap DOMAIN x = {}
    PROVE  LET m == Clearing(Setting(NoChange, x), C) IN
           m.set = x /\ m.add = <<>> /\ m.clear = C
<1>1. Without(x, C) = x
  BY DEF Without
<1>2. \A D : {} \cup D = D /\ {} \ D = {}
  OBVIOUS
<1> QED
  BY <1>1, <1>2, WithoutAny, ExtendedByNothing DEF Clearing, Setting, NoChange

\* Columns set, then edges.
LEMMA LinkingOf ==
    ASSUME NEW x, NEW e, x = [c \in DOMAIN x |-> x[c]], e = [c \in DOMAIN e |-> e[c]]
    PROVE  LET m == Linking(Setting(NoChange, x), e) IN
           m.set = x /\ m.add = <<>> /\ m.clear = {} /\ m.edge = e
<1>1. \A D : {} \ D = {}
  OBVIOUS
<1> QED
  BY <1>1, WithoutAny, ExtendedByNothing DEF Linking, Setting, NoChange

\* What the handlers' changes of a run, and a new run, are made of.
LEMMA ClaimChangeIs ==
    ASSUME NEW w
    PROVE  LET m == ClaimChange(w) IN
           /\ DOMAIN m.set = {"status", "worker_id", "claimed_at"}
           /\ m.set.status = "claimed" /\ m.set.worker_id = w /\ m.set.claimed_at = "now"
           /\ m.add = <<>> /\ m.clear = {}
  BY SettingOf DEF ClaimChange

\* As above.
LEMMA SweepChangeIs ==
    /\ DOMAIN SweepChange.set = {"status", "worker_id"}
    /\ SweepChange.set.status = "pending" /\ SweepChange.set.worker_id = ""
    /\ SweepChange.add = <<>> /\ SweepChange.clear = {"claimed_at"}
<1> DEFINE x == [status |-> "pending", worker_id |-> ""]
           C == {"claimed_at"}
<1>1. x = [c \in DOMAIN x |-> x[c]] /\ C \cap DOMAIN x = {}
  OBVIOUS
<1>2. SweepChange = Clearing(Setting(NoChange, x), C)
  BY DEF SweepChange
<1>3. DOMAIN x = {"status", "worker_id"} /\ x.status = "pending" /\ x.worker_id = ""
  OBVIOUS
<1> HIDE DEF x, C
<1>4. SweepChange.set = x /\ SweepChange.add = <<>> /\ SweepChange.clear = C
  BY <1>1, <1>2, ClearingOf
<1> QED
  BY <1>3, <1>4 DEF C

\* As above.
LEMMA CancelChangeIs ==
    /\ DOMAIN CancelChange.set = {"status", "finished_at"}
    /\ CancelChange.set.status = "cancelled" /\ CancelChange.set.finished_at = "now"
    /\ CancelChange.add = <<>> /\ CancelChange.clear = {}
  BY SettingOf DEF CancelChange

\* As above.
LEMMA RetryChangeIs ==
    /\ DOMAIN RetryChange.set = {"status", "worker_id", "error"}
    /\ RetryChange.set.status = "pending" /\ RetryChange.set.worker_id = ""
    /\ RetryChange.set.error = ""
    /\ RetryChange.add = <<>>
    /\ RetryChange.clear = {"claimed_at", "started_at", "finished_at", "score", "result"}
<1> DEFINE x == [status |-> "pending", worker_id |-> "", error |-> ""]
           C == {"claimed_at", "started_at", "finished_at", "score", "result"}
<1>1. x = [c \in DOMAIN x |-> x[c]] /\ C \cap DOMAIN x = {}
  OBVIOUS
<1>2. RetryChange = Clearing(Setting(NoChange, x), C)
  BY DEF RetryChange
<1>3. DOMAIN x = {"status", "worker_id", "error"} /\ x.status = "pending" /\ x.worker_id = "" /\ x.error = ""
  OBVIOUS
<1> HIDE DEF x, C
<1>4. RetryChange.set = x /\ RetryChange.add = <<>> /\ RetryChange.clear = C
  BY <1>1, <1>2, ClearingOf
<1> QED
  BY <1>3, <1>4 DEF C

\* As above.
LEMMA PriorityChangeIs ==
    ASSUME NEW p
    PROVE  /\ DOMAIN PriorityChange(p).set = {"priority"} /\ PriorityChange(p).set.priority = p
           /\ PriorityChange(p).add = <<>> /\ PriorityChange(p).clear = {}
  BY SettingOf DEF PriorityChange

\* As above.
LEMMA NewRunOf ==
    \A s, u, seed : NewRun(s, u, seed).edge = [submission |-> s, suite |-> u]
  BY LinkingOf DEF NewRun

\* As above.
LEMMA NewRunSets ==
    \A s, u, seed : DOMAIN NewRun(s, u, seed).set = {"seed"}
  BY LinkingOf DEF NewRun

\* As above.
LEMMA SeenChangeIs ==
    ASSUME NEW w
    PROVE  /\ SeenChange(w).set = [name |-> w, last_seen |-> "fresh"]
           /\ "set" \in DOMAIN SeenChange(w)
<1>1. SeenChange(w).set = [name |-> w, last_seen |-> "fresh"]
  BY SettingOf DEF SeenChange
<1>2. "set" \in DOMAIN SeenChange(w)
  BY DEF SeenChange, Setting, NoChange
<1> QED
  BY <1>1, <1>2

\* A new run's mutation has the four parts of one.
LEMMA NewRunIsRecord ==
    ASSUME NEW s, NEW u, NEW seed
    PROVE  {"set", "edge"} \subseteq DOMAIN NewRun(s, u, seed)
  BY DEF NewRun, Linking, Setting, NoChange

\* A report's change is the columns its body gives.
LEMMA ResultChangeIs ==
    ASSUME NEW b
    PROVE  LET given(present, columns) == IF present THEN columns ELSE <<>> IN
           /\ ResultChange(b).set =
                 [status |-> b.status, finished_at |-> "now"]
                   ++ given(b.score # NoScore, [score |-> b.score, result |-> "json"])
                   ++ given(b.error, [error |-> "text"])
                   ++ given(b.started, [started_at |-> "now"])
                   ++ given(b.logs, [stdout |-> "text", stderr |-> "text"])
           /\ ResultChange(b).add = <<>> /\ ResultChange(b).clear = {}
<1> DEFINE given(present, columns) == IF present THEN columns ELSE <<>>
           head == [status |-> b.status, finished_at |-> "now"]
                   ++ given(b.score # NoScore, [score |-> b.score, result |-> "json"])
                   ++ given(b.error, [error |-> "text"])
                   ++ given(b.started, [started_at |-> "now"])
           x == head ++ given(b.logs, [stdout |-> "text", stderr |-> "text"])
<1>1. ResultChange(b) = Setting(NoChange, x)
  BY DEF ResultChange
<1>2. x = [c \in DOMAIN x |-> x[c]]
  <2> HIDE DEF head, given
  <2> QED
    BY DEF ++
<1> HIDE DEF x
<1>3. ResultChange(b).set = x /\ ResultChange(b).add = <<>> /\ ResultChange(b).clear = {}
  BY <1>1, <1>2, SettingOf
<1> QED
  BY <1>3 DEF x

\* The bump of a worker's tally: the addition stays, for another column is set.
LEMMA BumpChangeIs ==
    BumpChange.add = [runs_handled |-> 1] /\ BumpChange.set = [last_seen |-> "fresh"]
<1> DEFINE m == Adding(NoChange, [runs_handled |-> 1])
<1>1. m.add = [runs_handled |-> 1] /\ m.set = <<>>
  BY DEF Adding, NoChange
<1>2. Without([runs_handled |-> 1], {"last_seen"}) = [runs_handled |-> 1]
  BY DEF Without
<1>3. Setting(m, [last_seen |-> "fresh"]).add = Without(m.add, {"last_seen"})
  BY DEF Setting, Adding, NoChange
<1>4. Setting(m, [last_seen |-> "fresh"]).set = [last_seen |-> "fresh"]
  BY <1>1, ExtendedByNothing DEF Setting, Adding, NoChange
<1> QED
  BY <1>1, <1>2, <1>3, <1>4 DEF BumpChange

-----------------------------------------------------------------------------
(* Updates of runs.                                                        *)

RunColumns == Tables["runs"].columns

\* A row of runs after an update with the change m.
Changed(row, m) ==
    [c \in RunColumns |->
        IF c \in RunSettable \cap DOMAIN m.set THEN m.set[c]
        ELSE IF c \in m.clear \cap RunOptional THEN NULL ELSE row[c]]

\* UPDATE of runs: the rows in ids change as Changed says, and nothing else.
LEMMA RunUpdateOf ==
    ASSUME NEW d, NEW ids, NEW m,
           IsDatabase(d), ids \subseteq DOMAIN d.runs, m.add = <<>>, RunUpdate(d, ids, m) # NULL
    PROVE  LET e == RunUpdate(d, ids, m) IN
           /\ IsDatabase(e)
           /\ \A t \in DOMAIN Tables \ {"runs"} : e[t] = d[t]
           /\ DOMAIN e.runs = DOMAIN d.runs
           /\ \A i \in DOMAIN d.runs \ ids : e.runs[i] = d.runs[i]
           /\ \A i \in ids : e.runs[i] = Changed(d.runs[i], m)
<1> DEFINE s == RunUpdateSpec(m)
           e == UpdateRows(d, "runs", ids, s)
<1>1. RunUpdate(d, ids, m) = e
  BY DEF RunUpdate
<1>2. /\ DOMAIN s.set = RunSettable \cap DOMAIN m.set
      /\ \A c \in DOMAIN s.set : s.set[c] = m.set[c]
      /\ s.clear = m.clear \cap RunOptional
      /\ DOMAIN s.add = RunAddable \cap DOMAIN m.add
  BY DEF RunUpdateSpec, NoChange
<1>3. DOMAIN s.add = {}
  <2>1. \A c \in RunAddable : c \notin DOMAIN m.add
    BY DEF RunAddable
  <2> QED
    BY <1>2, <2>1
<1> HIDE DEF s
<1>4. "runs" \in DOMAIN Tables
  BY TableNames
<1>5. /\ IsDatabase(e)
      /\ \A t \in DOMAIN Tables \ {"runs"} : e[t] = d[t]
      /\ DOMAIN e["runs"] = DOMAIN d["runs"]
      /\ \A i \in DOMAIN d["runs"] \ ids : e["runs"][i] = d["runs"][i]
      /\ \A i \in ids :
            e["runs"][i] = [c \in Tables["runs"].columns |->
                         IF c \in DOMAIN s.set THEN s.set[c]
                         ELSE IF c \in DOMAIN s.add
                              THEN IF d["runs"][i][c] = NULL THEN s.add[c] ELSE d["runs"][i][c] + s.add[c]
                         ELSE IF c \in s.clear THEN NULL ELSE d["runs"][i][c]]
  BY <1>1, <1>4, UpdateRowsOf
<1> HIDE DEF e
<1>6. ASSUME NEW i \in ids
      PROVE  e.runs[i] = Changed(d.runs[i], m)
  <2> DEFINE row == d["runs"][i]
  <2>1. e.runs[i] = [c \in RunColumns |->
                       IF c \in DOMAIN s.set THEN s.set[c]
                       ELSE IF c \in DOMAIN s.add
                            THEN IF row[c] = NULL THEN s.add[c] ELSE row[c] + s.add[c]
                       ELSE IF c \in s.clear THEN NULL ELSE row[c]]
    BY <1>5 DEF RunColumns
  <2> HIDE DEF row
  <2>2. ASSUME NEW c \in RunColumns
        PROVE  e.runs[i][c] = Changed(row, m)[c]
    <3>1. c \notin DOMAIN s.add
      BY <1>3
    <3>2. CASE c \in DOMAIN s.set
      <4>1. c \in RunSettable \cap DOMAIN m.set /\ s.set[c] = m.set[c]
        BY <1>2, <3>2
      <4>2. e.runs[i][c] = s.set[c]
        BY <2>1, <3>2
      <4> QED
        BY <4>1, <4>2 DEF Changed
    <3>3. CASE c \notin DOMAIN s.set /\ c \in s.clear
      BY <1>2, <2>1, <3>1, <3>3 DEF Changed
    <3>4. CASE c \notin DOMAIN s.set /\ c \notin s.clear
      BY <1>2, <2>1, <3>1, <3>4 DEF Changed
    <3> QED
      BY <3>2, <3>3, <3>4
  <2> QED
    BY <2>1, <2>2 DEF Changed, row
<1> QED
  BY <1>1, <1>5, <1>6

-----------------------------------------------------------------------------
(* A submission's inserts.                                                 *)

\* A submission inserted: its row is there and the other tables are as they were.
LEMMA SubmissionCreateOf ==
    ASSUME NEW d, NEW id, NEW m, NEW now,
           IsDatabase(d), SubmissionCreate(d, id, m, now) # NULL
    PROVE  LET e == SubmissionCreate(d, id, m, now) IN
           /\ IsDatabase(e)
           /\ e.runs = d.runs /\ e.suites = d.suites /\ e.workers = d.workers
           /\ e.challenges = d.challenges
           /\ DOMAIN e.submissions = DOMAIN d.submissions \cup {id}
<1> DEFINE rows == [i \in {id} |-> SubmissionSpec(SubmissionDefaults(m, now))]
           e == Insert(d, "submissions", rows)
<1>1. SubmissionCreate(d, id, m, now) = e
  BY DEF SubmissionCreate, SubmissionSave, InsertOne
<1>2. "submissions" \in DOMAIN Tables /\ DOMAIN rows = {id}
  BY TableNames
<1> HIDE DEF rows
<1>3. /\ IsDatabase(e)
      /\ \A t \in DOMAIN Tables \ {"submissions"} : e[t] = d[t]
      /\ DOMAIN e["submissions"] = DOMAIN d["submissions"] \cup {id}
  BY <1>1, <1>2, InsertOf
<1> HIDE DEF e
<1>4. /\ e.runs = d.runs /\ e.suites = d.suites /\ e.workers = d.workers
      /\ e.challenges = d.challenges
  BY <1>3, TableNames
<1> QED
  BY <1>1, <1>3, <1>4

\* A fan-out over one suite: the submission's rows, under ids not yet in use.
LEMMA InsertRunsOf ==
    ASSUME NEW d, NEW s, NEW u, NEW seedOf, NEW now, d # NULL,
           IsDatabase(d), DOMAIN seedOf \cap DOMAIN d.runs = {},
           InsertRuns(d, s, u, seedOf, now) # NULL
    PROVE  LET e == InsertRuns(d, s, u, seedOf, now) IN
           /\ IsDatabase(e)
           /\ \A t \in DOMAIN Tables \ {"runs"} : e[t] = d[t]
           /\ DOMAIN e.runs = DOMAIN d.runs \cup DOMAIN seedOf
           /\ \A r \in DOMAIN d.runs : e.runs[r] = d.runs[r]
           /\ \A r \in DOMAIN seedOf :
                 LET v == RunSpec(RunDefaults(NewRun(s, u, seedOf[r]), now)) IN
                 e.runs[r] = NewRow("runs", v)
<1> DEFINE spec(r) == RunSpec(RunDefaults(NewRun(s, u, seedOf[r]), now))
           rows == [r \in DOMAIN seedOf |-> spec(r)]
           ms == [r \in DOMAIN seedOf |-> NewRun(s, u, seedOf[r])]
           ds == [r \in DOMAIN ms |-> RunDefaults(ms[r], now)]
           e == Insert(d, "runs", rows)
<1>1. InsertRuns(d, s, u, seedOf, now) = RunSave(d, ds)
  BY DEF InsertRuns, RunCreate
<1>2. RunSave(d, ds) = Insert(d, "runs", [r \in DOMAIN ds |-> RunSpec(ds[r])])
  BY <1>1 DEF RunSave
<1>3. [r \in DOMAIN ds |-> RunSpec(ds[r])] = rows
  OBVIOUS
<1>4. InsertRuns(d, s, u, seedOf, now) = e /\ DOMAIN rows = DOMAIN seedOf
  BY <1>1, <1>2, <1>3
<1>5. "runs" \in DOMAIN Tables
  BY TableNames
<1>6. \A r \in DOMAIN seedOf : rows[r] = spec(r)
  OBVIOUS
<1> HIDE DEF rows, spec
<1>7. /\ IsDatabase(e)
      /\ \A t \in DOMAIN Tables \ {"runs"} : e[t] = d[t]
      /\ DOMAIN e["runs"] = DOMAIN d["runs"] \cup DOMAIN rows
      /\ \A i \in DOMAIN d["runs"] \ DOMAIN rows : e["runs"][i] = d["runs"][i]
      /\ \A i \in DOMAIN rows : e["runs"][i] = NewRow("runs", rows[i])
  BY <1>4, <1>5, InsertOf
<1> HIDE DEF e
<1>8. \A r \in DOMAIN seedOf : e.runs[r] = NewRow("runs", spec(r))
  BY <1>4, <1>6, <1>7
<1> QED
  BY <1>4, <1>7, <1>8 DEF spec

\* The edges of a new row.
LEMMA NewRunEdges ==
    ASSUME NEW s, NEW u, NEW seed, NEW now
    PROVE  LET v == RunSpec(RunDefaults(NewRun(s, u, seed), now)) IN
           /\ {"submission_runs", "suite_runs"} \subseteq DOMAIN v
           /\ v.submission_runs = s /\ v.suite_runs = u
<1> DEFINE m == RunDefaults(NewRun(s, u, seed), now)
<1>1. m.edge = [submission |-> s, suite |-> u]
  <2>1. m.edge = NewRun(s, u, seed).edge
    BY NewRunIsRecord DEF RunDefaults, Default
  <2> QED
    BY <2>1, NewRunOf
<1>2. "submission_runs" \notin RunFields /\ "suite_runs" \notin RunFields
  BY DEF RunFields, RunQueueing, RunOptional, RunOutcome, RunText, RunClaim, RunTimes, Stamp
<1> HIDE DEF m
<1> QED
  BY <1>1, <1>2 DEF RunSpec, ++, m

\* A row as a fan-out inserts it.
IsNewRow(row, s, stamp) ==
    /\ row.status = "pending" /\ row.priority = 0 /\ row.created_at = stamp
    /\ row.submission_runs = s
    /\ \A c \in RunOptional : row[c] = NULL

\* A row as the fan-out inserts it: pending, priority 0, nothing else set.
LEMMA NewRunIs ==
    ASSUME NEW s, NEW u, NEW seed, NEW now
    PROVE  IsNewRow(NewRow("runs", RunSpec(RunDefaults(NewRun(s, u, seed), now))), s, now)
<1> DEFINE m == RunDefaults(NewRun(s, u, seed), now)
           given == NewRun(s, u, seed).set
           defaults == [status |-> "pending", priority |-> 0, created_at |-> now]
           columns == [c \in RunFields \cap DOMAIN m.set |-> m.set[c]]
           edges == [submission_runs |-> m.edge.submission, suite_runs |-> m.edge.suite]
           v == RunSpec(m)
           row == NewRow("runs", v)
<1>1. m.set = given ++ defaults /\ v = columns ++ edges
  <2>1. m.set = given ++ defaults
    BY NewRunIsRecord DEF RunDefaults, Default
  <2>2. v = columns ++ edges
    BY DEF RunSpec
  <2> QED
    BY <2>1, <2>2
<1>2. /\ DOMAIN given = {"seed"} /\ DOMAIN defaults = {"status", "priority", "created_at"}
      /\ defaults.status = "pending" /\ defaults.priority = 0 /\ defaults.created_at = now
  <2>1. DOMAIN given = {"seed"}
    BY NewRunSets
  <2> QED
    BY <2>1
<1>3. "submission_runs" \in DOMAIN v /\ v.submission_runs = s
  BY NewRunEdges
<1>4. DOMAIN edges = {"submission_runs", "suite_runs"}
  OBVIOUS
<1>5. /\ {"status", "priority", "created_at"} \subseteq RunFields
      /\ RunOptional \cap {"seed", "status", "priority", "created_at",
                           "submission_runs", "suite_runs"} = {}
      /\ RunOptional \cup {"status", "priority", "created_at", "submission_runs"} \subseteq RunColumns
  BY TableNames DEF RunColumns, RunsTable, RunFields, RunQueueing, RunOptional, RunOutcome,
     RunText, RunClaim, RunTimes, Stamp
<1> HIDE DEF given, defaults
<1>6. /\ DOMAIN m.set = {"seed", "status", "priority", "created_at"}
      /\ m.set.status = "pending" /\ m.set.priority = 0 /\ m.set.created_at = now
  BY <1>1, <1>2 DEF ++
<1>7. /\ DOMAIN columns = RunFields \cap DOMAIN m.set
      /\ \A c \in RunFields \cap DOMAIN m.set : columns[c] = m.set[c]
  OBVIOUS
<1> HIDE DEF m, columns, edges
<1>8. /\ DOMAIN v = (RunFields \cap DOMAIN m.set) \cup {"submission_runs", "suite_runs"}
      /\ \A c \in RunFields \cap DOMAIN m.set : v[c] = m.set[c]
  BY <1>1, <1>4, <1>7 DEF ++
<1> HIDE DEF v
<1>9. \A c \in RunColumns : row[c] = IF c \in DOMAIN v THEN v[c] ELSE NULL
  BY DEF NewRow, RunColumns
<1> HIDE DEF row
<1>10. /\ row.status = "pending" /\ row.priority = 0 /\ row.created_at = now
       /\ row.submission_runs = s
  BY <1>3, <1>5, <1>6, <1>8, <1>9
<1>11. \A c \in RunOptional : row[c] = NULL
  BY <1>5, <1>6, <1>8, <1>9
<1> QED
  BY <1>10, <1>11 DEF IsNewRow, row, v, m

-----------------------------------------------------------------------------
(* Suites and challenges.                                                  *)

\* A suite sealed, whatever the handler had read of it.
LEMMA SealOf ==
    ASSUME NEW d, NEW u, NEW asRead, IsDatabase(d), d # NULL, Seal(d, u, asRead) # NULL,
           asRead.sealed => d.suites[u].sealed
    PROVE  LET e == Seal(d, u, asRead) IN
           /\ IsDatabase(e)
           /\ \A t \in DOMAIN Tables \ {"suites"} : e[t] = d[t]
           /\ DOMAIN e.suites = DOMAIN d.suites
           /\ \A i \in DOMAIN d.suites :
                 /\ e.suites[i].seeds = d.suites[i].seeds
                 /\ e.suites[i].sealed <=> (d.suites[i].sealed \/ i = u)
<1> DEFINE m == SealChange
           s == SuiteUpdateSpec(m)
           ids == {u}
           e == UpdateRows(d, "suites", ids, s)
<1>1. CASE asRead.sealed
  BY <1>1 DEF Seal
<1>2. CASE ~asRead.sealed
  <2>1. Seal(d, u, asRead) = e /\ e # NULL /\ ids \subseteq DOMAIN d["suites"]
    BY <1>2 DEF Seal, SuiteUpdateOne
  <2>2. /\ DOMAIN s.set = {"sealed"} /\ s.set["sealed"]
        /\ "seeds" \notin DOMAIN s.add /\ "seeds" \notin s.clear
    <3>1. m.set = [sealed |-> TRUE] /\ m.clear = {}
      BY SettingOf DEF SealChange
    <3> HIDE DEF m
    <3> QED
      BY <3>1 DEF SuiteUpdateSpec, NoChange, SuiteSettable, SuiteFields, SuiteState, Stamp
  <2>3. /\ "suites" \in DOMAIN Tables
        /\ "seeds" \in Tables["suites"].columns /\ "sealed" \in Tables["suites"].columns
    BY TableNames DEF SuitesTable, SuiteFields, SuiteInputs, SuiteState
  <2>0. u \in ids /\ \A i \in ids : i = u
    OBVIOUS
  <2> HIDE DEF s, ids
  <2>4. /\ IsDatabase(e)
        /\ \A t \in DOMAIN Tables \ {"suites"} : e[t] = d[t]
        /\ DOMAIN e["suites"] = DOMAIN d["suites"]
        /\ \A i \in DOMAIN d["suites"] \ ids : e["suites"][i] = d["suites"][i]
        /\ \A i \in ids :
              e["suites"][i] =
                 [c \in Tables["suites"].columns |->
                    IF c \in DOMAIN s.set THEN s.set[c]
                    ELSE IF c \in DOMAIN s.add
                         THEN IF d["suites"][i][c] = NULL THEN s.add[c] ELSE d["suites"][i][c] + s.add[c]
                    ELSE IF c \in s.clear THEN NULL ELSE d["suites"][i][c]]
    BY <2>1, <2>3, UpdateRowsOf
  <2> HIDE DEF e
  <2>5. /\ e["suites"][u]["seeds"] = d["suites"][u]["seeds"]
        /\ e["suites"][u]["sealed"] = s.set["sealed"]
    <3> DEFINE row == d["suites"][u]
    <3>1. e["suites"][u] =
             [c \in Tables["suites"].columns |->
                IF c \in DOMAIN s.set THEN s.set[c]
                ELSE IF c \in DOMAIN s.add
                     THEN IF row[c] = NULL THEN s.add[c] ELSE row[c] + s.add[c]
                ELSE IF c \in s.clear THEN NULL ELSE row[c]]
      BY <2>4, <2>0
    <3> HIDE DEF row
    <3>2. e["suites"][u]["seeds"] = row["seeds"] /\ e["suites"][u]["sealed"] = s.set["sealed"]
      BY <2>2, <2>3, <3>1
    <3> QED
      BY <3>2 DEF row
  <2>6. \A i \in DOMAIN d.suites :
           /\ e.suites[i].seeds = d.suites[i].seeds
           /\ e.suites[i].sealed <=> (d.suites[i].sealed \/ i = u)
    BY <2>0, <2>2, <2>4, <2>5
  <2> QED
    BY <2>1, <2>4, <2>6
<1> QED
  BY <1>1, <1>2

\* A suite inserted has the seeds asked for, and the seal only if that is asked for.
LEMMA SuiteCreateOf ==
    ASSUME NEW d, NEW id, NEW m, NEW now, IsDatabase(d), id \notin DOMAIN d.suites,
           "seeds" \in DOMAIN m.set, "sealed" \notin DOMAIN m.set,
           SuiteCreate(d, id, m, now) # NULL
    PROVE  LET e == SuiteCreate(d, id, m, now) IN
           /\ IsDatabase(e)
           /\ \A t \in DOMAIN Tables \ {"suites"} : e[t] = d[t]
           /\ DOMAIN e.suites = DOMAIN d.suites \cup {id}
           /\ \A u \in DOMAIN d.suites : e.suites[u] = d.suites[u]
           /\ e.suites[id].seeds = m.set.seeds /\ ~e.suites[id].sealed
<1> DEFINE defaults == [timeout_seconds |-> 3600, sealed |-> FALSE, created_at |-> now]
           n == SuiteDefaults(m, now)
           v == SuiteSpec(n)
           rows == [i \in {id} |-> v]
           e == Insert(d, "suites", rows)
<1>1. SuiteCreate(d, id, m, now) = e
  BY DEF SuiteCreate, SuiteSave, InsertOne
<1>2. n.set = m.set ++ defaults
  BY DEF SuiteDefaults, Default
<1>3. {"seeds", "sealed"} \subseteq DOMAIN n.set /\ n.set.seeds = m.set.seeds /\ n.set.sealed = FALSE
  BY <1>2 DEF ++
<1>4. {"seeds", "sealed"} \subseteq SuiteFields
  BY DEF SuiteFields, SuiteInputs, SuiteState
<1>5. {"seeds", "sealed"} \subseteq DOMAIN v /\ v.seeds = n.set.seeds /\ v.sealed = n.set.sealed
  <2> HIDE DEF n
  <2> QED
    BY <1>3, <1>4 DEF SuiteSpec, ++
<1>6. "suites" \in DOMAIN Tables /\ {"seeds", "sealed"} \subseteq Tables["suites"].columns
  BY <1>4, TableNames DEF SuitesTable
<1>7. DOMAIN rows = {id} /\ rows[id] = v
  OBVIOUS
<1> HIDE DEF rows, v, n
<1>8. /\ IsDatabase(e)
      /\ \A t \in DOMAIN Tables \ {"suites"} : e[t] = d[t]
      /\ DOMAIN e["suites"] = DOMAIN d["suites"] \cup DOMAIN rows
      /\ \A i \in DOMAIN d["suites"] \ DOMAIN rows : e["suites"][i] = d["suites"][i]
      /\ \A i \in DOMAIN rows : e["suites"][i] = NewRow("suites", rows[i])
  BY <1>1, <1>6, InsertOf
<1> HIDE DEF e
<1>9. e.suites[id] = NewRow("suites", v)
  BY <1>7, <1>8
<1>10. e.suites[id].seeds = m.set.seeds /\ ~e.suites[id].sealed
  BY <1>3, <1>5, <1>6, <1>9 DEF NewRow
<1> QED
  BY <1>1, <1>7, <1>8, <1>10

\* A challenge inserted: the other tables are as they were.
LEMMA ChallengeCreateOf ==
    ASSUME NEW d, NEW id, NEW m, NEW now, IsDatabase(d), ChallengeCreate(d, id, m, now) # NULL
    PROVE  LET e == ChallengeCreate(d, id, m, now) IN
           /\ IsDatabase(e)
           /\ \A t \in DOMAIN Tables \ {"challenges"} : e[t] = d[t]
           /\ DOMAIN e.challenges = DOMAIN d.challenges \cup {id}
<1> DEFINE rows == [i \in {id} |-> ChallengeSpec(ChallengeDefaults(m, now))]
           e == Insert(d, "challenges", rows)
<1>1. ChallengeCreate(d, id, m, now) = e
  BY DEF ChallengeCreate, ChallengeSave, InsertOne
<1>2. "challenges" \in DOMAIN Tables /\ DOMAIN rows = {id}
  BY TableNames
<1> HIDE DEF rows
<1>3. /\ IsDatabase(e)
      /\ \A t \in DOMAIN Tables \ {"challenges"} : e[t] = d[t]
      /\ DOMAIN e["challenges"] = DOMAIN d["challenges"] \cup DOMAIN rows
  BY <1>1, <1>2, InsertOf
<1> QED
  BY <1>1, <1>2, <1>3

===============================================================================
