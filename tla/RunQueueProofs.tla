--------------------------- MODULE RunQueueProofs ---------------------------
(***************************************************************************)
(* Proofs about RunQueue for every pool of rows, submissions, suites and   *)
(* workers.  The argument is local to a row: RowSteps says what any step   *)
(* of the system may do to one row, RowInv is what every row satisfies,    *)
(* and RowInvKept says that RowSteps keep it.  The properties of RunQueue  *)
(* follow from these three.                                                *)
(*                                                                         *)
(* Then the queue with its history.  The latest prioritization is served   *)
(* first: a row keeps its priority through claims, sweeps, retries and     *)
(* reports; only a prioritization writes it, and it writes a stamp above   *)
(* every earlier one.  So the rows it bumped stay exactly those of the     *)
(* highest priority, and the claim's ORDER BY cannot pass over one that    *)
(* waits.  A success is counted once: only the report that turns a row     *)
(* succeeded raises a counter, one counter, and no step takes a success    *)
(* away.                                                                   *)
(***************************************************************************)
EXTENDS QueueHistory, TLAPS, FiniteSetTheorems

\* The inductive invariant, for one row: CleanSlate and OneOutcome together.
\* Neither is inductive alone: a claimed row must be clean for the report that
\* settles it to leave one outcome, and a settled one must be consistent for
\* the retry to leave a clean slate.
RowInv(row) ==
    /\ row \in Row
    /\ row.status \in InFlight =>
          /\ row.score = NoScore
          /\ ~row.error /\ ~row.started /\ ~row.finished
          /\ (row.status = "claimed") <=> (row.worker # NoWorker)
          /\ (row.status = "claimed") <=> row.claimed
    /\ row.status \in Terminal =>
          /\ row.finished
          /\ (row.status = "succeeded") <=> (row.score # NoScore)
          /\ row.status = "succeeded" => ~row.error
          /\ row.status \in {"failed", "timed_out"} => row.error

RowsInv == \A r \in Run : RowInv(runs[r])

\* What one step may turn a row into.
RowStep(row, new) ==
    \/ new = row
    \/ row.status = "none" /\ \E c \in Nat : new = FreshRow(c)
    \/ row.status = "pending" /\ \E w \in Worker : new = ClaimedBy(row, w)
    \/ /\ row.status # "none"
       /\ \E b \in Bodies : ~Ignored(row, b) /\ new = Recorded(row, b)
    \/ row.status \in InFlight /\ new = CancelledRow(row)
    \/ row.status \in Retryable /\ new = Retried(row)
    \/ row.status = "pending" /\ \E p \in Nat : new = [row EXCEPT !.priority = p]
    \/ row.status = "claimed" /\ new = Swept(row)

-----------------------------------------------------------------------------
(* One row. *)

\* A row that satisfies RowInv still does after any RowStep, whatever order
\* claims, sweeps, cancellations, retries and reports come in.
LEMMA RowInvKept ==
    ASSUME NEW row, NEW new, RowInv(row), RowStep(row, new)
    PROVE  RowInv(new)
<1> USE NoValuesAssumption DEF NoValuesAssumption
<1>1. CASE new = row
  BY <1>1
<1>2. CASE row.status = "none" /\ \E c \in Nat : new = FreshRow(c)
  <2>1. PICK c \in Nat : new = FreshRow(c)
    BY <1>2
  <2>2. new = [status |-> "pending", priority |-> 0, created |-> c,
               worker |-> NoWorker, claimed |-> FALSE, started |-> FALSE,
               finished |-> FALSE, score |-> NoScore, error |-> FALSE,
               logs |-> FALSE]
    BY <2>1 DEF FreshRow, NoRow
  <2> QED
    BY <2>2 DEF RowInv, Row, Status, InFlight, Terminal
<1>3. CASE row.status = "pending" /\ \E w \in Worker : new = ClaimedBy(row, w)
  <2>1. PICK w \in Worker : new = ClaimedBy(row, w)
    BY <1>3
  <2>2. w # NoWorker
    OBVIOUS
  <2>3. new \in Row
    BY <2>1 DEF RowInv, ClaimedBy, Row, Status, InFlight
  <2>4. /\ new.status = "claimed" /\ new.worker = w /\ new.claimed
        /\ new.score = row.score /\ new.error = row.error
        /\ new.started = row.started /\ new.finished = row.finished
    BY <2>1 DEF RowInv, ClaimedBy, Row
  <2> QED
    BY <1>3, <2>2, <2>3, <2>4 DEF RowInv, InFlight, Terminal
<1>4. CASE /\ row.status # "none"
           /\ \E b \in Bodies : ~Ignored(row, b) /\ new = Recorded(row, b)
  <2>1. PICK b \in Bodies : ~Ignored(row, b) /\ new = Recorded(row, b)
    BY <1>4
  <2>2. row \in Row /\ row.status \in {"pending", "claimed", "cancelled"}
    BY <1>4, <2>1 DEF RowInv, Ignored, Row, Status, InFlight, Terminal
  <2>3. row.score = NoScore
    BY <2>2 DEF RowInv, InFlight, Terminal
  <2>4. b \in Body /\ b.status \in Terminal
    BY DEF Bodies, Body
  <2>5. (b.status = "succeeded") <=> (b.score # NoScore)
    BY DEF Bodies
  <2>6. (b.status = "succeeded") <=> ~b.error
    BY DEF Bodies
  <2>7. new \in Row
    <3> DEFINE score == IF b.score # NoScore THEN b.score ELSE row.score
               error == row.error \/ b.error
               started == row.started \/ b.started
               logs == row.logs \/ b.logs
    <3>1. score \in Score \cup {NoScore}
      BY <2>2, <2>4 DEF Row, Body
    <3>2. error \in BOOLEAN /\ started \in BOOLEAN /\ logs \in BOOLEAN
      OBVIOUS
    <3>3. b.status \in Status
      BY <2>4 DEF Status
    <3>4. new = [row EXCEPT !.status = b.status, !.finished = TRUE, !.score = score,
                            !.error = error, !.started = started, !.logs = logs]
      BY <2>1 DEF Recorded
    <3> HIDE DEF score, error, started, logs
    <3> QED
      BY ZenonT(40), <2>2, <3>1, <3>2, <3>3, <3>4 DEF Row
  <2>8. /\ new.status = b.status /\ new.finished /\ new.score = b.score
        /\ new.error = (row.error \/ b.error)
    BY <2>1, <2>2, <2>3 DEF Recorded, Row
  <2>9. b.status = "succeeded" => row.status \in InFlight /\ ~row.error
    BY <2>1, <2>2 DEF Ignored, RowInv, InFlight, Terminal
  <2> QED
    BY <2>4, <2>5, <2>6, <2>7, <2>8, <2>9 DEF RowInv, InFlight, Terminal
<1>5. CASE row.status \in InFlight /\ new = CancelledRow(row)
  BY <1>5 DEF RowInv, CancelledRow, Row, Status, InFlight, Terminal
<1>6. CASE row.status \in Retryable /\ new = Retried(row)
  BY <1>6 DEF RowInv, Retried, Row, Status, InFlight, Terminal
<1>7. CASE row.status = "pending" /\ \E p \in Nat : new = [row EXCEPT !.priority = p]
  BY <1>7 DEF RowInv, Row, Status, InFlight, Terminal
<1>8. CASE row.status = "claimed" /\ new = Swept(row)
  BY <1>8 DEF RowInv, Swept, Row, Status, InFlight, Terminal
<1> QED
  BY <1>1, <1>2, <1>3, <1>4, <1>5, <1>6, <1>7, <1>8 DEF RowStep

\* A report leaves the priority alone and settles the row.
LEMMA RecordedRow ==
    ASSUME NEW row \in Row, NEW b \in Bodies
    PROVE  /\ Recorded(row, b).priority = row.priority
           /\ Recorded(row, b).status \in Terminal
  BY DEF Recorded, Row, Bodies, Body, Terminal

-----------------------------------------------------------------------------
(* The table. *)

\* Every step of every action does to each row what RowStep allows.
LEMMA RowSteps ==
    ASSUME TypeOK, [Next]_vars
    PROVE  \A r \in Run : RowStep(runs[r], runs'[r])
<1> SUFFICES ASSUME NEW r \in Run
             PROVE  RowStep(runs[r], runs'[r])
  OBVIOUS
<1>0. runs \in [Run -> Row] /\ clock \in Nat
  BY ClockAssumption DEF TypeOK, ClockAssumption
<1>1. ASSUME NEW s \in Submission, NEW U \in SUBSET Suite, NEW R \in SUBSET Run,
             Enqueue(s, U, R)
      PROVE  RowStep(runs[r], runs'[r])
  <2>1. clock' \in Nat
    BY <1>0, <1>1 DEF Enqueue
  <2>2. CASE r \in R
    <3>1. runs[r].status = "none" /\ runs'[r] = FreshRow(clock')
      BY <1>1, <2>2 DEF Enqueue
    <3> QED
      BY <2>1, <3>1 DEF RowStep
  <2>3. CASE r \notin R
    BY <1>1, <2>3 DEF Enqueue, RowStep
  <2> QED
    BY <2>2, <2>3
<1>2. ASSUME NEW s \in Submission, CancelSubmission(s)
      PROVE  RowStep(runs[r], runs'[r])
  BY <1>2 DEF CancelSubmission, In, RowStep
<1>3. ASSUME NEW s \in Submission, RetrySubmission(s)
      PROVE  RowStep(runs[r], runs'[r])
  BY <1>3 DEF RetrySubmission, In, RowStep
<1>4. ASSUME NEW s \in Submission, PrioritizeSubmission(s)
      PROVE  RowStep(runs[r], runs'[r])
  <2>1. clock' \in Nat
    BY <1>0, <1>4 DEF PrioritizeSubmission
  <2>2. CASE r \in RunsOf(s) \cap In({"pending"})
    <3>1. runs[r].status = "pending"
      BY <2>2 DEF In
    <3>2. runs'[r] = [runs[r] EXCEPT !.priority = clock']
      BY <1>4, <2>2 DEF PrioritizeSubmission
    <3> QED
      BY <2>1, <3>1, <3>2 DEF RowStep
  <2>3. CASE r \notin RunsOf(s) \cap In({"pending"})
    BY <1>4, <2>3 DEF PrioritizeSubmission, RowStep
  <2> QED
    BY <2>2, <2>3
<1>5. ASSUME NEW q \in Run, CancelRun(q)
      PROVE  RowStep(runs[r], runs'[r])
  BY <1>0, <1>5 DEF CancelRun, RowStep
<1>6. ASSUME NEW w \in Worker, NEW q \in Run, HandleClaim(w, q)
      PROVE  RowStep(runs[r], runs'[r])
  BY <1>0, <1>6 DEF HandleClaim, NextUp, RowStep
<1>7. ASSUME NEW w \in Worker, NEW q \in Run, NEW b \in Bodies, HandleResult(w, q, b)
      PROVE  RowStep(runs[r], runs'[r])
  <2>1. CASE runs' = runs
    BY <2>1 DEF RowStep
  <2>2. CASE /\ runs[q].status # "none" /\ ~Ignored(runs[q], b)
             /\ runs' = [runs EXCEPT ![q] = Recorded(@, b)]
    BY <1>0, <2>2 DEF RowStep
  <2> QED
    BY <1>7, <2>1, <2>2 DEF HandleResult, vars
<1>8. CASE Sweep
  BY <1>8 DEF Sweep, Orphans, In, RowStep
<1>9. CASE UNCHANGED runs
  BY <1>9 DEF RowStep
<1> QED
  BY <1>1, <1>2, <1>3, <1>4, <1>5, <1>6, <1>7, <1>8, <1>9
  DEF Next, Operator, WorkerCall, CreateSubmission, ReevaluateSubmission,
      UpsertWorker, GoStale, vars

\* The columns RowInv does not speak of keep their types.
LEMMA TablesTyped ==
    ASSUME TypeOK, [Next]_vars
    PROVE  /\ sealed' \in SUBSET Suite
           /\ clock' \in 0..MaxClock
           /\ lastSeen' \in [Worker -> {"never", "fresh", "stale"}]
           /\ handled' \in [Worker -> Nat]
           /\ DOMAIN runs' = Run /\ runs' = [r \in Run |-> runs'[r]]
<1> USE ClockAssumption DEF TypeOK, ClockAssumption
<1>1. ASSUME NEW s \in Submission, Operator(s)
      PROVE  /\ sealed' \in SUBSET Suite /\ clock' \in 0..MaxClock
             /\ lastSeen' = lastSeen /\ handled' = handled
             /\ runs' = [r \in Run |-> runs'[r]]
  BY <1>1 DEF Operator, CancelSubmission, RetrySubmission, PrioritizeSubmission,
              CreateSubmission, ReevaluateSubmission, Enqueue
<1>2. ASSUME NEW r \in Run, CancelRun(r)
      PROVE  /\ UNCHANGED <<sealed, clock, lastSeen, handled>>
             /\ runs' = [q \in Run |-> runs'[q]]
  BY <1>2 DEF CancelRun
<1>3. ASSUME NEW w \in Worker, WorkerCall(w)
      PROVE  /\ UNCHANGED <<sealed, clock>>
             /\ lastSeen' \in [Worker -> {"never", "fresh", "stale"}]
             /\ handled' \in [Worker -> Nat]
             /\ runs' = [q \in Run |-> runs'[q]]
  BY <1>3 DEF WorkerCall, UpsertWorker, GoStale, HandleClaim, HandleResult,
              BumpRunsHandled, vars
<1>4. CASE Sweep
  BY <1>4 DEF Sweep
<1>5. CASE UNCHANGED vars
  BY <1>5 DEF vars
<1> QED
  BY <1>1, <1>2, <1>3, <1>4, <1>5 DEF Next

QueueInv == TypeOK /\ RowsInv

\* The queue starts in its invariant.
LEMMA QueueInvInit == Init => QueueInv
<1> SUFFICES ASSUME Init PROVE QueueInv
  OBVIOUS
<1>1. NoRow \in Row /\ NoRow.status = "none"
  BY DEF NoRow, Row, Status
<1>2. TypeOK
  BY <1>1, ClockAssumption DEF Init, TypeOK, ClockAssumption
<1>3. RowsInv
  BY <1>1 DEF Init, RowsInv, RowInv, InFlight, Terminal
<1> QED
  BY <1>2, <1>3 DEF QueueInv

\* Every step of the queue keeps its invariant.
LEMMA QueueInvNext == QueueInv /\ [Next]_vars => QueueInv'
<1> SUFFICES ASSUME QueueInv, [Next]_vars PROVE QueueInv'
  OBVIOUS
<1>1. \A r \in Run : RowStep(runs[r], runs'[r])
  BY RowSteps DEF QueueInv
<1>2. \A r \in Run : RowInv(runs'[r])
  BY <1>1, RowInvKept DEF QueueInv, RowsInv
<1>3. \A r \in Run : runs'[r] \in Row
  BY <1>2 DEF RowInv
<1>4. TypeOK'
  BY <1>3, TablesTyped DEF QueueInv, TypeOK
<1> QED
  BY <1>2, <1>4 DEF QueueInv, RowsInv

\* The invariant holds in every reachable state.
LEMMA QueueInvariant == Spec => []QueueInv
  BY QueueInvInit, QueueInvNext, PTL DEF Spec

\* Type correctness of the tables of the serve process.
THEOREM TypesHold == Spec => []TypeOK
<1>1. QueueInv => TypeOK
  BY DEF QueueInv
<1> QED
  BY <1>1, QueueInvariant, PTL

\* Queued and claimed rows carry nothing of an earlier attempt, for any number
\* of workers, claims, sweeps, retries and reports in any order.
THEOREM SlateIsClean == Spec => []CleanSlate
<1>1. QueueInv => CleanSlate
  BY DEF QueueInv, RowsInv, RowInv, CleanSlate, In
<1> QED
  BY <1>1, QueueInvariant, PTL

\* A settled row tells one story.
THEOREM OutcomeIsOne == Spec => []OneOutcome
<1>1. QueueInv => OneOutcome
  BY DEF QueueInv, RowsInv, RowInv, OneOutcome, In
<1> QED
  BY <1>1, QueueInvariant, PTL

-----------------------------------------------------------------------------
(* What a settled row may still do. *)

\* A settled row stays, is put back by a retry, or, cancelled, takes a late report of a kill.
LEMMA SettledRowStep ==
    ASSUME NEW row, NEW new, RowInv(row), RowStep(row, new), row.status \in Terminal
    PROVE  \/ new = row
           \/ row.status \in Retryable /\ new = Retried(row)
           \/ /\ row.status = "cancelled" /\ new.status = "cancelled"
              /\ new.score = NoScore
<1>1. CASE \E b \in Bodies : ~Ignored(row, b) /\ new = Recorded(row, b)
  <2>1. PICK b \in Bodies : ~Ignored(row, b) /\ new = Recorded(row, b)
    BY <1>1
  <2>2. row.status = "cancelled" /\ b.status = "cancelled"
    BY <2>1 DEF Ignored, Terminal
  <2>3. row.score = NoScore /\ b.score = NoScore /\ row \in Row
    BY <2>2 DEF RowInv, Bodies, Terminal
  <2> QED
    BY <2>1, <2>2, <2>3 DEF Recorded, Row
<1>2. CASE ~\E b \in Bodies : ~Ignored(row, b) /\ new = Recorded(row, b)
  BY <1>2 DEF RowStep, Terminal, InFlight
<1> QED
  BY <1>1, <1>2

\* A settled run is final but for a retry: no sweep, claim, cancellation or late
\* report of any worker changes it, and cancelled is sticky.
THEOREM SettledRowsHold == Spec => SettledRowsStay
<1>1. QueueInv /\ [Next]_vars =>
        [\A r \in In(Terminal) :
            \/ runs'[r] = runs[r]
            \/ /\ runs[r].status \in Retryable
               /\ runs'[r] = Retried(runs[r])
            \/ /\ runs[r].status = "cancelled" /\ runs'[r].status = "cancelled"
               /\ runs'[r].score = NoScore]_vars
  <2> SUFFICES ASSUME QueueInv, [Next]_vars, NEW r \in In(Terminal)
               PROVE  \/ runs'[r] = runs[r]
                      \/ runs[r].status \in Retryable /\ runs'[r] = Retried(runs[r])
                      \/ /\ runs[r].status = "cancelled" /\ runs'[r].status = "cancelled"
                         /\ runs'[r].score = NoScore
    OBVIOUS
  <2>1. RowStep(runs[r], runs'[r])
    BY RowSteps DEF QueueInv, In
  <2>2. RowInv(runs[r]) /\ runs[r].status \in Terminal
    BY DEF QueueInv, RowsInv, In
  <2> QED
    BY <2>1, <2>2, SettledRowStep
<1> QED
  BY <1>1, QueueInvariant, PTL DEF Spec, SettledRowsStay

\* Every suite with a run is sealed.
THEOREM SealedHold == Spec => []SealedOnceUsed
<1>1. Init => SealedOnceUsed
  BY DEF Init, SealedOnceUsed, NoRow
<1>2. QueueInv /\ SealedOnceUsed /\ [Next]_vars => SealedOnceUsed'
  <2> SUFFICES ASSUME QueueInv, SealedOnceUsed, [Next]_vars
               PROVE  SealedOnceUsed'
    OBVIOUS
  <2>1. ASSUME NEW s \in Submission, NEW U \in SUBSET Suite, NEW R \in SUBSET Run,
               Enqueue(s, U, R)
        PROVE  SealedOnceUsed'
    BY <2>1 DEF Enqueue, SealedOnceUsed
  <2>2. ASSUME sealed' = sealed,
               \A r \in Run : runs[r].status = "none" => runs'[r] = runs[r]
        PROVE  SealedOnceUsed'
    BY <2>2 DEF SealedOnceUsed
  <2>3. CASE \/ \E s \in Submission : \/ CancelSubmission(s) \/ RetrySubmission(s)
                                       \/ PrioritizeSubmission(s)
             \/ Sweep
    <3>1. sealed' = sealed
      BY <2>3 DEF CancelSubmission, RetrySubmission, PrioritizeSubmission, Sweep
    <3>2. \A r \in Run : runs[r].status = "none" => runs'[r] = runs[r]
      BY <2>3 DEF CancelSubmission, RetrySubmission, PrioritizeSubmission, Sweep,
                  Orphans, In, InFlight, Retryable
    <3> QED
      BY <2>2, <3>1, <3>2
  <2>4. CASE \/ \E r \in Run : CancelRun(r)
             \/ \E w \in Worker, r \in Run : HandleClaim(w, r)
             \/ \E w \in Worker, r \in Run, b \in Bodies : HandleResult(w, r, b)
    <3>1. sealed' = sealed
      BY <2>4 DEF CancelRun, HandleClaim, HandleResult, vars
    <3>2. runs \in [Run -> Row]
      BY DEF QueueInv, TypeOK
    <3>3. \A r \in Run : runs[r].status = "none" => runs'[r] = runs[r]
      BY <2>4, <3>2 DEF CancelRun, HandleClaim, NextUp, HandleResult, InFlight, vars
    <3> QED
      BY <2>2, <3>1, <3>3
  <2>5. CASE UNCHANGED <<runs, sealed>>
    BY <2>5 DEF SealedOnceUsed
  <2> QED
    BY <2>1, <2>3, <2>4, <2>5
    DEF Next, Operator, WorkerCall, CreateSubmission, ReevaluateSubmission,
        UpsertWorker, GoStale, vars
<1> QED
  BY <1>1, <1>2, QueueInvariant, PTL DEF Spec

-----------------------------------------------------------------------------
(* The queue implements the ledger. *)

Board == [r \in Run |-> Entry(runs[r])]

\* What the ledger shows of a row, by its status.
LEMMA EntryOf ==
    ASSUME NEW row, RowInv(row)
    PROVE  /\ row.status = "none" => Entry(row) = Ledger!Absent
           /\ row.status \in InFlight => Entry(row) = Ledger!Pending
           /\ row.status \in Retryable => Entry(row) = Ledger!Dropped
           /\ row.status = "succeeded" => /\ Entry(row) = Ledger!Scored(row.score)
                                         /\ row.score \in Score
<1>1. row.status = "succeeded" => row.score \in Score
  BY DEF RowInv, Row, Terminal
<1> QED
  BY <1>1 DEF Entry, InFlight, Retryable, Ledger!Absent, Ledger!Pending,
              Ledger!Dropped, Ledger!Scored

\* The three batch moves as steps of the ledger.
LEMMA BatchSteps ==
    /\ (\E R \in SUBSET Run : Board' = [r \in Run |->
            IF r \in R /\ Board[r] = Ledger!Absent THEN Ledger!Pending ELSE Board[r]])
          => Ledger!Next
    /\ (\E R \in SUBSET Run : Board' = [r \in Run |->
            IF r \in R /\ Board[r] = Ledger!Pending THEN Ledger!Dropped ELSE Board[r]])
          => Ledger!Next
    /\ (\E R \in SUBSET Run : Board' = [r \in Run |->
            IF r \in R /\ Board[r] = Ledger!Dropped THEN Ledger!Pending ELSE Board[r]])
          => Ledger!Next
  BY DEF Ledger!Next, Ledger!Submit, Ledger!Drop, Ledger!PutBack, Ledger!Move, Board

\* Every step of the queue is a step of the ledger, or one it does not see.
LEMMA LedgerStep == QueueInv /\ [Next]_vars => [Ledger!Next]_Board
<1> SUFFICES ASSUME QueueInv, [Next]_vars
             PROVE  Ledger!Next \/ UNCHANGED Board
  OBVIOUS
<1>0. /\ runs \in [Run -> Row]
      /\ \A r \in Run : RowInv(runs[r]) /\ RowInv(runs'[r])
  BY QueueInvNext DEF QueueInv, TypeOK, RowsInv
<1>a. ASSUME \A r \in Run : Entry(runs'[r]) = Entry(runs[r])
      PROVE  UNCHANGED Board
  BY <1>a DEF Board
<1>b. ASSUME NEW S, S \subseteq Run,
             \A r \in Run : r \notin S => runs'[r] = runs[r],
             \A r \in S : runs[r].status = "none" /\ runs'[r].status = "pending"
      PROVE  Ledger!Next
  <2>1. \A r \in S : Entry(runs[r]) = Ledger!Absent /\ Entry(runs'[r]) = Ledger!Pending
    BY <1>0, <1>b, EntryOf DEF InFlight
  <2>2. Board' = [r \in Run |->
            IF r \in S /\ Board[r] = Ledger!Absent THEN Ledger!Pending ELSE Board[r]]
    BY <1>b, <2>1 DEF Board
  <2> QED
    BY <1>b, <2>2, BatchSteps
<1>c. ASSUME NEW S, S \subseteq Run,
             \A r \in Run : r \notin S => runs'[r] = runs[r],
             \A r \in S : runs[r].status \in InFlight /\ runs'[r].status \in Retryable
      PROVE  Ledger!Next
  <2>1. \A r \in S : Entry(runs[r]) = Ledger!Pending /\ Entry(runs'[r]) = Ledger!Dropped
    BY <1>0, <1>c, EntryOf
  <2>2. Board' = [r \in Run |->
            IF r \in S /\ Board[r] = Ledger!Pending THEN Ledger!Dropped ELSE Board[r]]
    BY <1>c, <2>1 DEF Board
  <2> QED
    BY <1>c, <2>2, BatchSteps
<1>d. ASSUME NEW S, S \subseteq Run,
             \A r \in Run : r \notin S => runs'[r] = runs[r],
             \A r \in S : runs[r].status \in Retryable /\ runs'[r].status = "pending"
      PROVE  Ledger!Next
  <2>1. \A r \in S : Entry(runs[r]) = Ledger!Dropped /\ Entry(runs'[r]) = Ledger!Pending
    BY <1>0, <1>d, EntryOf DEF InFlight
  <2>2. Board' = [r \in Run |->
            IF r \in S /\ Board[r] = Ledger!Dropped THEN Ledger!Pending ELSE Board[r]]
    BY <1>d, <2>1 DEF Board
  <2> QED
    BY <1>d, <2>2, BatchSteps
<1>e. ASSUME NEW S, S \subseteq Run,
             \A r \in Run : r \notin S => runs'[r] = runs[r],
             \A r \in S : runs[r].status \in InFlight /\ runs'[r].status \in InFlight
      PROVE  UNCHANGED Board
  <2>1. \A r \in S : Entry(runs[r]) = Ledger!Pending /\ Entry(runs'[r]) = Ledger!Pending
    BY <1>0, <1>e, EntryOf
  <2> QED
    BY <1>a, <1>e, <2>1
<1>1. ASSUME NEW s \in Submission, NEW U \in SUBSET Suite, NEW R \in SUBSET Run,
             Enqueue(s, U, R)
      PROVE  Ledger!Next
  <2>1. \A r \in R : runs[r].status = "none" /\ runs'[r].status = "pending"
    BY <1>1 DEF Enqueue, FreshRow, NoRow
  <2>2. \A r \in Run : r \notin R => runs'[r] = runs[r]
    BY <1>1 DEF Enqueue
  <2> QED
    BY <1>b, <2>1, <2>2
<1>2. ASSUME NEW s \in Submission, CancelSubmission(s)
      PROVE  Ledger!Next
  <2> DEFINE S == RunsOf(s) \cap In(InFlight)
  <2>1. \A r \in S : runs[r].status \in InFlight /\ runs'[r].status = "cancelled"
    BY <1>0, <1>2 DEF CancelSubmission, In, CancelledRow, Row
  <2>2. \A r \in Run : r \notin S => runs'[r] = runs[r]
    BY <1>2 DEF CancelSubmission
  <2>3. S \subseteq Run
    BY DEF In
  <2> HIDE DEF S
  <2> QED
    BY <1>c, <2>1, <2>2, <2>3 DEF Retryable
<1>3. ASSUME NEW q \in Run, CancelRun(q)
      PROVE  Ledger!Next
  <2>1. runs[q].status \in InFlight /\ runs'[q].status = "cancelled"
    BY <1>0, <1>3 DEF CancelRun, CancelledRow, Row
  <2>2. \A r \in Run : r \notin {q} => runs'[r] = runs[r]
    BY <1>0, <1>3 DEF CancelRun
  <2> DEFINE S == {q}
  <2>3. /\ S \subseteq Run
        /\ \A r \in S : runs[r].status \in InFlight /\ runs'[r].status \in Retryable
        /\ \A r \in Run : r \notin S => runs'[r] = runs[r]
    BY <1>3, <2>1, <2>2 DEF Retryable
  <2> HIDE DEF S
  <2> QED
    BY <1>c, <2>3
<1>4. ASSUME NEW s \in Submission, RetrySubmission(s)
      PROVE  Ledger!Next
  <2> DEFINE S == RunsOf(s) \cap In(Retryable)
  <2>1. \A r \in S : runs[r].status \in Retryable /\ runs'[r].status = "pending"
    BY <1>0, <1>4 DEF RetrySubmission, In, Retried, Row
  <2>2. \A r \in Run : r \notin S => runs'[r] = runs[r]
    BY <1>4 DEF RetrySubmission
  <2>3. S \subseteq Run
    BY DEF In
  <2> HIDE DEF S
  <2> QED
    BY <1>d, <2>1, <2>2, <2>3
<1>5. ASSUME NEW s \in Submission, PrioritizeSubmission(s)
      PROVE  UNCHANGED Board
  <2> DEFINE S == RunsOf(s) \cap In({"pending"})
  <2>1. \A r \in S : runs[r].status = "pending" /\ runs'[r].status = "pending"
    BY <1>0, <1>5 DEF PrioritizeSubmission, In, Row
  <2>2. \A r \in Run : r \notin S => runs'[r] = runs[r]
    BY <1>5 DEF PrioritizeSubmission
  <2>3. S \subseteq Run
    BY DEF In
  <2> HIDE DEF S
  <2> QED
    BY <1>e, <2>1, <2>2, <2>3 DEF InFlight
<1>6. CASE Sweep
  <2>1. \A r \in Orphans : runs[r].status = "claimed" /\ runs'[r].status = "pending"
    BY <1>0, <1>6 DEF Sweep, Orphans, In, Swept, Row
  <2>2. \A r \in Run : r \notin Orphans => runs'[r] = runs[r]
    BY <1>6 DEF Sweep
  <2>3. Orphans \subseteq Run
    BY DEF Orphans, In
  <2> QED
    BY <1>e, <2>1, <2>2, <2>3 DEF InFlight
<1>7. ASSUME NEW w \in Worker, NEW q \in Run, HandleClaim(w, q)
      PROVE  UNCHANGED Board
  <2>1. runs[q].status = "pending" /\ runs'[q].status = "claimed"
    BY <1>0, <1>7 DEF HandleClaim, NextUp, ClaimedBy, Row
  <2>2. \A r \in Run : r \notin {q} => runs'[r] = runs[r]
    BY <1>0, <1>7 DEF HandleClaim
  <2> QED
    BY <1>e, <2>1, <2>2 DEF InFlight
<1>8. ASSUME NEW w \in Worker, NEW q \in Run, NEW b \in Bodies, HandleResult(w, q, b)
      PROVE  Ledger!Next \/ UNCHANGED Board
  <2>1. CASE runs' = runs
    BY <1>a, <2>1
  <2>2. CASE /\ runs[q].status # "none" /\ ~Ignored(runs[q], b)
             /\ runs' = [runs EXCEPT ![q] = Recorded(@, b)]
    <3>1. /\ runs'[q].status = b.status /\ b.status \in Terminal
          /\ \A r \in Run : r \notin {q} => runs'[r] = runs[r]
      BY <1>0, <2>2 DEF Recorded, Row, Bodies, Body
    <3>2. \/ runs[q].status \in InFlight
          \/ runs[q].status = "cancelled" /\ b.status = "cancelled"
      BY <1>0, <2>2 DEF Ignored, Row, Status, Terminal
    <3>3. CASE runs[q].status = "cancelled" /\ b.status = "cancelled"
      <4>1. Entry(runs[q]) = Ledger!Dropped /\ Entry(runs'[q]) = Ledger!Dropped
        BY <1>0, <3>1, <3>3, EntryOf DEF Retryable
      <4> QED
        BY <1>a, <3>1, <4>1
    <3>4. CASE runs[q].status \in InFlight /\ b.status # "succeeded"
      <4>1. runs'[q].status \in Retryable
        BY <3>1, <3>4 DEF Terminal, Retryable
      <4> DEFINE S == {q}
      <4>2. /\ S \subseteq Run
            /\ \A r \in S : runs[r].status \in InFlight /\ runs'[r].status \in Retryable
            /\ \A r \in Run : r \notin S => runs'[r] = runs[r]
        BY <3>1, <3>4, <4>1
      <4> HIDE DEF S
      <4> QED
        BY <1>c, <4>2
    <3>5. CASE runs[q].status \in InFlight /\ b.status = "succeeded"
      <4> DEFINE v == runs'[q].score
      <4>1. /\ Entry(runs[q]) = Ledger!Pending /\ v \in Score
            /\ Entry(runs'[q]) = Ledger!Scored(v)
        BY <1>0, <3>1, <3>5, EntryOf
      <4>2. Board' = [r \in Run |-> IF r \in {q} /\ Board[r] = Ledger!Pending
                                    THEN Ledger!Scored(v) ELSE Board[r]]
        BY <3>1, <4>1 DEF Board
      <4>3. Ledger!Settle(q, v)
        BY <4>1, <4>2 DEF Ledger!Settle, Ledger!Move, Board
      <4> QED
        BY <4>1, <4>3 DEF Ledger!Next
    <3> QED
      BY <3>2, <3>3, <3>4, <3>5
  <2> QED
    BY <1>8, <2>1, <2>2 DEF HandleResult, vars
<1>9. CASE UNCHANGED runs
  BY <1>9 DEF Board
<1> QED
  BY <1>1, <1>2, <1>3, <1>4, <1>5, <1>6, <1>7, <1>8, <1>9
  DEF Next, Operator, WorkerCall, CreateSubmission, ReevaluateSubmission,
      UpsertWorker, GoStale, vars

\* The queue implements RunLedger: a score is written once, into a pending run,
\* and never taken away, and no dropped run comes back but by a retry.
THEOREM LedgerImplemented == Spec => LedgerSpec
<1>1. Init => Ledger!Init
  <2> SUFFICES ASSUME Init
               PROVE  [r \in Run |-> Entry(runs[r])] = [r \in Run |-> Ledger!Absent]
    BY DEF Ledger!Init
  <2>1. \A r \in Run : RowInv(runs[r]) /\ runs[r].status = "none"
    BY QueueInvInit DEF QueueInv, RowsInv, Init, NoRow
  <2>2. \A r \in Run : Entry(runs[r]) = Ledger!Absent
    BY <2>1, EntryOf
  <2> QED
    BY <2>2
<1>2. QueueInv /\ [Next]_vars => [Ledger!Next]_Board
  BY LedgerStep
<1>3. Board = [r \in Run |-> Entry(runs[r])]
  BY DEF Board
<1> QED
  BY <1>1, <1>2, <1>3, QueueInvariant, PTL DEF Spec, LedgerSpec, Ledger!Spec, Board

-----------------------------------------------------------------------------
(* The queue and its history.                                              *)

\* The bumped rows are those of the highest priority, no priority is ahead of
\* the clock (or the next prioritization would not be above it), and a row id
\* not in use has the column's default (or creating it would lower a priority).
FrontInv ==
    /\ front \subseteq Run
    /\ \A r \in Run : /\ runs[r].priority <= clock
                      /\ runs[r].status = "none" => runs[r].priority = 0
    /\ \A f \in front : runs[f].priority > 0
    /\ \A f \in front, r \in Run :
          /\ runs[r].priority <= runs[f].priority
          /\ runs[r].priority = runs[f].priority => r \in front

HistoryInv == QueueInv /\ FrontInv

-----------------------------------------------------------------------------
\* A row step keeps the priority, or sets that of a waiting row.
LEMMA PriorityOfRow ==
    ASSUME NEW row, NEW new, RowInv(row), RowStep(row, new), row.status # "none"
    PROVE  /\ new.status # "none"
           /\ row.status # "pending" => new.priority = row.priority
<1>0. row \in Row
  BY DEF RowInv
<1>1. ASSUME NEW b \in Bodies, new = Recorded(row, b)
      PROVE  new.status # "none" /\ new.priority = row.priority
  BY <1>0, <1>1, RecordedRow DEF Terminal
<1> QED
  BY <1>0, <1>1 DEF RowStep, ClaimedBy, CancelledRow, Retried, Swept, Row

\* What one step does to the priorities: nothing, or one fresh stamp for a set
\* of rows.
LEMMA PrioritySteps ==
    ASSUME HistoryInv, [Next]_vars
    PROVE  \/ /\ \A r \in Run : runs'[r].priority = runs[r].priority
              /\ clock' \in {clock, clock + 1}
           \/ /\ clock' = clock + 1
              /\ \A r \in Run : runs'[r].priority \in {runs[r].priority, clock'}
<1> DEFINE Kept == \A r \in Run : runs'[r].priority = runs[r].priority
<1>0. runs \in [Run -> Row]
  BY DEF HistoryInv, QueueInv, TypeOK
<1>1. ASSUME NEW s \in Submission, NEW U \in SUBSET Suite, NEW R \in SUBSET Run,
             Enqueue(s, U, R)
      PROVE  Kept /\ clock' = clock + 1
  <2>1. \A r \in R : runs[r].priority = 0 /\ runs'[r].priority = 0
    BY <1>1 DEF Enqueue, FreshRow, NoRow, HistoryInv, FrontInv
  <2> QED
    BY <1>1, <2>1 DEF Enqueue
<1>2. ASSUME NEW s \in Submission, CancelSubmission(s)
      PROVE  Kept /\ clock' = clock
  BY <1>0, <1>2 DEF CancelSubmission, CancelledRow, Row
<1>3. ASSUME NEW s \in Submission, RetrySubmission(s)
      PROVE  Kept /\ clock' = clock
  BY ZenonT(40), <1>0, <1>3 DEF RetrySubmission, Retried, Row
<1>4. ASSUME NEW s \in Submission, PrioritizeSubmission(s)
      PROVE  /\ clock' = clock + 1
             /\ \A r \in Run : runs'[r].priority \in {runs[r].priority, clock'}
  BY <1>0, <1>4 DEF PrioritizeSubmission, Row
<1>5. ASSUME NEW q \in Run, CancelRun(q)
      PROVE  Kept /\ clock' = clock
  BY <1>0, <1>5 DEF CancelRun, CancelledRow, Row
<1>6. ASSUME NEW w \in Worker, NEW q \in Run, HandleClaim(w, q)
      PROVE  Kept /\ clock' = clock
  BY <1>0, <1>6 DEF HandleClaim, ClaimedBy, Row
<1>7. ASSUME NEW w \in Worker, NEW q \in Run, NEW b \in Bodies, HandleResult(w, q, b)
      PROVE  Kept /\ clock' = clock
  <2>1. runs' = runs \/ runs' = [runs EXCEPT ![q] = Recorded(runs[q], b)]
    BY <1>7 DEF HandleResult, vars
  <2>2. Recorded(runs[q], b).priority = runs[q].priority
    BY <1>0, RecordedRow
  <2>3. clock' = clock
    BY <1>7 DEF HandleResult, vars
  <2> QED
    BY <1>0, <2>1, <2>2, <2>3
<1>8. CASE Sweep
  BY ZenonT(40), <1>0, <1>8 DEF Sweep, Swept, Row
<1>9. CASE UNCHANGED <<runs, clock>>
  BY <1>9
<1> QED
  BY <1>1, <1>2, <1>3, <1>4, <1>5, <1>6, <1>7, <1>8, <1>9
  DEF Next, Operator, WorkerCall, CreateSubmission, ReevaluateSubmission,
      UpsertWorker, GoStale, vars

\* Only the claim handler marks a waiting row claimed, and it takes the row its
\* query puts first.
LEMMA ClaimTakesNextUp ==
    ASSUME QueueInv, [Next]_vars, NEW r \in Run,
           runs[r].status = "pending", runs'[r].status = "claimed"
    PROVE  NextUp(r)
<1>0. runs \in [Run -> Row]
  BY DEF QueueInv, TypeOK
<1>1. ASSUME NEW s \in Submission, Operator(s)
      PROVE  FALSE
  <2>1. CASE CancelSubmission(s)
    BY <1>0, <2>1 DEF CancelSubmission, CancelledRow, Row
  <2>2. CASE RetrySubmission(s)
    BY <1>0, <2>2 DEF RetrySubmission, In, Retryable
  <2>3. CASE PrioritizeSubmission(s)
    BY <1>0, <2>3 DEF PrioritizeSubmission, Row
  <2>4. ASSUME NEW U \in SUBSET Suite, NEW R \in SUBSET Run, Enqueue(s, U, R)
        PROVE  FALSE
    BY <2>4 DEF Enqueue
  <2> QED
    BY <1>1, <2>1, <2>2, <2>3, <2>4 DEF Operator, CreateSubmission, ReevaluateSubmission
<1>2. ASSUME NEW q \in Run, CancelRun(q)
      PROVE  FALSE
  BY <1>0, <1>2 DEF CancelRun, CancelledRow, Row
<1>3. ASSUME NEW w \in Worker, NEW q \in Run, HandleClaim(w, q)
      PROVE  NextUp(r)
  BY <1>0, <1>3 DEF HandleClaim
<1>4. ASSUME NEW w \in Worker, NEW q \in Run, NEW b \in Bodies, HandleResult(w, q, b)
      PROVE  FALSE
  <2>1. runs' = runs \/ runs' = [runs EXCEPT ![q] = Recorded(runs[q], b)]
    BY <1>4 DEF HandleResult, vars
  <2>2. Recorded(runs[q], b).status # "claimed"
    BY <1>0, RecordedRow DEF Terminal
  <2> QED
    BY <1>0, <2>1, <2>2
<1>5. ASSUME Sweep
      PROVE  FALSE
  BY <1>0, <1>5 DEF Sweep, Swept, Row
<1>6. CASE UNCHANGED runs
  BY <1>6
<1> QED
  BY <1>1, <1>2, <1>3, <1>4, <1>5, <1>6
  DEF Next, WorkerCall, UpsertWorker, GoStale, vars

-----------------------------------------------------------------------------
(* The latest prioritization. *)

\* The history starts in its invariant.
LEMMA HistoryInit == HInit => HistoryInv
  BY QueueInvInit DEF HInit, HistoryInv, FrontInv, Init, NoRow

\* Every step recorded keeps it.
LEMMA HistoryNext == HistoryInv /\ [HNext]_hvars => HistoryInv'
<1> SUFFICES ASSUME HistoryInv, [HNext]_hvars PROVE HistoryInv'
  OBVIOUS
<1>1. [Next]_vars /\ front' = IF Bumped = {} THEN front ELSE Bumped
  <2>1. CASE HNext
    BY <2>1 DEF HNext
  <2>2. CASE UNCHANGED hvars
    <3>1. Bumped = {}
      <4>1. \A r \in Run : runs[r].priority \in Nat
        BY DEF HistoryInv, QueueInv, TypeOK, Row
      <4> QED
        BY <2>2, <4>1 DEF Bumped, hvars, vars
    <3> QED
      BY <2>2, <3>1 DEF hvars
  <2> QED
    BY <2>1, <2>2
<1>2. QueueInv'
  BY <1>1, QueueInvNext DEF HistoryInv
<1>3. /\ \A r \in Run : runs[r].priority \in Nat /\ runs'[r].priority \in Nat
      /\ clock \in Nat /\ clock' \in Nat
  BY <1>2, ClockAssumption DEF HistoryInv, QueueInv, TypeOK, Row, ClockAssumption
<1>4. \A r \in Run : RowInv(runs[r]) /\ RowStep(runs[r], runs'[r])
  BY <1>1, RowSteps DEF HistoryInv, QueueInv, RowsInv
<1>5. \A r \in Run : runs'[r].status = "none" => runs'[r].priority = 0
  <2> SUFFICES ASSUME NEW r \in Run, runs'[r].status = "none"
               PROVE  runs'[r].priority = 0
    OBVIOUS
  <2>1. runs[r].status = "none"
    BY <1>4, PriorityOfRow
  <2>2. runs[r].priority = 0
    BY <2>1 DEF HistoryInv, FrontInv
  <2>3. runs'[r] = runs[r]
    BY <1>4, <2>1 DEF RowStep, FreshRow, NoRow, InFlight, Retryable
  <2> QED
    BY <2>2, <2>3
<1>6. CASE /\ \A r \in Run : runs'[r].priority = runs[r].priority
           /\ clock' \in {clock, clock + 1}
  <2>1. front' = front
    BY <1>1, <1>3, <1>6 DEF Bumped
  <2> QED
    BY <1>2, <1>3, <1>5, <1>6, <2>1 DEF HistoryInv, FrontInv
<1>7. CASE /\ clock' = clock + 1
           /\ \A r \in Run : runs'[r].priority \in {runs[r].priority, clock'}
  <2>1. \A r \in Run : /\ runs[r].priority <= clock
                       /\ r \in Bumped <=> runs'[r].priority = clock'
                       /\ r \notin Bumped => runs'[r].priority = runs[r].priority
    BY <1>3, <1>7 DEF Bumped, HistoryInv, FrontInv
  <2>2. CASE Bumped = {}
    <3>1. front' = front /\ \A r \in Run : runs'[r].priority = runs[r].priority
      BY <1>1, <2>1, <2>2
    <3> QED
      BY <1>2, <1>3, <1>5, <1>7, <3>1 DEF HistoryInv, FrontInv
  <2>3. CASE Bumped # {}
    <3>1. front' = Bumped /\ Bumped \subseteq Run
      BY <1>1, <2>3 DEF Bumped
    <3> HIDE DEF Bumped
    <3>2. FrontInv'
      BY <1>3, <1>5, <1>7, <2>1, <3>1 DEF FrontInv
    <3> QED
      BY <1>2, <3>2 DEF HistoryInv
  <2> QED
    BY <2>2, <2>3
<1> QED
  BY <1>1, <1>6, <1>7, PrioritySteps

\* The rows of the latest prioritization are those of the highest priority.
THEOREM FrontInvariant == HSpec => []HistoryInv
  BY HistoryInit, HistoryNext, PTL DEF HSpec

\* "The most recently prioritized submission gets claimed next", however many
\* runs are created, retried, swept, cancelled or reported in between and
\* whichever worker asks.
THEOREM PrioritizedServedFirst == HSpec => LatestPrioritizedFirst
<1>1. HistoryInv /\ [HNext]_hvars =>
        [\A r \in Run :
            Pending(r) /\ runs'[r].status = "claimed" /\ (\E q \in front : Pending(q))
               => r \in front]_hvars
  <2> SUFFICES ASSUME HistoryInv, [HNext]_hvars, NEW r \in Run,
                      Pending(r), runs'[r].status = "claimed",
                      NEW q \in front, Pending(q)
               PROVE  r \in front
    OBVIOUS
  <2>1. [Next]_vars
    BY DEF HNext, hvars
  <2>2. NextUp(r)
    BY <2>1, ClaimTakesNextUp DEF HistoryInv, Pending
  <2>3. q \in Run /\ runs[q].priority \in Nat /\ runs[r].priority \in Nat
    BY DEF HistoryInv, FrontInv, QueueInv, TypeOK, Row
  <2>4. runs[r].priority <= runs[q].priority
    BY <2>3 DEF HistoryInv, FrontInv
  <2>5. runs[q].priority <= runs[r].priority
    BY <2>2, <2>3 DEF NextUp, In, Pending
  <2> QED
    BY <2>3, <2>4, <2>5 DEF HistoryInv, FrontInv
<1> QED
  BY <1>1, FrontInvariant, PTL DEF HSpec, LatestPrioritizedFirst

-----------------------------------------------------------------------------
(* The counters. *)

Succeeded == In({"succeeded"})

\* Counting means something only over a finite set: there are as many successes
\* as steps that made one.
CreditInv ==
    /\ credit \in [Run -> SUBSET Worker]
    /\ IsFiniteSet(Succeeded)
    /\ HandledOncePerRun

\* What one step does to the successes and to the counters: nothing, or one row
\* succeeds and at most one counter rises.
LEMMA SuccessSteps ==
    ASSUME QueueInv, [Next]_vars
    PROVE  \/ handled' = handled /\ Succeeded' = Succeeded
           \/ \E q \in Run, w \in Worker :
                 /\ q \notin Succeeded /\ Succeeded' = Succeeded \cup {q}
                 /\ handled' = handled \/ handled' = [handled EXCEPT ![w] = @ + 1]
<1> DEFINE Kept == handled' = handled /\ Succeeded' = Succeeded
<1>0. runs \in [Run -> Row]
  BY DEF QueueInv, TypeOK
<1> USE DEF Succeeded, In
<1>1. ASSUME NEW s \in Submission, Operator(s)
      PROVE  Kept
  <2>1. CASE CancelSubmission(s)
    BY <1>0, <2>1 DEF CancelSubmission, CancelledRow, InFlight, Row
  <2>2. CASE RetrySubmission(s)
    BY <1>0, <2>2 DEF RetrySubmission, Retried, Retryable, Row
  <2>3. CASE PrioritizeSubmission(s)
    BY <1>0, <2>3 DEF PrioritizeSubmission, Row
  <2>4. ASSUME NEW U \in SUBSET Suite, NEW R \in SUBSET Run, Enqueue(s, U, R)
        PROVE  Kept
    BY <1>0, <2>4 DEF Enqueue, FreshRow, NoRow
  <2> QED
    BY <1>1, <2>1, <2>2, <2>3, <2>4 DEF Operator, CreateSubmission, ReevaluateSubmission
<1>2. ASSUME NEW q \in Run, CancelRun(q)
      PROVE  Kept
  BY <1>0, <1>2 DEF CancelRun, CancelledRow, InFlight, Row
<1>3. ASSUME NEW w \in Worker, NEW q \in Run, HandleClaim(w, q)
      PROVE  Kept
  BY <1>0, <1>3 DEF HandleClaim, NextUp, ClaimedBy, Row
<1>4. ASSUME NEW w \in Worker, NEW q \in Run, NEW b \in Bodies, HandleResult(w, q, b)
      PROVE  \/ Kept
             \/ /\ q \notin Succeeded /\ Succeeded' = Succeeded \cup {q}
                /\ handled' = handled \/ handled' = [handled EXCEPT ![w] = @ + 1]
  <2>1. CASE UNCHANGED vars
    BY <2>1 DEF vars
  <2>2. CASE ~Ignored(runs[q], b)
    <3>1. /\ runs' = [runs EXCEPT ![q] = Recorded(runs[q], b)]
          /\ handled' # handled => /\ b.status = "succeeded"
                                   /\ handled' = [handled EXCEPT ![w] = @ + 1]
      BY <1>4, <2>2 DEF HandleResult, BumpRunsHandled
    <3>2. Recorded(runs[q], b).status = b.status
      BY <1>0 DEF Recorded, Row
    <3>3. q \notin Succeeded
      BY <2>2 DEF Ignored
    <3> QED
      BY <1>0, <3>1, <3>2, <3>3
  <2> QED
    BY <1>4, <2>1, <2>2 DEF HandleResult
<1>5. CASE Sweep
  BY <1>0, <1>5 DEF Sweep, Orphans, Swept, Row
<1>6. CASE UNCHANGED <<runs, handled>>
  BY <1>6
<1> QED
  BY <1>1, <1>2, <1>3, <1>4, <1>5, <1>6
  DEF Next, WorkerCall, UpsertWorker, GoStale, vars

\* Every step keeps the counters equal to the successes credited to each worker.
LEMMA CreditNext == QueueInv /\ CreditInv /\ [HNext]_hvars => CreditInv'
<1> SUFFICES ASSUME QueueInv, CreditInv, [HNext]_hvars PROVE CreditInv'
  OBVIOUS
<1> DEFINE Of(w) == {r \in Succeeded : w \in credit[r]}
<1>0. /\ handled \in [Worker -> Nat] /\ Succeeded \subseteq Run
      /\ credit \in [Run -> SUBSET Worker] /\ IsFiniteSet(Succeeded)
      /\ \A w \in Worker : handled[w] = Cardinality(Of(w))
      /\ \A r \in Run : \A v, w \in credit[r] : v = w
  BY DEF QueueInv, TypeOK, CreditInv, HandledOncePerRun, Succeeded, In
<1>1. [Next]_vars
  BY DEF HNext, hvars
<1>2. \/ UNCHANGED <<runs, handled, credit>>
      \/ credit' = [r \in Run |-> IF r \notin Succeeded /\ r \in Succeeded'
                                  THEN Raised ELSE credit[r]]
  BY DEF HNext, hvars, vars, Succeeds, Succeeded, In
<1>3. SUFFICES /\ credit' \in [Run -> SUBSET Worker] /\ IsFiniteSet(Succeeded')
               /\ \A w \in Worker : handled'[w] = Cardinality(Of(w)')
               /\ \A r \in Run : \A v, w \in credit'[r] : v = w
  BY DEF CreditInv, HandledOncePerRun, Succeeded
<1>4. CASE handled' = handled /\ Succeeded' = Succeeded
  <2>1. credit' = credit
    BY <1>0, <1>2, <1>4
  <2>2. \A w : Of(w)' = Of(w)
    BY <1>4, <2>1
  <2> QED
    BY <1>0, <1>4, <2>1, <2>2
<1>5. ASSUME NEW q \in Run, NEW w \in Worker,
             q \notin Succeeded, Succeeded' = Succeeded \cup {q},
             handled' = handled \/ handled' = [handled EXCEPT ![w] = @ + 1]
      PROVE  /\ credit' \in [Run -> SUBSET Worker] /\ IsFiniteSet(Succeeded')
             /\ \A v \in Worker : handled'[v] = Cardinality(Of(v)')
             /\ \A r \in Run : \A u, v \in credit'[r] : u = v
  <2>1. credit' = [r \in Run |-> IF r = q THEN Raised ELSE credit[r]]
    <3>1. ~UNCHANGED runs
      BY <1>5 DEF Succeeded, In
    <3> QED
      BY <1>0, <1>2, <1>5, <3>1
  <2>2. \/ Raised = {} /\ handled' = handled
        \/ Raised = {w} /\ handled'[w] = handled[w] + 1
    <3>1. CASE handled' = handled
      BY <3>1 DEF Raised
    <3>2. CASE handled' = [handled EXCEPT ![w] = @ + 1]
      <4>1. /\ handled'[w] = handled[w] + 1 /\ handled[w] \in Nat
            /\ \A v \in Worker : v # w => handled'[v] = handled[v]
        BY <1>0, <3>2
      <4>2. handled'[w] # handled[w]
        BY <4>1
      <4> QED
        BY <4>1, <4>2 DEF Raised
    <3> QED
      BY <1>5, <3>1, <3>2
  <2>3. IsFiniteSet(Succeeded')
    BY <1>0, <1>5, FS_AddElement
  <2>4. ASSUME NEW v \in Worker
        PROVE  handled'[v] = Cardinality(Of(v)')
    <3>1. IsFiniteSet(Of(v)) /\ q \notin Of(v)
      BY <1>0, <1>5, FS_Subset
    <3>2. CASE v \in Raised
      <4>1. Of(v)' = Of(v) \cup {q}
        BY <1>0, <1>5, <2>1, <3>2
      <4>2. Cardinality(Of(v)') = Cardinality(Of(v)) + 1
        BY <3>1, <4>1, FS_AddElement
      <4>3. handled'[v] = handled[v] + 1
        BY <2>2, <3>2
      <4> QED
        BY <1>0, <4>2, <4>3
    <3>3. CASE v \notin Raised
      <4>1. Of(v)' = Of(v)
        BY <1>0, <1>5, <2>1, <3>3
      <4>2. handled'[v] = handled[v]
        BY <3>3 DEF Raised
      <4> QED
        BY <1>0, <4>1, <4>2
    <3> QED
      BY <3>2, <3>3
  <2>5. Raised \subseteq Worker /\ \A u, v \in Raised : u = v
    BY <2>2
  <2> QED
    BY <1>0, <2>1, <2>3, <2>4, <2>5
<1> QED
  BY <1>1, <1>4, <1>5, SuccessSteps

\* However reports repeat and race, a worker's counter is the number of succeeded
\* runs credited to it, and no run is credited twice.
THEOREM CountedOnce == HSpec => []HandledOncePerRun
<1>1. HInit => CreditInv
  <2> SUFFICES ASSUME HInit PROVE CreditInv
    OBVIOUS
  <2>1. Succeeded = {}
    BY DEF HInit, Init, Succeeded, In, NoRow
  <2>2. \A w \in Worker : {r \in Succeeded : w \in credit[r]} = {} /\ handled[w] = 0
    BY <2>1 DEF HInit, Init
  <2> QED
    BY <2>1, <2>2, FS_EmptySet DEF HInit, CreditInv, HandledOncePerRun, Succeeded
<1>2. HistoryInv /\ CreditInv /\ [HNext]_hvars => CreditInv'
  BY CreditNext DEF HistoryInv
<1>3. CreditInv => HandledOncePerRun
  BY DEF CreditInv
<1> QED
  BY <1>1, <1>2, <1>3, FrontInvariant, PTL DEF HSpec

===============================================================================
