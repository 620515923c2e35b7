# A verification project for ctf-koth-evals-template

TLA+ models of the evaluation platform in this repository, model-checked with TLC,
with theorems checked by TLAPS. Paths below are relative to the repository.

## 1. The system and its parts

One binary, three modes. `serve` owns the database and answers two HTTP APIs: `/api` for
operators and the browser, `/internal` for workers. `worker` processes poll `/internal`, execute
runs as subprocesses and post results. `register-challenge` and `seed-demo` write to the database
directly.

| Component | State | Operations | Interacts with | Modules |
| --- | --- | --- | --- | --- |
| Run queue (`internal/server/public_api.go`, `internal_api.go`, `ent/schema/run.go`) | `runs` rows: status, priority, stamps, worker, score, error, log tails; `suites.sealed` | create, re-evaluate, claim, result, cancel (submission, run), retry, prioritize | every other part; `writeMu` serialises most writers, transactions the rest | `RunQueue`, `RunLedger`, `Handlers` |
| Data layer (`ent/`, generated; `internal/db`) | the five tables | builders with defaults and checks, statements, constraints, eager loading, transactions | called by every handler and by the CLI | `Ent`, `Changes`, `Handlers` |
| Worker registry (`heartbeat.go`) | `workers` rows: last_seen, runs_handled; throttle cache | upsert on every internal call, bump on success | read by the sweeper and the queue status | `Heartbeat`, `RunQueue` |
| Sweeper (`sweeper.go`) | none | every `SweepInterval`: claimed rows of workers older than `WorkerTimeout` go back to pending | writes `runs`, reads `workers` | `RunQueue`, `Heartbeat`, `Handlers` |
| Worker process (`internal/worker`) | slots, one `execute` goroutine and one watchdog per attempt, work directories | poll, claim, prepare, start, watch, report | the server, through the client | `Evals`, `Execute`, `JobLife` |
| Worker client (`internal/workerclient`) | HTTP connection | claim, fetch, status, report; 30 s timeout, no retry | between the two | `Evals`, `Execute` |
| Bundle cache (`internal/bundle`, `ensureBundle`) | directories named by content hash | hash, extract by rename | shared by the slots of a worker, or by workers on one volume | `BundleCache` |
| Event hub (`events.go`, `web/src/api/events.ts`) | buffered channel per subscriber; one debounce timer per tab | broadcast that drops when full, refetch | every writer calls `notify` | `EventHub` |
| Suites and intake (`createSuite`, `cloneSuite`, `register.go`) | `challenges`, `suites` | register, create, clone, seal at first use | the run queue's fan-out | `Console` |
| Readers (`listSubmissions`, `getQueue`, `getLeaderboard`, `suite_analytics.go`) | none | list, count, aggregate, rank, compare | read `runs` by one or several statements | `Console`, `Scoreboard` |
| Operator pages (`web/src`) | the last answers | sort, percentiles, histograms | the readers | `Scoreboard`, `EventHub` |

Configuration, routing, authentication, CSV export, `seed-demo` and the example challenge: see section 6.

**What is hard here.** Nothing ties a report to an attempt: the server looks at the row's current
status, not at who claimed it or when. The same row is reused by every retry and every sweep. Workers
die, come back under the same name, are taken for dead while alive; answers and reports get lost or
come late; the watchdog only looks every two seconds; three goroutines of an attempt race for what is
reported; operators cancel, retry and prioritize sets of rows among all that. One writer does not take the
mutex, and every statement may fail. Pages are put together from several statements, out of Go maps
that come in random order. PROJECT.json lists these places line by line under `hazards`.

**What makes each part correct.**

* Queue: a row tells one consistent story; a settled row stays settled but for a retry; a score is
  written once, from a pending run; a used suite is sealed; the newest prioritization is served first.
* Handlers: statement by statement they do no more than that; a submission is stored with all its runs or not at all.
* Registry and sweeper: a dead worker's claims come back in time; a live worker's claims are left alone;
  a success is counted at most once.
* Worker: slots are respected and come back; each attempt ends in one report that names what killed it; a
  cancelled attempt stops; a run is not executed twice at a time.
* Bundle cache: a directory named by a hash is complete, whoever races or dies.
* Whole system: every enqueued run ends.
* Event hub: a page reads every change made while it was connected, although events are dropped and merged.
* Intake: a version is registered once; a suite is sealed exactly when it was used, so a clone is open.
* Readers and pages: numbers on one page add up; the ranking is one total order, the same in every answer, in
  the distributions and in the table, and p-values compare with its head.

## 2. Modules

| Module | What it is |
| --- | --- |
| `RunLedger` | Abstract specification: a run is absent, pending, dropped or scored. What counters and leaderboard may rely on. |
| `RunQueue` | The tables and every operation that writes a run, one action per handler. Open environment: any worker posts any result body at any time. Implements `RunLedger`. |
| `QueueHistory` | `RunQueue` with history variables, for properties about order and counts. |
| `Ent` | The data layer: mutations, builders' defaults and checks, the statements they issue, constraints, scans, edges. Operators only. |
| `Changes` | The mutation each handler asks of the data layer, and what the pages of one row load. |
| `Handlers` | The `serve` process at the level of statements: mutex, transactions with snapshots, failures. Implements `RunQueue`. |
| `Evals` | The whole system: `RunQueue` composed with worker processes, reports in flight, lost answers, deaths, restarts, time and operators. Every queue change is an action of `RunQueue`. |
| `JobLife` | Abstract specification of an attempt: the life of a job as `Evals` takes it. |
| `BundleCache` | `ensureBundle` and `Extract` by several slots on one directory, with I/O errors and deaths. |
| `Execute` | `execute` inside, on top of `BundleCache`: wait, watchdog, killer, process group, shutdown. Implements `JobLife`. |
| `Heartbeat` | The heart beat and the sweeper against the clock. |
| `EventHub` | Live updates: commits and notifications, bounded channels, connections, debounce, refetches. |
| `Scoreboard` | The arithmetic of aggregates, leaderboard, distributions, table and charts. Operators only. |
| `Console` | Intake, submissions and judgements as transactions, with the readers statement by statement, over `Ent` and `Scoreboard`. |
| `MC...` | Small instances. |
| `RunQueueProofs` | Theorems about `RunQueue` and `QueueHistory`. |
| `EntProofs` | What the statements of the data layer leave in the tables: lemmas for the next two. |
| `HandlersProofs` | Theorems about `Handlers`, and that it implements `RunQueue`. |
| `ConsoleProofs` | Theorems about `Console`, with lemmas on sums, folds, sorting and the statistics of `Scoreboard`. |
| `EvalsProofs`, `ExecuteProofs`, `HeartbeatProofs`, `EventHubProofs` | Theorems about the module of that name. |

The refinements fit together: `Handlers` (statements) implements `RunQueue` (handlers), which implements
`RunLedger`; `Evals` takes only steps of `RunQueue`; the jobs of `Evals` are those of `JobLife`, which `Execute` implements.

### How the model corresponds to the code

**RunQueue.** `runs[r]` is the row with id `r`; ids come from a fixed pool and a row that was not inserted yet has
status `"none"`. Edges never change, so `SubmissionOf` and `SuiteOf` are constants. `created` and
`priority` are readings of one logical `clock`, because the claim query orders by them
(`internal_api.go:77`): the rows of one batch share a reading and are interchangeable in age. Other
stamps are "set or not". Score and result are one value; error text and log tails are "empty or not".
`lastSeen[w]` is `never` (no row), `fresh` or `stale` (older than `WorkerTimeout`). Actions carry the
handlers' names. A request that the code refuses, or whose statement fails, changes
nothing and is no step. The one failure that leaves part of a handler done, the
counter bump after the update, is a disjunct of `BumpRunsHandled`. `GoStale` is time passing. A worker
without a name (`"unknown"`) is not modelled, because the client always sends one.

**Ent.** A database maps table, id and column to a value; a mutation has the columns to set, to add to and to
clear, and its edges. Ent generates the same methods for every column: SetX and ResetX are `Setting`, AddX is `Adding`, ClearX
`Clearing`, SetXID `Linking`, and a set of columns (`RunTimes`, `RunOutcome`, ...) is mapped to the methods of those columns;
the OldX accessors among them serve hooks, which nothing here installs. A builder's operators carry the names of the generated functions' steps: `...Defaults`,
`...Check`, `...Spec` (which columns and foreign keys the statement names), `...Save`. A refused builder or statement
answers `NULL`. SQL itself is external: a row is legal when the columns declared NOT NULL have values, the
foreign keys lead to rows and the unique columns are unique. Values are as concrete as branches need: a text is empty or not.

**Handlers.** The database is SQLite as the default DSN opens it (config.go:28): write-ahead log, one writer, a busy timeout,
foreign keys. The module, and what rests on it, says nothing of the Postgres backend of README.md:26 and 180 (db.go:5), which has
concurrent writers and reads what others commit. A call has what it has read (`read`), the tables as its transaction sees them (`work`), and
whether it has written. In WAL mode a snapshot is taken by the first statement; a transaction that
has only read and wants to write fails when anything was committed since (SQLITE_BUSY_SNAPSHOT), one that begins with
a write waits. `createSubmission` does not take `writeMu`, so claims do meet its commits; `MayWrite` is that
rule. `Fail` ends a call at any statement. A handler with one statement (cancel, retry, prioritize) is one
step: the guard is in the statement. Not kept: claims and ticks that find nothing; a worker that goes
stale between the sweep's two statements (the sweep has fixed its cutoff, so it goes stale afterwards); the
stamp of a batch, which here is the clock at the commit although a re-evaluation that waits for the write lock stamped its first row before; `parameters`
and `scoring`, which no branch reads.

**Evals.** A record in `jobs` is one `execute()` goroutine, with the attempt number as a history
variable the code does not have. `pc` follows `JobLife`: `preparing`, `running`, `killing` (the watchdog saw
`cancelled`), `reporting` (the POST is under way, the record sits in `net`). `Poll` is a claim by a worker
with a free slot: commit and answer are one step, because in between only the lost answer is observable, and
that is `LoseClaim`. `LeaveBehind` marks a job whose wrapper ended and left an engine that holds its output: from then on no
cancel need reach it (section 5, `left_behind`), only the engine's own end. The same goes for engines that move to a
process group of their own. A worker claims only while its row is fresh, because the middleware runs before the
handler; when that holds and when not is `Heartbeat`'s subject. `Crash` drops all jobs of
a process. SIGTERM is the same: the drain waits, but the context that reports use is already cancelled,
so nothing gets through. A server crash is not an action: its writes are transactions, and what a worker sees of it is a
lost claim or a lost report.

**Execute.** `job[x]` has the locals of one slot's `execute` and the wrapper's process group. The goroutine in
`cmd.Wait` (`Reap`, `DrainPipes`, `Sample`, `Decide`, `Post`), the watchdog (`Tick`, `WatchEnds`, `Answer`,
`SetFlag`, `CancelRun`) and os/exec's killer (`Kill`) are separate; `Deadline` is the suite timeout. An engine is
`tethered` when it keeps the wrapper's output open. A run's status is one bit here, `cancelled`, which
operators flip. `Crash` is the death of the worker's container, wrappers and all; a bare-metal SIGKILL that leaves wrappers
running is not modelled.

**BundleCache.** A bundle is a set of entries, a hash tells the true one. Each slot goes through stat, fetch, stat, unpack
entry by entry into a private temporary directory, rename, stat. Power failure (rename without fsync) is not modelled.

**Heartbeat.** Time is discrete and kept as ages, which stop counting where nothing tells them apart; a `Tick` waits for what is
due. `cacheAge` is `hbCache`, stamped before the upsert (`waiting`) is tried; a failed upsert leaves it stamped.

**EventHub.** `Commit` is the update of any write path and `Notify` its call of `s.notify`, two steps
because a page may fetch, connect or leave in between. `Forward` is one round of `handleEvents`' loop;
`OnChange`, `Flush` and `Leave` are the functions of `events.ts`; `Mount` is a page's two effects, the first fetch
and the subscription; `Answer` is the read by a GET handler, `Show` the arrival of its answer, in whatever
order. `owed` and `read` are history variables. Left out: which of two overlapping answers the page shows last, keep-alive comments, failed fetches, the extra
refetch a page makes after its own operator's action, pages that stay mounted while their route changes.

**Console and Scoreboard.** Writers are whole transactions, which `Handlers` justifies; a claim with its report is one
step (`Judge`), since the readers only see in-flight runs between them. Readers of several statements, and `register-challenge`, go
statement by statement; the last statement and the answer are one step. `getQueue`'s suites and their durations are
taken as one statement, and a suite with a succeeded run as one with a mean duration. Rows are numbered as SQLite numbers them, so an
earlier submission has the smaller id. An average is given times the constant `Scale` and rounded down, so it is exact when the number of
scores divides `Scale` (the run takes 12, for up to four); a standard deviation is given as its
square; the p-value is missing with fewer than two common seeds, 1 when the paired differences add up to 0 (the code's
z is then 0 whether they vary or not), 0 when they are one constant other than 0, and else between. An entry's `metrics` is a pointer in the code: `<<>>` when nil, else
a sequence of one. Go's random map order is a quantifier over all orders, an
unstable sort the set of all sorted sequences, a stable sort insertion behind what the new element does not precede; sorted numbers
(`Ascending`) and ids (`ByID`) are given by rank, which is what any correct sort returns. `Bin` clamps on both sides like `stats.ts`.

## 3. Runs

| Run | Instance | Shows |
| --- | --- | --- |
| `queue` | one submission with a row in each of two suites, one worker, two scores, three stamps | `TypeOK`, `CleanSlate`, `OneOutcome`, `SealedOnceUsed`, `SettledRowsStay`, `HandledOncePerRun`, `LatestPrioritizedFirst`, and that the queue implements the ledger |
| `handlers` | two submissions over one suite, the first with a row for a re-evaluation; one worker; a claim, result or sweep beside a fan-out and the one-statement handlers | `WholeSubmissions`, `EdgesAreLoaded`, and that the handlers implement `RunQueue` |
| `faults` | two runs, two workers that may both die and restart, lost and delayed calls, cancel, prioritize; two of them | `SingleExecution`, slots (`PoolTypeOK`) |
| `orphans` | one run; death, suspicion, late reports, engines left behind, cancel and retry, three of them; fair | `ClaimsAreHeld`, `EveryRunSettles`, `OrphansRecovered`, `CancelStops` |
| `execute` | two workers on one cache; one runs wrappers with an engine, the other only extracts; a bundle of two entries, deaths and shutdowns; fair | `WholeBundle`, `KilledIsNamed`, `SlotsComeBack`, and that an attempt is a `JobLife` |
| `heartbeat` | one worker, the tightest times that fit, one lost write, restarts of both sides | `HealthyKeepsClaims`, `ReclaimedInTime`, the order of the stamps (`HbTypeOK`) |
| `events` | one tab, a channel and a connection of one event, two overlapping refetches, five changes, one lost connection; fair | `NudgeUnderWay`, `ChangesAreRead`, `HubTypeOK` |
| `console` | two suites of two seeds, the second a clone of the first, two submissions, four runs, scores 0 and 3, a reader beside a registration | `OneChallengePerVersion`, `SealedIffUsed`, `ListingIsWhole`, `QueueAddsUp`, `BoardIsRanked`, `LeaderIsCompared`, `PValueTellsTies`, `DistributionsLineUp`, `PageKeepsRanking`, `StatsAgree` |
| `restart`, `late`, `left_behind` | smallest instance each | the disagreements of section 5 |

**Bounds.** `MaxClock` bounds the stamps, so the number of batches and prioritizations together: three in `queue` for two
batches and a prioritization or one batch and two of them, so that a bumped run meets a newer bump and a newer row; two in `handlers`. `MaxBudget`
bounds deaths, faults and interventions in `Evals`: two is what every pairing of a fault with an operator's
action needs; `orphans` takes three with a single run. Two runs suffice for the order of the queue and for one slot being held while another
run waits; two workers for a run that changes hands and for one survivor. Rows interact only through the order of the
claim and through set updates by status.
In `handlers` the claim has read a row of one submission when the other's commit overtakes it, or reads after it; the two rows of the
first submission are alike (symmetry); `Serves` names the handlers each call runs, the rest are single statements and need none. `QueueSpec` compares
every step, whoever takes it.
In `execute`, `MaxLitter` bounds temporary trees left by deaths (the code never cleans them, each only costs a name) and `Runner` says whose wrapper
starts: slots meet only in the cache. A second process that dies is enough for every half-written tree beside every other step.
In `events` one tab is enough, because tabs meet only in the broadcast, which treats each by itself. The
channel holds one event instead of eight so that it is full after one; five changes fill every stage, get dropped and still go on after a lost connection. `EventHubProofs` has the safety part for all capacities.
In `console`, two submissions with equal and different means, with common seeds in one suite or two, and a submission judged twice in one suite;
`RetryBelow` keeps retries to states with fewer than three runs, `MaxCreated` lets every suite after the first be a clone (which differs from a new one in its name and parent alone), `NoneRegisters` keeps suites from being made during a registration, which touches nothing they read.
Failed runs are represented by cancelled ones: the readers treat both as runs without a score.

**Deadlock.** `RunQueue`, `Execute`, `Heartbeat` and `EventHub` are checked for deadlock. In `Evals`, `Handlers` and `Console` the pools of rows
and stamps run out, so a behaviour may end: those configurations say `CHECK_DEADLOCK FALSE`.

**Fairness.** In `Evals` (`Scheduling`, `Timeouts`) it is weak and only on what a ticker, a goroutine or
time drives: the poll loop of a live worker, its calls refreshing `last_seen`, the sweeper's
ticker, the ageing of a dead worker's row, the watchdog and the kill of the process group, the
start of a prepared attempt, the delivery of a report (which may also fail). `Timeouts` is the suite timeout,
which ends each wrapper, and that an engine left behind ends too; `CancelStops` is checked without it. Watchdog and kill owe nothing to
a job whose wrapper left an engine behind, because `cmd.Wait` then goes on reading after a cancel; `CancelStops` excepts such jobs, as `SlotsComeBack` does. Faults, operators and submissions are never fair.
One of the two workers never dies. The configuration includes no lost answers: the code does not recover from them, and `ClaimsAreHeld`
fails as soon as they are allowed. In `Execute` (`XFair`) goroutines run, timers fire and calls end; wrappers and engines
owe nothing. `WatchEnds` alone is strongly fair: when the tick and the done context are both ready, Go's `select` picks at random, so
it does not take the tick for ever. In `EventHub` (`HubFairness`) a handler that committed
goes on to notify, and the stream loop, timers, requests and reconnection go on; changes, visits and lost
connections are never fair.

Each property has a mutant in PROJECT.json: a plausible slip in a mapped definition, written next
to it as a "Variant", under which TLC finds the property violated.

## 4. Proofs

All are checked by TLAPS for every set of runs, submissions, suites, workers, slots, calls and scores, and every
bound, from the assumptions named in the modules: edges are functions, each suite has at least one
seed, `NULL` and the like are not values, the bounds and times are numbers, a posted body has the fields the handler reads, seed lists
are lists of strings, posted scores are integers or absent, `Scale` is positive and even. TLC
evaluates the assumptions in every run.

*RunQueueProofs.* The argument is local to a row. `RowInv` is `CleanSlate` and `OneOutcome` for one row
together with its type: neither is inductive alone, since a report leaves one consistent outcome
only on a clean row, and a retry leaves a clean row only from a consistent outcome. `RowStep` lists
what a step may do to a row, `RowSteps` shows that every action does one of these to every row, and
`RowInvKept` that they keep `RowInv`. From this follow `TypesHold`, `SlateIsClean`, `OutcomeIsOne` and, by
looking at settled rows only, `SettledRowsHold`. `SealedHold` needs only that a row appears with its suite
sealed in the same step. `LedgerImplemented` maps each action to a ledger step: the fan-out to
`Submit`, cancels and failures to `Drop`, a retry to `PutBack`, a success to `Settle`, everything
else to a stutter.

For the history, `PrioritizedServedFirst`: the rows of the latest prioritization carry the highest priority of the
table and no other row carries it (`FrontInv`). That is inductive only with "no priority is ahead of the clock", or the next
prioritization might not be above it, and "an id not in use has priority 0". `CountedOnce`: only the
report that turns a row succeeded raises a counter, at most one, and no step takes a success away, so the sets a worker is
credited with grow by that row exactly when its counter grows by one. `credit` is a history variable; it says whose success each one
is, where a sum over the workers would only say how many there are.

*EntProofs.* `SettingOf`, `ClearingOf`, `ClaimChangeIs`, `RetryChangeIs`, ...: the mutation that each handler's calls add up to. `RunUpdateOf`, `InsertOf`, `SubmissionCreateOf`, `SuiteCreateOf`, ...: what a statement that was not refused leaves in each
table, from which a legal database stays legal. A statement checks only the rows it writes.

*HandlersProofs.* `HInv`: the committed tables are `Sound` (legal, every submission with a run, every suite with
seeds), and so are the tables of each open transaction, with one exception: the submission a create has inserted and not fanned out yet.
That exception is what makes it inductive, and the commit, which waits until no suite is left to do, closes it. One transaction at a
time has written, and the mutex belongs to a call that takes it. `AnswersHaveEdges` follows because a legal snapshot has the rows that
foreign keys name.

The second half is the refinement. `HandlersImplementQueue`: the handlers with their statements, mutex, snapshots and failures implement
`RunQueue`, in which each request is one step. Every handler takes effect at one statement (the update, or the commit of a fan-out),
where the tables change as the queue's action says; all other statements are invisible. `RInv` is what a handler may rely on when it
gets there. The holder of the mutex knows the status it read, because cancels and retries take the mutex for their statement and the
one writer that does not, `createSubmission`, only adds rows; the sweeper's list of fresh workers is current likewise. A claim that is not
stale has a snapshot equal to the committed tables, so the row it read is the queue's `NextUp` at the commit. A
fan-out's transaction is the committed tables plus its own rows and seals, suite by suite (`Progress`), so its
commit adds exactly the batch the queue adds. A success is counted by a later statement than the one that writes the row; the queue counts it with the row, so the mapping adds
the bumps under way, and a bump that will not happen is the queue's choice at that moment. `TablesKeepTheirStory` then instantiates
`RunQueueProofs` with the tables of the handlers: `CleanSlate`, `OneOutcome`, `SealedOnceUsed`, `SettledRowsStay` and the ledger hold of the
code's statements as they hold of the queue.

*EvalsProofs.* `SystemImplementsQueue`: each step of the whole system is a step of the queue or
leaves the queue's variables alone, so the open environment covers the real one and
`SystemKeepsLedger` follows. `ExecutesOnce` is `SingleExecution` under two hypotheses, no live worker
suspected and nothing retried, but with deaths, restarts, sweeps, lost and late messages,
cancels and prioritizations in any number. Its invariant, `ExecutingIsHeld`, says that a job executes only
at a live, fresh worker and on a row that worker still holds or that is settled; so no pending row
has an executing job, and the sweep (which spares fresh workers) makes none pending. Both hypotheses are
needed: with a suspicion the run is swept and claimed again, with a cancel and a retry likewise. `SlotsRespected` bounds the
jobs of a worker by its slots with all faults on. `NoClaimLeftBehind` is `ClaimsAreHeld` for
configurations without lost answers, lost reports and restarts, each of which breaks it in the code; suspicion, death, cancel and retry stay
in. The attempt number decides it: a job or report of the row's current attempt leaves only by settling that attempt.

*ExecuteProofs.* `XInv` has a part for the cache and one for each attempt. The cache: no two slots write into one temporary tree, and what is in an
owner's tree and what it has still to unpack make up the bundle; so what is renamed is whole (`CacheIsWhole`). The attempt:
who may have cancelled the context and when, from the watchdog's flag to the killer, until the report; so an attempt the killer fired at, even
one whose wrapper was just exiting by itself, is reported as what caused the kill (`KillsAreNamed`). `AttemptImplementsLife` maps wait, drain,
sample and decide to the four stages of `JobLife`, on which `Evals` rests.

*HeartbeatProofs.* `LiveClaimsKept` and `OrphansReclaimed` for all times that fit, by a bound on `last_seen`'s age: how old it
may be is a sum over the writes that failed, the throttle's stamp and the wait for the lock, with one case for a server that has just come back,
whose first sweep is an interval away. For a dead worker, the two clocks (its row's age, the next sweep) have a bounded
sum until its claims return.

*EventHubProofs.* `NudgeUnderWay` is strengthened by `Owing`: a tab is owed only changes that were made, and
only while connected. The first makes an answer settle every debt, the second makes the broadcast reach
whoever is owed something; a full channel drops the event but holds another. Each lemma passes the
nudge from one stage to the next.

*ConsoleProofs.* Every invariant of the `console` run, for any number of suites, seeds, submissions, runs, scores and calls. `Console` and
`Scoreboard` are made of folds, so most of it is induction over data. The library's induction theorems take the property as an operator,
which the provers cannot instantiate; `NumbersInduct`, `SetsInduct` and `SubsetsInduct` take it as a set (of numbers or of
subsets of a finite set), are proved from well-foundedness of the natural numbers, and carry everything below.

- *Tables.* `ConsoleInv` has `Fine` tables (legal, numbered without gaps, scores that are numbers, suites with seeds that are sealed exactly if they
  have runs, submissions with runs) and for each call `CallOK`: what it has read of its first statement is still true in one
  direction, because rows are never deleted. `SealedIffUsed` is not inductive without the rest: the fan-out of a submission over its suites is a fold, and its
  solution (`FoldSolved`) says suite by suite that the rows are added and the seal set, which needs the suite to have seeds. Each
  transaction leads to `Later` tables, under which every call under way stays as it should be. From this `RegisteredOnce` (the unique
  index), `SealedIsUsed`, `ListingComplete` and, with lemmas about sums over a partition, `QueueTotals`.
- *Ranking.* `InsertionSorts`: insertion with a strict total order yields the list of all elements in that order. `OneList`: there is
  only one such list. `LessOrders` shows that `less` is a strict total order of the entries of one leaderboard (means, then
  times, which differ), so every walk of the map gives the same answer: `LeaderboardRanked`. The distributions use another, unstable sort over other rows
  and the table a third one; each lists the scored (settled) submissions in an order that agrees with `less`, so by
  `OneList` the three agree: `DistributionsFollow`, `RankingKept`. `ComparedWithLeader` follows from the first entry being the leader whenever
  anyone is ranked, from the domains of the maps by seed, and from the sum of differences being the difference of sums (`SumOfDifferences`).
- *Statistics.* `KthExists`: among n numbers there is a k-th smallest. Hence the sorted list, interpolation that never falls as the rank rises
  (`RanksGrow`), the two medians as one. The mode is the best of a total preference (`ModeIs`), so the map's order is irrelevant. A bin's
  count summed over the bins is the number of scores because each is in one bin (`BinsAddUp`): `StatisticsAgree`.

These theorems are about `Mean` as `Scoreboard` defines it: rounded down to a multiple of 1/`Scale`, for every even `Scale`. For given data some `Scale` makes
it exact. What they use of it is that it is a number and depends on the scores alone. That the code's floating-point mean
is one too (no NaN, no infinity) is outside the model, see section 6.

Only model-checked: liveness (`EveryRunSettles`, `OrphansRecovered`, `CancelStops`, `SlotsComeBack`, `ChangesAreRead`), because fairness and
ENABLED are out of the prover's reach. So is `PValueTellsTies`: it compares the rounded `Mean` with exact sums and needs `Scale` to
be divisible by the number of scores, which the run's is. Every other invariant and every action property of the passing runs has a
theorem, two of them under hypotheses (`ExecutesOnce`, `NoClaimLeftBehind`) that the code needs as well.

## 5. Where code and documents disagree

1. `restart`: README.md:175 promises that claims of killed workers return within
   `WORKER_TIMEOUT + SWEEP_INTERVAL`. A worker restarted under the same id (default: hostname) keeps its
   former claims alive by its heart beat; they are never swept.
2. `late`: README.md:291 and public_api.go:507-512 say a completion in the kill window cannot
   resurrect a cancelled run. After a cancel and a retry within one poll interval, the old attempt's completion
   is recorded for the retried run, whoever holds it.
3. `left_behind`: worker.go:128-130 says either cancel or timeout kills the wrapper's whole process group. When the
   wrapper has exited and an engine holds its output open, os/exec's killer is gone and `cmd.Wait` goes on
   reading, with no `WaitDelay`: neither does, and the slot is held until the engine ends.

Seen while reading or modelling, without a run of their own:

* events.go:86-87 speaks of fallback polling, which the client does not have. A page that shows the older of two overlapping answers, or missed a change
  between its first fetch and its subscription, keeps an old state until the next event; events.go:52-53 accepts that delay, and nothing promises more.
* Retry's comment promises "a clean slate" and names the columns it clears; stdout and stderr are not
  among them, so `CleanSlate` leaves log tails out. A late "cancelled" report of the old attempt cancels a retried run again.
* The status `running` of README.md:123 and of the schema is set by no statement.
* README.md:75 promises a fresh directory per run; two live attempts of one run on one worker share `runs/<id>`, and nothing removes it afterwards.
* sweeper.go:13-16 says a healthy worker keeps its claims. `HealthyKeepsClaims` shows it for times that fit (`TimesFit`). The
  defaults do not fit a worker whose slots are all downloading: throttle 5 s, one download up to 30 s without any other call, timeout 30 s.
* scoring/aggregate.go:2 says the suite's `scoring.aggregate` selects the strategy; the server never calls `FromConfig` and always ranks by the mean.
* Leaderboard.tsx:77 titles the column "p-value vs the top-mean submission". While the top submission has runs in flight, or
  the table is sorted by another column, the row labelled "leader" is another one.
* Compare.tsx:11 says colours are "assigned by stable submission order"; they follow the position in the ranking.
* bundle.go:26 says symlinks are followed; a symlinked directory is packed as an empty one.
* A lost claim answer or a lost result strands a run as claimed while its worker lives; no text says otherwise.

## 6. Not modelled, and why

* `Pack`: a pure walk over a directory, run once, by one process. CSV and JSON of the export: formatting of the rows `ExportRows` names.
* `seed-demo`: a script for the smoke test, without a transaction and without sealing; `SealedIffUsed` does not cover its rows.
* Routing, basic auth, static files: stateless filters in front of the handlers. Configuration parsing, migration.
* Throughput, ETA and active workers of `GET /api/queue`: one reading of the wall clock each; with skewed clocks between hosts, durations may be negative.
* Postgres: the transactions of `Handlers` are SQLite's.
* In `ent`: deletes, bulk creates, hooks and the OldX accessors for them, interceptors, upserts other than the worker's, and the panicking X methods: nothing calls them.
* Floating point: rounding, and scores so large that their sum is infinite, which JSON cannot carry.
* The engine and its challenge are a third party's: an arbitrary outcome. Pages' forms and layout.

HTTP encodings are modelled by which fields a body carries (`Bodies`), because an absent field leaves the column
alone. In `Evals`, a wrapper that was started always prints something, and an attempt that fails before it is running reports no
start; `RunQueue` takes all combinations.

## 7. Plan

Done: the models and runs of sections 2 and 3, and theorems for every component; section 6 lists what stays out. Worth adding:

1. `Evals`: what remains true of a claim when its answer or report is lost: it stays with its worker until that worker is swept.
2. `Handlers` over a database with concurrent writers (Postgres): which of its critical sections still hold by `writeMu` alone.

## 8. Running

    tlc -workers 2 -config MCRunQueue.cfg MCRunQueue
    tlapm RunQueueProofs.tla
    tlapm HandlersProofs.tla    # with ConsoleProofs the longest, about five minutes each

The longest runs (`console`, `handlers`, `execute`) take one to two minutes each with two workers.
