------------------------------ MODULE Scoreboard ------------------------------
(***************************************************************************)
(* The arithmetic between the runs of a suite and what the operator sees:  *)
(* scoring.Aggregate, the server's leaderboard and distributions, and the  *)
(* SPA's table, percentiles and histograms.                                *)
(*                                                                         *)
(* Scores are integers.  A number that need not be one is given times      *)
(* Scale and is exact if the divisors that occur divide Scale, otherwise   *)
(* rounded down; the rounding of floats is left out.  A standard deviation *)
(* is given as its square, which orders the same way.                      *)
(***************************************************************************)
EXTENDS Ent, SequencesExt

CONSTANT Scale       \* 12 is exact for up to four scores

\* A middle between two scores is always exact.
ASSUME ScaleAssumption == Scale \in Nat /\ Scale > 0 /\ Scale % 2 = 0

NaN == "NaN"

\* The members of a set of ids in their order.
ByID(S) ==
    [k \in 1..Cardinality(S) |-> CHOOSE x \in S : Cardinality({y \in S : y < x}) = k - 1]

\* The sequence as it is; but TLC computes each element once.
Computed(s) == SubSeq(s, 1, Len(s))

\* The elements with the numbers in I, in their order.
Among(seq, I) == LET ids == ByID(I) IN Computed([k \in DOMAIN ids |-> seq[ids[k]]])

\* Sorted numbers: fewer than k are less than the k-th, and at least k are not greater.
Ascending(xs) ==
    [k \in DOMAIN xs |->
        CHOOSE v \in ToSet(xs) : /\ Cardinality({i \in DOMAIN xs : xs[i] < v}) < k
                                 /\ Cardinality({i \in DOMAIN xs : xs[i] <= v}) >= k]
SumOf(xs) == FoldSeq(+, 0, xs)
Least(xs) == Min(ToSet(xs))
Greatest(xs) == Max(ToSet(xs))
Count(xs, v) == Cardinality({i \in DOMAIN xs : xs[i] = v})

\* Go and JavaScript both leave an element behind one it does not precede.
Insertion(Precedes(_, _), sorted, x) ==
    InsertAt(sorted, 1 + SelectLastInSeq(sorted, LAMBDA y : ~Precedes(x, y)), x)
StableSort(Precedes(_, _), s) == FoldLeft(LAMBDA acc, x : Insertion(Precedes, acc, x), <<>>, s)

\* What an unstable sort may return.
SomeSort(Precedes(_, _), S) ==
    {s \in SetToSeqs(S) : \A i, j \in DOMAIN s : i < j => ~Precedes(s[j], s[i])}

-----------------------------------------------------------------------------
(* scoring.Aggregate. *)

Mean(xs) == IF xs = <<>> THEN NaN ELSE (Scale * SumOf(xs)) \div Len(xs)

Median(xs) ==
    LET s == Ascending(xs)
        mid == Len(xs) \div 2
    IN IF Len(xs) % 2 = 1 THEN Scale * s[mid + 1] ELSE (Scale * (s[mid] + s[mid + 1])) \div 2

\* Variant: the first of the most frequent values that the map yields.
FirstMode(xs, order) ==
    FoldLeft(LAMBDA best, v : IF Count(xs, v) > Count(xs, best) THEN v ELSE best,
             order[1], order)

\* The counts are a map, which Go walks in any order.
Mode(xs, order) ==
    FoldLeft(LAMBDA best, v :
                 IF \/ Count(xs, v) > Count(xs, best)
                    \/ Count(xs, v) = Count(xs, best) /\ v < best
                 THEN v ELSE best,
             order[1], order)

Stddev(xs) ==
    LET n == Len(xs)
        squares == SumOf([i \in DOMAIN xs |-> xs[i] * xs[i]])
    IN IF n < 2 THEN 0
       ELSE (Scale * (n * squares - SumOf(xs) * SumOf(xs))) \div (n * (n - 1))

Metrics(xs, order) ==
    [mean |-> Mean(xs), median |-> Median(xs), mode |-> Scale * Mode(xs, order),
     max |-> Scale * Greatest(xs), min |-> Scale * Least(xs), stddev |-> Stddev(xs)]

-----------------------------------------------------------------------------
(* getLeaderboard.  A row is [id, submission, seed, status, score]. *)

Counts(rows) ==
    LET n(S) == Cardinality({i \in DOMAIN rows : rows[i].status \in S}) IN
    [total |-> Cardinality(DOMAIN rows), succeeded |-> n({"succeeded"}), failed |-> n({"failed"}),
     timed_out |-> n({"timed_out"}), cancelled |-> n({"cancelled"}),
     pending |-> n({"pending", "claimed", "running"})]

Scored(rows) ==
    Among(rows, {i \in DOMAIN rows : rows[i].status = "succeeded" /\ rows[i].score # NULL})
ScoresOf(rows) == LET scored == Scored(rows) IN [i \in DOMAIN scored |-> scored[i].score]

\* Of several rows with one seed (a re-evaluation) the last one read stays.
ScoresBySeed(rows) ==
    FoldLeft(LAMBDA acc, r : [x \in {r.seed} |-> r.score] ++ acc, <<>>, Scored(rows))

Common(a, b) == DOMAIN a \cap DOMAIN b
Differences(a, b) == [seed \in Common(a, b) |-> a[seed] - b[seed]]

\* Variant: without a spread the mean is not looked at.
SpreadOnly(a, b) ==
    LET diff == Differences(a, b) IN
    IF Cardinality(DOMAIN diff) < 2 THEN NaN
    ELSE IF Cardinality(Range(diff)) = 1 THEN "1"
    ELSE IF SumFunction(diff) = 0 THEN "1" ELSE "between"

\* The paired t-test, as far as the table tells its values apart: a mean of zero
\* gives 1 with a spread (Erfc(0)) or without, any other mean 0 without a spread.
PairedPValue(a, b) ==
    LET diff == Differences(a, b) IN
    IF Cardinality(DOMAIN diff) < 2 THEN NaN
    ELSE IF SumFunction(diff) = 0 THEN "1"
    ELSE IF Cardinality(Range(diff)) = 1 THEN "0" ELSE "between"

\* An entry's metrics are behind a pointer: <<>> is nil, for those without a score.
Ranked(e) == e.metrics # <<>>
Metric(e, key) == e.metrics[1][key]

\* Variant: ties are left as the map yields them.
LessByMean(a, b) ==
    IF Ranked(a) /\ Ranked(b) THEN Metric(a, "mean") > Metric(b, "mean")
    ELSE Ranked(a) /\ ~Ranked(b)

Less(a, b) ==
    CASE ~Ranked(a) /\ ~Ranked(b) -> a.submitted_at < b.submitted_at
      [] ~Ranked(a) /\ Ranked(b) -> FALSE
      [] Ranked(a) /\ ~Ranked(b) -> TRUE
      [] OTHER -> \/ Metric(a, "mean") > Metric(b, "mean")
                  \/ Metric(a, "mean") = Metric(b, "mean") /\ a.submitted_at < b.submitted_at

SortLeaderboard(entries) == StableSort(Less, entries)

Of(rows, s) == Among(rows, {i \in DOMAIN rows : rows[i].submission = s})

\* submitted_at is the submission's created_at: ids are given in that order.
Entry(rows, s) ==
    LET own == Of(rows, s)
        scores == ScoresOf(own)
    IN [submission |-> s, submitted_at |-> s, runs |-> Counts(own),
        metrics |-> IF scores = <<>> THEN <<>>
                    ELSE <<Metrics(scores, SetToSeq(ToSet(scores)))>>,
        p |-> NaN]

\* Variant: the comparison starts with the leader itself.
ComparedToo(i, leader, out) == i >= leader /\ Ranked(out[i])

\* The ranked entries behind the first ranked one.
Compared(i, leader, out) == i > leader /\ Ranked(out[i])

\* The answer, when the buckets' map is walked in the given order of submissions.
Leaderboard(rows, order) ==
    LET out == SortLeaderboard([i \in DOMAIN order |-> Entry(rows, order[i])])
        leader == SelectInSeq(out, LAMBDA e : Ranked(e))
        seeds(i) == ScoresBySeed(Of(rows, out[i].submission))
    IN Computed([i \in DOMAIN out |->
          IF leader > 0 /\ Compared(i, leader, out)
          THEN [out[i] EXCEPT !.p = PairedPValue(seeds(leader), seeds(i))] ELSE out[i]])

-----------------------------------------------------------------------------
(* getDistributions. *)

Distribution(rows, s) == [submission |-> s, submitted_at |-> s, scores |-> ScoresOf(Of(rows, s))]

\* Variant: ties are left to the sort.
DistributionByMean(a, b) == Mean(a.scores) > Mean(b.scores)

DistributionLess(a, b) ==
    \/ Mean(a.scores) > Mean(b.scores)
    \/ Mean(a.scores) = Mean(b.scores) /\ a.submitted_at < b.submitted_at

\* The answers that the map and the unstable sort allow.
Distributions(rows) ==
    LET scored == {s \in {rows[i].submission : i \in DOMAIN rows} : ScoresOf(Of(rows, s)) # <<>>}
    IN SomeSort(DistributionLess, {Distribution(rows, s) : s \in scored})

-----------------------------------------------------------------------------
(* The SPA's leaderboard table. *)

IsInFlight(e) == e.runs.pending > 0 \/ ~Ranked(e)
Settled(board) == Among(board, {i \in DOMAIN board : ~IsInFlight(board[i])})

\* Variant: the table opens in ascending order.
AscendingColumn(a, b, key, direction) ==
    \/ IF direction = "asc" THEN Metric(a, key) > Metric(b, key) ELSE Metric(a, key) < Metric(b, key)
    \/ Metric(a, key) = Metric(b, key) /\ a.submitted_at < b.submitted_at

ColumnLess(a, b, key, direction) ==
    \/ IF direction = "desc" THEN Metric(a, key) > Metric(b, key) ELSE Metric(a, key) < Metric(b, key)
    \/ Metric(a, key) = Metric(b, key) /\ a.submitted_at < b.submitted_at

\* The numbered rows; the first is labelled "leader".
RankedRows(board, key, direction) ==
    StableSort(LAMBDA a, b : ColumnLess(a, b, key, direction), Settled(board))

-----------------------------------------------------------------------------
(* lib/stats.ts and the charts. *)

\* Linear interpolation between the two nearest ranks; times 100.
Percentile(xs, p) ==
    LET s == Ascending(xs)
        rank == p * (Len(xs) - 1)
        lo == rank \div 100
        hi == IF rank % 100 = 0 THEN lo ELSE lo + 1
    IN 100 * s[lo + 1] + (s[hi + 1] - s[lo + 1]) * (rank % 100)

\* The bin of a value, from 0, when bins cover lo..hi evenly.
Bin(v, lo, hi, bins) ==
    LET i == ((v - lo) * bins) \div (hi - lo) IN
    IF i >= bins THEN bins - 1 ELSE IF i < 0 THEN 0 ELSE i

BinCounts(xs, lo, hi, bins) ==
    [b \in 1..bins |-> Cardinality({i \in DOMAIN xs : Bin(xs[i], lo, hi, bins) = b - 1})]

Histogram(xs, bins) ==
    IF xs = <<>> \/ bins < 1 THEN <<>>
    ELSE IF Least(xs) = Greatest(xs) THEN <<Len(xs)>>
    ELSE BinCounts(xs, Least(xs), Greatest(xs), bins)

\* One line per series over shared bins; nothing is drawn when all scores agree.
Overlay(series, bins) ==
    LET all == UNION {ToSet(series[i]) : i \in DOMAIN series} IN
    IF all = {} \/ Min(all) = Max(all) THEN <<>>
    ELSE [i \in DOMAIN series |-> BinCounts(series[i], Min(all), Max(all), bins)]
=============================================================================
