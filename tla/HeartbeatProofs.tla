--------------------------- MODULE HeartbeatProofs ---------------------------
(***************************************************************************)
(* Theorems about Heartbeat, for every set of workers and every choice of  *)
(* the configured times: a live worker whose first heart-beat got through  *)
(* keeps its claims when the times fit, and a dead worker's claims return  *)
(* in time.  The invariants bound the ages against one another, case by    *)
(* case of where a heart-beat stands.                                      *)
(***************************************************************************)
EXTENDS Heartbeat, TLAPS

-----------------------------------------------------------------------------
(* The inductive invariant. *)

\* Time that f writes in a row can hide, when they fail.
Lost(f) == f * Period

\* Time since serve started, or since the latest sweep.
SinceSweep == SweepInterval - sweepIn

Waits(w) == waiting[w] # NoRequest
Cached(w) == ~Waits(w) /\ cacheAge[w] < TTL
Uncached(w) == ~Waits(w) /\ cacheAge[w] = TTL

\* A request waits from the moment that stamps the cache, and serve's memory
\* goes with the process.
RequestInv ==
    /\ \A w \in Worker : Waits(w) => cacheAge[w] = waiting[w]
    /\ ~up => \A w \in Worker : Uncached(w)
    /\ proven \subseteq alive

\* The worker's row was written since serve started, or serve has not been down:
\* last_seen is as old as the failed writes and the present period explain.
Fresh(w) ==
    /\ Waits(w) => seenAge[w] <= Lost(fails[w]) + Period + waiting[w]
    /\ Cached(w) => seenAge[w] <= Lost(fails[w]) + cacheAge[w]
    /\ Uncached(w) => seenAge[w] <= Lost(fails[w]) + TTL - 1 + sinceCall[w]

\* Serve has been down, and no write has succeeded since it started: the first
\* sweep is as far away as the writes that failed since then leave it.
Recovering(w) ==
    /\ Waits(w) => SinceSweep <= Lost(fails[w]) + Gap + waiting[w]
    /\ Cached(w) => fails[w] > 0 /\ SinceSweep <= Lost(fails[w] - 1) + Gap + cacheAge[w]
    /\ Uncached(w) => SinceSweep <= Lost(fails[w]) + sinceCall[w]

HealthInv == up => \A w \in proven : Fresh(w) \/ Recovering(w)

\* A dead worker's row grows stale from its death, or from the last request it
\* left behind, and the sum of the two clocks until its claims return is bounded.
OrphanInv ==
    up => \A w \in Worker \ alive :
             /\ w \in claims => orphanFor[w] + sweepIn < Overdue
             /\ Waits(w) => orphanFor[w] <= waiting[w]
             /\ ~Waits(w) => \/ seenAge[w] = WorkerTimeout
                             \/ orphanFor[w] <= seenAge[w] + Delay

HbInv == HbTypeOK /\ RequestInv /\ HealthInv /\ OrphanInv

-----------------------------------------------------------------------------
(* Arithmetic and the effect of a request. *)

\* The configured times are naturals, a throttle shorter than a wait is refused.
LEMMA Times ==
    /\ TTL \in Nat \ {0} /\ Gap \in Nat \ {0} /\ Delay \in Nat /\ MaxFailures \in Nat
    /\ WorkerTimeout \in Nat \ {0} /\ SweepInterval \in Nat \ {0}
    /\ NoRequest = Delay + 1 /\ NoRequest \in Nat
    /\ Overdue = WorkerTimeout + SweepInterval + Delay /\ Overdue \in Nat
    /\ Period = TTL + Gap - 1 /\ Period \in Nat \ {0}
    /\ Delay < TTL
BY TimesAssumption DEF NoRequest, Overdue, Period

\* Failed writes hide a period each.
LEMMA LostTime ==
    ASSUME NEW f \in Nat
    PROVE  /\ Lost(f) \in Nat /\ Lost(0) = 0
           /\ Lost(f + 1) = Lost(f) + Period
           /\ f > 0 => Lost(f) = Lost(f - 1) + Period
           /\ f > 0 => Lost(f - 1) \in Nat
           /\ f <= MaxFailures => Lost(f) <= Lost(MaxFailures)
<1>1. ASSUME NEW p \in Nat, NEW g \in Nat
      PROVE  /\ g * p \in Nat /\ 0 * p = 0 /\ (g + 1) * p = g * p + p
             /\ g > 0 => g * p = (g - 1) * p + p
             /\ g > 0 => (g - 1) * p \in Nat
  OBVIOUS
<1>2. ASSUME NEW p \in Nat, NEW g \in Nat, NEW h \in Nat, g <= h PROVE g * p <= h * p
  <2>1. h * p = g * p + (h - g) * p /\ (h - g) * p \in Nat /\ g * p \in Nat /\ h * p \in Nat
    BY <1>2
  <2> QED BY <2>1
<1> QED BY <1>1, <1>2, Times DEF Lost

\* A served request touches only its own worker's claims and, at most, puts its
\* row's last_seen to now.
LEMMA ServeEffect ==
    ASSUME NEW w \in Worker, NEW seen \in [Worker -> 0..WorkerTimeout],
           NEW rows \in SUBSET Worker, claims \subseteq Worker, Serve(w, seen, rows)
    PROVE  /\ seenAge' \in [Worker -> 0..WorkerTimeout]
           /\ seenAge'[w] \in {0, seen[w]}
           /\ \A v \in Worker \ {w} : seenAge'[v] = seen[v]
           /\ claims' \subseteq Worker
           /\ \A v \in Worker \ {w} : v \in claims' <=> v \in claims
           /\ known' = rows
BY Times DEF Serve

\* Getting older, pointwise.
LEMMA OlderAge ==
    ASSUME NEW cap \in Nat, NEW age \in [Worker -> 0..cap]
    PROVE  /\ Older(age, cap) \in [Worker -> 0..cap]
           /\ \A w \in Worker :
                 Older(age, cap)[w] = IF age[w] < cap THEN age[w] + 1 ELSE cap
BY DEF Older

-----------------------------------------------------------------------------
(* The invariant holds at the start and is kept by every step. *)

\* No heart-beat has been sent.
LEMMA HbInvInit == HbInit => HbInv
<1> USE Times
<1> SUFFICES ASSUME HbInit PROVE HbInv
  OBVIOUS
<1>1. HbTypeOK
  BY DEF HbInit, HbTypeOK
<1>2. RequestInv
  BY DEF HbInit, RequestInv, Waits, Uncached
<1>3. HealthInv /\ OrphanInv
  BY DEF HbInit, HealthInv, OrphanInv, Waits
<1> QED BY <1>1, <1>2, <1>3 DEF HbInv

\* The stamp of the cache precedes the write it stands for, and requests wait no
\* longer than Delay.
LEMMA TypeAndRequestNext ==
    HbTypeOK /\ RequestInv /\ [HbNext]_hbvars => HbTypeOK' /\ RequestInv'
<1> USE Times
<1> SUFFICES ASSUME HbTypeOK, RequestInv, [HbNext]_hbvars PROVE HbTypeOK' /\ RequestInv'
  OBVIOUS
<1>1. CASE Tick
  <2>1. /\ sinceCall' \in [Worker -> 0..Gap] /\ cacheAge' \in [Worker -> 0..TTL]
        /\ waiting' \in [Worker -> 0..NoRequest] /\ seenAge' \in [Worker -> 0..WorkerTimeout]
        /\ orphanFor' \in [Worker -> 0..Overdue] /\ sweepIn' \in 0..SweepInterval
    BY <1>1, OlderAge DEF Tick, HbTypeOK, NothingDue
  <2>2. \A w \in Worker :
           /\ cacheAge'[w] = IF cacheAge[w] < TTL THEN cacheAge[w] + 1 ELSE TTL
           /\ waiting'[w] = IF waiting[w] < NoRequest THEN waiting[w] + 1 ELSE NoRequest
           /\ seenAge'[w] = IF seenAge[w] < WorkerTimeout THEN seenAge[w] + 1
                                                          ELSE WorkerTimeout
    BY <1>1, OlderAge DEF Tick, HbTypeOK
  <2>3. up => \A w \in Worker : Waits(w) => waiting[w] < Delay
    BY <1>1 DEF Tick, NothingDue, Waits
  <2>4. RequestInv'
    BY <1>1, <2>2, <2>3 DEF Tick, RequestInv, Uncached, Waits, HbTypeOK
  <2>5. ASSUME NEW w \in Worker, cacheAge'[w] < TTL, fails'[w] = 0, waiting'[w] = NoRequest
        PROVE  seenAge'[w] <= cacheAge'[w]
    <3>1. waiting[w] = NoRequest
      BY <2>2, <2>3, <2>5, <1>1 DEF RequestInv, Uncached, Waits, HbTypeOK
    <3> QED BY <1>1, <2>2, <2>5, <3>1 DEF Tick, HbTypeOK
  <2> QED BY <1>1, <2>1, <2>4, <2>5 DEF Tick, HbTypeOK
<1>2. CASE Sweep
  BY <1>2 DEF Sweep, HbTypeOK, RequestInv, Waits, Uncached
<1>3. CASE StopServe
  <2>1. /\ cacheAge' \in [Worker -> 0..TTL] /\ waiting' \in [Worker -> 0..NoRequest]
        /\ \A w \in Worker : cacheAge'[w] = TTL /\ waiting'[w] = NoRequest
    BY <1>3 DEF StopServe
  <2>2. UNCHANGED <<alive, sinceCall, seenAge, known, proven, fails, claims, sweepIn, orphanFor>>
        /\ up' = FALSE
    BY <1>3 DEF StopServe
  <2>3. HbTypeOK'
    <3>1. \A w \in Worker : ~(cacheAge'[w] < TTL)
      BY <2>1
    <3>2. up' \in BOOLEAN
      BY <2>2
    <3> QED BY <2>1, <2>2, <3>1, <3>2 DEF HbTypeOK
  <2>4. RequestInv'
    BY <2>1, <2>2 DEF RequestInv, Waits, Uncached
  <2> QED BY <2>3, <2>4
<1>4. CASE StartServe
  BY <1>4 DEF StartServe, HbTypeOK, RequestInv, Waits, Uncached
<1>5. ASSUME NEW w \in Worker, Call(w) PROVE HbTypeOK' /\ RequestInv'
  <2>1. CASE Throttled(w) /\ Serve(w, seenAge, known) /\ UNCHANGED <<cacheAge, waiting>>
    BY <1>5, <2>1, ServeEffect DEF Call, HbTypeOK, RequestInv, Waits, Uncached
  <2>2. CASE /\ ~Throttled(w)
             /\ cacheAge' = [cacheAge EXCEPT ![w] = 0] /\ waiting' = [waiting EXCEPT ![w] = 0]
             /\ UNCHANGED <<claims, seenAge, known>>
    BY <1>5, <2>2 DEF Call, HbTypeOK, RequestInv, Waits, Uncached
  <2> QED BY <1>5, <2>1, <2>2 DEF Call
<1>6. ASSUME NEW w \in Worker, UpsertWorker(w) PROVE HbTypeOK' /\ RequestInv'
  <2>1. CASE /\ fails' = [fails EXCEPT ![w] = 0]
             /\ Serve(w, [seenAge EXCEPT ![w] = 0], known \cup {w})
             /\ proven' = proven \cup ({w} \cap alive)
    <3>1. /\ seenAge' \in [Worker -> 0..WorkerTimeout] /\ seenAge'[w] = 0
          /\ \A v \in Worker \ {w} : seenAge'[v] = seenAge[v]
      BY <2>1 DEF Serve, HbTypeOK
    <3>2. claims' \subseteq Worker /\ known' \subseteq Worker
      BY <2>1 DEF Serve, HbTypeOK
    <3>3. /\ UNCHANGED <<up, alive, sinceCall, cacheAge, sweepIn, orphanFor>>
          /\ waiting' \in [Worker -> 0..NoRequest] /\ fails' \in [Worker -> 0..MaxFailures]
          /\ waiting'[w] = NoRequest /\ fails'[w] = 0
          /\ \A v \in Worker \ {w} : waiting'[v] = waiting[v] /\ fails'[v] = fails[v]
      BY <1>6, <2>1 DEF UpsertWorker, HbTypeOK
    <3>4. HbTypeOK'
      BY <3>1, <3>2, <3>3 DEF HbTypeOK
    <3>5. RequestInv'
      BY <1>6, <2>1, <3>3 DEF UpsertWorker, RequestInv, Waits, Uncached
    <3> QED BY <3>4, <3>5
  <2>2. CASE /\ fails[w] < MaxFailures /\ fails' = [fails EXCEPT ![w] = @ + 1]
             /\ Serve(w, seenAge, known) /\ UNCHANGED proven
    BY <1>6, <2>2, ServeEffect DEF UpsertWorker, HbTypeOK, RequestInv, Waits, Uncached
  <2> QED BY <1>6, <2>1, <2>2 DEF UpsertWorker
<1>7. ASSUME NEW w \in Worker, StartWorker(w) PROVE HbTypeOK' /\ RequestInv'
  BY <1>7 DEF StartWorker, HbTypeOK, RequestInv, Waits, Uncached
<1>8. ASSUME NEW w \in Worker, KillWorker(w) PROVE HbTypeOK' /\ RequestInv'
  BY <1>8 DEF KillWorker, HbTypeOK, RequestInv, Waits, Uncached
<1>9. CASE UNCHANGED hbvars
  BY <1>9 DEF hbvars, HbTypeOK, RequestInv, Waits, Uncached
<1> QED BY <1>1, <1>2, <1>3, <1>4, <1>5, <1>6, <1>7, <1>8, <1>9 DEF HbNext

\* Whatever leaves a worker's heart-beat and the sweeper's clock alone leaves its
\* health alone.
LEMMA HealthFrame ==
    ASSUME NEW w \in Worker, Fresh(w) \/ Recovering(w),
           waiting'[w] = waiting[w], cacheAge'[w] = cacheAge[w], sinceCall'[w] = sinceCall[w],
           fails'[w] = fails[w], seenAge'[w] = seenAge[w], sweepIn' = sweepIn
    PROVE  Fresh(w)' \/ Recovering(w)'
BY DEF Fresh, Recovering, Waits, Cached, Uncached, SinceSweep, Lost

\* Every proven worker stays fresh or recovers before the next sweep.
LEMMA HealthNext ==
    HbTypeOK /\ RequestInv /\ HealthInv /\ [HbNext]_hbvars => HealthInv'
<1> USE Times
<1> SUFFICES ASSUME HbTypeOK, RequestInv, HealthInv, [HbNext]_hbvars, up'
             PROVE  \A v \in proven' : (Fresh(v) \/ Recovering(v))'
  BY DEF HealthInv
<1>0. \A v \in Worker :
         /\ waiting[v] \in 0..NoRequest /\ cacheAge[v] \in 0..TTL
         /\ seenAge[v] \in 0..WorkerTimeout /\ sinceCall[v] \in 0..Gap
         /\ fails[v] \in Nat /\ fails[v] <= MaxFailures
         /\ sweepIn \in 0..SweepInterval
         /\ Waits(v) => cacheAge[v] = waiting[v] /\ waiting[v] <= Delay
         /\ Lost(fails[v]) \in Nat
  BY LostTime DEF HbTypeOK, RequestInv, Waits
<1>01. proven \subseteq Worker
  BY DEF HbTypeOK, RequestInv
<1>1. CASE Tick
  <2>1. up /\ NothingDue /\ sweepIn' = sweepIn - 1 /\ proven' = proven /\ fails' = fails
    BY <1>1 DEF Tick
  <2> SUFFICES ASSUME NEW v \in proven PROVE (Fresh(v) \/ Recovering(v))'
    BY <2>1
  <2>2. /\ cacheAge'[v] = IF cacheAge[v] < TTL THEN cacheAge[v] + 1 ELSE TTL
        /\ waiting'[v] = IF waiting[v] < NoRequest THEN waiting[v] + 1 ELSE NoRequest
        /\ seenAge'[v] <= seenAge[v] + 1
        /\ sinceCall'[v] = sinceCall[v] + 1
        /\ Waits(v) => waiting[v] < Delay
    <3>1. v \in alive /\ sinceCall[v] < Gap
      BY <2>1 DEF RequestInv, NothingDue
    <3> QED BY <1>01, <1>1, <2>1, <3>1, OlderAge DEF Tick, HbTypeOK, NothingDue, Waits
  <2>3. seenAge'[v] \in Nat /\ v \in Worker /\ sweepIn' \in Nat /\ sweepIn \in Nat
    BY <1>0, <1>01, <1>1, <2>1, OlderAge DEF Tick, HbTypeOK, NothingDue
  <2>4. Waits(v)' <=> Waits(v)
    BY <1>0, <2>2, <2>3 DEF Waits
  <2>5. CASE Fresh(v)
    <3>1. Fresh(v)'
      BY <1>0, <2>1, <2>2, <2>3, <2>4, <2>5 DEF Fresh, Waits, Cached, Uncached, Lost
    <3> QED BY <3>1
  <2>6. CASE Recovering(v)
    <3>1. Lost(fails[v]) = Lost(fails[v] - 1) + Period \/ fails[v] = 0
      BY <1>0, <2>3, LostTime
    <3>2. fails'[v] = fails[v] /\ Lost(fails[v])' = Lost(fails[v])
          /\ Lost(fails[v] - 1)' = Lost(fails[v] - 1)
      BY <2>1 DEF Lost
    <3>3. (fails[v] > 0 => Lost(fails[v] - 1) \in Nat) /\ SinceSweep' = SinceSweep + 1
      BY <1>0, <2>1, <2>3, LostTime DEF SinceSweep
    <3>4. SinceSweep \in Nat
      BY <1>0, <2>3 DEF SinceSweep
    <3>5. CASE Waits(v)
      BY <1>0, <2>2, <2>3, <2>4, <2>6, <3>2, <3>3, <3>4, <3>5 DEF Recovering, Cached, Uncached
    <3>6. CASE Cached(v)
      BY <1>0, <2>2, <2>3, <2>4, <2>6, <3>1, <3>2, <3>3, <3>4, <3>6
         DEF Recovering, Cached, Uncached
    <3>7. CASE Uncached(v)
      BY <1>0, <2>2, <2>3, <2>4, <2>6, <3>2, <3>3, <3>4, <3>7 DEF Recovering, Cached, Uncached
    <3> QED BY <1>0, <2>3, <3>5, <3>6, <3>7 DEF Cached, Uncached
  <2> QED BY <2>5, <2>6, <2>1 DEF HealthInv
<1>2. CASE Sweep
  <2> SUFFICES ASSUME NEW v \in proven PROVE (Fresh(v) \/ Recovering(v))'
    BY <1>2 DEF Sweep
  <2>1. v \in Worker /\ (Fresh(v) \/ Recovering(v))
    BY <1>01, <1>2 DEF Sweep, HealthInv
  <2>2. UNCHANGED <<sinceCall, cacheAge, waiting, seenAge, fails>> /\ sweepIn' = SweepInterval
    BY <1>2 DEF Sweep
  <2>3. CASE Fresh(v)
    BY <2>2, <2>3 DEF Fresh, Waits, Cached, Uncached, Lost
  <2>4. CASE Recovering(v)
    <3>1. fails[v] > 0 => Lost(fails[v] - 1) \in Nat
      BY <1>0, <2>1, LostTime
    <3>2. SinceSweep' = 0
      BY <2>2 DEF SinceSweep
    <3>3. Recovering(v)'
      BY <1>0, <2>1, <2>2, <2>4, <3>1, <3>2 DEF Recovering, Waits, Cached, Uncached, Lost
    <3> QED BY <3>3
  <2> QED BY <2>1, <2>3, <2>4
<1>3. CASE StopServe
  BY <1>3 DEF StopServe
<1>4. CASE StartServe
  <2> SUFFICES ASSUME NEW v \in proven PROVE Recovering(v)'
    BY <1>4 DEF StartServe
  <2>1. v \in Worker /\ Uncached(v) /\ UNCHANGED <<waiting, cacheAge, fails>>
        /\ sweepIn' = SweepInterval /\ sinceCall'[v] = 0
    BY <1>01, <1>4 DEF StartServe, RequestInv
  <2> QED BY <1>0, <2>1 DEF Recovering, Waits, Cached, Uncached, SinceSweep, Lost
<1>5. ASSUME NEW w \in Worker, Call(w) PROVE \A v \in proven' : (Fresh(v) \/ Recovering(v))'
  <2> SUFFICES ASSUME NEW v \in proven PROVE (Fresh(v) \/ Recovering(v))'
    BY <1>5 DEF Call
  <2>1. v \in Worker /\ (Fresh(v) \/ Recovering(v))
        /\ UNCHANGED <<fails, sweepIn>> /\ SinceSweep' = SinceSweep
    BY <1>01, <1>5 DEF Call, HealthInv, SinceSweep
  <2>2. CASE v # w
    <3>1. /\ waiting'[v] = waiting[v] /\ cacheAge'[v] = cacheAge[v]
          /\ sinceCall'[v] = sinceCall[v] /\ seenAge'[v] = seenAge[v]
      BY <1>5, <2>1, <2>2 DEF Call, Serve, HbTypeOK
    <3> QED BY <2>1, <3>1, HealthFrame
  <2>3. CASE v = w /\ Throttled(w)
    <3>1. UNCHANGED <<cacheAge, waiting>> /\ Serve(w, seenAge, known)
      BY <1>5, <2>3 DEF Call
    <3>2. ~Uncached(w) /\ ~Uncached(w)' /\ seenAge'[w] \in {0, seenAge[w]}
      BY <1>0, <2>3, <3>1 DEF Serve, Throttled, Uncached, HbTypeOK
    <3> QED BY <1>0, <2>1, <2>3, <3>1, <3>2
            DEF Fresh, Recovering, Waits, Cached, Lost
  <2>4. CASE v = w /\ ~Throttled(w)
    <3>1. Uncached(w) /\ cacheAge'[w] = 0 /\ waiting'[w] = 0 /\ UNCHANGED seenAge
      BY <1>0, <1>5, <2>4 DEF Call, Throttled, Waits, Uncached, HbTypeOK
    <3>2. Lost(fails[w])' = Lost(fails[w]) /\ Waits(w)' /\ SinceSweep \in Nat
      BY <1>0, <2>1, <3>1 DEF Lost, Waits, SinceSweep
    <3>3. Fresh(w) => Fresh(w)'
      BY <1>0, <2>1, <3>1, <3>2 DEF Fresh, Cached, Uncached
    <3>4. Recovering(w) => Recovering(w)'
      BY <1>0, <2>1, <3>1, <3>2 DEF Recovering, Cached, Uncached
    <3> QED BY <2>1, <2>4, <3>3, <3>4
  <2> QED BY <2>2, <2>3, <2>4
<1>6. ASSUME NEW w \in Worker, UpsertWorker(w)
      PROVE  \A v \in proven' : (Fresh(v) \/ Recovering(v))'
  <2> SUFFICES ASSUME NEW v \in proven' PROVE (Fresh(v) \/ Recovering(v))'
    OBVIOUS
  <2>1. /\ UNCHANGED <<up, sinceCall, cacheAge, sweepIn>> /\ SinceSweep' = SinceSweep
        /\ proven' \subseteq proven \cup {w}
    BY <1>6 DEF UpsertWorker, SinceSweep
  <2>2. v \in Worker /\ (v # w => v \in proven)
    BY <1>01, <2>1
  <2>3. CASE v # w
    <3>1. /\ waiting'[v] = waiting[v] /\ fails'[v] = fails[v] /\ seenAge'[v] = seenAge[v]
      BY <1>6, <2>2, <2>3 DEF UpsertWorker, Serve, HbTypeOK
    <3> QED BY <2>1, <2>2, <2>3, <3>1, HealthFrame DEF HealthInv
  <2>4. CASE v = w /\ fails'[w] = 0
    <3>1. /\ ~Waits(w)' /\ Cached(w)' /\ seenAge'[w] = 0
      BY <1>0, <1>6, <2>4 DEF UpsertWorker, Serve, Waits, Cached, HbTypeOK
    <3> QED BY <1>0, <2>1, <2>4, <3>1 DEF Fresh, Waits, Cached, Uncached, Lost
  <2>5. CASE v = w /\ fails'[w] # 0
    <3>1. /\ Waits(w) /\ Cached(w)' /\ fails'[w] = fails[w] + 1
          /\ seenAge'[w] \in {0, seenAge[w]} /\ w \in proven /\ cacheAge[w] = waiting[w]
      BY <1>0, <1>6, <2>2, <2>5 DEF UpsertWorker, Serve, Waits, Cached, HbTypeOK
    <3>2. /\ Lost(fails[w])' = Lost(fails[w]) + Period
          /\ Lost(fails[w] - 1)' = Lost(fails[w])
      BY <1>0, <3>1, LostTime DEF Lost
    <3>3. Fresh(w) \/ Recovering(w)
      BY <2>1, <3>1 DEF HealthInv
    <3>4. Fresh(w) => Fresh(w)'
      BY <1>0, <2>1, <3>1, <3>2 DEF Fresh, Cached, Uncached
    <3>5. Recovering(w) => Recovering(w)'
      BY <1>0, <2>1, <3>1, <3>2 DEF Recovering, Cached, Uncached
    <3> QED BY <2>5, <3>3, <3>4, <3>5
  <2> QED BY <2>3, <2>4, <2>5
<1>7. ASSUME NEW w \in Worker, StartWorker(w)
      PROVE  \A v \in proven' : (Fresh(v) \/ Recovering(v))'
  <2> SUFFICES ASSUME NEW v \in proven PROVE (Fresh(v) \/ Recovering(v))'
    BY <1>7 DEF StartWorker
  <2>1. v \in Worker /\ v # w /\ (Fresh(v) \/ Recovering(v))
    BY <1>01, <1>7 DEF StartWorker, RequestInv, HealthInv
  <2>2. sinceCall'[v] = sinceCall[v]
    BY <1>7, <2>1 DEF StartWorker, HbTypeOK
  <2> QED BY <1>7, <2>1, <2>2, HealthFrame DEF StartWorker
<1>8. ASSUME NEW w \in Worker, KillWorker(w)
      PROVE  \A v \in proven' : (Fresh(v) \/ Recovering(v))'
  BY <1>01, <1>8, HealthFrame DEF KillWorker, HealthInv
<1>9. CASE UNCHANGED hbvars
  BY <1>01, <1>9, HealthFrame DEF hbvars, HealthInv
<1> QED BY <1>1, <1>2, <1>3, <1>4, <1>5, <1>6, <1>7, <1>8, <1>9 DEF HbNext

\* Death starts the clock, the request left behind stops within Delay, and the
\* sweep that follows the timeout takes the claims.
LEMMA OrphanNext ==
    HbTypeOK /\ RequestInv /\ OrphanInv /\ [HbNext]_hbvars => OrphanInv'
<1> USE Times
<1> SUFFICES ASSUME HbTypeOK, RequestInv, OrphanInv, [HbNext]_hbvars, up',
                    NEW v \in Worker, v \notin alive'
             PROVE  /\ v \in claims' => orphanFor'[v] + sweepIn' < Overdue
                    /\ Waits(v)' => orphanFor'[v] <= waiting'[v]
                    /\ ~Waits(v)' => \/ seenAge'[v] = WorkerTimeout
                                     \/ orphanFor'[v] <= seenAge'[v] + Delay
  BY DEF OrphanInv
<1>0. /\ waiting[v] \in 0..NoRequest /\ seenAge[v] \in 0..WorkerTimeout
      /\ orphanFor[v] \in 0..Overdue /\ sweepIn \in 0..SweepInterval
      /\ Waits(v) => waiting[v] <= Delay
  BY DEF HbTypeOK, Waits
<1>1. CASE Tick
  <2>1. /\ up /\ v \notin alive /\ sweepIn > 0 /\ sweepIn' = sweepIn - 1 /\ claims' = claims
        /\ Waits(v) => waiting[v] < Delay
    BY <1>1 DEF Tick, NothingDue, Waits
  <2>2. /\ waiting'[v] = IF waiting[v] < NoRequest THEN waiting[v] + 1 ELSE NoRequest
        /\ seenAge'[v] = IF seenAge[v] < WorkerTimeout THEN seenAge[v] + 1 ELSE WorkerTimeout
        /\ orphanFor'[v] = IF orphanFor[v] < Overdue THEN orphanFor[v] + 1 ELSE Overdue
    BY <1>1, OlderAge DEF Tick, HbTypeOK
  <2> QED BY <1>0, <2>1, <2>2 DEF OrphanInv, Waits
<1>2. CASE Sweep
  <2>1. v \in claims' => v \in claims /\ seenAge[v] < WorkerTimeout
    BY <1>0, <1>2 DEF Sweep, Stale
  <2>2. v \notin alive /\ up /\ sweepIn' = SweepInterval
        /\ UNCHANGED <<waiting, seenAge, orphanFor>>
    BY <1>2 DEF Sweep
  <2>3. v \in claims' => orphanFor[v] <= seenAge[v] + Delay \/ orphanFor[v] <= waiting[v]
    BY <1>0, <2>1, <2>2 DEF OrphanInv
  <2>4. v \in claims' => orphanFor[v] < WorkerTimeout + Delay
    BY <1>0, <2>1, <2>2, <2>3 DEF OrphanInv, Waits
  <2> QED BY <1>0, <2>2, <2>4 DEF OrphanInv, Waits
<1>3. CASE StopServe
  BY <1>3 DEF StopServe
<1>4. CASE StartServe
  BY <1>0, <1>4 DEF StartServe, RequestInv, Uncached, Waits
<1>5. ASSUME NEW w \in Worker, Call(w)
      PROVE  /\ v \in claims' => orphanFor'[v] + sweepIn' < Overdue
             /\ Waits(v)' => orphanFor'[v] <= waiting'[v]
             /\ ~Waits(v)' => \/ seenAge'[v] = WorkerTimeout
                              \/ orphanFor'[v] <= seenAge'[v] + Delay
  <2>1. v # w /\ v \notin alive /\ up
    BY <1>5 DEF Call
  <2>2. waiting'[v] = waiting[v] /\ seenAge'[v] = seenAge[v] /\ (v \in claims' <=> v \in claims)
    BY <1>5, <2>1 DEF Call, Serve, HbTypeOK
  <2> QED BY <1>5, <2>1, <2>2 DEF Call, OrphanInv, Waits
<1>6. ASSUME NEW w \in Worker, UpsertWorker(w)
      PROVE  /\ v \in claims' => orphanFor'[v] + sweepIn' < Overdue
             /\ Waits(v)' => orphanFor'[v] <= waiting'[v]
             /\ ~Waits(v)' => \/ seenAge'[v] = WorkerTimeout
                              \/ orphanFor'[v] <= seenAge'[v] + Delay
  <2>1. v \notin alive /\ up /\ UNCHANGED <<orphanFor, sweepIn>> /\ Waits(w)
        /\ waiting' = [waiting EXCEPT ![w] = NoRequest]
    BY <1>6 DEF UpsertWorker, Waits
  <2>2. CASE v # w
    <3>1. waiting'[v] = waiting[v] /\ seenAge'[v] = seenAge[v]
          /\ (v \in claims' <=> v \in claims)
      BY <1>6, <2>2 DEF UpsertWorker, Serve, HbTypeOK
    <3> QED BY <2>1, <3>1 DEF OrphanInv, Waits
  <2>3. CASE v = w
    <3>1. orphanFor[v] <= Delay /\ ~Waits(v)'
      BY <1>0, <2>1, <2>3 DEF OrphanInv, Waits, HbTypeOK
    <3>2. seenAge'[v] \in {0, seenAge[v]}
      BY <1>6, <2>3 DEF UpsertWorker, Serve, HbTypeOK
    <3> QED BY <1>0, <2>1, <3>1, <3>2
  <2> QED BY <2>2, <2>3
<1>7. ASSUME NEW w \in Worker, StartWorker(w)
      PROVE  /\ v \in claims' => orphanFor'[v] + sweepIn' < Overdue
             /\ Waits(v)' => orphanFor'[v] <= waiting'[v]
             /\ ~Waits(v)' => \/ seenAge'[v] = WorkerTimeout
                              \/ orphanFor'[v] <= seenAge'[v] + Delay
  BY <1>7 DEF StartWorker, OrphanInv, Waits
<1>8. ASSUME NEW w \in Worker, KillWorker(w)
      PROVE  /\ v \in claims' => orphanFor'[v] + sweepIn' < Overdue
             /\ Waits(v)' => orphanFor'[v] <= waiting'[v]
             /\ ~Waits(v)' => \/ seenAge'[v] = WorkerTimeout
                              \/ orphanFor'[v] <= seenAge'[v] + Delay
  <2>1. CASE v = w
    BY <1>0, <1>8, <2>1 DEF KillWorker, HbTypeOK, Waits
  <2>2. CASE v # w
    BY <1>0, <1>8, <2>2 DEF KillWorker, HbTypeOK, OrphanInv, Waits
  <2> QED BY <2>1, <2>2
<1>9. CASE UNCHANGED hbvars
  BY <1>9 DEF hbvars, OrphanInv, Waits
<1> QED BY <1>1, <1>2, <1>3, <1>4, <1>5, <1>6, <1>7, <1>8, <1>9 DEF HbNext

\* The four parts together, for every reachable state.
THEOREM HbInvariant == HbSpec => []HbInv
<1>1. HbInv /\ [HbNext]_hbvars => HbInv'
  BY TypeAndRequestNext, HealthNext, OrphanNext DEF HbInv
<1> QED BY <1>1, HbInvInit, PTL DEF HbSpec

-----------------------------------------------------------------------------
(* What the invariant says of the properties the run checks. *)

\* Ages stay in range, and last_seen is never older than the throttle's stamp
\* unless a write failed or is under way.
THEOREM HeartbeatTyped == HbSpec => []HbTypeOK
BY HbInvariant, PTL DEF HbInv

\* A dead worker's claims are back in the queue before the timeout, a sweep
\* interval and one wait for the lock have passed.
THEOREM OrphansReclaimed == HbSpec => []ReclaimedInTime
<1>1. HbInv => ReclaimedInTime
  BY Times DEF HbInv, HbTypeOK, OrphanInv, ReclaimedInTime
<1> QED BY <1>1, HbInvariant, PTL

\* When the times fit, the sweeper never takes a run from a live worker whose
\* first heart-beat got through.
THEOREM LiveClaimsKept == HbSpec => HealthyKeepsClaims
<1>1. HbInv /\ [HbNext]_hbvars =>
         [TimesFit => \A w \in proven : ~SweepsClaimOf(w)]_hbvars
  <2> USE Times
  <2> SUFFICES ASSUME HbInv, [HbNext]_hbvars, TimesFit, NEW w \in proven, SweepsClaimOf(w)
               PROVE  FALSE
    OBVIOUS
  <2>1. Sweep
    <3>1. claims' # claims /\ sweepIn' > sweepIn /\ sweepIn \in Nat
      BY DEF SweepsClaimOf, HbInv, HbTypeOK
    <3>2. ~Tick /\ ~StopServe /\ ~StartServe /\ ~UNCHANGED hbvars
      BY <3>1 DEF Tick, StopServe, StartServe, hbvars
    <3>3. \A v \in Worker : ~Call(v) /\ ~UpsertWorker(v) /\ ~StartWorker(v) /\ ~KillWorker(v)
      BY <3>1 DEF Call, UpsertWorker, StartWorker, KillWorker
    <3> QED BY <3>2, <3>3 DEF HbNext
  <2>2. /\ w \in Worker /\ seenAge[w] = WorkerTimeout /\ SinceSweep = SweepInterval
        /\ Fresh(w) \/ Recovering(w)
    BY <2>1 DEF Sweep, Stale, SweepsClaimOf, HbInv, HbTypeOK, RequestInv, HealthInv, SinceSweep
  <2>3. /\ fails[w] \in Nat /\ fails[w] <= MaxFailures
        /\ waiting[w] \in 0..NoRequest /\ cacheAge[w] \in 0..TTL /\ sinceCall[w] \in 0..Gap
        /\ Waits(w) => waiting[w] <= Delay
    BY <2>2 DEF HbInv, HbTypeOK, Waits
  <2>4. /\ Lost(fails[w]) \in Nat /\ Lost(MaxFailures) \in Nat
        /\ Lost(fails[w]) <= Lost(MaxFailures)
        /\ fails[w] > 0 => Lost(fails[w]) = Lost(fails[w] - 1) + Period
                           /\ Lost(fails[w] - 1) \in Nat
    BY <2>3, LostTime
  <2>5. /\ Lost(MaxFailures) + Period + Delay < WorkerTimeout
        /\ Lost(MaxFailures) + Gap + Delay < SweepInterval
    BY LostTime DEF TimesFit, Lost
  <2>6. ~Fresh(w)
    BY <2>2, <2>3, <2>4, <2>5 DEF Fresh, Cached, Uncached
  <2>7. ~Recovering(w)
    BY <2>2, <2>3, <2>4, <2>5 DEF Recovering, Cached, Uncached
  <2> QED BY <2>2, <2>6, <2>7
<1> QED BY <1>1, HbInvariant, PTL DEF HbSpec, HealthyKeepsClaims
=============================================================================
