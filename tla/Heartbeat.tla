------------------------------ MODULE Heartbeat -----------------------------
(***************************************************************************)
(* The heart-beat against the clock: the middleware with its throttle      *)
(* (server/heartbeat.go), the sweeper's ticker and cutoff (sweeper.go) and *)
(* the configured times.  RunQueue and Evals let a worker grow stale at    *)
(* any moment; this module says when it does.                              *)
(*                                                                         *)
(* Time is discrete and kept as ages, so no bound on it is needed: an age  *)
(* stops counting where nothing tells it from an older one.  A tick waits  *)
(* for what is due: a live worker's next call, a request that has waited   *)
(* for writeMu as long as one can, the sweeper's tick.                     *)
(***************************************************************************)
EXTENDS Naturals, FiniteSets

CONSTANTS
    Worker,
    TTL,            \* heartbeatTTL
    WorkerTimeout, SweepInterval,
    Gap,            \* longest pause between two calls of a live worker
    Delay,          \* longest wait of a request for writeMu
    MaxFailures     \* failed upserts of a worker in a row

ASSUME TimesAssumption ==
    /\ TTL \in Nat /\ WorkerTimeout \in Nat \ {0} /\ SweepInterval \in Nat \ {0}
    /\ Gap \in Nat \ {0} /\ Delay \in Nat /\ MaxFailures \in Nat
    /\ Delay < TTL

VARIABLES
    up,         \* serve runs
    alive,      \* workers whose process runs
    sinceCall,  \* age of the worker's latest call
    cacheAge,   \* age of hbCache[w]; TTL stands for anything older and for none
    waiting,    \* age of a request that will upsert; NoRequest if there is none
    seenAge,    \* age of last_seen; WorkerTimeout stands for older and for no row
    known,      \* workers that have a row
    proven,     \* live workers whose row was written in this life (history)
    fails,      \* upserts of the worker that failed since the last that did not
    claims,     \* workers that the runs table names in a claimed row
    sweepIn,    \* time to the sweeper's next tick
    orphanFor   \* age of a dead worker's death, or of serve's start if later

hbvars == <<up, alive, sinceCall, cacheAge, waiting, seenAge, known, proven, fails,
            claims, sweepIn, orphanFor>>

NoRequest == Delay + 1
Overdue == WorkerTimeout + SweepInterval + Delay

\* One tick older, up to the age where counting stops.
Older(age, cap) == [w \in Worker |-> IF age[w] < cap THEN age[w] + 1 ELSE cap]

HbInit ==
    /\ up = TRUE /\ alive = {}
    /\ sinceCall = [w \in Worker |-> 0]
    /\ cacheAge = [w \in Worker |-> TTL]
    /\ waiting = [w \in Worker |-> NoRequest]
    /\ seenAge = [w \in Worker |-> WorkerTimeout]
    /\ known = {} /\ proven = {} /\ claims = {}
    /\ fails = [w \in Worker |-> 0]
    /\ sweepIn = SweepInterval
    /\ orphanFor = [w \in Worker |-> 0]

-----------------------------------------------------------------------------
(* The middleware and the handler behind it. *)

\* The handler: a claim, a result, of which a success bumps last_seen in an
\* existing row, or anything else.  `seen` is last_seen as the middleware left it.
Serve(w, seen, rows) ==
    /\ \/ claims' \in {claims, claims \cup {w}} /\ seenAge' = seen
       \/ /\ w \in claims /\ claims' = claims \ {w}
          /\ \/ seenAge' = seen
             \/ w \in rows /\ seenAge' = [seen EXCEPT ![w] = 0]
    /\ known' = rows

Throttled(w) == cacheAge[w] < TTL

\* Variant: the cache is stamped by every call.
CallRestamps(w) ==
    /\ up /\ w \in alive
    /\ sinceCall' = [sinceCall EXCEPT ![w] = 0]
    /\ cacheAge' = [cacheAge EXCEPT ![w] = 0]
    /\ \/ /\ Throttled(w)
          /\ Serve(w, seenAge, known)
          /\ UNCHANGED waiting
       \/ /\ ~Throttled(w)
          /\ waiting' = [waiting EXCEPT ![w] = 0]
          /\ UNCHANGED <<claims, seenAge, known>>
    /\ UNCHANGED <<up, alive, proven, fails, sweepIn, orphanFor>>

\* shouldHeartbeat: within the TTL the call goes straight to its handler;
\* beyond it the cache is stamped now and the row written later.
Call(w) ==
    /\ up /\ w \in alive
    /\ sinceCall' = [sinceCall EXCEPT ![w] = 0]
    /\ \/ /\ Throttled(w)
          /\ Serve(w, seenAge, known)
          /\ UNCHANGED <<cacheAge, waiting>>
       \/ /\ ~Throttled(w)
          /\ cacheAge' = [cacheAge EXCEPT ![w] = 0]
          /\ waiting' = [waiting EXCEPT ![w] = 0]
          /\ UNCHANGED <<claims, seenAge, known>>
    /\ UNCHANGED <<up, alive, proven, fails, sweepIn, orphanFor>>

\* Variant: a row is only ever inserted.
InsertWorker(w) ==
    /\ waiting[w] # NoRequest
    /\ waiting' = [waiting EXCEPT ![w] = NoRequest]
    /\ \/ /\ fails' = [fails EXCEPT ![w] = 0]
          /\ Serve(w, IF w \in known THEN seenAge ELSE [seenAge EXCEPT ![w] = 0],
                   known \cup {w})
          /\ proven' = proven \cup ({w} \cap alive)
       \/ /\ fails[w] < MaxFailures
          /\ fails' = [fails EXCEPT ![w] = @ + 1]
          /\ Serve(w, seenAge, known)
          /\ UNCHANGED proven
    /\ UNCHANGED <<up, alive, sinceCall, cacheAge, sweepIn, orphanFor>>

\* upsertWorker, with `now` read under the lock; a failure is only logged and
\* leaves the cache stamped.
UpsertWorker(w) ==
    /\ waiting[w] # NoRequest
    /\ waiting' = [waiting EXCEPT ![w] = NoRequest]
    /\ \/ /\ fails' = [fails EXCEPT ![w] = 0]
          /\ Serve(w, [seenAge EXCEPT ![w] = 0], known \cup {w})
          /\ proven' = proven \cup ({w} \cap alive)
       \/ /\ fails[w] < MaxFailures
          /\ fails' = [fails EXCEPT ![w] = @ + 1]
          /\ Serve(w, seenAge, known)
          /\ UNCHANGED proven
    /\ UNCHANGED <<up, alive, sinceCall, cacheAge, sweepIn, orphanFor>>

-----------------------------------------------------------------------------
(* The sweeper. *)

\* Variant: a worker without a row is not looked at.
StaleKnown == {w \in known : seenAge[w] >= WorkerTimeout}

\* last_seen > now - WorkerTimeout is fresh; a worker without a row is not.
Stale == {w \in Worker : seenAge[w] >= WorkerTimeout}

Sweep ==
    /\ up /\ sweepIn = 0
    /\ claims' = claims \ Stale
    /\ sweepIn' = SweepInterval
    /\ UNCHANGED <<up, alive, sinceCall, cacheAge, waiting, seenAge, known, proven,
                   fails, orphanFor>>

-----------------------------------------------------------------------------
(* Time and processes. *)

NothingDue ==
    /\ sweepIn > 0
    /\ \A w \in alive : sinceCall[w] < Gap
    /\ \A w \in Worker : waiting[w] # NoRequest => waiting[w] < Delay

Tick ==
    /\ up => NothingDue
    /\ sinceCall' = Older(sinceCall, Gap)
    /\ cacheAge' = Older(cacheAge, TTL)
    /\ waiting' = Older(waiting, NoRequest)
    /\ seenAge' = Older(seenAge, WorkerTimeout)
    /\ orphanFor' = Older(orphanFor, Overdue)
    /\ sweepIn' = IF up THEN sweepIn - 1 ELSE sweepIn
    /\ UNCHANGED <<up, alive, known, proven, fails, claims>>

\* A worker starts, for the first time or again under its name.
StartWorker(w) ==
    /\ w \notin alive
    /\ alive' = alive \cup {w}
    /\ sinceCall' = [sinceCall EXCEPT ![w] = 0]
    /\ UNCHANGED <<up, cacheAge, waiting, seenAge, known, proven, fails, claims, sweepIn,
                   orphanFor>>

\* A request it had sent may still be served.
KillWorker(w) ==
    /\ w \in alive
    /\ alive' = alive \ {w}
    /\ orphanFor' = [orphanFor EXCEPT ![w] = 0]
    /\ proven' = proven \ {w}
    /\ UNCHANGED <<up, sinceCall, cacheAge, waiting, seenAge, known, fails, claims,
                   sweepIn>>

\* serve stops, for a crash or an upgrade: the throttle's cache is in its memory.
StopServe ==
    /\ up /\ up' = FALSE
    /\ cacheAge' = [w \in Worker |-> TTL]
    /\ waiting' = [w \in Worker |-> NoRequest]
    /\ UNCHANGED <<alive, sinceCall, seenAge, known, proven, fails, claims, sweepIn,
                   orphanFor>>

\* Workers have been retrying; the ticker starts over.
StartServe ==
    /\ ~up /\ up' = TRUE
    /\ sweepIn' = SweepInterval
    /\ sinceCall' = [w \in Worker |-> 0]
    /\ orphanFor' = [w \in Worker |-> 0]
    /\ UNCHANGED <<alive, cacheAge, waiting, seenAge, known, proven, fails, claims>>

HbNext ==
    \/ Tick \/ Sweep \/ StopServe \/ StartServe
    \/ \E w \in Worker : Call(w) \/ UpsertWorker(w) \/ StartWorker(w) \/ KillWorker(w)

HbSpec == HbInit /\ [][HbNext]_hbvars
-----------------------------------------------------------------------------
(* Properties. *)

\* Shapes; and the order of the two stamps: while serve runs, unless a write
\* failed or is under way, last_seen is no older than the cache entry that stands
\* for it.
HbTypeOK ==
    /\ up \in BOOLEAN /\ alive \subseteq Worker /\ known \subseteq Worker
    /\ sinceCall \in [Worker -> 0..Gap]
    /\ cacheAge \in [Worker -> 0..TTL]
    /\ waiting \in [Worker -> 0..NoRequest]
    /\ seenAge \in [Worker -> 0..WorkerTimeout]
    /\ fails \in [Worker -> 0..MaxFailures]
    /\ claims \subseteq Worker
    /\ sweepIn \in 0..SweepInterval
    /\ orphanFor \in [Worker -> 0..Overdue]
    /\ \A w \in Worker :
          cacheAge[w] < TTL /\ fails[w] = 0 /\ waiting[w] = NoRequest
             => seenAge[w] <= cacheAge[w]

\* From a stamp of the cache to the next: the last throttled call comes before
\* the TTL is over, the one after it at most Gap later.
Period == TTL + Gap - 1

\* The times fit: MaxFailures lost writes in a row, each hidden for a period, fit
\* into the timeout, and into the first sweep interval after a start of serve.
TimesFit ==
    /\ (MaxFailures + 1) * Period + Delay < WorkerTimeout
    /\ MaxFailures * Period + Gap + Delay < SweepInterval

SweepsClaimOf(w) == w \in claims \ claims' /\ sweepIn' > sweepIn

\* sweeper.go: "a healthy worker will keep its claimed runs locked".  If the
\* times fit, a live worker whose first heart-beat got through is never swept:
\* throttle, waits for the lock, lost writes and restarts of serve do not add up
\* to more than the timeout.
HealthyKeepsClaims ==
    [][TimesFit => \A w \in proven : ~SweepsClaimOf(w)]_hbvars

\* README, orphan recovery: a dead worker's claims return to the queue within
\* WORKER_TIMEOUT + SWEEP_INTERVAL of its death, or of the last start of serve,
\* and of the request it may have left in the queue for the lock.
ReclaimedInTime ==
    \A w \in claims : up /\ w \notin alive => orphanFor[w] < Overdue
=============================================================================
