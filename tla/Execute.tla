------------------------------ MODULE Execute -------------------------------
(***************************************************************************)
(* One attempt at a run inside a worker process (worker.execute): bundle,  *)
(* artifact and working directory, the wrapper process, and the three      *)
(* concurrent parts that decide what is reported: the goroutine in         *)
(* cmd.Wait, the watchdog that polls the server, and os/exec's goroutine   *)
(* that kills the process group when the run's context is done.            *)
(*                                                                         *)
(* Evals takes an attempt as a job with five phases; JobLife states them   *)
(* and this module implements it.  Slots share the bundle cache, and the   *)
(* slots of one process share its shutdown.                                *)
(***************************************************************************)
EXTENDS BundleCache

CONSTANTS
    Process, ProcessOf,  \* the worker process of each slot
    Engine,              \* what a wrapper may start: "tethered" (keeps the
                         \* wrapper's output open), "loose" (redirects it)
    LeaveBehind,         \* whether a wrapper may end before its engines
    MaxLitter,           \* bound: temporary trees left by deaths
    Runner,              \* bound: slots whose wrapper starts, the others only
                         \* use the cache
    NoReport

ASSUME ExecuteAssumption ==
    /\ ProcessOf \in [Slot -> Process]
    /\ Engine \subseteq {"tethered", "loose"} /\ LeaveBehind \in BOOLEAN
    /\ MaxLitter \in Nat /\ Runner \subseteq Slot

VARIABLES
    job,        \* the locals of each slot's execute
    cancelled,  \* slots whose run's row is cancelled
    stopping    \* processes that got SIGTERM: ctx is cancelled

xvars == <<cacheVars, job, cancelled, stopping>>

Member == {"wrapper"} \cup Engine

Job == [pc       : {"idle", "ensure", "waiting", "draining", "sampling", "joining",
                    "reporting"},
        group    : SUBSET Member,                      \* live process group
        exit     : {"none", "exit 0", "exit 1", "killed"},  \* of the wrapper
        ctxErr   : {"none", "canceled", "deadline"},   \* runCtx.Err(): the first cause
        killer   : {"off", "armed", "fired"},          \* os/exec's watchCtx
        watch    : {"off", "select", "polling", "seen", "flagged", "done"},
        flag     : BOOLEAN,                            \* cancelledByServer
        timedOut : BOOLEAN,
        report   : {"succeeded", "failed", "timed_out", "cancelled", NoReport}]

NoJob == [pc |-> "idle", group |-> {}, exit |-> "none", ctxErr |-> "none",
          killer |-> "off", watch |-> "off", flag |-> FALSE, timedOut |-> FALSE,
          report |-> NoReport]

Stopping(x) == ProcessOf[x] \in stopping
SlotsOf(p) == {x \in Slot : ProcessOf[x] = p}
Running(x) == job[x].pc \in {"waiting", "draining", "sampling"}

\* A step of slot x that touches nothing but its own locals.
Local(x, next) ==
    /\ job' = [job EXCEPT ![x] = next]
    /\ UNCHANGED <<cacheVars, cancelled, stopping>>

\* A context is cancelled once: the first cause stays.
Cause(j, why) == [j EXCEPT !.ctxErr = IF @ = "none" THEN why ELSE @]

-----------------------------------------------------------------------------
XInit ==
    /\ CacheInit
    /\ job = [x \in Slot |-> NoJob]
    /\ cancelled = {} /\ stopping = {}

\* pull: a claimed run takes the slot.  With ctx cancelled the claim call fails.
Begin(x) ==
    /\ job[x].pc = "idle" /\ ~Stopping(x)
    /\ job' = [job EXCEPT ![x].pc = "ensure"]
    /\ Goto(x, "stat")
    /\ cancelled' = cancelled \ {x}
    /\ UNCHANGED <<dest, tmp, stopping>>

Ensure(x) ==
    /\ job[x].pc = "ensure"
    /\ CacheStep(x, ~Stopping(x))
    /\ UNCHANGED <<job, cancelled, stopping>>

\* reportFailure before the wrapper runs: no bundle, no artifact, a working
\* directory that cannot be laid out, a wrapper that is missing or will not start.
FailToStart(x) ==
    /\ job[x].pc = "ensure" /\ call[x].at \in {"ready", "failed"}
    /\ job' = [job EXCEPT ![x].pc = "reporting", ![x].report = "failed"]
    /\ Goto(x, "none")
    /\ UNCHANGED <<dest, tmp, cancelled, stopping>>

\* FetchSubmission, layoutWorkdir and cmd.Start succeed; the watchdog starts.
Start(x) ==
    /\ job[x].pc = "ensure" /\ call[x].at = "ready" /\ ~Stopping(x)
    /\ x \in Runner
    /\ Goto(x, "none")
    /\ \E S \in SUBSET Engine :
          job' = [job EXCEPT ![x] = [NoJob EXCEPT
                     !.pc = "waiting", !.group = {"wrapper"} \cup S,
                     !.killer = "armed", !.watch = "select"]]
    /\ UNCHANGED <<dest, tmp, cancelled, stopping>>

-----------------------------------------------------------------------------
(* The wrapper's process group and the run's context. *)

WrapperExits(x, how) ==
    /\ "wrapper" \in job[x].group
    /\ LeaveBehind \/ job[x].group = {"wrapper"}
    /\ Local(x, [job[x] EXCEPT !.group = @ \ {"wrapper"}, !.exit = how])

EngineExits(x, e) ==
    /\ e \in job[x].group \ {"wrapper"}
    /\ Local(x, [job[x] EXCEPT !.group = @ \ {e}])

\* The suite timeout fires.
Deadline(x) ==
    /\ Running(x) /\ job[x].ctxErr = "none"
    /\ Local(x, Cause(job[x], "deadline"))

\* cmd.Cancel on the whole group, engines that outlived the wrapper included.
Kill(x) ==
    /\ job[x].killer = "armed" /\ job[x].ctxErr # "none"
    /\ Local(x, [job[x] EXCEPT
                    !.killer = "fired", !.group = {},
                    !.exit = IF "wrapper" \in job[x].group THEN "killed" ELSE @])

-----------------------------------------------------------------------------
(* The goroutine that called cmd.Wait. *)

\* Variant: a done context ends the wait although the process lives.
ReapEarly(x) ==
    /\ job[x].pc = "waiting" /\ ("wrapper" \notin job[x].group \/ job[x].ctxErr # "none")
    /\ Local(x, [job[x] EXCEPT !.pc = "draining",
                               !.killer = IF @ = "armed" THEN "off" ELSE @])

\* The process is reaped.  A killer that has not fired by now never will: it
\* hands over its result instead.
Reap(x) ==
    /\ job[x].pc = "waiting" /\ "wrapper" \notin job[x].group
    /\ Local(x, [job[x] EXCEPT !.pc = "draining",
                               !.killer = IF @ = "armed" THEN "off" ELSE @])

\* Wait also reads stdout and stderr to their end: WaitDelay is not set.
DrainPipes(x) ==
    /\ job[x].pc = "draining" /\ "tethered" \notin job[x].group
    /\ Local(x, [job[x] EXCEPT !.pc = "sampling"])

\* timedOut is read, then cancelTimeout stops the watchdog.
Sample(x) ==
    /\ job[x].pc = "sampling"
    /\ Local(x, [Cause(job[x], "canceled") EXCEPT
                    !.pc = "joining", !.timedOut = job[x].ctxErr = "deadline"])

\* Wait's error: the exit code, or the context's error once the killer fired.
RunErr(j) == j.exit # "exit 0" \/ j.killer = "fired"

\* After exit 0, result.json decides: it may be missing, unreadable or scoreless.
ReadResult == {"succeeded", "failed"}

\* Variant: the wrapper's error is looked at first.
ErrorFirst(j) ==
    IF RunErr(j) THEN {"failed"}
    ELSE IF j.flag THEN {"cancelled"}
    ELSE IF j.timedOut THEN {"timed_out"}
    ELSE ReadResult

\* What execute reports.
Verdict(j) ==
    IF j.flag THEN {"cancelled"}
    ELSE IF j.timedOut THEN {"timed_out"}
    ELSE IF RunErr(j) THEN {"failed"}
    ELSE ReadResult

\* Variant: the watchdog is not waited for.
DecideEarly(x) ==
    /\ job[x].pc = "joining"
    /\ \E r \in Verdict(job[x]) :
          Local(x, [job[x] EXCEPT !.pc = "reporting", !.report = r])

\* The watchdog has ended, so the flag is final.
Decide(x) ==
    /\ job[x].pc = "joining" /\ job[x].watch = "done"
    /\ \E r \in Verdict(job[x]) :
          Local(x, [job[x] EXCEPT !.pc = "reporting", !.report = r])

\* Variant: a report that does not arrive keeps the slot.
PostUntilHeard(x) == job[x].pc = "reporting" /\ ~Stopping(x) /\ Local(x, NoJob)

\* The report is sent, once, and execute returns whether or not it arrived.
Post(x) == job[x].pc = "reporting" /\ Local(x, NoJob)

Main(x) ==
    \/ Ensure(x) \/ Start(x) \/ FailToStart(x)
    \/ Reap(x) \/ DrainPipes(x) \/ Sample(x) \/ Decide(x) \/ Post(x)

-----------------------------------------------------------------------------
(* The watchdog. *)

\* With a tick and a done context both ready the select takes either.
Tick(x) ==
    /\ job[x].watch = "select"
    /\ Local(x, [job[x] EXCEPT !.watch = "polling"])

WatchEnds(x) ==
    /\ job[x].watch = "select" /\ job[x].ctxErr # "none"
    /\ Local(x, [job[x] EXCEPT !.watch = "done"])

\* The call's context is the process's, not the run's: nothing but a shutdown
\* cuts it short.  An error, a lost answer included, counts as "not cancelled".
Answer(x) ==
    /\ job[x].watch = "polling"
    /\ \/ Local(x, [job[x] EXCEPT !.watch = "select"])
       \/ /\ x \in cancelled /\ ~Stopping(x)
          /\ Local(x, [job[x] EXCEPT !.watch = "seen"])

SetFlag(x) ==
    /\ job[x].watch = "seen"
    /\ Local(x, [job[x] EXCEPT !.watch = "flagged", !.flag = TRUE])

CancelRun(x) ==
    /\ job[x].watch = "flagged"
    /\ Local(x, [Cause(job[x], "canceled") EXCEPT !.watch = "done"])

Watchdog(x) == Tick(x) \/ WatchEnds(x) \/ Answer(x) \/ SetFlag(x) \/ CancelRun(x)

-----------------------------------------------------------------------------
(* Operators and processes. *)

\* Cancel or retry of the run, by an operator who knows nothing of this worker.
Operate(x) ==
    /\ job[x].pc # "idle" /\ x \in Runner
    /\ cancelled' = IF x \in cancelled THEN cancelled \ {x} ELSE cancelled \cup {x}
    /\ UNCHANGED <<cacheVars, job, stopping>>

\* SIGTERM cancels ctx, and with it every run's context.
Shutdown(p) ==
    /\ p \notin stopping /\ SlotsOf(p) \cap Runner # {}
    /\ stopping' = stopping \cup {p}
    /\ job' = [x \in Slot |-> IF x \in SlotsOf(p) /\ Running(x)
                              THEN Cause(job[x], "canceled") ELSE job[x]]
    /\ UNCHANGED <<cacheVars, cancelled>>

\* SIGKILL of the worker's container, wrappers and all; what it had written to
\* the cache stays.
Crash(p) ==
    LET torn == {call[x].suffix : x \in SlotsOf(p)} \ {NoSuffix} IN
    /\ \E x \in SlotsOf(p) : job[x].pc # "idle"
    /\ Cardinality(Litter \cup torn) <= MaxLitter
    /\ job' = [x \in Slot |-> IF x \in SlotsOf(p) THEN NoJob ELSE job[x]]
    /\ call' = [x \in Slot |-> IF x \in SlotsOf(p) THEN NoCall ELSE call[x]]
    /\ stopping' = stopping \ {p}
    /\ UNCHANGED <<dest, tmp, cancelled>>

\* The drained process is gone; a new one starts.
Boot(p) ==
    /\ p \in stopping /\ \A x \in SlotsOf(p) : job[x].pc = "idle"
    /\ stopping' = stopping \ {p}
    /\ UNCHANGED <<cacheVars, job, cancelled>>

XNext ==
    \/ \E x \in Slot :
          \/ Begin(x) \/ Main(x) \/ Watchdog(x) \/ Deadline(x) \/ Kill(x) \/ Operate(x)
          \/ \E how \in {"exit 0", "exit 1"} : WrapperExits(x, how)
          \/ \E e \in Engine : EngineExits(x, e)
    \/ \E p \in Process : Shutdown(p) \/ Crash(p) \/ Boot(p)

XSpec == XInit /\ [][XNext]_xvars

\* Goroutines run, timers fire and HTTP calls end (30 s client timeout, also in
\* Answer and FetchBundle).  A select with both cases ready picks at random, so
\* it does not choose the tick for ever.  Wrappers and engines owe nothing.
XFair ==
    \A x \in Slot :
        /\ WF_xvars(Main(x)) /\ WF_xvars(Watchdog(x)) /\ SF_xvars(WatchEnds(x))
        /\ WF_xvars(Deadline(x)) /\ WF_xvars(Kill(x))

FairXSpec == XSpec /\ XFair

-----------------------------------------------------------------------------
(* Properties. *)

\* Shapes; and a wrapper is alive only while its attempt waits for it.
XTypeOK ==
    /\ CacheTypeOK
    /\ job \in [Slot -> Job]
    /\ cancelled \subseteq Slot /\ stopping \subseteq Process
    /\ \A x \in Slot : "wrapper" \in job[x].group => job[x].pc = "waiting"

\* An attempt the platform killed is never shown as the player's failure or
\* success, not even where the wrapper had just exited by itself when the kill
\* came: the report names the cancel or the timeout behind it.  Only a worker
\* that is shutting down, whose reports do not arrive, says "failed".
KilledIsNamed ==
    \A x \in Slot :
        job[x].pc = "reporting" /\ job[x].killer = "fired" =>
            \/ job[x].report = "cancelled" /\ job[x].flag
            \/ job[x].report = "timed_out" /\ job[x].ctxErr = "deadline"
            \/ Stopping(x)

LeftBehind(x) == job[x].pc = "draining" /\ "tethered" \in job[x].group

\* Every attempt gives its slot back, whatever the wrapper does, the server
\* answers and the operators click, in a drain too: unless an engine that
\* outlived its wrapper holds the wrapper's output open.
SlotsComeBack ==
    \A x \in Slot : job[x].pc # "idle" ~> (job[x].pc = "idle" \/ LeftBehind(x))

\* execute: "Either firing kills the wrapper's whole process group".
EitherFiringKills ==
    \A x \in Slot : Running(x) /\ job[x].ctxErr # "none" ~> job[x].group = {}

\* The job of Evals.  From the moment the server has answered "cancelled" the
\* attempt can only report that.
Phase(j) ==
    CASE j.pc = "idle" -> "idle"
      [] j.pc = "ensure" -> "preparing"
      [] j.pc = "reporting" -> "reporting"
      [] OTHER -> IF j.flag \/ j.watch \in {"seen", "flagged"} THEN "killing" ELSE "running"

Life == INSTANCE JobLife WITH
            phase <- [x \in Slot |-> Phase(job[x])],
            report <- [x \in Slot |-> job[x].report]

\* Every interleaving of the three goroutines, the wrapper and the operators is
\* an attempt as Evals takes it: JobLife's phases and guards.
LifeSpec == Life!Spec
=============================================================================
