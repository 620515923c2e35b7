---------------------------- MODULE ExecuteProofs ----------------------------
(***************************************************************************)
(* Theorems about Execute, for every set of slots, processes, bundle       *)
(* entries and temporary names: the shared bundle cache never shows a part *)
(* of a bundle, what the platform kills is reported under the kill's own   *)
(* name, a killed wrapper leaves no engine, and every attempt is one of    *)
(* JobLife, the attempt that Evals composes with the server.               *)
(***************************************************************************)
EXTENDS Execute, TLAPS

-----------------------------------------------------------------------------
(* The inductive invariant: the cache. *)

Owns(x) == call[x].at \in {"unpack", "rename"}

\* What slot x may rely on at each step of ensureBundle.  While it owns a
\* temporary tree, what is written there and what is still to be written make
\* up the bundle, which is what makes the rename at the end safe.
CallInv(x) ==
    /\ Owns(x) <=> call[x].suffix # NoSuffix
    /\ call[x].at = "extract" => call[x].data = Entry
    /\ call[x].at = "unpack" =>
          tmp[call[x].suffix] # NoDir /\ tmp[call[x].suffix] \cup call[x].data = Entry
    /\ call[x].at = "rename" => tmp[call[x].suffix] = Entry
    /\ call[x].at = "ready" => dest = Entry

\* No two slots write into one temporary tree.
PrivateTrees ==
    \A x, y \in Slot : Owns(x) /\ call[x].suffix = call[y].suffix => x = y

CacheInv ==
    /\ CacheTypeOK
    /\ dest \in {NoDir, Entry}
    /\ \A x \in Slot : CallInv(x)
    /\ PrivateTrees

-----------------------------------------------------------------------------
(* The inductive invariant: one attempt. *)

\* The wrapper has been started and the verdict is open.
Active(j) == j.pc \in {"waiting", "draining", "sampling", "joining"}

\* Before the wrapper starts, nothing but the program counter has moved; the
\* report is set by the verdict and gone with the attempt.
LocalsFresh(j) ==
    /\ j.pc \in {"idle", "ensure"} => j = [NoJob EXCEPT !.pc = j.pc]
    /\ j.pc # "reporting" => j.report = NoReport

\* A wrapper lives while its attempt waits for it; the kill needs a done context
\* and is over once the wrapper is reaped.
GroupInv(j) ==
    /\ "wrapper" \in j.group => j.pc = "waiting"
    /\ j.killer = "armed" => j.pc = "waiting"
    /\ j.killer = "fired" => j.ctxErr # "none"

\* The watchdog lives while the attempt is active, and the verdict waits for it.
WatchInv(j) ==
    /\ j.watch \in {"select", "polling", "seen", "flagged"} => Active(j)
    /\ Active(j) => j.watch # "off"
    /\ j.flag => j.watch \in {"flagged", "done"}
    /\ j.watch = "flagged" => j.flag

\* Who may have cancelled the context: while the wrapper may still be killed,
\* "canceled" is the work of the flag's holder or of a shutdown.
CauseInv(j, stop) ==
    /\ (j.pc \in {"waiting", "draining", "sampling"} \/ j.killer = "fired")
          /\ j.ctxErr = "canceled" => j.flag \/ stop
    /\ j.pc = "joining" => (j.timedOut <=> j.ctxErr = "deadline") /\ j.ctxErr # "none"
    /\ j.pc = "reporting" /\ j.killer = "fired" =>
          \/ j.report = "cancelled" /\ j.flag
          \/ j.report = "timed_out" /\ j.ctxErr = "deadline"
          \/ stop

JobInv(j, stop) == LocalsFresh(j) /\ GroupInv(j) /\ WatchInv(j) /\ CauseInv(j, stop)

XInv ==
    /\ CacheInv
    /\ job \in [Slot -> Job]
    /\ cancelled \subseteq Slot /\ stopping \subseteq Process
    /\ \A x \in Slot : JobInv(job[x], Stopping(x))
    /\ \A x \in Slot : job[x].pc # "ensure" => call[x].at = "none"

-----------------------------------------------------------------------------
(* The cache under every step of ensureBundle. *)

\* An empty or partial tree is never the whole bundle's stand-in, and neither is
\* the absence of a directory.
LEMMA TreesAreNotNoDir == /\ Entry \in Tree /\ Entry # NoDir
                          /\ \A T \in Tree : T # NoDir
BY CacheAssumption DEF Tree

\* A call that owns no temporary tree stays clear of every other call.
LEMMA OwnsSuffix ==
    ASSUME CacheInv, NEW x \in Slot
    PROVE  /\ Owns(x) => call[x].suffix \in Suffix
           /\ ~Owns(x) => call[x].suffix = NoSuffix
BY CacheAssumption DEF CacheInv, CacheTypeOK, CallInv, Call

\* A step of x that moves only its own call to a place without a temporary tree
\* keeps the invariant: it owes the rest of the system nothing but its own part.
LEMMA CallMoves ==
    ASSUME CacheInv, NEW x \in Slot, NEW c \in Call,
           call' = [call EXCEPT ![x] = c], UNCHANGED <<dest, tmp>>,
           c.suffix = NoSuffix, c.at \notin {"unpack", "rename"},
           c.at = "extract" => c.data = Entry,
           c.at = "ready" => dest = Entry
    PROVE  CacheInv'
<1>1. CacheTypeOK'
  BY DEF CacheInv, CacheTypeOK
<1>2. \A y \in Slot : CallInv(y)'
  <2> SUFFICES ASSUME NEW y \in Slot PROVE CallInv(y)'
    OBVIOUS
  <2>1. CASE y = x
    BY <2>1 DEF CacheInv, CacheTypeOK, CallInv, Owns
  <2>2. CASE y # x
    BY <2>2 DEF CacheInv, CacheTypeOK, CallInv, Owns
  <2> QED BY <2>1, <2>2
<1>3. PrivateTrees'
  <2>1. call'[x] = c /\ \A y \in Slot \ {x} : call'[y] = call[y]
    BY DEF CacheInv, CacheTypeOK
  <2>2. \A y \in Slot : Owns(y) => call[y].suffix # NoSuffix
    BY DEF CacheInv, CallInv
  <2> QED BY <2>1, <2>2 DEF CacheInv, PrivateTrees, Owns
<1> QED BY <1>1, <1>2, <1>3 DEF CacheInv

\* Every step of ensureBundle, by any slot, keeps the cache's invariant.
LEMMA CacheStepKeeps ==
    ASSUME CacheInv, NEW x \in Slot, NEW ok \in BOOLEAN, CacheStep(x, ok)
    PROVE  CacheInv'
<1> USE TreesAreNotNoDir, OwnsSuffix
<1>1. CASE EnsureBundle(x)
  <2>1. ~Owns(x) /\ call[x] \in Call
    BY <1>1 DEF EnsureBundle, Owns, CacheInv, CacheTypeOK
  <2> DEFINE c == [call[x] EXCEPT !.at = IF dest # NoDir THEN "ready" ELSE "fetch"]
  <2>2. c \in Call /\ c.suffix = NoSuffix /\ c.at \in {"ready", "fetch"}
        /\ (c.at = "ready" => dest = Entry)
    BY <2>1 DEF Call, Step, CacheInv
  <2>3. call' = [call EXCEPT ![x] = c]
    BY <1>1 DEF EnsureBundle, Goto, CacheInv, CacheTypeOK
  <2> QED BY <1>1, <2>2, <2>3, CallMoves DEF EnsureBundle
<1>2. CASE FetchBundle(x, ok)
  <2>1. ~Owns(x) /\ call[x] \in Call
    BY <1>2 DEF FetchBundle, Owns, CacheInv, CacheTypeOK
  <2>2. CASE Return(x, "failed")
    <3> DEFINE c == [NoCall EXCEPT !.at = "failed"]
    <3>1. c \in Call /\ c.suffix = NoSuffix /\ c.at = "failed"
      BY DEF Call, Step, NoCall, Tree
    <3>2. call' = [call EXCEPT ![x] = c] /\ UNCHANGED <<dest, tmp>>
      BY <1>2, <2>2 DEF FetchBundle, Return
    <3> QED BY <3>1, <3>2, CallMoves
  <2>3. CASE call' = [call EXCEPT ![x].at = "extract", ![x].data = Entry]
    <3> DEFINE c == [call[x] EXCEPT !.at = "extract", !.data = Entry]
    <3>1. c \in Call /\ c.suffix = NoSuffix /\ c.at = "extract" /\ c.data = Entry
      BY <2>1 DEF Call, Step
    <3>2. call' = [call EXCEPT ![x] = c] /\ UNCHANGED <<dest, tmp>>
      BY <1>2, <2>3 DEF FetchBundle, CacheInv, CacheTypeOK
    <3> QED BY <3>1, <3>2, CallMoves
  <2> QED BY <1>2, <2>2, <2>3 DEF FetchBundle, HashMatches
<1>3. CASE ExtractBegin(x)
  <2>1. ~Owns(x) /\ call[x] \in Call /\ call[x].data = Entry /\ UNCHANGED dest
    BY <1>3 DEF ExtractBegin, Owns, CacheInv, CacheTypeOK, CallInv
  <2>2. CASE \E at \in {"ready", "failed"} :
               Return(x, at) /\ UNCHANGED tmp /\ (at = "ready" => dest # NoDir)
    <3> PICK at \in {"ready", "failed"} :
               Return(x, at) /\ UNCHANGED tmp /\ (at = "ready" => dest # NoDir)
      BY <2>2
    <3> DEFINE c == [NoCall EXCEPT !.at = at]
    <3>1. c \in Call /\ c.suffix = NoSuffix /\ c.at = at
      BY DEF Call, Step, NoCall, Tree
    <3>2. call' = [call EXCEPT ![x] = c] /\ (at = "ready" => dest = Entry)
      BY DEF Return, CacheInv
    <3> QED BY <2>1, <3>1, <3>2, CallMoves
  <2>3. ASSUME NEW t \in Suffix, t \in Unused,
               tmp' = [tmp EXCEPT ![t] = IF @ = NoDir THEN {} ELSE @],
               call' = [call EXCEPT ![x].at = "unpack", ![x].suffix = t]
        PROVE  CacheInv'
    <3>1. t # NoSuffix /\ tmp[t] = NoDir /\ \A y \in Slot : call[y].suffix # t
      BY <2>3, CacheAssumption DEF Unused, Held
    <3>2. CacheTypeOK'
      BY <2>1, <2>3 DEF CacheInv, CacheTypeOK, Call, Step, Tree
    <3>3. call'[x].at = "unpack" /\ call'[x].suffix = t /\ call'[x].data = Entry
          /\ tmp'[t] = {}
      BY <2>1, <2>3, <3>1 DEF CacheInv, CacheTypeOK, Call
    <3>4. \A y \in Slot \ {x} : call'[y] = call[y] /\ call[y].suffix # t
                                /\ (Owns(y) => tmp'[call[y].suffix] = tmp[call[y].suffix])
      BY <2>3, <3>1 DEF CacheInv, CacheTypeOK
    <3>5. \A y \in Slot : CallInv(y)'
      <4> SUFFICES ASSUME NEW y \in Slot PROVE CallInv(y)'
        OBVIOUS
      <4>1. CASE y = x
        <5>1. {} # NoDir
          BY DEF Tree
        <5> QED BY <3>1, <3>3, <4>1, <5>1 DEF CallInv, Owns
      <4>2. CASE y # x
        BY <2>1, <3>4, <4>2 DEF CallInv, Owns, CacheInv
      <4> QED BY <4>1, <4>2
    <3>6. PrivateTrees'
      BY <3>3, <3>4 DEF CacheInv, PrivateTrees, Owns
    <3> QED BY <2>1, <3>2, <3>5, <3>6 DEF CacheInv
  <2> QED BY <1>3, <2>1, <2>2, <2>3 DEF ExtractBegin, NewSuffix
<1>4. CASE WriteEntry(x) \/ Rename(x)
  <2> DEFINE t == call[x].suffix
  <2>1. /\ Owns(x) /\ t \in Suffix /\ t # NoSuffix /\ call[x] \in Call
        /\ \A y \in Slot \ {x} : call[y].suffix # t
    BY <1>4, CacheAssumption
       DEF WriteEntry, Rename, Owns, CacheInv, CacheTypeOK, PrivateTrees
  \* What a step of the owner has to show: only its tree and its call move.
  <2>2. ASSUME NEW tree \in {NoDir} \cup Tree, NEW c \in Call,
               tmp' = [tmp EXCEPT ![t] = tree], call' = [call EXCEPT ![x] = c],
               dest' \in {dest, Entry}, dest' = NoDir \/ dest' = Entry,
               c.suffix = IF c.at \in {"unpack", "rename"} THEN t ELSE NoSuffix,
               c.at # "extract",
               c.at = "unpack" => tree # NoDir /\ tree \cup c.data = Entry,
               c.at = "rename" => tree = Entry,
               c.at = "ready" => dest' = Entry
        PROVE  CacheInv'
    <3>1. CacheTypeOK'
      BY <2>1, <2>2 DEF CacheInv, CacheTypeOK
    <3>2. call'[x] = c /\ tmp'[t] = tree
      BY <2>1, <2>2 DEF CacheInv, CacheTypeOK
    <3>3. \A y \in Slot \ {x} : call'[y] = call[y] /\ call[y].suffix # t
                                /\ (Owns(y) => tmp'[call[y].suffix] = tmp[call[y].suffix])
      BY <2>1, <2>2 DEF CacheInv, CacheTypeOK
    <3>4. \A y \in Slot : CallInv(y)'
      <4> SUFFICES ASSUME NEW y \in Slot PROVE CallInv(y)'
        OBVIOUS
      <4>1. CASE y = x
        BY <2>1, <2>2, <3>2, <4>1 DEF CallInv, Owns
      <4>2. CASE y # x
        BY <2>2, <3>3, <4>2 DEF CallInv, Owns, CacheInv
      <4> QED BY <4>1, <4>2
    <3>5. PrivateTrees'
      <4>1. \A y \in Slot : Owns(y)' /\ y # x => Owns(y)
        BY <3>3 DEF Owns
      <4>2. \A y, z \in Slot \ {x} :
                Owns(y)' /\ call'[y].suffix = call'[z].suffix => y = z
        BY <3>3, <4>1 DEF CacheInv, PrivateTrees
      <4>3. \A y \in Slot \ {x} : Owns(y) => call[y].suffix # NoSuffix
        BY DEF CacheInv, CallInv
      <4>4. \A y \in Slot \ {x} :
               /\ Owns(y)' => call'[y].suffix # call'[x].suffix
               /\ Owns(x)' => call'[y].suffix # call'[x].suffix
        BY <2>2, <3>2, <3>3, <4>1, <4>3 DEF Owns
      <4> QED BY <4>2, <4>4 DEF PrivateTrees, Owns
    <3> QED BY <2>2, <3>1, <3>4, <3>5 DEF CacheInv
  <2>3. ASSUME NEW at \in {"failed", "restat", "ready"}
        PROVE  /\ [NoCall EXCEPT !.at = at] \in Call
               /\ [NoCall EXCEPT !.at = at].at = at
               /\ [NoCall EXCEPT !.at = at].suffix = NoSuffix
    BY DEF NoCall, Call, Step, Tree
  <2>4. CASE WriteEntry(x)
    <3>1. /\ call[x].at = "unpack" /\ tmp[t] \in Tree /\ tmp[t] \cup call[x].data = Entry
          /\ call[x].data \in Tree /\ UNCHANGED dest /\ dest \in {NoDir, Entry}
      BY <2>1, <2>4 DEF WriteEntry, CacheInv, CacheTypeOK, CallInv, Call
    <3>2. ASSUME NEW e \in call[x].data,
                 tmp' = [tmp EXCEPT ![t] = Grown(@, e)],
                 call' = [call EXCEPT ![x].data = @ \ {e}]
          PROVE  CacheInv'
      <4> DEFINE tree == tmp[t] \cup {e}
                 c == [call[x] EXCEPT !.data = @ \ {e}]
      <4>1. tree \in Tree /\ tmp' = [tmp EXCEPT ![t] = tree]
        BY <3>1, <3>2 DEF Grown, Tree
      <4>2. c \in Call /\ call' = [call EXCEPT ![x] = c]
        BY <2>1, <3>1, <3>2 DEF Call, Tree, CacheInv, CacheTypeOK
      <4>3. c.at = "unpack" /\ c.suffix = t /\ tree # NoDir /\ tree \cup c.data = Entry
        BY ZenonT(40), <2>1, <3>1, <3>2, <4>1 DEF Call
      <4> QED BY <2>2, <3>1, <4>1, <4>2, <4>3
    <3>3. CASE call[x].data = {} /\ Goto(x, "rename") /\ UNCHANGED tmp
      <4> DEFINE c == [call[x] EXCEPT !.at = "rename"]
      <4>1. c \in Call /\ call' = [call EXCEPT ![x] = c] /\ c.at = "rename" /\ c.suffix = t
        BY <2>1, <3>3 DEF Goto, Call, Step, CacheInv, CacheTypeOK
      <4>2. tmp[t] = Entry /\ tmp' = [tmp EXCEPT ![t] = tmp[t]]
        BY <2>1, <3>1, <3>3 DEF CacheInv, CacheTypeOK
      <4> QED BY <2>2, <3>1, <4>1, <4>2
    <3>4. CASE tmp' = [tmp EXCEPT ![t] = NoDir] /\ Return(x, "failed")
      BY <2>2, <2>3, <3>1, <3>4 DEF Return
    <3> QED BY <2>4, <3>2, <3>3, <3>4 DEF WriteEntry
  <2>5. CASE Rename(x)
    <3>1. tmp[t] = Entry /\ tmp' = [tmp EXCEPT ![t] = NoDir] /\ dest \in {NoDir, Entry}
      BY <2>1, <2>5 DEF Rename, CacheInv, CallInv
    <3>2. CASE dest' = tmp[t] /\ Return(x, "ready")
      BY <2>2, <2>3, <3>1, <3>2 DEF Return
    <3>3. CASE UNCHANGED dest /\ Return(x, "restat")
      BY <2>2, <2>3, <3>1, <3>3 DEF Return
    <3> QED BY <2>5, <3>2, <3>3 DEF Rename
  <2> QED BY <1>4, <2>4, <2>5
<1>5. CASE Restat(x)
  <2> DEFINE at == IF dest # NoDir THEN "ready" ELSE "failed"
             c == [NoCall EXCEPT !.at = at]
  <2>1. c \in Call /\ c.suffix = NoSuffix /\ c.at \in {"ready", "failed"}
        /\ (c.at = "ready" => dest = Entry)
    BY DEF Call, Step, NoCall, Tree, CacheInv
  <2>2. call' = [call EXCEPT ![x] = c] /\ UNCHANGED <<dest, tmp>>
    BY <1>5 DEF Restat, Return
  <2> QED BY <2>1, <2>2, CallMoves
<1> QED BY <1>1, <1>2, <1>3, <1>4, <1>5 DEF CacheStep

-----------------------------------------------------------------------------
(* One attempt under every step of its own goroutines. *)

\* A slot without an attempt, or with one that has just begun or has failed
\* before its wrapper started, satisfies the invariant.
LEMMA FreshJobs ==
    ASSUME NEW stop \in BOOLEAN
    PROVE  /\ NoJob \in Job /\ NoJob.pc = "idle" /\ JobInv(NoJob, stop)
           /\ LET k == [NoJob EXCEPT !.pc = "ensure"]
              IN  k \in Job /\ k.pc = "ensure" /\ JobInv(k, stop)
           /\ \A j \in Job : j.pc = "idle" /\ JobInv(j, stop) => j = NoJob
<1>1. NoJob \in Job /\ NoJob.pc = "idle"
  BY DEF NoJob, Job
<1>2. JobInv(NoJob, stop)
  BY DEF NoJob, JobInv, LocalsFresh, GroupInv, WatchInv, CauseInv, Active
<1>3. LET k == [NoJob EXCEPT !.pc = "ensure"]
      IN  k \in Job /\ k.pc = "ensure" /\ JobInv(k, stop)
  BY DEF NoJob, Job, JobInv, LocalsFresh, GroupInv, WatchInv, CauseInv, Active
<1>4. ASSUME NEW j \in Job, j.pc = "idle", JobInv(j, stop) PROVE j = NoJob
  BY <1>4 DEF NoJob, JobInv, LocalsFresh
<1> QED BY <1>1, <1>2, <1>3, <1>4

\* A step that moves one attempt, and no call but that attempt's own, keeps the
\* system's invariant when it keeps the cache's and the attempt's.
LEMMA SlotMoves ==
    ASSUME XInv, CacheInv', NEW x \in Slot, NEW j \in Job, JobInv(j, Stopping(x)),
           job' = [job EXCEPT ![x] = j], UNCHANGED stopping, cancelled' \subseteq Slot,
           \A y \in Slot \ {x} : call'[y] = call[y],
           j.pc # "ensure" => call'[x].at = "none"
    PROVE  XInv'
<1>1. job' \in [Slot -> Job] /\ stopping' \subseteq Process
  BY DEF XInv
<1>2. job'[x] = j /\ \A y \in Slot \ {x} : job'[y] = job[y]
  BY DEF XInv
<1>3. \A y \in Slot : Stopping(y)' = Stopping(y)
  BY DEF Stopping
<1>4. \A y \in Slot : JobInv(job'[y], Stopping(y)')
  BY <1>2, <1>3 DEF XInv
<1>5. \A y \in Slot : job'[y].pc # "ensure" => call'[y].at = "none"
  BY <1>2 DEF XInv
<1> QED BY <1>1, <1>4, <1>5 DEF XInv

\* A step on the locals alone, past the bundle cache.
LEMMA LocalKeeps ==
    ASSUME XInv, NEW x \in Slot, NEW j \in Job, Local(x, j),
           job[x].pc # "ensure", j.pc # "ensure", JobInv(j, Stopping(x))
    PROVE  XInv'
<1>1. UNCHANGED <<dest, tmp, call, cancelled, stopping>> /\ job' = [job EXCEPT ![x] = j]
  BY DEF Local, cacheVars
<1>2. CacheInv'
  BY <1>1 DEF XInv, CacheInv, CacheTypeOK, CallInv, PrivateTrees, Owns
<1>3. call'[x].at = "none" /\ cancelled' \subseteq Slot
  BY <1>1 DEF XInv
<1> QED BY <1>1, <1>2, <1>3, SlotMoves

\* The wrapper, its engines, the suite's timeout and the kill: whoever comes
\* first, the group and the cause of the context stay consistent.
LEMMA GroupSteps ==
    ASSUME NEW j \in Job, NEW stop \in BOOLEAN, JobInv(j, stop)
    PROVE  /\ \A how \in {"exit 0", "exit 1"} : "wrapper" \in j.group =>
                LET k == [j EXCEPT !.group = @ \ {"wrapper"}, !.exit = how]
                IN  k \in Job /\ k.pc = j.pc /\ j.pc # "ensure" /\ JobInv(k, stop)
           /\ \A e \in j.group \ {"wrapper"} :
                LET k == [j EXCEPT !.group = @ \ {e}]
                IN  k \in Job /\ k.pc = j.pc /\ j.pc # "ensure" /\ JobInv(k, stop)
           /\ j.pc \in {"waiting", "draining", "sampling"} /\ j.ctxErr = "none" =>
                LET k == Cause(j, "deadline")
                IN  k \in Job /\ k.pc = j.pc /\ JobInv(k, stop)
           /\ j.killer = "armed" /\ j.ctxErr # "none" =>
                LET k == [j EXCEPT !.killer = "fired", !.group = {},
                              !.exit = IF "wrapper" \in j.group THEN "killed" ELSE @]
                IN  k \in Job /\ k.pc = j.pc /\ j.pc # "ensure" /\ JobInv(k, stop)
<1> USE DEF JobInv, LocalsFresh, GroupInv, WatchInv, CauseInv, Active, NoJob, Job
<1>1. ASSUME NEW how \in {"exit 0", "exit 1"}, "wrapper" \in j.group
      PROVE  LET k == [j EXCEPT !.group = @ \ {"wrapper"}, !.exit = how]
             IN  k \in Job /\ k.pc = j.pc /\ j.pc # "ensure" /\ JobInv(k, stop)
  BY ZenonT(40), <1>1
<1>2. ASSUME NEW e \in j.group \ {"wrapper"}
      PROVE  LET k == [j EXCEPT !.group = @ \ {e}]
             IN  k \in Job /\ k.pc = j.pc /\ j.pc # "ensure" /\ JobInv(k, stop)
  <2> DEFINE k == [j EXCEPT !.group = @ \ {e}]
  <2>1. j.group # {} /\ k.group \subseteq j.group /\ k.group \in SUBSET Member
    BY <1>2
  <2>2. j.pc \notin {"idle", "ensure"}
    BY <2>1
  <2>3. k \in Job /\ k.pc = j.pc
    BY <2>1
  <2>4. JobInv(k, stop)
    BY ZenonT(40), <2>1, <2>2
  <2> QED BY <2>2, <2>3, <2>4
<1>3. ASSUME j.pc \in {"waiting", "draining", "sampling"}, j.ctxErr = "none"
      PROVE  LET k == Cause(j, "deadline")
             IN  k \in Job /\ k.pc = j.pc /\ JobInv(k, stop)
  BY <1>3 DEF Cause
<1>4. ASSUME j.killer = "armed", j.ctxErr # "none"
      PROVE  LET k == [j EXCEPT !.killer = "fired", !.group = {},
                              !.exit = IF "wrapper" \in j.group THEN "killed" ELSE @]
             IN  k \in Job /\ k.pc = j.pc /\ j.pc # "ensure" /\ JobInv(k, stop)
  BY <1>4
<1> QED BY <1>1, <1>2, <1>3, <1>4

\* The goroutine in cmd.Wait: reaping ends the killer, the sample of the
\* context's cause is taken before the watchdog's end can change it, and the
\* verdict names whatever killed the wrapper.
LEMMA WaitSteps ==
    ASSUME NEW j \in Job, NEW stop \in BOOLEAN, JobInv(j, stop)
    PROVE  /\ j.pc = "waiting" /\ "wrapper" \notin j.group =>
                LET k == [j EXCEPT !.pc = "draining",
                                   !.killer = IF @ = "armed" THEN "off" ELSE @]
                IN  k \in Job /\ JobInv(k, stop)
           /\ j.pc = "draining" =>
                LET k == [j EXCEPT !.pc = "sampling"] IN k \in Job /\ JobInv(k, stop)
           /\ j.pc = "sampling" =>
                LET k == [Cause(j, "canceled") EXCEPT
                             !.pc = "joining", !.timedOut = j.ctxErr = "deadline"]
                IN  k \in Job /\ k.pc = "joining" /\ JobInv(k, stop)
           /\ j.pc = "joining" /\ j.watch = "done" => \A r \in Verdict(j) :
                LET k == [j EXCEPT !.pc = "reporting", !.report = r]
                IN  k \in Job /\ JobInv(k, stop)
<1> USE DEF JobInv, LocalsFresh, GroupInv, WatchInv, CauseInv, Active, NoJob, Job
<1>1. ASSUME j.pc = "waiting", "wrapper" \notin j.group
      PROVE  LET k == [j EXCEPT !.pc = "draining",
                                   !.killer = IF @ = "armed" THEN "off" ELSE @]
             IN  k \in Job /\ JobInv(k, stop)
  BY ZenonT(40), <1>1
<1>2. ASSUME j.pc = "draining"
      PROVE  LET k == [j EXCEPT !.pc = "sampling"] IN k \in Job /\ JobInv(k, stop)
  BY ZenonT(40), <1>2
<1>3. ASSUME j.pc = "sampling"
      PROVE  LET k == [Cause(j, "canceled") EXCEPT
                             !.pc = "joining", !.timedOut = j.ctxErr = "deadline"]
             IN  k \in Job /\ k.pc = "joining" /\ JobInv(k, stop)
  BY ZenonT(40), <1>3 DEF Cause
<1>4. ASSUME j.pc = "joining", j.watch = "done", NEW r \in Verdict(j)
      PROVE  LET k == [j EXCEPT !.pc = "reporting", !.report = r]
             IN  k \in Job /\ JobInv(k, stop)
  <2> DEFINE k == [j EXCEPT !.pc = "reporting", !.report = r]
  <2>1. k \in Job
    BY <1>4 DEF Verdict, ReadResult
  <2>2. ASSUME j.killer = "fired"
        PROVE  \/ r = "cancelled" /\ j.flag
               \/ r = "timed_out" /\ j.ctxErr = "deadline"
               \/ stop
    BY <1>4, <2>2 DEF Verdict, RunErr
  <2>3. JobInv(k, stop)
    BY <1>4, <2>2
  <2> QED BY <2>1, <2>3
<1> QED BY <1>1, <1>2, <1>3, <1>4

\* The watchdog: it raises the flag before it cancels the context, so a
\* "canceled" that is not a shutdown's always comes with the flag.
LEMMA WatchSteps ==
    ASSUME NEW j \in Job, NEW stop \in BOOLEAN, JobInv(j, stop)
    PROVE  /\ j.watch = "select" => \A w \in {"polling", "done"} :
                LET k == [j EXCEPT !.watch = w]
                IN  k \in Job /\ k.pc = j.pc /\ j.pc # "ensure" /\ JobInv(k, stop)
           /\ j.watch = "polling" => \A w \in {"select", "seen"} :
                LET k == [j EXCEPT !.watch = w]
                IN  k \in Job /\ k.pc = j.pc /\ j.pc # "ensure" /\ JobInv(k, stop)
           /\ j.watch = "seen" =>
                LET k == [j EXCEPT !.watch = "flagged", !.flag = TRUE]
                IN  k \in Job /\ k.pc = j.pc /\ j.pc # "ensure" /\ JobInv(k, stop)
           /\ j.watch = "flagged" =>
                LET k == [Cause(j, "canceled") EXCEPT !.watch = "done"]
                IN  k \in Job /\ k.pc = j.pc /\ j.pc # "ensure" /\ JobInv(k, stop)
<1> USE DEF JobInv, LocalsFresh, GroupInv, WatchInv, CauseInv, Active, NoJob, Job
<1>1. ASSUME j.watch = "select", NEW w \in {"polling", "done"}
      PROVE  LET k == [j EXCEPT !.watch = w]
             IN  k \in Job /\ k.pc = j.pc /\ j.pc # "ensure" /\ JobInv(k, stop)
  BY ZenonT(40), <1>1
<1>2. ASSUME j.watch = "polling", NEW w \in {"select", "seen"}
      PROVE  LET k == [j EXCEPT !.watch = w]
             IN  k \in Job /\ k.pc = j.pc /\ j.pc # "ensure" /\ JobInv(k, stop)
  BY ZenonT(40), <1>2
<1>3. ASSUME j.watch = "seen"
      PROVE  LET k == [j EXCEPT !.watch = "flagged", !.flag = TRUE]
             IN  k \in Job /\ k.pc = j.pc /\ j.pc # "ensure" /\ JobInv(k, stop)
  BY ZenonT(40), <1>3
<1>4. ASSUME j.watch = "flagged"
      PROVE  LET k == [Cause(j, "canceled") EXCEPT !.watch = "done"]
             IN  k \in Job /\ k.pc = j.pc /\ j.pc # "ensure" /\ JobInv(k, stop)
  BY ZenonT(40), <1>4 DEF Cause
<1> QED BY <1>1, <1>2, <1>3, <1>4

-----------------------------------------------------------------------------
(* The invariant of the whole module. *)

\* In the first state no slot has an attempt and the cache is empty.
LEMMA XInvInit == XInit => XInv
<1> SUFFICES ASSUME XInit PROVE XInv
  OBVIOUS
<1>1. CacheInv
  BY CacheAssumption DEF XInit, CacheInit, CacheInv, CacheTypeOK, CallInv, PrivateTrees,
                         Owns, NoCall, Call, Step, Tree
<1>2. \A x \in Slot : job[x] = NoJob /\ Stopping(x) \in BOOLEAN /\ call[x].at = "none"
  BY DEF XInit, CacheInit, NoCall, Stopping
<1>3. job \in [Slot -> Job] /\ \A x \in Slot : JobInv(job[x], Stopping(x))
  BY <1>2, FreshJobs DEF XInit
<1> QED BY <1>1, <1>2, <1>3 DEF XInv, XInit

\* A slot whose attempt is past the cache, or has not reached it, owns nothing
\* there; and it may leave the cache, or enter it, without a trace.
LEMMA CallIdles ==
    ASSUME CacheInv, NEW x \in Slot, call[x].at \in {"none", "ready", "failed"},
           NEW at \in {"none", "stat"}, Goto(x, at), UNCHANGED <<dest, tmp>>
    PROVE  /\ CacheInv'
           /\ call'[x].at = at
           /\ \A y \in Slot \ {x} : call'[y] = call[y]
<1> DEFINE c == [call[x] EXCEPT !.at = at]
<1>1. call[x] \in Call /\ ~Owns(x)
  BY DEF CacheInv, CacheTypeOK, Owns
<1>2. c \in Call /\ c.at = at /\ c.suffix = NoSuffix
  BY <1>1, OwnsSuffix DEF Call, Step
<1>3. call' = [call EXCEPT ![x] = c]
  BY DEF Goto, CacheInv, CacheTypeOK
<1>4. CacheInv'
  BY <1>2, <1>3, CallMoves
<1> QED BY <1>2, <1>3, <1>4 DEF CacheInv, CacheTypeOK

\* The attempts of every process in any order, shutdowns, deaths and restarts
\* included, keep the invariant.
LEMMA XInvNext == XInv /\ [XNext]_xvars => XInv'
<1> SUFFICES ASSUME XInv, [XNext]_xvars PROVE XInv'
  OBVIOUS
<1>0. /\ CacheInv
      /\ \A x \in Slot : /\ job[x] \in Job /\ Stopping(x) \in BOOLEAN
                         /\ JobInv(job[x], Stopping(x))
  BY DEF XInv, Stopping
<1>1. ASSUME NEW x \in Slot, Begin(x) PROVE XInv'
  <2> DEFINE k == [NoJob EXCEPT !.pc = "ensure"]
  <2>1. job[x] = NoJob /\ call[x].at = "none" /\ cancelled' \subseteq Slot
    BY <1>0, <1>1, FreshJobs DEF Begin, XInv
  <2>2. k \in Job /\ k.pc = "ensure" /\ JobInv(k, Stopping(x))
    BY <1>0, FreshJobs, Zenon
  <2>3. CacheInv' /\ \A y \in Slot \ {x} : call'[y] = call[y]
    BY <1>0, <1>1, <2>1, CallIdles DEF Begin
  <2>4. job' = [job EXCEPT ![x] = k]
    BY <1>1, <2>1 DEF Begin, XInv
  <2> QED BY <1>1, <2>1, <2>2, <2>3, <2>4, SlotMoves DEF Begin
<1>2. ASSUME NEW x \in Slot, Ensure(x) PROVE XInv'
  <2>1. CacheInv' /\ UNCHANGED <<job, cancelled, stopping>>
    BY <1>0, <1>2, CacheStepKeeps DEF Ensure
  <2>2. \A y \in Slot \ {x} : call'[y] = call[y]
    BY <1>0, <1>2 DEF Ensure, CacheStep, EnsureBundle, FetchBundle, ExtractBegin, WriteEntry,
                      Rename, Restat, Goto, Return, CacheInv, CacheTypeOK
  <2>3. job' = [job EXCEPT ![x] = job[x]] /\ job[x].pc = "ensure"
    BY <1>2, <2>1 DEF Ensure, XInv
  <2> QED BY <1>0, <2>1, <2>2, <2>3, SlotMoves DEF XInv
<1>3. ASSUME NEW x \in Slot, FailToStart(x) PROVE XInv'
  <2> DEFINE k == [job[x] EXCEPT !.pc = "reporting", !.report = "failed"]
  <2>1. job[x] = [NoJob EXCEPT !.pc = "ensure"]
    BY <1>0, <1>3 DEF FailToStart, JobInv, LocalsFresh
  <2>2. k \in Job /\ k.pc # "ensure" /\ JobInv(k, Stopping(x))
    BY ZenonT(40), <2>1, <1>0 DEF NoJob, Job, JobInv, LocalsFresh, GroupInv, WatchInv, CauseInv, Active
  <2>3. CacheInv' /\ call'[x].at = "none" /\ \A y \in Slot \ {x} : call'[y] = call[y]
    BY <1>0, <1>3, CallIdles DEF FailToStart
  <2>4. job' = [job EXCEPT ![x] = k]
    BY <1>3 DEF FailToStart, XInv
  <2> QED BY <1>3, <2>2, <2>3, <2>4, SlotMoves DEF FailToStart, XInv
<1>4. ASSUME NEW x \in Slot, Start(x) PROVE XInv'
  <2> PICK S \in SUBSET Engine :
          job' = [job EXCEPT ![x] = [NoJob EXCEPT
                     !.pc = "waiting", !.group = {"wrapper"} \cup S,
                     !.killer = "armed", !.watch = "select"]]
    BY <1>4 DEF Start
  <2> DEFINE k == [NoJob EXCEPT !.pc = "waiting", !.group = {"wrapper"} \cup S,
                                !.killer = "armed", !.watch = "select"]
  <2>1. k \in Job /\ k.pc # "ensure" /\ JobInv(k, Stopping(x))
    BY ZenonT(40), <1>0 DEF NoJob, Job, Member, JobInv, LocalsFresh, GroupInv, WatchInv, CauseInv, Active
  <2>2. CacheInv' /\ call'[x].at = "none" /\ \A y \in Slot \ {x} : call'[y] = call[y]
    BY <1>0, <1>4, CallIdles DEF Start
  <2> QED BY <1>4, <2>1, <2>2, SlotMoves DEF Start, XInv
<1>5. ASSUME NEW x \in Slot, Main(x), ~Ensure(x), ~Start(x), ~FailToStart(x) PROVE XInv'
  <2>1. CASE Reap(x)
    <3> DEFINE k == [job[x] EXCEPT !.pc = "draining",
                               !.killer = IF @ = "armed" THEN "off" ELSE @]
    <3>1. job[x].pc = "waiting" /\ "wrapper" \notin job[x].group
      BY <2>1 DEF Reap
    <3>2. Local(x, k)
      BY <2>1 DEF Reap
    <3>3. k \in Job /\ JobInv(k, Stopping(x))
      BY <1>0, <3>1, WaitSteps, Zenon
    <3>4. job[x].pc # "ensure" /\ k.pc # "ensure"
      BY <1>0, <3>1 DEF Job
    <3> HIDE DEF k
    <3> QED BY <3>2, <3>3, <3>4, LocalKeeps
  <2>2. CASE DrainPipes(x)
    <3> DEFINE k == [job[x] EXCEPT !.pc = "sampling"]
    <3>1. job[x].pc = "draining"
      BY <2>2 DEF DrainPipes
    <3>2. Local(x, k)
      BY <2>2 DEF DrainPipes
    <3>3. k \in Job /\ JobInv(k, Stopping(x))
      BY <1>0, <3>1, WaitSteps, Zenon
    <3>4. job[x].pc # "ensure" /\ k.pc # "ensure"
      BY <1>0, <3>1 DEF Job
    <3> HIDE DEF k
    <3> QED BY <3>2, <3>3, <3>4, LocalKeeps
  <2>3. CASE Sample(x)
    <3> DEFINE k == [Cause(job[x], "canceled") EXCEPT
                        !.pc = "joining", !.timedOut = job[x].ctxErr = "deadline"]
    <3>1. job[x].pc = "sampling"
      BY <2>3 DEF Sample
    <3>2. Local(x, k)
      BY <2>3 DEF Sample
    <3>3. k \in Job /\ JobInv(k, Stopping(x))
      BY <1>0, <3>1, WaitSteps, Zenon
    <3>4. job[x].pc # "ensure" /\ k.pc # "ensure"
      BY <1>0, <3>1 DEF Job, Cause
    <3> HIDE DEF k
    <3> QED BY <3>2, <3>3, <3>4, LocalKeeps
  <2>4. CASE Decide(x)
    <3> PICK r \in Verdict(job[x]) : Local(x, [job[x] EXCEPT !.pc = "reporting", !.report = r])
      BY <2>4 DEF Decide
    <3> DEFINE k == [job[x] EXCEPT !.pc = "reporting", !.report = r]
    <3>1. job[x].pc = "joining" /\ job[x].watch = "done"
      BY <2>4 DEF Decide
    <3>2. k \in Job /\ JobInv(k, Stopping(x))
      BY <1>0, <3>1, WaitSteps, Zenon
    <3>3. job[x].pc # "ensure" /\ k.pc # "ensure"
      BY <1>0, <3>1 DEF Job
    <3> QED BY <3>2, <3>3, LocalKeeps
  <2>5. CASE Post(x)
    BY <1>0, <2>5, FreshJobs, LocalKeeps DEF Post, NoJob
  <2> QED BY <1>5, <2>1, <2>2, <2>3, <2>4, <2>5 DEF Main
<1>6. ASSUME NEW x \in Slot, Watchdog(x) PROVE XInv'
  <2>1. CASE Tick(x)
    <3> DEFINE k == [job[x] EXCEPT !.watch = "polling"]
    <3>1. job[x].watch = "select"
      BY <2>1 DEF Tick
    <3>2. Local(x, k)
      BY <2>1 DEF Tick
    <3>3. k \in Job /\ k.pc = job[x].pc /\ job[x].pc # "ensure" /\ JobInv(k, Stopping(x))
      BY <1>0, <3>1, WatchSteps, Zenon
    <3> HIDE DEF k
    <3> QED BY <3>2, <3>3, LocalKeeps
  <2>2. CASE WatchEnds(x)
    <3> DEFINE k == [job[x] EXCEPT !.watch = "done"]
    <3>1. job[x].watch = "select"
      BY <2>2 DEF WatchEnds
    <3>2. Local(x, k)
      BY <2>2 DEF WatchEnds
    <3>3. k \in Job /\ k.pc = job[x].pc /\ job[x].pc # "ensure" /\ JobInv(k, Stopping(x))
      BY <1>0, <3>1, WatchSteps, Zenon
    <3> HIDE DEF k
    <3> QED BY <3>2, <3>3, LocalKeeps
  <2>3. CASE Answer(x)
    <3> PICK w \in {"select", "seen"} : Local(x, [job[x] EXCEPT !.watch = w])
      BY <2>3 DEF Answer
    <3> DEFINE k == [job[x] EXCEPT !.watch = w]
    <3>1. job[x].watch = "polling"
      BY <2>3 DEF Answer
    <3>2. k \in Job /\ k.pc = job[x].pc /\ job[x].pc # "ensure" /\ JobInv(k, Stopping(x))
      BY <1>0, <3>1, WatchSteps, Zenon
    <3> QED BY <3>2, LocalKeeps
  <2>4. CASE SetFlag(x)
    <3> DEFINE k == [job[x] EXCEPT !.watch = "flagged", !.flag = TRUE]
    <3>1. job[x].watch = "seen"
      BY <2>4 DEF SetFlag
    <3>2. Local(x, k)
      BY <2>4 DEF SetFlag
    <3>3. k \in Job /\ k.pc = job[x].pc /\ job[x].pc # "ensure" /\ JobInv(k, Stopping(x))
      BY <1>0, <3>1, WatchSteps, Zenon
    <3> HIDE DEF k
    <3> QED BY <3>2, <3>3, LocalKeeps
  <2>5. CASE CancelRun(x)
    <3> DEFINE k == [Cause(job[x], "canceled") EXCEPT !.watch = "done"]
    <3>1. job[x].watch = "flagged"
      BY <2>5 DEF CancelRun
    <3>2. Local(x, k)
      BY <2>5 DEF CancelRun
    <3>3. k \in Job /\ k.pc = job[x].pc /\ job[x].pc # "ensure" /\ JobInv(k, Stopping(x))
      BY <1>0, <3>1, WatchSteps, Zenon
    <3> HIDE DEF k
    <3> QED BY <3>2, <3>3, LocalKeeps
  <2> QED BY <1>6, <2>1, <2>2, <2>3, <2>4, <2>5 DEF Watchdog
<1>7. ASSUME NEW x \in Slot, Deadline(x) PROVE XInv'
  <2> DEFINE k == Cause(job[x], "deadline")
  <2>1. job[x].pc \in {"waiting", "draining", "sampling"} /\ job[x].ctxErr = "none"
    BY <1>7 DEF Deadline, Running
  <2>2. Local(x, k)
    BY <1>7 DEF Deadline
  <2>3. k \in Job /\ k.pc = job[x].pc /\ JobInv(k, Stopping(x))
    BY <1>0, <2>1, GroupSteps, Zenon
  <2> QED BY <2>1, <2>2, <2>3, LocalKeeps
<1>8. ASSUME NEW x \in Slot, Kill(x) PROVE XInv'
  <2> DEFINE k == [job[x] EXCEPT !.killer = "fired", !.group = {},
                      !.exit = IF "wrapper" \in job[x].group THEN "killed" ELSE @]
  <2>1. job[x].killer = "armed" /\ job[x].ctxErr # "none"
    BY <1>8 DEF Kill
  <2>2. Local(x, k)
    BY <1>8 DEF Kill
  <2>3. k \in Job /\ k.pc = job[x].pc /\ job[x].pc # "ensure" /\ JobInv(k, Stopping(x))
    BY <1>0, <2>1, GroupSteps, Zenon
  <2> HIDE DEF k
  <2> QED BY <2>2, <2>3, LocalKeeps
<1>9. ASSUME NEW x \in Slot, NEW how \in {"exit 0", "exit 1"}, WrapperExits(x, how)
       PROVE  XInv'
  <2> DEFINE k == [job[x] EXCEPT !.group = @ \ {"wrapper"}, !.exit = how]
  <2>1. "wrapper" \in job[x].group
    BY <1>9 DEF WrapperExits
  <2>2. Local(x, k)
    BY <1>9 DEF WrapperExits
  <2>3. k \in Job /\ k.pc = job[x].pc /\ job[x].pc # "ensure" /\ JobInv(k, Stopping(x))
    BY <1>0, <2>1, GroupSteps, ZenonT(40)
  <2> HIDE DEF k
  <2> QED BY <2>2, <2>3, LocalKeeps
<1>10. ASSUME NEW x \in Slot, NEW e \in Engine, EngineExits(x, e) PROVE XInv'
  <2> DEFINE k == [job[x] EXCEPT !.group = @ \ {e}]
  <2>1. e \in job[x].group \ {"wrapper"}
    BY <1>10 DEF EngineExits
  <2>2. Local(x, k)
    BY <1>10 DEF EngineExits
  <2>3. k \in Job /\ k.pc = job[x].pc /\ job[x].pc # "ensure" /\ JobInv(k, Stopping(x))
    BY <1>0, <2>1, GroupSteps, Zenon
  <2> HIDE DEF k
  <2> QED BY <2>2, <2>3, LocalKeeps
<1>11. ASSUME NEW x \in Slot, Operate(x) PROVE XInv'
  <2>1. UNCHANGED <<dest, tmp, call, job, stopping>> /\ cancelled' \subseteq Slot
    BY <1>11 DEF Operate, cacheVars, XInv
  <2>2. job' = [job EXCEPT ![x] = job[x]] /\ CacheInv'
    BY <1>0, <2>1 DEF XInv, CacheInv, CacheTypeOK, CallInv, PrivateTrees, Owns
  <2> QED BY <1>0, <2>1, <2>2, SlotMoves DEF XInv
<1>12. ASSUME NEW p \in Process, Shutdown(p) PROVE XInv'
  <2>1. CacheInv' /\ call' = call /\ cancelled' = cancelled /\ stopping' = stopping \cup {p}
    BY <1>0, <1>12 DEF Shutdown, cacheVars, CacheInv, CacheTypeOK, CallInv, PrivateTrees, Owns
  <2>2. ASSUME NEW x \in Slot
        PROVE  /\ job'[x] \in Job /\ JobInv(job'[x], Stopping(x)')
               /\ job'[x].pc = job[x].pc
    <3>1. Stopping(x) => Stopping(x)'
      BY <2>1 DEF Stopping
    <3>2. CASE x \in SlotsOf(p) /\ Running(x)
      <4>1. job'[x] = Cause(job[x], "canceled") /\ Stopping(x)' = TRUE
        BY <1>12, <2>1, <3>2 DEF Shutdown, SlotsOf, Stopping
      <4> QED BY ZenonT(40), <1>0, <3>2, <4>1 DEF Cause, Running, Job, JobInv, LocalsFresh, GroupInv,
                                      WatchInv, CauseInv, Active, NoJob
    <3>3. CASE ~(x \in SlotsOf(p) /\ Running(x))
      <4>1. job'[x] = job[x]
        BY <1>12, <3>3 DEF Shutdown
      <4> QED BY <1>0, <3>1, <4>1 DEF JobInv, CauseInv
    <3> QED BY <3>2, <3>3
  <2>3. job' \in [Slot -> Job]
    BY <1>12, <2>2 DEF Shutdown
  <2> QED BY <1>0, <2>1, <2>2, <2>3 DEF XInv
<1>13. ASSUME NEW p \in Process, Crash(p) PROVE XInv'
  <2>1. /\ UNCHANGED <<dest, tmp, cancelled>> /\ stopping' = stopping \ {p}
        /\ \A x \in SlotsOf(p) : job'[x] = NoJob /\ call'[x] = NoCall
        /\ \A x \in Slot \ SlotsOf(p) : job'[x] = job[x] /\ call'[x] = call[x]
    BY <1>13 DEF Crash, SlotsOf
  <2>2. NoCall \in Call
    BY DEF NoCall, Call, Step, Tree
  <2>3. job' \in [Slot -> Job] /\ call' \in [Slot -> Call]
    BY <1>0, <1>13, <2>2, FreshJobs DEF Crash, CacheInv, CacheTypeOK
  <2>4. CacheInv'
    <3>1. \A x \in Slot : Owns(x)' => Owns(x) /\ call'[x] = call[x]
      BY <2>1 DEF Owns, NoCall
    <3>2. \A x \in Slot : CallInv(x)'
      BY <1>0, <2>1 DEF CacheInv, CallInv, Owns, NoCall
    <3>3. \A x \in Slot : call'[x].suffix = call[x].suffix \/ call'[x].suffix = NoSuffix
      BY <2>1 DEF NoCall
    <3>4. PrivateTrees'
      <4> SUFFICES ASSUME NEW x \in Slot, NEW y \in Slot,
                          Owns(x)', call'[x].suffix = call'[y].suffix
                   PROVE  x = y
        BY DEF PrivateTrees
      <4> QED BY <1>0, <3>1, <3>2, <3>3 DEF CacheInv, CallInv, PrivateTrees
    <3> QED BY <1>0, <2>1, <2>3, <3>2, <3>4 DEF CacheInv, CacheTypeOK
  <2>5. \A x \in Slot \ SlotsOf(p) : Stopping(x)' = Stopping(x)
    BY <2>1 DEF SlotsOf, Stopping
  <2>6. \A x \in Slot : Stopping(x)' \in BOOLEAN
    BY DEF Stopping
  <2>7. \A x \in Slot : JobInv(job'[x], Stopping(x)')
    BY <1>0, <2>1, <2>5, <2>6, FreshJobs
  <2>8. \A x \in Slot : job'[x].pc # "ensure" => call'[x].at = "none"
    BY <2>1 DEF XInv, NoCall
  <2> QED BY <2>1, <2>3, <2>4, <2>7, <2>8 DEF XInv
<1>14. ASSUME NEW p \in Process, Boot(p) PROVE XInv'
  <2>1. CacheInv' /\ UNCHANGED <<call, job, cancelled>> /\ stopping' = stopping \ {p}
    BY <1>0, <1>14 DEF Boot, cacheVars, CacheInv, CacheTypeOK, CallInv, PrivateTrees, Owns
  <2>2. ASSUME NEW x \in Slot PROVE JobInv(job'[x], Stopping(x)')
    <3>1. CASE x \in SlotsOf(p)
      <4>1. job[x] = NoJob
        BY <1>0, <1>14, <3>1, FreshJobs DEF Boot
      <4>2. Stopping(x)' \in BOOLEAN
        BY DEF Stopping
      <4> QED BY <2>1, <4>1, <4>2, FreshJobs
    <3>2. CASE x \notin SlotsOf(p)
      BY <1>0, <2>1, <3>2 DEF SlotsOf, Stopping
    <3> QED BY <3>1, <3>2
  <2> QED BY <2>1, <2>2 DEF XInv
<1>15. CASE UNCHANGED xvars
  BY <1>0, <1>15 DEF xvars, cacheVars, XInv, CacheInv, CacheTypeOK, CallInv, PrivateTrees, Owns,
                     Stopping
<1> QED BY <1>1, <1>2, <1>3, <1>4, <1>5, <1>6, <1>7, <1>8, <1>9, <1>10, <1>11, <1>12,
           <1>13, <1>14, <1>15 DEF XNext, Main

\* Every reachable state of any number of workers and slots satisfies it.
THEOREM XInvariant == XSpec => []XInv
BY XInvInit, XInvNext, PTL DEF XSpec

-----------------------------------------------------------------------------
(* What the invariant says of the properties the run checks. *)

\* Shapes; and a wrapper is alive only while its attempt waits for it.
THEOREM AttemptsTyped == XSpec => []XTypeOK
<1>1. XInv => XTypeOK
  BY DEF XInv, CacheInv, XTypeOK, JobInv, GroupInv
<1> QED BY <1>1, XInvariant, PTL

\* Extract's "a nil error means dest holds the full extracted tree", whatever
\* number of slots and workers share the cache and wherever they die.
THEOREM CacheIsWhole == XSpec => []WholeBundle
<1>1. XInv => WholeBundle
  BY DEF XInv, CacheInv, CallInv, WholeBundle
<1> QED BY <1>1, XInvariant, PTL

\* An attempt the platform killed, even one whose wrapper was just exiting by
\* itself, is reported as cancelled or timed out, unless its worker is shutting
\* down.
THEOREM KillsAreNamed == XSpec => []KilledIsNamed
<1>1. XInv => KilledIsNamed
  BY DEF XInv, JobInv, CauseInv, KilledIsNamed
<1> QED BY <1>1, XInvariant, PTL

-----------------------------------------------------------------------------
(* Every attempt is one of JobLife: refinement, step by step. *)

\* The server has told the watchdog that the run is cancelled.
Told(j) == j.flag \/ j.watch \in {"seen", "flagged"}

\* The phase a job is in, read off its program counter and its watchdog.
LEMMA Phases ==
    ASSUME NEW j \in Job
    PROVE  /\ j.pc = "idle" => Phase(j) = "idle"
           /\ j.pc = "ensure" => Phase(j) = "preparing"
           /\ j.pc = "reporting" => Phase(j) = "reporting"
           /\ Active(j) => Phase(j) = IF Told(j) THEN "killing" ELSE "running"
BY DEF Phase, Active, Told, Job

\* A step that moves one attempt moves one entry of JobLife's functions.
LEMMA LifeEnters ==
    ASSUME XInv, NEW x \in Slot, NEW k, job' = [job EXCEPT ![x] = k],
           NEW from, Phase(job[x]) \in from, NEW to, to = Phase(k), NEW r, r = k.report
    PROVE  Life!Enter(x, from, to, r)
<1>1. \A y \in Slot : job'[y] = IF y = x THEN k ELSE job[y]
  BY DEF XInv
<1>2. [y \in Slot |-> Phase(job'[y])] = [[y \in Slot |-> Phase(job[y])] EXCEPT ![x] = Phase(k)]
  <2>1. \A y \in Slot : Phase(job'[y]) = IF y = x THEN Phase(k) ELSE Phase(job[y])
    BY <1>1
  <2> QED BY <2>1
<1>3. [y \in Slot |-> job'[y].report] = [[y \in Slot |-> job[y].report] EXCEPT ![x] = k.report]
  <2>1. \A y \in Slot : job'[y].report = IF y = x THEN k.report ELSE job[y].report
    BY <1>1
  <2> QED BY <2>1
<1> QED BY <1>2, <1>3 DEF Life!Enter

\* A step that keeps the phase and the report of every attempt is none of JobLife.
LEMMA LifeStutters ==
    ASSUME UNCHANGED cancelled,
           \A y \in Slot : Phase(job'[y]) = Phase(job[y]) /\ job'[y].report = job[y].report
    PROVE  UNCHANGED Life!lifeVars
<1>1. [y \in Slot |-> Phase(job'[y])] = [y \in Slot |-> Phase(job[y])]
  OBVIOUS
<1>2. [y \in Slot |-> job'[y].report] = [y \in Slot |-> job[y].report]
  OBVIOUS
<1> QED BY <1>1, <1>2 DEF Life!lifeVars

\* A local step stutters when it keeps its own attempt's phase and report.
LEMMA LocalStutters ==
    ASSUME XInv, NEW x \in Slot, NEW k, Local(x, k),
           Phase(k) = Phase(job[x]), k.report = job[x].report
    PROVE  UNCHANGED Life!lifeVars
<1>1. \A y \in Slot : job'[y] = IF y = x THEN k ELSE job[y]
  BY DEF XInv, Local
<1>2. \A y \in Slot : Phase(job'[y]) = Phase(job[y]) /\ job'[y].report = job[y].report
  BY <1>1
<1> QED BY <1>2, LifeStutters DEF Local

\* What the wrapper's group, the timeout, the kill and cmd.Wait do to an attempt
\* is invisible until the verdict.
LEMMA QuietSteps ==
    ASSUME NEW j \in Job, NEW k \in Job,
           k.pc = j.pc \/ (Active(j) /\ Active(k)), Told(k) <=> Told(j)
    PROVE  Phase(k) = Phase(j)
<1>1. CASE Active(j) /\ Active(k)
  BY <1>1, Phases
<1>2. CASE k.pc = j.pc
  BY <1>2 DEF Phase, Told
<1> QED BY <1>1, <1>2

\* Every step of any slot or process is a step of JobLife or leaves it alone.
LEMMA LifeStep == XInv /\ [XNext]_xvars => [Life!Next]_(Life!lifeVars)
<1> SUFFICES ASSUME XInv, [XNext]_xvars
             PROVE  Life!Next \/ UNCHANGED Life!lifeVars
  OBVIOUS
<1>0. \A x \in Slot : /\ job[x] \in Job /\ Stopping(x) \in BOOLEAN
                      /\ JobInv(job[x], Stopping(x))
                      /\ (job[x].pc # "reporting" => job[x].report = NoReport)
  BY DEF XInv, Stopping, JobInv, LocalsFresh
<1>1. ASSUME NEW x \in Slot, Begin(x) PROVE Life!Claim(x)
  <2> DEFINE k == [NoJob EXCEPT !.pc = "ensure"]
  <2>1. job[x] = NoJob /\ job' = [job EXCEPT ![x] = k] /\ cancelled' = cancelled \ {x}
    BY <1>0, <1>1, FreshJobs DEF Begin, XInv
  <2>2. Phase(job[x]) = "idle" /\ Phase(k) = "preparing" /\ k.report = NoReport
    BY <2>1 DEF Phase, NoJob
  <2>3. Life!Enter(x, {"idle"}, "preparing", NoReport)
    BY <2>1, <2>2, LifeEnters
  <2> QED BY <2>1, <2>3 DEF Life!Claim
<1>2. ASSUME NEW x \in Slot, Ensure(x) PROVE UNCHANGED Life!lifeVars
  BY <1>2, LifeStutters DEF Ensure
<1>3. ASSUME NEW x \in Slot, FailToStart(x) PROVE Life!FailToStart(x)
  <2> DEFINE k == [job[x] EXCEPT !.pc = "reporting", !.report = "failed"]
  <2>1. job[x].pc = "ensure" /\ job' = [job EXCEPT ![x] = k] /\ cancelled' = cancelled
    BY <1>3 DEF FailToStart, XInv
  <2>2. Phase(job[x]) = "preparing" /\ Phase(k) = "reporting" /\ k.report = "failed"
    BY <1>0, <2>1 DEF Phase, Job
  <2>3. Life!Enter(x, {"preparing"}, "reporting", "failed")
    BY <2>1, <2>2, LifeEnters
  <2> QED BY <2>1, <2>3 DEF Life!FailToStart
<1>4. ASSUME NEW x \in Slot, Start(x) PROVE Life!Start(x)
  <2> PICK S \in SUBSET Engine :
          job' = [job EXCEPT ![x] = [NoJob EXCEPT
                     !.pc = "waiting", !.group = {"wrapper"} \cup S,
                     !.killer = "armed", !.watch = "select"]]
    BY <1>4 DEF Start
  <2> DEFINE k == [NoJob EXCEPT !.pc = "waiting", !.group = {"wrapper"} \cup S,
                                !.killer = "armed", !.watch = "select"]
  <2>1. job[x].pc = "ensure" /\ cancelled' = cancelled
    BY <1>4 DEF Start
  <2>2. Phase(job[x]) = "preparing" /\ Phase(k) = "running" /\ k.report = NoReport
    BY <2>1 DEF Phase, NoJob
  <2>3. Life!Enter(x, {"preparing"}, "running", NoReport)
    BY <2>1, <2>2, LifeEnters
  <2> QED BY <2>1, <2>3 DEF Life!Start
<1>5. ASSUME NEW x \in Slot, Decide(x) PROVE Life!ReportKilled(x) \/ Life!Finish(x)
  <2> PICK r \in Verdict(job[x]) : Local(x, [job[x] EXCEPT !.pc = "reporting", !.report = r])
    BY <1>5 DEF Decide
  <2> DEFINE k == [job[x] EXCEPT !.pc = "reporting", !.report = r]
  <2>1. job[x].pc = "joining" /\ job[x].watch = "done"
        /\ job' = [job EXCEPT ![x] = k] /\ cancelled' = cancelled
    BY <1>5 DEF Decide, Local
  <2>2. Phase(job[x]) = (IF job[x].flag THEN "killing" ELSE "running")
    BY <1>0, <2>1 DEF Phase
  <2>3. Phase(k) = "reporting" /\ k.report = r
    BY <1>0 DEF Phase, Job
  <2>4. Life!Enter(x, {Phase(job[x])}, "reporting", r)
    BY <2>1, <2>3, LifeEnters
  <2>5. \/ r = "cancelled" /\ job[x].flag
        \/ r \in Life!Outcome /\ ~job[x].flag
    <3>1. CASE job[x].flag
      BY <3>1 DEF Verdict
    <3>2. CASE ~job[x].flag
      BY <3>2 DEF Verdict, ReadResult, Life!Outcome
    <3> QED BY <3>1, <3>2
  <2> QED BY <2>1, <2>2, <2>4, <2>5 DEF Life!ReportKilled, Life!Finish
<1>6. ASSUME NEW x \in Slot, Post(x) PROVE Life!Leave(x)
  <2>1. job[x].pc = "reporting" /\ job' = [job EXCEPT ![x] = NoJob] /\ cancelled' = cancelled
    BY <1>6 DEF Post, Local
  <2>2. Phase(job[x]) = "reporting" /\ Phase(NoJob) = "idle" /\ NoJob.report = NoReport
    BY <2>1 DEF Phase, NoJob
  <2>3. Life!Enter(x, {"reporting"}, "idle", NoReport)
    BY <2>1, <2>2, LifeEnters
  <2> QED BY <2>1, <2>3 DEF Life!Leave
<1>7. ASSUME NEW x \in Slot, NEW k, Local(x, k), k.report = job[x].report,
             k.pc = job[x].pc, k.flag = job[x].flag, k.watch = job[x].watch
      PROVE  UNCHANGED Life!lifeVars
  <2>1. Phase(k) = Phase(job[x])
    BY <1>7 DEF Phase
  <2> QED BY <1>7, <2>1, LocalStutters
<1>8. ASSUME NEW x \in Slot, Reap(x) \/ DrainPipes(x) \/ Sample(x)
      PROVE  UNCHANGED Life!lifeVars
  <2>1. ASSUME NEW k \in Job, Local(x, k), Active(job[x]), Active(k),
               k.report = job[x].report, k.flag = job[x].flag, k.watch = job[x].watch
        PROVE  UNCHANGED Life!lifeVars
    BY <1>0, <2>1, QuietSteps, LocalStutters DEF Told
  <2>2. CASE Reap(x)
    <3> DEFINE k == [job[x] EXCEPT !.pc = "draining",
                               !.killer = IF @ = "armed" THEN "off" ELSE @]
    <3>1. Local(x, k) /\ job[x].pc = "waiting"
      BY <2>2 DEF Reap
    <3>2. /\ k \in Job /\ Active(job[x]) /\ Active(k)
          /\ k.report = job[x].report /\ k.flag = job[x].flag /\ k.watch = job[x].watch
      BY ZenonT(40), <1>0, <3>1 DEF Active, Job
    <3> QED BY <2>1, <3>1, <3>2
  <2>3. CASE DrainPipes(x)
    <3> DEFINE k == [job[x] EXCEPT !.pc = "sampling"]
    <3>1. Local(x, k) /\ job[x].pc = "draining"
      BY <2>3 DEF DrainPipes
    <3>2. /\ k \in Job /\ Active(job[x]) /\ Active(k)
          /\ k.report = job[x].report /\ k.flag = job[x].flag /\ k.watch = job[x].watch
      BY ZenonT(40), <1>0, <3>1 DEF Active, Job
    <3> QED BY <2>1, <3>1, <3>2
  <2>4. CASE Sample(x)
    <3> DEFINE k == [Cause(job[x], "canceled") EXCEPT
                        !.pc = "joining", !.timedOut = job[x].ctxErr = "deadline"]
    <3>1. Local(x, k) /\ job[x].pc = "sampling"
      BY <2>4 DEF Sample
    <3>2. k \in Job
      BY <1>0, <3>1, WaitSteps, Zenon
    <3>3. /\ Active(job[x]) /\ Active(k)
          /\ k.report = job[x].report /\ k.flag = job[x].flag /\ k.watch = job[x].watch
      BY <1>0, <3>1 DEF Active, Job, Cause
    <3> QED BY <2>1, <3>1, <3>2, <3>3
  <2> QED BY <1>8, <2>2, <2>3, <2>4
<1>9. ASSUME NEW x \in Slot, Deadline(x) \/ Kill(x) PROVE UNCHANGED Life!lifeVars
  <2>1. CASE Deadline(x)
    BY <1>0, <1>7, <2>1 DEF Deadline, Cause, Job
  <2>2. CASE Kill(x)
    BY <1>0, <1>7, <2>2 DEF Kill, Job
  <2> QED BY <1>9, <2>1, <2>2
<1>10. ASSUME NEW x \in Slot, \/ \E how \in {"exit 0", "exit 1"} : WrapperExits(x, how)
                              \/ \E e \in Engine : EngineExits(x, e)
       PROVE  UNCHANGED Life!lifeVars
  <2>1. ASSUME NEW how \in {"exit 0", "exit 1"}, WrapperExits(x, how)
        PROVE  UNCHANGED Life!lifeVars
    BY <1>0, <1>7, <2>1 DEF WrapperExits, Job
  <2>2. ASSUME NEW e \in Engine, EngineExits(x, e) PROVE UNCHANGED Life!lifeVars
    BY <1>0, <1>7, <2>2 DEF EngineExits, Job
  <2> QED BY <1>10, <2>1, <2>2
<1>11. ASSUME NEW x \in Slot, Watchdog(x) PROVE UNCHANGED Life!lifeVars \/ Life!SeeCancel(x)
  <2> DEFINE j == job[x]
  <2>1. /\ j \in Job
        /\ j.watch \in {"select", "polling", "seen", "flagged"} => Active(j)
        /\ j.flag => j.watch \in {"flagged", "done"}
        /\ j.watch = "flagged" => j.flag
    BY <1>0 DEF JobInv, WatchInv
  \* A step that tells the watchdog nothing new.
  <2>2. ASSUME NEW k \in Job, Local(x, k), k.pc = j.pc, k.report = j.report, Told(k) <=> Told(j)
        PROVE  UNCHANGED Life!lifeVars
    BY <2>1, <2>2, QuietSteps, LocalStutters
  <2>3. CASE Tick(x) \/ WatchEnds(x)
    <3>1. PICK w \in {"polling", "done"} : Local(x, [j EXCEPT !.watch = w])
      BY <2>3 DEF Tick, WatchEnds
    <3>2. j.watch = "select"
      BY <2>3 DEF Tick, WatchEnds
    <3> DEFINE k == [j EXCEPT !.watch = w]
    <3>3. k \in Job /\ k.pc = j.pc /\ k.report = j.report /\ (Told(k) <=> Told(j))
      BY <2>1, <3>2 DEF Told, Job
    <3> QED BY <2>2, <3>1, <3>3
  <2>4. CASE Answer(x)
    <3>1. j.watch = "polling" /\ ~j.flag
      BY <2>1, <2>4 DEF Answer
    <3>2. CASE Local(x, [j EXCEPT !.watch = "select"])
      <4> DEFINE k == [j EXCEPT !.watch = "select"]
      <4>1. k \in Job /\ k.pc = j.pc /\ k.report = j.report /\ (Told(k) <=> Told(j))
        BY <2>1, <3>1 DEF Told, Job
      <4> QED BY <2>2, <3>2, <4>1
    <3>3. CASE x \in cancelled /\ Local(x, [j EXCEPT !.watch = "seen"])
      <4> DEFINE k == [j EXCEPT !.watch = "seen"]
      <4>1. k \in Job /\ Active(k) /\ Told(k) /\ k.report = NoReport /\ Active(j) /\ ~Told(j)
        BY <1>0, <2>1, <3>1 DEF Told, Active, Job
      <4>2. Phase(j) = "running" /\ Phase(k) = "killing"
        BY <2>1, <4>1, Phases
      <4>3. job' = [job EXCEPT ![x] = k] /\ cancelled' = cancelled
        BY <3>3 DEF Local
      <4>4. Life!Enter(x, {"running"}, "killing", NoReport)
        BY <4>1, <4>2, <4>3, LifeEnters
      <4> QED BY <3>3, <4>3, <4>4 DEF Life!SeeCancel
    <3> QED BY <2>4, <3>2, <3>3 DEF Answer
  <2>5. CASE SetFlag(x)
    <3> DEFINE k == [j EXCEPT !.watch = "flagged", !.flag = TRUE]
    <3>1. Local(x, k) /\ j.watch = "seen"
      BY <2>5 DEF SetFlag
    <3>2. k \in Job /\ k.pc = j.pc /\ k.report = j.report /\ (Told(k) <=> Told(j))
      BY <2>1, <3>1 DEF Told, Job
    <3> QED BY <2>2, <3>1, <3>2
  <2>6. CASE CancelRun(x)
    <3> DEFINE k == [Cause(j, "canceled") EXCEPT !.watch = "done"]
    <3>1. Local(x, k) /\ j.watch = "flagged"
      BY <2>6 DEF CancelRun
    <3>2. k \in Job /\ k.pc = j.pc /\ k.report = j.report /\ (Told(k) <=> Told(j))
      BY <2>1, <3>1 DEF Told, Cause, Job
    <3> QED BY <2>2, <3>1, <3>2
  <2> QED BY <1>11, <2>3, <2>4, <2>5, <2>6 DEF Watchdog
<1>12. ASSUME NEW x \in Slot, Operate(x) PROVE Life!Operate(x)
  <2>1. job' = job /\ cancelled' \in {cancelled \cup {x}, cancelled \ {x}}
    BY <1>12 DEF Operate
  <2> QED BY <2>1 DEF Life!Operate
<1>13. ASSUME NEW p \in Process, Shutdown(p) PROVE UNCHANGED Life!lifeVars
  <2>1. ASSUME NEW x \in Slot
        PROVE  Phase(job'[x]) = Phase(job[x]) /\ job'[x].report = job[x].report
    <3>1. job'[x] = job[x] \/ job'[x] = Cause(job[x], "canceled")
      BY <1>13 DEF Shutdown
    <3> QED BY <1>0, <3>1 DEF Cause, Phase, Job
  <2> QED BY <1>13, <2>1, LifeStutters DEF Shutdown
<1>14. ASSUME NEW p \in Process, Crash(p) PROVE Life!Die(SlotsOf(p))
  <2>1. \A x \in Slot : job'[x] = IF x \in SlotsOf(p) THEN NoJob ELSE job[x]
    BY <1>14 DEF Crash
  <2>2. Phase(NoJob) = "idle" /\ NoJob.report = NoReport
    BY DEF Phase, NoJob
  <2>3. \A x \in Slot : Phase(job'[x]) = IF x \in SlotsOf(p) THEN "idle" ELSE Phase(job[x])
    BY <2>1, <2>2
  <2>4. \A x \in Slot : job'[x].report = IF x \in SlotsOf(p) THEN NoReport ELSE job[x].report
    BY <2>1, <2>2
  <2> QED BY <1>14, <2>3, <2>4 DEF Crash, Life!Die
<1>15. ASSUME NEW p \in Process, Boot(p) PROVE UNCHANGED Life!lifeVars
  BY <1>15, LifeStutters DEF Boot
<1>16. CASE UNCHANGED xvars
  BY <1>16, LifeStutters DEF xvars
<1>17. ASSUME NEW x \in Slot, Main(x) PROVE Life!Next \/ UNCHANGED Life!lifeVars
  BY <1>2, <1>3, <1>4, <1>5, <1>6, <1>8, <1>17 DEF Main, Life!Next
<1>18. \A p \in Process : SlotsOf(p) \in SUBSET Slot
  BY DEF SlotsOf
<1> QED BY <1>1, <1>9, <1>10, <1>11, <1>12, <1>13, <1>14, <1>15, <1>16, <1>17, <1>18
        DEF XNext, Life!Next

\* The attempt that Evals composes with the queue is the attempt of the code.
THEOREM AttemptImplementsLife == XSpec => LifeSpec
<1>1. XInit => Life!Init
  <2> SUFFICES ASSUME XInit PROVE Life!Init
    OBVIOUS
  <2>1. Phase(NoJob) = "idle" /\ NoJob.report = NoReport
    BY DEF Phase, NoJob
  <2>2. \A x \in Slot : Phase(job[x]) = "idle" /\ job[x].report = NoReport
    BY <2>1 DEF XInit
  <2> QED BY <2>2 DEF XInit, Life!Init
<1> QED BY <1>1, LifeStep, XInvariant, PTL DEF XSpec, LifeSpec, Life!Spec
=============================================================================
