----------------------------- MODULE BundleCache ----------------------------
(***************************************************************************)
(* The worker's bundle cache (internal/bundle, ensureBundle): one          *)
(* directory per challenge version, named by the hash of its bundle, and   *)
(* filled by whichever slot misses it first.  Slots of one worker, and of  *)
(* workers that share a cache volume, fill it concurrently and may die in  *)
(* the middle.  Versions live in directories of their own, so one stands   *)
(* for all.                                                                *)
(*                                                                         *)
(* A tree is the set of bundle entries fully written in it.  A process     *)
(* death leaves what was written; a power failure, where a rename may      *)
(* survive the data it moved, is not modelled.                             *)
(***************************************************************************)
EXTENDS Naturals, FiniteSets

CONSTANTS
    Slot,     \* callers of ensureBundle
    Entry,    \* entries of the challenge's tarball
    Suffix,   \* a pool of temporary names; the code draws 64 random bits
    NoDir, NoSuffix

ASSUME CacheAssumption ==
    /\ Entry # {} /\ NoSuffix \notin Suffix
    /\ \A T \in SUBSET Entry : T # NoDir

VARIABLES
    dest,   \* <cache>/challenges/<version>
    tmp,    \* <dest>.tmp.<suffix>
    call    \* each slot's call of ensureBundle

cacheVars == <<dest, tmp, call>>

Tree == SUBSET Entry
Step == {"none", "stat", "fetch", "extract", "unpack", "rename", "restat",
         "ready", "failed"}
Call == [at : Step, data : Tree, suffix : Suffix \cup {NoSuffix}]

NoCall == [at |-> "none", data |-> {}, suffix |-> NoSuffix]

\* The hash tells the true bundle from any other bytes.
HashMatches(data) == data = Entry

Goto(x, at) == call' = [call EXCEPT ![x].at = at]

\* Success, or an error, ends the use of the temporary directory.
Return(x, at) == call' = [call EXCEPT ![x] = [NoCall EXCEPT !.at = at]]

Held == {call[x].suffix : x \in Slot}
Litter == {t \in Suffix \ Held : tmp[t] # NoDir}

Unused == {t \in Suffix \ Held : tmp[t] = NoDir}

\* Variant: the temporary directory has one fixed name.
FixedSuffix(t) == t = CHOOSE u \in Suffix : TRUE

\* Any name that nobody uses is as good as another.
NewSuffix(t) == Unused # {} /\ t = CHOOSE u \in Unused : TRUE

-----------------------------------------------------------------------------
CacheInit ==
    /\ dest = NoDir
    /\ tmp = [t \in Suffix |-> NoDir]
    /\ call = [x \in Slot |-> NoCall]

EnsureBundle(x) ==
    /\ call[x].at = "stat"
    /\ Goto(x, IF dest # NoDir THEN "ready" ELSE "fetch")
    /\ UNCHANGED <<dest, tmp>>

\* The answer is an error, the bundle, or other bytes; `ok` says whether the
\* call can succeed at all.
FetchBundle(x, ok) ==
    /\ call[x].at = "fetch"
    /\ \/ /\ ok
          /\ \E data \in Tree \ {{}} :
                /\ HashMatches(data)
                /\ call' = [call EXCEPT ![x].at = "extract", ![x].data = data]
       \/ Return(x, "failed")
    /\ UNCHANGED <<dest, tmp>>

\* Extract's stat, then its private temporary directory.
ExtractBegin(x) ==
    /\ call[x].at = "extract"
    /\ \/ dest # NoDir /\ Return(x, "ready") /\ UNCHANGED tmp
       \/ /\ dest = NoDir
          /\ \E t \in Suffix :
                /\ NewSuffix(t)
                /\ tmp' = [tmp EXCEPT ![t] = IF @ = NoDir THEN {} ELSE @]
                /\ call' = [call EXCEPT ![x].at = "unpack", ![x].suffix = t]
       \/ dest = NoDir /\ Return(x, "failed") /\ UNCHANGED tmp
    /\ UNCHANGED dest

\* Parent directories are made again for every entry, so a tree that was
\* removed under the writer comes back with what is written from then on.
Grown(tree, e) == (IF tree = NoDir THEN {} ELSE tree) \cup {e}

\* The next entry in the tarball's order, or any I/O error, which cleans up.
WriteEntry(x) ==
    LET t == call[x].suffix IN
    /\ call[x].at = "unpack"
    /\ \/ /\ call[x].data # {}
          /\ LET e == CHOOSE e \in call[x].data : TRUE IN
                /\ tmp' = [tmp EXCEPT ![t] = Grown(@, e)]
                /\ call' = [call EXCEPT ![x].data = @ \ {e}]
       \/ call[x].data = {} /\ Goto(x, "rename") /\ UNCHANGED tmp
       \/ tmp' = [tmp EXCEPT ![t] = NoDir] /\ Return(x, "failed")
    /\ UNCHANGED dest

\* The rename is atomic and fails on an existing directory.  Then, or on any
\* other error, the temporary tree is removed.
Rename(x) ==
    LET t == call[x].suffix IN
    /\ call[x].at = "rename"
    /\ tmp' = [tmp EXCEPT ![t] = NoDir]
    /\ \/ dest = NoDir /\ tmp[t] # NoDir /\ dest' = tmp[t] /\ Return(x, "ready")
       \/ UNCHANGED dest /\ Return(x, "restat")

\* Whoever won the race has filled the destination.
Restat(x) ==
    /\ call[x].at = "restat"
    /\ Return(x, IF dest # NoDir THEN "ready" ELSE "failed")
    /\ UNCHANGED <<dest, tmp>>

CacheStep(x, ok) ==
    \/ EnsureBundle(x) \/ FetchBundle(x, ok)
    \/ ExtractBegin(x) \/ WriteEntry(x) \/ Rename(x) \/ Restat(x)

-----------------------------------------------------------------------------
(* Properties. *)

CacheTypeOK ==
    /\ dest \in {NoDir} \cup Tree
    /\ tmp \in [Suffix -> {NoDir} \cup Tree]
    /\ call \in [Slot -> Call]

\* Extract: "A nil error means dest holds the full extracted tree".  Whatever
\* races, I/O errors, bad downloads and deaths came before, a slot that was
\* told to go on finds the whole bundle, and nobody ever sees a part of it.
WholeBundle ==
    /\ dest \in {NoDir, Entry}
    /\ \A x \in Slot : call[x].at = "ready" => dest = Entry
=============================================================================
