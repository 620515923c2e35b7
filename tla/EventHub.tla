------------------------------ MODULE EventHub ------------------------------
(***************************************************************************)
(* Live updates: the in-process event hub of the serve process             *)
(* (internal/server/events.go) and the browser tabs that listen to it      *)
(* (web/src/api/events.ts and the pages' refresh callbacks).               *)
(*                                                                         *)
(* `version` counts the committed changes of the database and stands for   *)
(* its content.  Every write path commits, then notifies; another writer   *)
(* may come in between.  All events say the same ("something changed"), so *)
(* a channel and a connection are the number of events in them.  A tab     *)
(* shows one page, which has one listener; which of two overlapping        *)
(* answers it shows last is left out.                                      *)
(*                                                                         *)
(* A channel whose connection has ended is not modelled: nobody reads it   *)
(* and the broadcast never waits for it.                                   *)
(***************************************************************************)
EXTENDS Naturals

CONSTANTS
    Tab,
    Buffer,       \* capacity of a subscriber's channel (8 in the code)
    Pipe,         \* events a connection holds between server and browser
    Slots,        \* bound: refetches of one page under way at the same time
    MaxVersion,   \* bound: changes of the database
    MaxDrops      \* bound: lost connections

ASSUME HubAssumption ==
    /\ Buffer \in Nat \ {0} /\ Pipe \in Nat \ {0}
    /\ MaxVersion \in Nat /\ MaxDrops \in Nat

VARIABLES
    version,      \* the last committed change
    unannounced,  \* commits whose notify() is still to come
    link,         \* per tab: "closed" without a page, else "connecting" or "open"
    buffered,     \* per tab: events in its channel
    wire,         \* per tab: events in its connection
    timer,        \* tabs whose debounce timer is set
    fetch,        \* per tab and slot: a refetch
    read,         \* history, per tab: the last version the server answered it
    owed,         \* history, per tab: the last change made while it was connected
    drops         \* lost connections so far

hubVars == <<version, unannounced, link, buffered, wire, timer, fetch, read,
             owed, drops>>

Version == 0..MaxVersion

Fetch == {"idle", "asked", "answered"}

Connected == {t \in Tab : link[t] = "open"}

HubInit ==
    /\ version = 0 /\ unannounced = 0 /\ drops = 0
    /\ link = [t \in Tab |-> "closed"]
    /\ buffered = [t \in Tab |-> 0] /\ wire = [t \in Tab |-> 0]
    /\ timer = {}
    /\ fetch = [t \in Tab |-> [i \in Slots |-> "idle"]]
    /\ read = [t \in Tab |-> 0] /\ owed = [t \in Tab |-> 0]

-----------------------------------------------------------------------------
(* Server. *)

\* Variant: a handler that forgets to notify.
CommitSilently ==
    /\ version < MaxVersion
    /\ version' = version + 1
    /\ owed' = [t \in Tab |-> IF t \in Connected THEN version' ELSE owed[t]]
    /\ UNCHANGED <<unannounced, link, buffered, wire, timer, fetch, read, drops>>

\* A handler or the sweeper changes a run.
Commit ==
    /\ version < MaxVersion
    /\ version' = version + 1
    /\ unannounced' = unannounced + 1
    /\ owed' = [t \in Tab |-> IF t \in Connected THEN version' ELSE owed[t]]
    /\ UNCHANGED <<link, buffered, wire, timer, fetch, read, drops>>

\* Variant: events are queued without a bound instead of dropped.
NotifyUnbounded ==
    /\ unannounced > 0
    /\ unannounced' = unannounced - 1
    /\ buffered' = [t \in Tab |-> buffered[t] + IF t \in Connected THEN 1 ELSE 0]
    /\ UNCHANGED <<version, link, wire, timer, fetch, read, owed, drops>>

\* broadcast never waits: a subscriber whose channel is full misses the event.
Notify ==
    /\ unannounced > 0
    /\ unannounced' = unannounced - 1
    /\ buffered' = [t \in Tab |-> IF t \in Connected /\ buffered[t] < Buffer
                                  THEN buffered[t] + 1 ELSE buffered[t]]
    /\ UNCHANGED <<version, link, wire, timer, fetch, read, owed, drops>>

\* handleEvents subscribes when the request arrives, with an empty channel.
Subscribe(t) ==
    /\ link[t] = "connecting"
    /\ link' = [link EXCEPT ![t] = "open"]
    /\ UNCHANGED <<version, unannounced, buffered, wire, timer, fetch,
                   read, owed, drops>>

\* One round of handleEvents' loop: an event from the channel to the connection.
Forward(t) ==
    /\ buffered[t] > 0 /\ wire[t] < Pipe
    /\ buffered' = [buffered EXCEPT ![t] = @ - 1]
    /\ wire' = [wire EXCEPT ![t] = @ + 1]
    /\ UNCHANGED <<version, unannounced, link, timer, fetch, read, owed, drops>>

\* A GET handler reads the committed state.
Answer(t, i) ==
    /\ fetch[t][i] = "asked"
    /\ fetch' = [fetch EXCEPT ![t][i] = "answered"]
    /\ read' = [read EXCEPT ![t] = version]
    /\ UNCHANGED <<version, unannounced, link, buffered, wire, timer, owed, drops>>

-----------------------------------------------------------------------------
(* Browser. *)

\* The page's effects: its first fetch, and the singleton source is opened.
Mount(t, i) ==
    /\ link[t] = "closed"
    /\ link' = [link EXCEPT ![t] = "connecting"]
    /\ fetch' = [fetch EXCEPT ![t][i] = "asked"]
    /\ UNCHANGED <<version, unannounced, buffered, wire, timer, read, owed, drops>>

\* The last listener goes: closeIfIdle closes the source and clears the timer.
\* Answers that are still to come find no page.
Leave(t) ==
    /\ link[t] # "closed"
    /\ link' = [link EXCEPT ![t] = "closed"]
    /\ buffered' = [buffered EXCEPT ![t] = 0] /\ wire' = [wire EXCEPT ![t] = 0]
    /\ timer' = timer \ {t}
    /\ fetch' = [fetch EXCEPT ![t] = [i \in Slots |-> "idle"]]
    /\ read' = [read EXCEPT ![t] = 0] /\ owed' = [owed EXCEPT ![t] = 0]
    /\ UNCHANGED <<version, unannounced, drops>>

\* The connection is lost with what is in it; EventSource reconnects by itself,
\* and nothing is refetched for that.
Disconnect(t) ==
    /\ link[t] = "open" /\ drops < MaxDrops
    /\ link' = [link EXCEPT ![t] = "connecting"]
    /\ buffered' = [buffered EXCEPT ![t] = 0] /\ wire' = [wire EXCEPT ![t] = 0]
    /\ owed' = [owed EXCEPT ![t] = 0]
    /\ drops' = drops + 1
    /\ UNCHANGED <<version, unannounced, timer, fetch, read>>

\* An event sets the debounce timer unless it is set.
OnChange(t) ==
    /\ wire[t] > 0
    /\ wire' = [wire EXCEPT ![t] = @ - 1]
    /\ timer' = timer \cup {t}
    /\ UNCHANGED <<version, unannounced, link, buffered, fetch, read, owed, drops>>

\* Variant: no second refetch while one is under way.
FlushUnlessBusy(t, i) ==
    /\ t \in timer
    /\ timer' = timer \ {t}
    /\ fetch' = IF \A k \in Slots : fetch[t][k] = "idle"
                THEN [fetch EXCEPT ![t][i] = "asked"] ELSE fetch
    /\ UNCHANGED <<version, unannounced, link, buffered, wire, read, owed, drops>>

\* The timer fires and the page's listener refetches.
Flush(t, i) ==
    /\ t \in timer /\ fetch[t][i] = "idle"
    /\ timer' = timer \ {t}
    /\ fetch' = [fetch EXCEPT ![t][i] = "asked"]
    /\ UNCHANGED <<version, unannounced, link, buffered, wire, read, owed, drops>>

\* An answer is in whatever order answers arrive.
Show(t, i) ==
    /\ fetch[t][i] = "answered"
    /\ fetch' = [fetch EXCEPT ![t][i] = "idle"]
    /\ UNCHANGED <<version, unannounced, link, buffered, wire, timer, read, owed, drops>>

HubNext ==
    \/ Commit
    \/ Notify
    \/ \E t \in Tab :
          \/ Subscribe(t) \/ Forward(t) \/ Leave(t) \/ Disconnect(t) \/ OnChange(t)
          \/ \E i \in Slots : Answer(t, i) \/ Mount(t, i) \/ Flush(t, i) \/ Show(t, i)

HubSpec == HubInit /\ [][HubNext]_hubVars

\* A handler that committed goes on to notify; goroutines, timers and requests
\* that can go on do.  Nothing makes an operator, a change or a fault happen.
HubFairness ==
    /\ WF_hubVars(Notify)
    /\ \A t \in Tab :
          /\ WF_hubVars(Subscribe(t)) /\ WF_hubVars(Forward(t)) /\ WF_hubVars(OnChange(t))
          /\ WF_hubVars(\E i \in Slots : Flush(t, i))
          /\ \A i \in Slots : WF_hubVars(Answer(t, i)) /\ WF_hubVars(Show(t, i))

FairHubSpec == HubSpec /\ HubFairness

-----------------------------------------------------------------------------
(* Properties. *)

\* No channel and no connection ever holds more than its capacity, whatever the
\* order of broadcasts, forwards and reconnections; the rest is typing.
HubTypeOK ==
    /\ version \in Version /\ unannounced \in Nat /\ drops \in 0..MaxDrops
    /\ link \in [Tab -> {"closed", "connecting", "open"}]
    /\ buffered \in [Tab -> 0..Buffer] /\ wire \in [Tab -> 0..Pipe]
    /\ timer \subseteq Tab
    /\ fetch \in [Tab -> [Slots -> Fetch]]
    /\ read \in [Tab -> Version] /\ owed \in [Tab -> Version]

\* "A missed one only delays a refetch until the next event" (broadcast): no
\* more than that, although events are dropped and merged.  As long as a tab
\* stays connected, a change it was connected for and has not read yet is still
\* on its way, as a notification to come, an event, a timer or a refetch that
\* the server has not answered.
NudgeUnderWay ==
    \A t \in Tab : owed[t] > read[t] =>
        \/ unannounced > 0 \/ buffered[t] > 0 \/ wire[t] > 0 \/ t \in timer
        \/ \E i \in Slots : fetch[t][i] = "asked"

\* So every change made while a tab is connected is read by its page, unless the
\* page is left or the connection lost (owed is then 0).
ChangesAreRead == \A t \in Tab : owed[t] > read[t] ~> owed[t] <= read[t]
=============================================================================
