--------------------------- MODULE EventHubProofs ---------------------------
(***************************************************************************)
(* Theorems about EventHub, for any tabs, slots and bounds.                *)
(*                                                                         *)
(* NudgeUnderWay is not inductive: the broadcast reaches a tab only while  *)
(* it is subscribed, and an answer settles what is owed only if nothing    *)
(* later is owed.  Owing says both.                                        *)
(***************************************************************************)
EXTENDS EventHub, TLAPS

\* A tab is owed something only while it is connected, and never a change that
\* was not made.
Owing == \A t \in Tab : owed[t] <= version /\ (owed[t] > 0 => link[t] = "open")

HubInv == HubTypeOK /\ Owing /\ NudgeUnderWay

\* Types are kept by each operation: in particular a full channel or connection
\* takes no event.
LEMMA HubTypeKept ==
    ASSUME HubTypeOK, [HubNext]_hubVars
    PROVE  HubTypeOK'
<1> USE HubAssumption DEF HubTypeOK, Version, Fetch
<1>1. CASE Commit
  BY <1>1 DEF Commit
<1>2. CASE Notify
  BY <1>2 DEF Notify
<1>3. ASSUME NEW t \in Tab, Subscribe(t)
      PROVE  HubTypeOK'
  BY <1>3 DEF Subscribe
<1>4. ASSUME NEW t \in Tab, Forward(t)
      PROVE  HubTypeOK'
  BY <1>4 DEF Forward
<1>5. ASSUME NEW t \in Tab, Leave(t)
      PROVE  HubTypeOK'
  BY <1>5 DEF Leave
<1>6. ASSUME NEW t \in Tab, Disconnect(t)
      PROVE  HubTypeOK'
  BY <1>6 DEF Disconnect
<1>7. ASSUME NEW t \in Tab, OnChange(t)
      PROVE  HubTypeOK'
  BY <1>7 DEF OnChange
<1>8. ASSUME NEW t \in Tab, NEW i \in Slots, Answer(t, i)
      PROVE  HubTypeOK'
  BY <1>8 DEF Answer
<1>9. ASSUME NEW t \in Tab, NEW i \in Slots, Mount(t, i)
      PROVE  HubTypeOK'
  BY <1>9 DEF Mount
<1>10. ASSUME NEW t \in Tab, NEW i \in Slots, Flush(t, i)
       PROVE  HubTypeOK'
  BY <1>10 DEF Flush
<1>11. ASSUME NEW t \in Tab, NEW i \in Slots, Show(t, i)
       PROVE  HubTypeOK'
  BY <1>11 DEF Show
<1>12. CASE UNCHANGED hubVars
  BY <1>12 DEF hubVars
<1> QED
  BY <1>1, <1>2, <1>3, <1>4, <1>5, <1>6, <1>7, <1>8, <1>9, <1>10, <1>11, <1>12
  DEF HubNext

-----------------------------------------------------------------------------
\* What a tab is owed is a change that was made, and losing the connection, by
\* leaving the page or by a fault, gives it up.
LEMMA OwingKept ==
    ASSUME HubTypeOK, Owing, [HubNext]_hubVars
    PROVE  Owing'
<1> USE DEF HubTypeOK, Owing, Version
<1>1. CASE Commit
  BY <1>1 DEF Commit, Connected
<1>2. CASE Notify
  BY <1>2 DEF Notify
<1>3. ASSUME NEW t \in Tab, Subscribe(t) \/ Leave(t) \/ Disconnect(t)
      PROVE  Owing'
  BY <1>3 DEF Subscribe, Leave, Disconnect
<1>4. ASSUME NEW t \in Tab, Forward(t) \/ OnChange(t)
      PROVE  Owing'
  BY <1>4 DEF Forward, OnChange
<1>5. ASSUME NEW t \in Tab, NEW i \in Slots, Mount(t, i)
      PROVE  Owing'
  BY <1>5 DEF Mount
<1>6. ASSUME NEW t \in Tab, NEW i \in Slots, Answer(t, i) \/ Flush(t, i) \/ Show(t, i)
      PROVE  Owing'
  BY <1>6 DEF Answer, Flush, Show
<1>7. CASE UNCHANGED hubVars
  BY <1>7 DEF hubVars
<1> QED
  BY <1>1, <1>2, <1>3, <1>4, <1>5, <1>6, <1>7 DEF HubNext

-----------------------------------------------------------------------------
(* The nudge: each operation passes it on to the next stage. *)

Fetching(t) == \E i \in Slots : fetch[t][i] = "asked"

Nudged(t) ==
    unannounced > 0 \/ buffered[t] > 0 \/ wire[t] > 0 \/ t \in timer \/ Fetching(t)

\* A commit owes a notification, which reaches every tab that is owed anything:
\* it is connected, and if its channel is full it holds an event already.
LEMMA ServerKeepsNudge ==
    ASSUME HubInv, Commit \/ Notify
    PROVE  NudgeUnderWay'
<1>1. CASE Commit
  BY <1>1 DEF Commit, HubInv, HubTypeOK, NudgeUnderWay
<1>2. CASE Notify
  <2>1. SUFFICES ASSUME NEW t \in Tab, owed[t] > read[t]
                 PROVE  buffered'[t] > 0
    BY <1>2, <2>1 DEF Notify, NudgeUnderWay
  <2>2. t \in Connected
    BY <2>1 DEF HubInv, HubTypeOK, Owing, Connected, Version
  <2> QED
    BY <1>2, <2>2, HubAssumption DEF Notify, HubInv, HubTypeOK
<1> QED
  BY <1>1, <1>2

\* An event goes from the channel to the connection, to the timer, to a refetch.
LEMMA TabKeepsNudge ==
    ASSUME HubInv, NEW u \in Tab,
           \/ Subscribe(u) \/ Forward(u) \/ OnChange(u)
           \/ \E k \in Slots : Mount(u, k) \/ Flush(u, k) \/ Show(u, k)
    PROVE  NudgeUnderWay'
<1> SUFFICES ASSUME NEW t \in Tab, owed[t] > read[t], Nudged(t),
                    owed' = owed, read' = read
             PROVE  Nudged(t)'
  BY DEF HubInv, NudgeUnderWay, Nudged, Fetching,
         Subscribe, Forward, OnChange, Mount, Flush, Show
<1> USE DEF HubInv, HubTypeOK, Nudged
<1>1. CASE Subscribe(u)
  BY <1>1 DEF Subscribe, Fetching
<1>2. CASE Forward(u)
  BY <1>2 DEF Forward, Fetching
<1>3. CASE OnChange(u)
  BY <1>3 DEF OnChange, Fetching
<1>4. ASSUME NEW k \in Slots, NEW e \in Fetch, fetch' = [fetch EXCEPT ![u][k] = e],
             e = "asked" \/ fetch[u][k] # "asked"
      PROVE  Fetching(t) => Fetching(t)'
  BY <1>4 DEF Fetching
<1>5. "asked" \in Fetch /\ "idle" \in Fetch
  BY DEF Fetch
<1>6. ASSUME NEW k \in Slots, Mount(u, k)
      PROVE  Nudged(t)'
  BY <1>4, <1>5, <1>6 DEF Mount
<1>7. ASSUME NEW k \in Slots, Flush(u, k)
      PROVE  Nudged(t)'
  <2>1. Fetching(u)'
    BY <1>7 DEF Flush, Fetching
  <2>2. Fetching(t) => Fetching(t)'
    BY <1>4, <1>5, <1>7 DEF Flush
  <2> QED
    BY <1>7, <2>1, <2>2 DEF Flush
<1>8. ASSUME NEW k \in Slots, Show(u, k)
      PROVE  Nudged(t)'
  <2>1. fetch[u][k] # "asked"
    BY <1>8 DEF Show
  <2> QED
    BY <1>4, <1>5, <1>8, <2>1 DEF Show
<1> QED
  BY <1>1, <1>2, <1>3, <1>6, <1>7, <1>8

\* An answer carries the last change, so nothing is owed any more; a page that is
\* left and a connection that is lost are owed nothing.
LEMMA DebtsEnd ==
    ASSUME HubInv, NEW u \in Tab,
           (\E k \in Slots : Answer(u, k)) \/ Leave(u) \/ Disconnect(u)
    PROVE  NudgeUnderWay'
<1> SUFFICES ASSUME NEW t \in Tab, (owed[t] > read[t])'
             PROVE  Nudged(t)'
  BY DEF NudgeUnderWay, Nudged, Fetching
<1> USE DEF HubInv, HubTypeOK, Owing, Version
<1>1. t # u
  BY DEF Answer, Leave, Disconnect
<1>2. Nudged(t)
  BY <1>1 DEF Answer, Leave, Disconnect, NudgeUnderWay, Nudged, Fetching
<1> QED
  BY <1>1, <1>2 DEF Answer, Leave, Disconnect, Nudged, Fetching

\* The invariant holds throughout.
THEOREM HubInvariant == HubSpec => []HubInv
<1>1. HubInit => HubInv
  BY HubAssumption DEF HubInit, HubInv, HubTypeOK, Owing, NudgeUnderWay, Version, Fetch
<1>2. ASSUME HubInv, [HubNext]_hubVars
      PROVE  HubInv'
  <2>1. HubTypeOK' /\ Owing'
    BY <1>2, HubTypeKept, OwingKept DEF HubInv
  <2>2. ASSUME UNCHANGED hubVars
        PROVE  NudgeUnderWay'
    BY <1>2, <2>2 DEF hubVars, HubInv, NudgeUnderWay
  <2>3. ASSUME HubNext
        PROVE  NudgeUnderWay'
    BY <1>2, <2>3, ServerKeepsNudge, TabKeepsNudge, DebtsEnd DEF HubNext
  <2> QED
    BY <1>2, <2>1, <2>2, <2>3 DEF HubInv
<1> QED
  BY <1>1, <1>2, PTL DEF HubSpec

\* No channel, connection or page ever leaves its range, for any capacities.
THEOREM HubTypesHold == HubSpec => []HubTypeOK
<1>1. HubInv => HubTypeOK
  BY DEF HubInv
<1> QED
  BY <1>1, HubInvariant, PTL

\* For channels and connections of any capacity and any number of tabs: a change
\* a connected tab has not read is still on its way to it, whatever was dropped.
THEOREM NudgeHolds == HubSpec => []NudgeUnderWay
<1>1. HubInv => NudgeUnderWay
  BY DEF HubInv
<1> QED
  BY <1>1, HubInvariant, PTL
=============================================================================
