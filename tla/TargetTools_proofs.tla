-------------------------- MODULE TargetTools_proofs --------------------------
(***************************************************************************)
(* For any number of calls and targets: the promise chain of               *)
(* withTargetQueue implements a first-come, first-served lock per target;  *)
(* the tool calls of one MCP server use it as TargetQueue says; and        *)
(* whatever else changes the hub, every node tool works on a target that   *)
(* the hub had selected during the call.                                   *)
(***************************************************************************)
EXTENDS TargetTools, PeerStore_proofs

USE QueueAssumption

\* Nobody has called withTargetQueue yet: the chain is empty.
LEMMA ChainInit == QueueInit => ChainInv
BY DEF QueueInit, ChainInv, QueueTypeOK, Lock!Unfinished

\* A call asks for a target: it waits for the last one that did
\* (withTargetQueue, before the await).
LEMMA EnterKeepsChain ==
  ASSUME ChainInv, NEW c \in Call, NEW t \in Target, Chain(c, t),
         parent' \in [Call -> Call \cup {NoCall}], depth' = depth
  PROVE  ChainInv'
<1> DEFINE U == Lock!Unfinished(t)
<1>1. /\ at[c] = "idle" /\ at' = [at EXCEPT ![c] = "waiting"]
      /\ want' = [want EXCEPT ![c] = t] /\ waits' = [waits EXCEPT ![c] = queues[t]]
      /\ queues' = [queues EXCEPT ![t] = c] /\ ahead' = [ahead EXCEPT ![c] = U]
  BY DEF Chain
<1>2. QueueTypeOK /\ U \subseteq Call /\ c \notin U
  BY <1>1 DEF ChainInv, Lock!Unfinished
<1>3. QueueTypeOK'
  BY <1>1, <1>2 DEF QueueTypeOK
<1>4. \A d \in U : /\ queues[t] # NoCall /\ d \in {queues[t]} \cup ahead[queues[t]]
                   /\ at[d] # "idle" /\ want[d] = t
  BY DEF ChainInv, Lock!Unfinished
<1>5. ahead[c] = {} /\ \A d \in Call : c \notin ahead[d]
  BY <1>1 DEF ChainInv
<1>6. \A d \in Call : d # c => at'[d] = at[d] /\ want'[d] = want[d]
                               /\ waits'[d] = waits[d] /\ ahead'[d] = ahead[d]
  BY <1>1, <1>2 DEF QueueTypeOK
<1>7. at'[c] = "waiting" /\ want'[c] = t /\ waits'[c] = queues[t] /\ ahead'[c] = U
  BY <1>1, <1>2 DEF QueueTypeOK
<1>8. \A x \in Target : Lock!Unfinished(x)' = Lock!Unfinished(x) \cup (IF x = t THEN {c} ELSE {})
  BY <1>1, <1>6, <1>7 DEF Lock!Unfinished
<1> HIDE DEF U
<1>9. \A d \in Call : at'[d] = "idle" => ahead'[d] = {}
  BY <1>6, <1>7 DEF ChainInv
<1>10. \A d \in Call : at'[d] # "idle" => want'[d] \in Target
  BY <1>6, <1>7 DEF ChainInv
<1>11. \A d \in Call : \A e \in ahead'[d] : at'[e] # "idle"
  BY <1>2, <1>4, <1>6, <1>7 DEF ChainInv, QueueTypeOK
<1>12. \A d \in Call : waits'[d] = NoCall => ahead'[d] = {}
  BY <1>4, <1>6, <1>7 DEF ChainInv
<1>13. \A d \in Call : waits'[d] # NoCall => ahead'[d] \subseteq {waits'[d]} \cup ahead'[waits'[d]]
  <2> SUFFICES ASSUME NEW d \in Call, waits'[d] # NoCall, NEW e \in ahead'[d]
               PROVE  e = waits'[d] \/ e \in ahead'[waits'[d]]
    OBVIOUS
  <2>1. CASE d = c
    BY <2>1, <1>2, <1>4, <1>6, <1>7 DEF QueueTypeOK
  <2>2. CASE d # c
    <3>1. e = waits[d] \/ e \in ahead[waits[d]]
      BY <2>2, <1>6 DEF ChainInv
    <3>2. waits[d] \in Call
      BY <2>2, <1>2, <1>6 DEF QueueTypeOK
    <3> QED  BY <2>2, <3>1, <3>2, <1>5, <1>6
  <2> QED  BY <2>1, <2>2
<1>14. \A x \in Target : \A d \in Lock!Unfinished(x)' :
          queues'[x] # NoCall /\ d \in {queues'[x]} \cup ahead'[queues'[x]]
  <2> SUFFICES ASSUME NEW x \in Target, NEW d \in Lock!Unfinished(x)'
               PROVE  queues'[x] # NoCall /\ (d = queues'[x] \/ d \in ahead'[queues'[x]])
    OBVIOUS
  <2>1. CASE x = t
    <3>1. queues'[x] = c  BY <2>1, <1>1, <1>2 DEF QueueTypeOK
    <3>2. d \in U \cup {c}  BY <2>1, <1>8 DEF U
    <3> QED  BY <3>1, <3>2, <1>7
  <2>2. CASE x # t
    <3>1. queues'[x] = queues[x] /\ d \in Lock!Unfinished(x)
      BY <2>2, <1>1, <1>2, <1>8 DEF QueueTypeOK
    <3>2. queues[x] # NoCall /\ (d = queues[x] \/ d \in ahead[queues[x]])
      BY <3>1 DEF ChainInv
    <3>3. queues[x] \in Call
      BY <3>2, <1>2 DEF QueueTypeOK
    <3> QED  BY <3>1, <3>2, <3>3, <1>5, <1>6
  <2> QED  BY <2>1, <2>2
<1>15. \A d \in Call : at'[d] \in {"holding", "done"} => \A e \in ahead'[d] : at'[e] = "done"
  BY <1>2, <1>5, <1>6, <1>7 DEF ChainInv, QueueTypeOK
<1>16. \A d, e \in Call :
          d # e /\ want'[d] = want'[e] /\ at'[d] \in {"waiting", "holding"} /\ at'[e] \in {"waiting", "holding"}
          => d \in ahead'[e] \/ e \in ahead'[d]
  <2> SUFFICES ASSUME NEW d \in Call, NEW e \in Call, d # e, want'[d] = want'[e],
                      at'[d] \in {"waiting", "holding"}, at'[e] \in {"waiting", "holding"}
               PROVE  d \in ahead'[e] \/ e \in ahead'[d]
    OBVIOUS
  <2>1. CASE d = c
    BY <2>1, <1>6, <1>7 DEF U, Lock!Unfinished
  <2>2. CASE e = c
    BY <2>2, <1>6, <1>7 DEF U, Lock!Unfinished
  <2>3. CASE d # c /\ e # c
    BY <2>3, <1>6 DEF ChainInv
  <2> QED  BY <2>1, <2>2, <2>3
<1> QED  BY <1>3, <1>9, <1>10, <1>11, <1>12, <1>13, <1>14, <1>15, <1>16 DEF ChainInv

\* A call has its turn only when nothing unfinished is ahead of it.
LEMMA TurnMeansClear ==
  ASSUME ChainInv, NEW c \in Call, Turn(c)
  PROVE  \A d \in ahead[c] : at[d] = "done"
<1>1. CASE waits[c] = NoCall
  BY <1>1 DEF ChainInv
<1>2. CASE waits[c] # NoCall
  <2>1. waits[c] \in Call /\ at[waits[c]] = "done"
    BY <1>2 DEF ChainInv, QueueTypeOK, Turn
  <2>2. \A d \in ahead[waits[c]] : at[d] = "done"
    BY <2>1 DEF ChainInv
  <2>3. ahead[c] \subseteq {waits[c]} \cup ahead[waits[c]]
    BY <1>2 DEF ChainInv
  <2> QED  BY <2>1, <2>2, <2>3
<1> QED  BY <1>1, <1>2

\* Nothing is unchained when a call gets its turn.
LEMMA TurnKeepsChain ==
  ASSUME ChainInv, NEW c \in Call, Turn(c)
  PROVE  ChainInv'
<1>1. /\ at[c] = "waiting" /\ at' = [at EXCEPT ![c] = "holding"]
      /\ want' = want /\ queues' = queues /\ waits' = waits /\ parent' = parent /\ depth' = depth /\ ahead' = ahead
  BY DEF Turn
<1>2. \A d \in ahead[c] : at[d] = "done"
  BY TurnMeansClear
<1>3. QueueTypeOK
  BY DEF ChainInv
<1>4. \A x \in Target : Lock!Unfinished(x)' = Lock!Unfinished(x)
  BY <1>1, <1>3 DEF Lock!Unfinished, QueueTypeOK
<1>5. \A d \in Call : at'[d] = IF d = c THEN "holding" ELSE at[d]
  BY <1>1, <1>3 DEF QueueTypeOK
<1>6. QueueTypeOK'
  BY <1>1, <1>3 DEF QueueTypeOK
<1>7. \A d \in Call : at'[d] \in {"holding", "done"} => \A e \in ahead'[d] : at'[e] = "done"
  BY <1>1, <1>2, <1>3, <1>5 DEF ChainInv, QueueTypeOK
<1>8. \A x \in Target : \A d \in Lock!Unfinished(x)' :
         queues'[x] # NoCall /\ d \in {queues'[x]} \cup ahead'[queues'[x]]
  BY <1>1, <1>4 DEF ChainInv
<1>9. \A d \in Call : \A e \in ahead'[d] : at'[e] # "idle"
  BY <1>1, <1>3, <1>5 DEF ChainInv, QueueTypeOK
<1> QED  BY <1>1, <1>5, <1>6, <1>7, <1>8, <1>9 DEF ChainInv

\* Nothing is unchained when a call releases its gate.
LEMMA ReleaseKeepsChain ==
  ASSUME ChainInv, NEW c \in Call, Release(c)
  PROVE  ChainInv'
<1>1. /\ at[c] = "holding" /\ at' = [at EXCEPT ![c] = "done"]
      /\ want' = want /\ queues' = queues /\ waits' = waits /\ parent' = parent /\ depth' = depth /\ ahead' = ahead
  BY DEF Release
<1>2. QueueTypeOK
  BY DEF ChainInv
<1>3. \A d \in Call : at'[d] = IF d = c THEN "done" ELSE at[d]
  BY <1>1, <1>2 DEF QueueTypeOK
<1>4. \A x \in Target : Lock!Unfinished(x)' \subseteq Lock!Unfinished(x)
  BY <1>1, <1>3 DEF Lock!Unfinished
<1>5. QueueTypeOK'
  BY <1>1, <1>2 DEF QueueTypeOK
<1>6. \A d \in Call : at'[d] \in {"holding", "done"} => \A e \in ahead'[d] : at'[e] = "done"
  BY <1>1, <1>2, <1>3 DEF ChainInv, QueueTypeOK
<1>7. \A x \in Target : \A d \in Lock!Unfinished(x)' :
         queues'[x] # NoCall /\ d \in {queues'[x]} \cup ahead'[queues'[x]]
  BY <1>1, <1>4 DEF ChainInv
<1>8. \A d \in Call : \A e \in ahead'[d] : at'[e] # "idle"
  BY <1>1, <1>2, <1>3 DEF ChainInv, QueueTypeOK
<1> QED  BY <1>1, <1>3, <1>5, <1>6, <1>7, <1>8 DEF ChainInv

\* Every step of the queue keeps the chain.
LEMMA ChainStep == ChainInv /\ [QueueNext]_queueVars => ChainInv'
<1> SUFFICES ASSUME ChainInv, [QueueNext]_queueVars
             PROVE  ChainInv'
  OBVIOUS
<1>1. ASSUME NEW c \in Call, NEW t \in Target,
             Enter(c, t) \/ \E p \in Call : EnterNested(p, c, t)
      PROVE  ChainInv'
  <2>1. Chain(c, t) /\ depth' = depth
    BY <1>1 DEF Enter, EnterNested
  <2>2. parent' \in [Call -> Call \cup {NoCall}]
    BY <1>1 DEF Enter, EnterNested, ChainInv, QueueTypeOK
  <2> QED  BY <2>1, <2>2, EnterKeepsChain
<1>2. ASSUME NEW c \in Call, Turn(c) PROVE ChainInv'
  BY <1>2, TurnKeepsChain
<1>3. ASSUME NEW c \in Call, Release(c) PROVE ChainInv'
  BY <1>3, ReleaseKeepsChain
<1>4. ASSUME NEW c \in Call, Nest(c) \/ Unnest(c) PROVE ChainInv'
  <2>1. depth' \in [Call -> Nat]
    <3>1. depth \in [Call -> Nat]  BY DEF ChainInv, QueueTypeOK
    <3>2. depth[c] \in Nat  BY <3>1
    <3>3. CASE Nest(c)
      BY <3>1, <3>2, <3>3 DEF Nest
    <3>4. CASE Unnest(c)
      <4>1. depth[c] - 1 \in Nat  BY <3>2, <3>4 DEF Unnest
      <4> QED  BY <3>1, <3>4, <4>1 DEF Unnest
    <3> QED  BY <1>4, <3>3, <3>4
  <2>2. UNCHANGED <<at, want, queues, waits, parent, ahead>>
    BY <1>4 DEF Nest, Unnest
  <2> QED  BY <2>1, <2>2 DEF ChainInv, QueueTypeOK, Lock!Unfinished
<1>5. CASE UNCHANGED queueVars
  BY <1>5 DEF queueVars, ChainInv, QueueTypeOK, Lock!Unfinished
<1> QED  BY <1>1, <1>2, <1>3, <1>4, <1>5 DEF QueueNext

\* The chain of promises is intact in every reachable state.
THEOREM ChainIsIntact == QueueSpec => []ChainInv
<1> QED  BY ChainInit, ChainStep, PTL DEF QueueSpec

\* Mutual exclusion per target (withTargetQueue, "Serialize async work per target id").
THEOREM QueueExcludes == QueueSpec => []OneAtATime
<1>1. ChainInv => OneAtATime
  BY DEF ChainInv, OneAtATime, QueueTypeOK
<1> QED  BY <1>1, ChainIsIntact, PTL

\* The promise chain implements the first-come, first-served lock of TargetLock.
THEOREM QueueImplementsLock == QueueSpec => QueueIsLock
<1>1. QueueInit => Lock!LockInit
  BY DEF QueueInit, Lock!LockInit
<1>2. ChainInv /\ [QueueNext]_queueVars => [Lock!LockNext]_<<at, want, ahead>>
  <2> SUFFICES ASSUME ChainInv, [QueueNext]_queueVars
               PROVE  [Lock!LockNext]_<<at, want, ahead>>
    OBVIOUS
  <2>1. ASSUME NEW c \in Call, NEW t \in Target,
               Enter(c, t) \/ \E p \in Call : EnterNested(p, c, t)
        PROVE  Lock!Ask(c, t)
    BY <2>1 DEF Enter, EnterNested, Chain, Lock!Ask
  <2>2. ASSUME NEW c \in Call, Turn(c) PROVE Lock!Grant(c)
    BY <2>2, TurnMeansClear DEF Turn, Lock!Grant
  <2>3. ASSUME NEW c \in Call, Release(c) PROVE Lock!GiveBack(c)
    BY <2>3 DEF Release, Lock!GiveBack
  <2>4. ASSUME NEW c \in Call, Nest(c) \/ Unnest(c) PROVE UNCHANGED <<at, want, ahead>>
    BY <2>4 DEF Nest, Unnest
  <2>5. CASE UNCHANGED queueVars
    BY <2>5 DEF queueVars
  <2> QED  BY <2>1, <2>2, <2>3, <2>4, <2>5 DEF QueueNext, Lock!LockNext
<1> QED  BY <1>1, <1>2, ChainIsIntact, PTL DEF QueueSpec, QueueIsLock, Lock!LockSpec

-----------------------------------------------------------------------------
ToolsInv ==
    /\ ToolsTypeOK /\ Sticky(store) /\ ChainInv
    /\ \A k \in Tool : pc[k] = "idle" => want[Outer(k)] = NoId /\ want[Inner(k)] = NoId
    /\ \A k \in Tool : ~ reply[k].none =>
         /\ attached /\ pc[k] \in {"sync", "check", "resync"}
         /\ SyncedSelection(reply[k]) \in seen[k]
    /\ \A k \in Tool : pc[k] \in {"check", "put", "selecting"} => name[k] = "select"
    /\ WorksOnSelection

\* A tool call has two calls of the queue, its own and its nested one.
LEMMA CallsAreCalls ==
  ASSUME NEW k \in Tool
  PROVE  Outer(k) \in Call /\ Inner(k) \in Call
BY ToolAssumption DEF Outer, Inner

\* What a listing selects is a target.
LEMMA SelectionIsTarget ==
  ASSUME NEW l \in [known : SUBSET Id, selectedId : Id \cup {NoId}, none : BOOLEAN]
  PROVE  SyncedSelection(l) \in Id /\ SyncedKnown(l) \subseteq Id
BY ToolAssumption DEF SyncedSelection, SyncedKnown

\* A listing selects what its hub has selected.
LEMMA ListingIsSelection ==
  ASSUME store \in Store, Sticky(store)
  PROVE  /\ SyncedSelection(Listing) = HubSelection(store)
         /\ Listing \in [known : SUBSET Id, selectedId : Id \cup {NoId}, none : BOOLEAN]
         /\ ~ Listing.none
BY IdAssumption DEF SyncedSelection, Listing, HubSelection, Sticky, Known, Store

-----------------------------------------------------------------------------
\* A tool call touches the queues only as withTargetQueue does.
LEMMA ToolUsesQueue ==
  ASSUME ToolsTypeOK, NEW k \in Tool, ToolStep(k)
  PROVE  [QueueNext]_queueVars
<1>0. Outer(k) \in Call /\ Inner(k) \in Call  BY CallsAreCalls
<1>1. selected \in Target /\ Id = Target /\ arg[k] \in Target
  BY ToolAssumption DEF ToolsTypeOK
<1>2. ASSUME Sync(k) PROVE selected' \in Target
  BY <1>1, <1>2, SelectionIsTarget DEF Sync, ToolsTypeOK
<1>3. ASSUME NEW n, NEW i \in Id, CallTool(k, n, i) \/ CallOffline(k, n, i)
      PROVE  [QueueNext]_queueVars
  BY <1>0, <1>1, <1>3 DEF CallTool, CallOffline, QueueNext
<1>4. ASSUME HubLists(k) \/ Listed(k) \/ Looked(k) \/ CheckedOnHub(k) \/ HubSelects(k)
      PROVE  [QueueNext]_queueVars
  BY <1>4 DEF HubLists, Listed, Looked, CheckedOnHub, HubSelects
<1>5. ASSUME Captured(k) PROVE [QueueNext]_queueVars
  BY <1>0, <1>2, <1>5 DEF Captured, QueueNext
<1>6. ASSUME CheckedSoft(k) \/ Selected(k) PROVE [QueueNext]_queueVars
  BY <1>0, <1>1, <1>6 DEF CheckedSoft, Selected, SelectHere, QueueNext
<1>7. ASSUME HasTurn(k) \/ HasInnerTurn(k) \/ Finish(k) \/ Unwind(k)
      PROVE  [QueueNext]_queueVars
  BY <1>0, <1>7 DEF HasTurn, HasInnerTurn, Finish, Unwind, QueueNext
<1>8. ASSUME Resynced(k) PROVE [QueueNext]_queueVars
  <2>1. selected' \in Target
    BY <1>1, <1>2, <1>8 DEF Resynced
  <2> QED
    BY <1>0, <1>8, <2>1 DEF Resynced, Probe, QueueNext
<1>9. ASSUME HubFails(k) PROVE [QueueNext]_queueVars
  BY <1>0, <1>9 DEF HubFails, QueueNext
<1>10. Lab \in Id  BY ToolAssumption
<1> QED
  BY <1>3, <1>4, <1>5, <1>6, <1>7, <1>8, <1>9, <1>10 DEF ToolStep, Handler, HubStep

\* A step of the process is a step of its queue, or a stutter.
LEMMA ToolsUseQueue ==
  ASSUME ToolsTypeOK, [ToolsNext]_toolVars
  PROVE  [QueueNext]_queueVars
<1>1. CASE Elsewhere
  BY <1>1 DEF Elsewhere
<1>2. CASE UNCHANGED toolVars
  BY <1>2 DEF toolVars
<1> QED
  BY <1>1, <1>2, ToolUsesQueue DEF ToolsNext

-----------------------------------------------------------------------------
Answer == [known : SUBSET Id, selectedId : Id \cup {NoId}, none : BOOLEAN]

Place == {"idle", "sync", "check", "put", "selecting", "queued", "resync", "nested", "working",
          "unwinding"} \cup Ended

\* The data of the tool calls, apart from the history.
DataOK ==
    /\ store \in Store /\ Sticky(store)
    /\ attached \in BOOLEAN /\ known \subseteq Id /\ selected \in Id
    /\ name \in [Tool -> {"none", "use", "info", "list", "select"}]
    /\ arg \in [Tool -> Id]
    /\ pc \in [Tool -> Place]
    /\ reply \in [Tool -> Answer]

\* What other processes do to the hub keeps the data here well formed.
LEMMA NothingElsewhereBreaks ==
  ASSUME DataOK, Elsewhere
  PROVE  DataOK'
<1>1. store' \in Store /\ Sticky(store')
  <2>1. TunnelPeer(NoNonce, FALSE) \in Peer  BY DEF TunnelPeer, Peer
  <2>2. PICK i \in Id : \/ store' = Register(store, i, TunnelPeer(NoNonce, FALSE))
                        \/ store' = Remove(store, i)
                        \/ i \in Known(store) /\ store' = Select(store, i)
    BY DEF Elsewhere
  <2>3. store \in Store /\ Sticky(store)  BY DEF DataOK
  <2>4. CASE store' = Register(store, i, TunnelPeer(NoNonce, FALSE))
    BY <2>1, <2>3, <2>4, RegisterProperties
  <2>5. CASE store' = Remove(store, i)
    BY <2>3, <2>5, RemoveProperties
  <2>6. CASE i \in Known(store) /\ store' = Select(store, i)
    BY <2>3, <2>6, SelectProperties
  <2> QED
    BY <2>2, <2>4, <2>5, <2>6
<1> QED
  BY <1>1 DEF Elsewhere, DataOK, registryVars, callVars, Sticky, Known

\* A tool call keeps the types of the data it works on.
LEMMA ToolKeepsData ==
  ASSUME DataOK, NEW k \in Tool, ToolStep(k)
  PROVE  DataOK'
<1> USE DEF DataOK, Place, Ended, Goto
<1>0. Lab \in Id /\ Id = Target /\ NoReply \in Answer
  BY ToolAssumption DEF NoReply, Answer
<1>1. /\ SyncedSelection(reply[k]) \in Id /\ SyncedKnown(reply[k]) \subseteq Id
      /\ Listing \in Answer
  BY SelectionIsTarget, ListingIsSelection DEF Answer
<1>2. ASSUME UNCHANGED store PROVE Sticky(store)'
  BY <1>2 DEF Sticky, Known
<1>3. ASSUME NEW n \in {"use", "info", "list", "select"}, NEW i \in Id,
             CallTool(k, n, i) \/ CallOffline(k, n, i)
      PROVE  DataOK'
  BY <1>2, <1>3 DEF CallTool, CallOffline, registryVars
<1>4. ASSUME HubLists(k) PROVE DataOK'
  BY <1>1, <1>2, <1>4 DEF HubLists, registryVars
<1>5. ASSUME Listed(k) \/ Captured(k) PROVE DataOK'
  BY <1>0, <1>1, <1>2, <1>5 DEF Listed, Captured, Sync
<1>6. ASSUME Looked(k) PROVE DataOK'
  BY <1>0, <1>1, <1>2, <1>6 DEF Looked, Sync
<1>7. ASSUME CheckedSoft(k) \/ Selected(k) PROVE DataOK'
  BY <1>0, <1>2, <1>7 DEF CheckedSoft, Selected, SelectHere
<1>8. ASSUME CheckedOnHub(k) PROVE DataOK'
  BY <1>0, <1>2, <1>8 DEF CheckedOnHub, registryVars
<1>9. ASSUME HubSelects(k) PROVE DataOK'
  <2>1. store' \in Store /\ Sticky(store)'
    BY <1>2, <1>9, SelectProperties DEF HubSelects
  <2> QED
    BY <1>9, <2>1 DEF HubSelects, registryVars
<1>10. ASSUME HasTurn(k) \/ HasInnerTurn(k) \/ Finish(k) \/ Unwind(k) PROVE DataOK'
  BY <1>2, <1>10 DEF HasTurn, HasInnerTurn, Finish, Unwind, registryVars
<1>11. ASSUME Resynced(k) PROVE DataOK'
  BY <1>0, <1>1, <1>2, <1>11 DEF Resynced, Sync, Probe
<1>12. ASSUME HubFails(k) PROVE DataOK'
  BY <1>0, <1>2, <1>12 DEF HubFails, registryVars
<1> QED
  BY <1>0, <1>3, <1>4, <1>5, <1>6, <1>7, <1>8, <1>9, <1>10, <1>11, <1>12
     DEF ToolStep, Handler, HubStep

\* Types, for every step.
LEMMA ToolsKeepTypes ==
  ASSUME ToolsTypeOK, Sticky(store), QueueTypeOK', [ToolsNext]_toolVars
  PROVE  ToolsTypeOK' /\ Sticky(store)'
<1>1. DataOK
  BY DEF ToolsTypeOK, DataOK, Place, Answer
<1>2. CASE UNCHANGED toolVars
  BY <1>2 DEF ToolsTypeOK, toolVars, registryVars, callVars, Sticky, Known
<1>3. CASE ToolsNext
  <2>1. DataOK'
    BY <1>1, <1>3, NothingElsewhereBreaks, ToolKeepsData DEF ToolsNext
  <2>2. HubSelection(store) \in Id /\ HubSelection(store') \in Id
    BY <1>1, <2>1, ToolAssumption DEF DataOK, HubSelection, Store
  <2>3. seen' \in [Tool -> SUBSET Id]
    BY <1>3, <2>2 DEF ToolsNext, Seen, ToolsTypeOK
  <2> QED
    BY <2>1, <2>3 DEF ToolsTypeOK, DataOK, Place, Answer
<1> QED
  BY <1>2, <1>3
-----------------------------------------------------------------------------
(***************************************************************************)
(* What one step of call k does to the calls' targets and answers: it sets *)
(* a target of its own from an answer it got, unless the call is one that  *)
(* WorksOnSelection does not speak of.                                     *)
(***************************************************************************)
StepOf(k) ==
    /\ attached' = attached
    /\ \A j \in Tool \ {k} :
         /\ pc'[j] = pc[j] /\ reply'[j] = reply[j] /\ name'[j] = name[j]
         /\ want'[Outer(j)] = want[Outer(j)] /\ want'[Inner(j)] = want[Inner(j)]
    /\ pc'[k] # "idle"
    /\ name'[k] = name[k] \/ (pc[k] = "idle" /\ want' = want) \/ ~ attached
    /\ pc'[k] \in {"check", "put", "selecting"} => name'[k] = "select"
    /\ ~ reply'[k].none =>
         /\ attached /\ pc'[k] \in {"sync", "check", "resync"}
         /\ \/ reply'[k] = reply[k] /\ pc[k] \notin Ended \cup {"idle"}
            \/ reply'[k] = Listing /\ pc[k] \notin Ended \cup {"idle"}
    /\ \A c \in {Outer(k), Inner(k)} :
         \/ want'[c] = want[c]
         \/ ~ attached
         \/ name'[k] \notin {"use", "info"}
         \/ ~ reply[k].none /\ want'[c] = SyncedSelection(reply[k])

\* The queue calls of tool calls are all different.
LEMMA CallsDiffer ==
  ASSUME NEW j \in Tool, NEW k \in Tool
  PROVE  /\ Outer(j) # Inner(k)
         /\ j # k => Outer(j) # Outer(k) /\ Inner(j) # Inner(k)
BY DEF Outer, Inner

\* A call that enters the queue wants its target, and the others what they wanted.
LEMMA WantOfEnter ==
  ASSUME want \in [Call -> Target \cup {NoTarget}], NEW k \in Tool, NEW c \in {Outer(k), Inner(k)},
         NEW t \in Target, Chain(c, t)
  PROVE  /\ want'[c] = t
         /\ \A d \in {Outer(k), Inner(k)} \ {c} : want'[d] = want[d]
         /\ \A j \in Tool \ {k} : want'[Outer(j)] = want[Outer(j)] /\ want'[Inner(j)] = want[Inner(j)]
<1>1. \A j \in Tool : Outer(j) \in Call /\ Inner(j) \in Call  BY CallsAreCalls
<1>2. want' = [want EXCEPT ![c] = t]  BY DEF Chain
<1> QED  BY <1>1, <1>2, CallsDiffer

\* The step of one tool call, as a disjunct of StepOf.
LEMMA ToolStepIsStepOf ==
  ASSUME ToolsTypeOK, NEW k \in Tool, ToolStep(k),
         \A j \in Tool : ~ reply[j].none => attached /\ pc[j] \in {"sync", "check", "resync"},
         \A j \in Tool : pc[j] \in {"check", "put", "selecting"} => name[j] = "select"
  PROVE  StepOf(k)
<1> USE DEF Goto, Ended
<1>0. /\ \A j \in Tool : pc[j] \in Place /\ reply[j] \in Answer
      /\ pc \in [Tool -> Place] /\ reply \in [Tool -> Answer]
      /\ name \in [Tool -> {"none", "use", "info", "list", "select"}]
      /\ want \in [Call -> Target \cup {NoTarget}] /\ arg[k] \in Target
      /\ selected \in Target /\ NoReply.none
      /\ Outer(k) \in Call /\ Inner(k) \in Call
  BY ToolAssumption, CallsAreCalls DEF ToolsTypeOK, QueueTypeOK, Place, Answer, NoReply
<1>1. SyncedSelection(reply[k]) \in Target
  BY <1>0, ToolAssumption, SelectionIsTarget DEF Answer
<1>2. ASSUME NEW n \in {"use", "info", "list", "select"}, NEW i \in Id, CallTool(k, n, i)
      PROVE  StepOf(k)
  BY <1>0, <1>2 DEF CallTool, StepOf, queueVars, registryVars
<1>3. ASSUME NEW n \in {"use", "info", "list", "select"}, NEW i \in Id, CallOffline(k, n, i)
      PROVE  StepOf(k)
  <2>1. i \in Target  BY ToolAssumption
  <2>2. \A j \in Tool \ {k} : want'[Outer(j)] = want[Outer(j)] /\ want'[Inner(j)] = want[Inner(j)]
    BY <1>0, <1>3, <2>1, WantOfEnter DEF CallOffline, Enter, queueVars
  <2> QED
    BY <1>0, <1>3, <2>2 DEF CallOffline, StepOf
<1>4. ASSUME HubLists(k) PROVE StepOf(k)
  BY <1>0, <1>4 DEF HubLists, StepOf, queueVars, registryVars
<1>5. ASSUME Listed(k) \/ Looked(k) PROVE StepOf(k)
  BY <1>0, <1>5 DEF Listed, Looked, Sync, StepOf, queueVars
<1>6. ASSUME Captured(k) PROVE StepOf(k)
  <2>1. Chain(Outer(k), selected') /\ selected' = SyncedSelection(reply[k]) /\ ~ reply[k].none
    BY <1>6 DEF Captured, Enter, Sync
  <2> QED
    BY <1>0, <1>1, <1>6, <2>1, WantOfEnter DEF Captured, Sync, StepOf
<1>7. ASSUME CheckedSoft(k) \/ Selected(k) PROVE StepOf(k)
  <2>1. name[k] = "select" /\ name' = name
    BY <1>7 DEF CheckedSoft, Selected, SelectHere
  <2>2. \A j \in Tool \ {k} : want'[Outer(j)] = want[Outer(j)] /\ want'[Inner(j)] = want[Inner(j)]
    BY <1>0, <1>7, WantOfEnter DEF CheckedSoft, Selected, SelectHere, Enter, queueVars
  <2> QED
    BY <1>0, <1>7, <2>1, <2>2 DEF CheckedSoft, Selected, SelectHere, StepOf
<1>8. ASSUME CheckedOnHub(k) \/ HubSelects(k) PROVE StepOf(k)
  BY <1>0, <1>8 DEF CheckedOnHub, HubSelects, StepOf, queueVars, registryVars
<1>9. ASSUME HasTurn(k) \/ HasInnerTurn(k) \/ Finish(k) \/ Unwind(k) PROVE StepOf(k)
  BY <1>0, <1>9 DEF HasTurn, HasInnerTurn, Finish, Unwind, Turn, Release, Unnest, StepOf, registryVars
<1>10. ASSUME Resynced(k) PROVE StepOf(k)
  <2>1. \/ want' = want
        \/ selected' \in Target /\ Chain(Inner(k), selected')
    BY <1>0, <1>1, <1>10 DEF Resynced, Sync, Probe, Nest, EnterNested
  <2>2. /\ want'[Inner(k)] \in {want[Inner(k)], selected'} /\ want'[Outer(k)] = want[Outer(k)]
        /\ \A j \in Tool \ {k} : want'[Outer(j)] = want[Outer(j)] /\ want'[Inner(j)] = want[Inner(j)]
    BY <1>0, <2>1, WantOfEnter, CallsDiffer
  <2>3. attached => ~ reply[k].none /\ selected' = SyncedSelection(reply[k])
    BY <1>10 DEF Resynced, Sync
  <2>4. /\ pc'[k] \in {"working", "nested"} /\ reply'[k].none
        /\ \A j \in Tool \ {k} : pc'[j] = pc[j] /\ reply'[j] = reply[j]
        /\ attached' = attached /\ name' = name
    BY <1>0, <1>10 DEF Resynced, Sync, Probe
  <2> QED
    BY <2>2, <2>3, <2>4 DEF StepOf
<1>11. ASSUME HubFails(k) PROVE StepOf(k)
  BY <1>0, <1>11 DEF HubFails, Release, StepOf, queueVars, registryVars
<1>12. Lab \in Id  BY ToolAssumption
<1> QED
  BY <1>2, <1>3, <1>4, <1>5, <1>6, <1>7, <1>8, <1>9, <1>10, <1>11, <1>12
     DEF ToolStep, Handler, HubStep
-----------------------------------------------------------------------------
\* A step of call k keeps what its calls' targets and answers were seen to be.
LEMMA StepKeepsSeen ==
  ASSUME ToolsInv, ToolsTypeOK', NEW k \in Tool, StepOf(k), Seen,
         Listing \in Answer, SyncedSelection(Listing) = HubSelection(store)
  PROVE  /\ \A j \in Tool : pc'[j] = "idle" => want'[Outer(j)] = NoId /\ want'[Inner(j)] = NoId
         /\ \A j \in Tool : ~ reply'[j].none =>
              /\ attached' /\ pc'[j] \in {"sync", "check", "resync"}
              /\ SyncedSelection(reply'[j]) \in seen'[j]
         /\ \A j \in Tool : pc'[j] \in {"check", "put", "selecting"} => name'[j] = "select"
         /\ WorksOnSelection'
<1>1. \A j \in Tool : pc'[j] # "idle" => seen[j] \subseteq seen'[j]
  BY DEF Seen, ToolsInv, ToolsTypeOK
<1>2. pc[k] \notin Ended => HubSelection(store) \in seen'[k]
  BY DEF Seen, StepOf, ToolsInv, ToolsTypeOK
<1>3. \A j \in Tool : pc'[j] = "idle" => want'[Outer(j)] = NoId /\ want'[Inner(j)] = NoId
  BY DEF ToolsInv, StepOf
<1>4. \A j \in Tool : ~ reply'[j].none =>
        /\ attached' /\ pc'[j] \in {"sync", "check", "resync"}
        /\ SyncedSelection(reply'[j]) \in seen'[j]
  <2> SUFFICES ASSUME NEW j \in Tool, ~ reply'[j].none
               PROVE  /\ attached' /\ pc'[j] \in {"sync", "check", "resync"}
                      /\ SyncedSelection(reply'[j]) \in seen'[j]
    OBVIOUS
  <2>1. attached' /\ pc'[j] \in {"sync", "check", "resync"}
    BY DEF ToolsInv, StepOf
  <2>2. CASE reply'[j] = reply[j]
    BY <1>1, <2>1, <2>2 DEF ToolsInv
  <2>3. CASE j = k /\ reply'[k] = Listing /\ pc[k] \notin Ended
    BY <1>2, <2>1, <2>3
  <2> QED
    BY <2>1, <2>2, <2>3 DEF StepOf
<1>5. \A j \in Tool : pc'[j] \in {"check", "put", "selecting"} => name'[j] = "select"
  BY DEF ToolsInv, StepOf
<1>6. ASSUME NEW j \in Tool, attached', name'[j] \in {"use", "info"},
             NEW c \in {Outer(j), Inner(j)}, want'[c] # NoId
      PROVE  want'[c] \in seen'[j]
  <2>1. pc'[j] # "idle"
    BY <1>3, <1>6
  <2>2. attached
    BY <1>6 DEF StepOf
  <2>3. CASE want'[c] = want[c] /\ name'[j] = name[j]
    BY <1>1, <1>6, <2>1, <2>2, <2>3 DEF ToolsInv, WorksOnSelection
  <2>4. CASE j = k /\ pc[k] = "idle" /\ want' = want
    BY <1>6, <2>4 DEF ToolsInv
  <2>5. CASE j = k /\ ~ reply[k].none /\ want'[c] = SyncedSelection(reply[k])
    BY <1>1, <2>1, <2>5 DEF ToolsInv
  <2> QED
    BY <1>6, <2>2, <2>3, <2>4, <2>5 DEF StepOf
<1> QED
  BY <1>3, <1>4, <1>5, <1>6 DEF WorksOnSelection

\* No call has begun.
LEMMA ToolsInit_Inv == ToolsInit => ToolsInv
<1> SUFFICES ASSUME ToolsInit PROVE ToolsInv
  OBVIOUS
<1>1. ChainInv  BY ChainInit DEF ToolsInit
<1>2. QueueTypeOK  BY <1>1 DEF ChainInv
<1>3. EmptyStore \in Store /\ Sticky(EmptyStore)
  BY IdAssumption DEF EmptyStore, Store, Peer, HttpPeer, Sticky, Known
<1>4. ToolsTypeOK
  BY <1>2, <1>3, ToolAssumption DEF ToolsInit, ToolsTypeOK, NoReply
<1>5. \A k \in Tool : want[Outer(k)] = NoId /\ want[Inner(k)] = NoId
  BY CallsAreCalls, ToolAssumption DEF ToolsInit, QueueInit
<1> QED
  BY <1>1, <1>3, <1>4, <1>5 DEF ToolsInv, ToolsInit, NoReply, WorksOnSelection

\* The invariant is inductive.
LEMMA ToolsNext_Inv == ToolsInv /\ [ToolsNext]_toolVars => ToolsInv'
<1> SUFFICES ASSUME ToolsInv, [ToolsNext]_toolVars PROVE ToolsInv'
  OBVIOUS
<1>1. ToolsTypeOK /\ Sticky(store) /\ ChainInv  BY DEF ToolsInv
<1>2. ChainInv'  BY <1>1, ToolsUseQueue, ChainStep
<1>3. QueueTypeOK'  BY <1>2 DEF ChainInv
<1>4. ToolsTypeOK' /\ Sticky(store)'  BY <1>1, <1>3, ToolsKeepTypes
<1>5. CASE UNCHANGED toolVars
  <2>1. UNCHANGED <<want, attached, name, pc, reply, seen>>
    BY <1>5 DEF toolVars, queueVars, registryVars, callVars
  <2> QED
    BY <1>2, <1>4, <2>1 DEF ToolsInv, WorksOnSelection
<1>6. CASE Elsewhere /\ Seen
  <2>1. UNCHANGED <<want, attached, name, pc, reply>>
    BY <1>6 DEF Elsewhere, queueVars, registryVars, callVars
  <2>2. \A k \in Tool : pc[k] # "idle" => seen[k] \subseteq seen'[k]
    BY <1>1, <1>6, <2>1 DEF Seen, ToolsTypeOK
  <2> QED
    BY <1>2, <1>4, <2>1, <2>2 DEF ToolsInv, WorksOnSelection
<1>7. ASSUME NEW k \in Tool, ToolStep(k), Seen PROVE ToolsInv'
  <2>1. StepOf(k)
    BY <1>7, ToolStepIsStepOf DEF ToolsInv
  <2>2. store \in Store  BY <1>1 DEF ToolsTypeOK
  <2>3. Listing \in Answer /\ SyncedSelection(Listing) = HubSelection(store)
    BY <1>1, <2>2, ListingIsSelection DEF Answer
  <2> QED
    BY <1>2, <1>4, <1>7, <2>1, <2>3, StepKeepsSeen DEF ToolsInv
<1> QED
  BY <1>5, <1>6, <1>7 DEF ToolsNext

\* Tool calls use the target queues as TargetQueue specifies them, so what is
\* proved of the queues holds of the tools.
THEOREM ToolsImplementQueue == ToolsSpec => QueueSpec
<1>1. ToolsInit => QueueInit
  BY DEF ToolsInit
<1>2. ToolsInv /\ [ToolsNext]_toolVars => [QueueNext]_queueVars
  BY ToolsUseQueue DEF ToolsInv
<1> QED
  BY <1>1, <1>2, ToolsInit_Inv, ToolsNext_Inv, PTL DEF ToolsSpec, QueueSpec

\* One tool call at a time works on a target, whatever the calls are.
THEOREM ToolsExclude == ToolsSpec => []OneAtATime
<1> QED  BY ToolsImplementQueue, QueueExcludes, PTL

\* A node tool works on a target that the hub had selected during the call,
\* although the registry it looks at is shared and may change at every await.
THEOREM ToolsWorkOnSelection == ToolsSpec => []WorksOnSelection
<1>1. ToolsInv => WorksOnSelection
  BY DEF ToolsInv
<1> QED
  BY <1>1, ToolsInit_Inv, ToolsNext_Inv, PTL DEF ToolsSpec
=============================================================================
