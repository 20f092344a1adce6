----------------------------- MODULE TargetTools -----------------------------
(***************************************************************************)
(* The tools of an MCP server that work on the sticky target               *)
(* (features/tools/handlers/tdTools.ts) over its TargetRegistry, a cache   *)
(* of the hub's peers and selection (core/targetRegistry.ts), and its      *)
(* target queues.  Tool calls run concurrently in one event loop: a step   *)
(* ends where the code awaits the hub, the queue or TouchDesigner.         *)
(*                                                                         *)
(* A request to the hub is handled in one step and its answer used in a    *)
(* later one: until then it gets older, and others may overtake it.  The   *)
(* hub is its PeerStore; other MCP servers, TD processes and TTLs change   *)
(* it at any time (the steps of module HubServer, as far as they change    *)
(* which peers there are and which one is selected).                       *)
(***************************************************************************)
EXTENDS TargetQueue, PeerStore

CONSTANTS Tool,   \* tool calls
          Lab     \* LAB_TARGET_ID

\* A tool call asks for at most two queues: its own and probeIdentity's.
ASSUME ToolAssumption ==
    /\ Lab \in Id /\ Target = Id /\ NoTarget = NoId
    /\ Call = Tool \X {1, 2}

Outer(k) == <<k, 1>>
Inner(k) == <<k, 2>>

VARIABLES
    store,     \* the hub's PeerStore
    attached,  \* the registry's hub is not null
    known,     \* the registry's targets
    selected,  \* the registry's selectedId
    name,      \* the tool called
    arg,       \* its target id, for select_td_target
    pc,        \* what a tool call awaits, "done" or "failed"
    reply,     \* the answer to its GET /peers, once the hub has sent it
    seen       \* history: the hub's selections during the call

registryVars == <<attached, known, selected>>
callVars == <<name, arg, pc, reply>>
toolVars == <<queueVars, store, registryVars, callVars, seen>>

NoReply == [known |-> {}, selectedId |-> NoId, none |-> TRUE]
Listing == [known |-> Known(store), selectedId |-> store.selectedId, none |-> FALSE]

\* What the hub has selected, the soft lab if it has no peer.
HubSelection(s) == IF s.selectedId = NoId THEN Lab ELSE s.selectedId

Ended == {"done", "failed"}

ToolsTypeOK ==
    /\ QueueTypeOK
    /\ store \in Store
    /\ attached \in BOOLEAN /\ known \subseteq Id /\ selected \in Id
    /\ name \in [Tool -> {"none", "use", "info", "list", "select"}]
    /\ arg \in [Tool -> Id]
    /\ pc \in [Tool -> {"idle", "sync", "check", "put", "selecting", "queued", "resync",
                        "nested", "working", "unwinding"} \cup Ended]
    /\ reply \in [Tool -> [known : SUBSET Id, selectedId : Id \cup {NoId}, none : BOOLEAN]]
    /\ seen \in [Tool -> SUBSET Id]

\* The registry is seeded with lab; a hub is attached if ensureHub succeeded.
ToolsInit ==
    /\ QueueInit
    /\ store = EmptyStore
    /\ attached \in BOOLEAN /\ known = {Lab} /\ selected = Lab
    /\ name = [k \in Tool |-> "none"] /\ arg = [k \in Tool |-> Lab]
    /\ pc = [k \in Tool |-> "idle"]
    /\ reply = [k \in Tool |-> NoReply]
    /\ seen = [k \in Tool |-> {}]

-----------------------------------------------------------------------------
(* The registry.                                                           *)

\* syncFromHub with the listing l: the soft lab is added to the hub's peers.
SyncedKnown(l) == l.known \cup {Lab}

\* A slip: the selection stays while its target is listed.
SyncedSelectionKept(l) == IF selected \in SyncedKnown(l) THEN selected ELSE Lab

SyncedSelection(l) == IF l.selectedId \in l.known THEN l.selectedId ELSE Lab

Sync(k) ==
    /\ ~ reply[k].none
    /\ known' = SyncedKnown(reply[k])
    /\ selected' = SyncedSelection(reply[k])
    /\ reply' = [reply EXCEPT ![k] = NoReply]

Goto(k, l) == pc' = [pc EXCEPT ![k] = l]

-----------------------------------------------------------------------------
(* Tool calls.                                                             *)

\* A tool is called; with a hub, every one of them lists its peers first.
CallTool(k, n, i) ==
    /\ attached /\ pc[k] = "idle"
    /\ name' = [name EXCEPT ![k] = n]
    /\ arg' = [arg EXCEPT ![k] = i]
    /\ Goto(k, "sync")
    /\ UNCHANGED <<queueVars, store, registryVars, reply>>

\* Without a hub the registry's own selection counts.
CallOffline(k, n, i) ==
    /\ ~ attached /\ pc[k] = "idle"
    /\ name' = [name EXCEPT ![k] = n]
    /\ arg' = [arg EXCEPT ![k] = i]
    /\ \/ n = "list" /\ Goto(k, "done") /\ UNCHANGED <<queueVars, selected>>
       \/ n \in {"use", "info"} /\ Enter(Outer(k), selected) /\ Goto(k, "queued") /\ UNCHANGED selected
       \/ n = "select" /\ i \in known /\ selected' = i /\ Enter(Outer(k), i) /\ Goto(k, "queued")
       \/ n = "select" /\ i \notin known /\ Goto(k, "failed") /\ UNCHANGED <<queueVars, selected>>
    /\ UNCHANGED <<store, attached, known, reply>>

\* The hub handles GET /peers.
HubLists(k) ==
    /\ attached /\ pc[k] \in {"sync", "check", "resync"} /\ reply[k].none
    /\ reply' = [reply EXCEPT ![k] = Listing]
    /\ UNCHANGED <<queueVars, store, registryVars, name, arg, pc>>

\* list_td_targets.
Listed(k) ==
    /\ pc[k] = "sync" /\ name[k] = "list" /\ Sync(k)
    /\ Goto(k, "done")
    /\ UNCHANGED <<queueVars, store, attached, name, arg>>

\* A node tool, get_td_info too, captures the selection and queues for it.
Captured(k) ==
    /\ pc[k] = "sync" /\ name[k] \in {"use", "info"} /\ Sync(k)
    /\ Enter(Outer(k), selected')
    /\ Goto(k, "queued")
    /\ UNCHANGED <<store, attached, name, arg>>

\* selectAsync after its sync: an unknown id is an error; else the hub is asked again.
Looked(k) ==
    /\ pc[k] = "sync" /\ name[k] = "select" /\ Sync(k)
    /\ Goto(k, IF arg[k] \in known' THEN "check" ELSE "failed")
    /\ UNCHANGED <<queueVars, store, attached, name, arg>>

\* The end of selectAsync, and probeIdentity up to the queue; getSelected throws
\* if another call's sync has dropped the target meanwhile.
SelectHere(k) ==
    /\ selected' = arg[k]
    /\ IF arg[k] \in known
       THEN Enter(Outer(k), arg[k]) /\ Goto(k, "queued")
       ELSE Goto(k, "failed") /\ UNCHANGED queueVars
    /\ reply' = [reply EXCEPT ![k] = NoReply]
    /\ UNCHANGED <<store, attached, known, name, arg>>

\* onHub: a target the hub does not list (the soft lab) is selected here only.
CheckedSoft(k) ==
    /\ pc[k] = "check" /\ ~ reply[k].none
    /\ arg[k] \notin reply[k].known
    /\ SelectHere(k)

CheckedOnHub(k) ==
    /\ pc[k] = "check" /\ ~ reply[k].none
    /\ arg[k] \in reply[k].known
    /\ reply' = [reply EXCEPT ![k] = NoReply]
    /\ Goto(k, "put")
    /\ UNCHANGED <<queueVars, store, registryVars, name, arg>>

\* The hub handles PUT /sticky; a peer that is gone by now is an error (404).
HubSelects(k) ==
    /\ pc[k] = "put"
    /\ IF arg[k] \in Known(store)
       THEN store' = Select(store, arg[k]) /\ Goto(k, "selecting")
       ELSE UNCHANGED store /\ Goto(k, "failed")
    /\ UNCHANGED <<queueVars, registryVars, name, arg, reply>>

Selected(k) == pc[k] = "selecting" /\ SelectHere(k)

\* The call's turn: the node tool runs, get_td_info looks up the selection again.
HasTurn(k) ==
    /\ pc[k] = "queued" /\ Turn(Outer(k))
    /\ Goto(k, IF name[k] = "info" THEN "resync" ELSE "working")
    /\ UNCHANGED <<store, registryVars, name, arg, reply>>

\* get_td_info, in its queue: probeIdentity of what is selected now.
Probe(k, t) ==
    \/ t = want[Outer(k)] /\ Nest(Outer(k)) /\ Goto(k, "working")
    \/ t # want[Outer(k)] /\ EnterNested(Outer(k), Inner(k), t) /\ Goto(k, "nested")

Resynced(k) ==
    /\ pc[k] = "resync"
    /\ IF attached THEN Sync(k) ELSE UNCHANGED <<known, selected, reply>>
    /\ Probe(k, selected')
    /\ UNCHANGED <<store, attached, name, arg>>

HasInnerTurn(k) ==
    /\ pc[k] = "nested" /\ Turn(Inner(k))
    /\ Goto(k, "working")
    /\ UNCHANGED <<store, registryVars, name, arg, reply>>

\* TD has answered, or the call to it has failed: the queues are released, the
\* inner one first.
Finish(k) ==
    /\ pc[k] = "working"
    /\ \/ at[Inner(k)] = "holding" /\ Release(Inner(k)) /\ Goto(k, "unwinding")
       \/ at[Inner(k)] = "idle" /\ depth[Outer(k)] > 0 /\ Unnest(Outer(k)) /\ Goto(k, "unwinding")
       \/ at[Inner(k)] = "idle" /\ Release(Outer(k)) /\ Goto(k, "done")
    /\ UNCHANGED <<store, registryVars, name, arg, reply>>

Unwind(k) ==
    /\ pc[k] = "unwinding" /\ Release(Outer(k))
    /\ Goto(k, "done")
    /\ UNCHANGED <<store, registryVars, name, arg, reply>>

\* A slip: a failed lookup leaves the queue held.
HubFailsHolding(k) ==
    /\ pc[k] \in {"sync", "check", "put", "selecting", "resync"} /\ attached
    /\ Goto(k, "failed")
    /\ reply' = [reply EXCEPT ![k] = NoReply]
    /\ UNCHANGED <<queueVars, store, registryVars, name, arg>>

\* A request to the hub is refused or times out (5 s), handled or not.
HubFails(k) ==
    /\ pc[k] \in {"sync", "check", "put", "selecting", "resync"} /\ attached
    /\ IF pc[k] = "resync" THEN Release(Outer(k)) ELSE UNCHANGED queueVars
    /\ Goto(k, "failed")
    /\ reply' = [reply EXCEPT ![k] = NoReply]
    /\ UNCHANGED <<store, registryVars, name, arg>>

Handler(k) ==
    \/ Listed(k) \/ Captured(k) \/ Looked(k) \/ CheckedSoft(k) \/ CheckedOnHub(k)
    \/ Selected(k) \/ HasTurn(k) \/ Resynced(k) \/ HasInnerTurn(k) \/ Finish(k)
    \/ Unwind(k)

HubStep(k) == HubLists(k) \/ HubSelects(k)

-----------------------------------------------------------------------------
\* Another MCP server, a TD process or a TTL changes the hub's registry.
Elsewhere ==
    /\ \E i \in Id :
         \/ i \notin Known(store) /\ store' = Register(store, i, TunnelPeer(NoNonce, FALSE))
         \/ i \in Known(store) /\ store' = Remove(store, i)
         \/ i \in Known(store) /\ store' = Select(store, i)
    /\ UNCHANGED <<queueVars, registryVars, callVars>>

Seen == seen' = [k \in Tool |->
    IF pc[k] \in Ended THEN seen[k]
    ELSE IF pc'[k] = "idle" THEN {}
    ELSE seen[k] \cup {HubSelection(store), HubSelection(store')}]

ToolStep(k) ==
    \/ \E n \in {"use", "info", "list"} : CallTool(k, n, Lab) \/ CallOffline(k, n, Lab)
    \/ \E i \in Id : CallTool(k, "select", i) \/ CallOffline(k, "select", i)
    \/ Handler(k) \/ HubStep(k) \/ HubFails(k)

ToolsNext == (Elsewhere \/ \E k \in Tool : ToolStep(k)) /\ Seen

ToolsSpec == ToolsInit /\ [][ToolsNext]_toolVars

\* The event loop runs what it can, and the hub and TD answer what they are sent.
ToolsFairness == \A k \in Tool : WF_toolVars((Handler(k) \/ HubStep(k)) /\ Seen)

ToolsFairSpec == ToolsSpec /\ ToolsFairness

-----------------------------------------------------------------------------
\* "MCP tools resolve sticky peer from the hub" (docs/hub.md:66): whatever other
\* calls do to the shared registry, a node tool works on a target that the hub
\* had selected at some moment of this call, and so does get_td_info's probe.
WorksOnSelection ==
    \A k \in Tool : attached /\ name[k] \in {"use", "info"} =>
        /\ want[Outer(k)] # NoId => want[Outer(k)] \in seen[k]
        /\ want[Inner(k)] # NoId => want[Inner(k)] \in seen[k]

\* Every tool call ends, if there is no second get_td_info.
CallsEnd ==
    [](Cardinality({k \in Tool : name[k] = "info"}) <= 1)
    => \A k \in Tool : name[k] # "none" ~> pc[k] \in Ended

=============================================================================
