------------------------------ MODULE HubServer ------------------------------
(***************************************************************************)
(* The hub process (src/hub/server.ts): its HTTP handlers over the         *)
(* PeerStore and the TunnelManager, the sweep timer, the snapshot on disk  *)
(* and a crash followed by a restart.  A handler has no await between its  *)
(* first and its last change of state, so each one is one action.          *)
(***************************************************************************)
EXTENDS TunnelManager

CONSTANTS MaxRestarts   \* bound: how often the hub process dies

ASSUME ServerAssumption == MaxRestarts \in Nat

VARIABLES
    sweepDue,  \* the sweep interval has elapsed, its callback has not run
    snap,      \* tdmcp-hub-state.json
    restarts   \* how often the process has died

hubVars == <<tunnelVars, sweepDue, snap, restarts>>

Snapshot == [rank : [Id -> Nat], peer : [Id -> Peer], selectedId : Id \cup {NoId}]

TypeOK ==
    /\ TunnelTypeOK
    /\ sweepDue \in BOOLEAN
    /\ snap \in Snapshot
    /\ restarts \in 0..MaxRestarts

Init ==
    /\ TunnelInit
    /\ sweepDue = FALSE
    /\ snap = [rank |-> EmptyStore.rank, peer |-> EmptyStore.peer, selectedId |-> NoId]
    /\ restarts = 0

(***************************************************************************)
(* persistStore reads selectedId first and the peers after list() has      *)
(* swept, so the file may name a selection it does not list.  Once the     *)
(* last restart has happened nothing reads the file (bound).               *)
(***************************************************************************)
Persist(s) ==
    /\ store' = Sweep(s)
    /\ snap' = IF restarts < MaxRestarts
               THEN [rank |-> Sweep(s).rank, peer |-> Sweep(s).peer,
                     selectedId |-> s.selectedId]
               ELSE snap

\* A slip in restoreStore: the stored selection is taken unseen.
RestoredBlindly ==
    [rank |-> snap.rank,
     peer |-> [i \in Id |-> [snap.peer[i] EXCEPT !.tunnelConnected = FALSE]],
     age |-> [i \in Id |-> 0],
     selectedId |-> snap.selectedId]

\* restoreStore: no tunnel survives, expects are not in the file.
Restored ==
    LET known == {i \in Id : snap.rank[i] > 0}
    IN  [rank |-> snap.rank,
         peer |-> [i \in Id |-> IF snap.peer[i].transport = "tunnel"
                                THEN [snap.peer[i] EXCEPT !.tunnelConnected = FALSE]
                                ELSE snap.peer[i]],
         age |-> [i \in Id |-> 0],
         selectedId |-> IF snap.selectedId \in known THEN snap.selectedId
                        ELSE First(snap, known)]

-----------------------------------------------------------------------------
\* What callers of /peers/register send: a legacy HTTP peer, or the MCP server's
\* upsertOwnedAsync for a tunnel target (inject_td_mcp leaves out the nonce).
RegisterBody == {HttpPeer} \cup {TunnelPeer(n, FALSE) : n \in Nonce \cup {NoNonce}}

\* POST /peers/register
PostRegister(i, p) ==
    /\ Persist(Register(store, i, p))
    /\ UNCHANGED <<expects, sockets, persistDue, connVars, proxyVars, target,
                   sweepDue, restarts>>

\* POST /peers/expect: the expect and a placeholder peer, connected or not.
PostExpect(i, n) ==
    /\ expects' = [expects EXCEPT ![i] = n]
    /\ Persist(Register(store, i, TunnelPeer(n, FALSE)))
    /\ persistDue' = TRUE
    /\ UNCHANGED <<sockets, connVars, proxyVars, target, sweepDue, restarts>>

\* POST /peers/heartbeat; 404 for an unknown id.
PostHeartbeat(i) ==
    /\ i \in Known(store)
    /\ store' = Heartbeat(store, {i})
    /\ UNCHANGED <<expects, sockets, persistDue, connVars, proxyVars, target,
                   sweepDue, snap, restarts>>

\* DELETE /peers/:id; it answers 404 for an unknown id, after the detach.
DeletePeer(i) ==
    LET detached == IF IsConnected(i) THEN Detached(i) ELSE store
    IN  /\ UNCHANGED connVars
        /\ IF IsConnected(i)
           THEN Detach(i, frames)
           ELSE UNCHANGED <<sockets, persistDue, proxyVars>>
        /\ IF i \in Known(detached)
           THEN Persist(Remove(detached, i))
           ELSE store' = detached /\ UNCHANGED snap
        /\ UNCHANGED <<expects, target, sweepDue, restarts>>

\* A slip: the selection is not persisted.
PutStickyUnsaved(i) ==
    /\ i \in Known(store)
    /\ store' = Select(store, i)
    /\ UNCHANGED <<expects, sockets, persistDue, connVars, proxyVars, target,
                   sweepDue, snap, restarts>>

\* PUT /sticky; 404 for an unknown id.
PutSticky(i) ==
    /\ i \in Known(store)
    /\ Persist(Select(store, i))
    /\ UNCHANGED <<expects, sockets, persistDue, connVars, proxyVars, target,
                   sweepDue, restarts>>

\* GET /peers: list() sweeps.
GetPeers ==
    /\ store' = Sweep(store)
    /\ UNCHANGED <<expects, sockets, persistDue, connVars, proxyVars, target,
                   sweepDue, snap, restarts>>

-----------------------------------------------------------------------------
\* Ten seconds pass.  The event loop is assumed to keep up with its timers:
\* the callback of one period runs before the next period is over.
Tick ==
    /\ ~ sweepDue
    /\ sweepDue' = TRUE
    /\ store' = Older(store)
    /\ UNCHANGED <<expects, sockets, persistDue, connVars, proxyVars, target,
                   snap, restarts>>

\* A slip: only the expected peers are kept alive.
SweepTimerForExpects ==
    LET listed == Sweep(store)
        alive  == {i \in Known(listed) : /\ listed.peer[i].transport = "tunnel"
                                         /\ expects[i] # NoNonce}
    IN  /\ sweepDue
        /\ sweepDue' = FALSE
        /\ store' = Sweep(Heartbeat(listed, alive))
        /\ UNCHANGED <<expects, sockets, persistDue, connVars, proxyVars, target,
                       snap, restarts>>

\* The interval callback: list() sweeps, then the tunnel peers that are
\* connected or expected get a heartbeat, then it sweeps again.
SweepTimer ==
    LET listed == Sweep(store)
        alive  == {i \in Known(listed) : /\ listed.peer[i].transport = "tunnel"
                                         /\ IsConnected(i) \/ expects[i] # NoNonce}
    IN  /\ sweepDue
        /\ sweepDue' = FALSE
        /\ store' = Sweep(Heartbeat(listed, alive))
        /\ UNCHANGED <<expects, sockets, persistDue, connVars, proxyVars, target,
                       snap, restarts>>

\* The debounced persistTimer of the TunnelManager (100 ms).
PersistTimer ==
    /\ persistDue
    /\ persistDue' = FALSE
    /\ Persist(store)
    /\ UNCHANGED <<expects, sockets, connVars, proxyVars, target, sweepDue, restarts>>

\* The process ends (a crash, or close() with closeAll) and is spawned again:
\* memory and connections are gone, callers of open requests see a reset.
Restart ==
    /\ restarts < MaxRestarts
    /\ restarts' = restarts + 1
    /\ store' = Restored
    /\ expects' = [i \in Id |-> NoNonce]
    /\ sockets' = [i \in Id |-> NoWs]
    /\ persistDue' = FALSE
    /\ sweepDue' = FALSE
    /\ wsState' = [w \in Ws |-> "closed"]
    /\ hello' = [w \in Ws |-> NoHello]
    /\ boundId' = [w \in Ws |-> NoId]
    /\ frames' = [w \in Ws |-> <<>>]
    /\ pending' = [w \in Ws |-> {}]
    /\ queue' = [w \in Ws |-> <<>>]
    /\ outcome' = [r \in Req |-> IF outcome[r] \in {"queued", "sent"} THEN "lost"
                                 ELSE outcome[r]]
    /\ UNCHANGED <<target, snap>>

-----------------------------------------------------------------------------
Tunnel == TunnelStep /\ UNCHANGED <<sweepDue, snap, restarts>>

Http ==
    \/ \E i \in Id : \/ PostHeartbeat(i) \/ DeletePeer(i) \/ PutSticky(i)
                     \/ \E n \in Nonce : PostExpect(i, n)
                     \/ \E p \in RegisterBody : PostRegister(i, p)
    \/ GetPeers

Timers == Tick \/ SweepTimer \/ PersistTimer

Next == Tunnel \/ Http \/ Timers \/ Restart

Spec == Init /\ [][Next]_hubVars

\* The timers of the event loop fire, and a closing WebSocket gets closed (ws
\* destroys the connection 30 s after close() if the peer does not answer).
Fairness == \A w \in Ws : WF_hubVars(Timeout(w) /\ UNCHANGED <<sweepDue, snap, restarts>>)
FairSpec == Spec /\ Fairness

-----------------------------------------------------------------------------
(* What the hub promises, over the interleavings of its handlers.          *)

\* The sticky selection names a peer that is registered, and there is one as
\* soon as there is a peer: through register, delete, expiry and restore
\* (peerStore.ts, restoreStore).
StickyIsKnown == Sticky(store)

\* A peer is shown as tunnelConnected only while the hub holds a socket for it:
\* every path that drops the socket corrects the record (detachPeer).
ConnectedIsBacked ==
    \A i \in Known(store) : store.peer[i].tunnelConnected => sockets[i] # NoWs

\* The sockets map never routes an id to a closed WebSocket, nor to one that
\* said hello for another id (attachSocket, handleHello).
RoutedIsAlive ==
    \A i \in Id : sockets[i] # NoWs =>
        boundId[sockets[i]] = i /\ wsState[sockets[i]] \in {"open", "closing"}

(***************************************************************************)
(* The inductive invariant of the registry.  The flags are backed because  *)
(* detachPeer corrects the record, except for an absent peer or one        *)
(* re-registered as http: those carry no flag.  The sockets map is alive   *)
(* because a close event finds its socket under the id it is bound to:     *)
(* only a live socket is bound, and it has said hello.                     *)
(***************************************************************************)
FlagsOf(s) == \A i \in Id : s.peer[i].tunnelConnected =>
                             i \in Known(s) /\ s.peer[i].transport = "tunnel"

SnapFlags == \A i \in Id : snap.peer[i].tunnelConnected => snap.peer[i].transport = "tunnel"

BoundIsLive == \A w \in Ws :
    /\ boundId[w] # NoId => wsState[w] \in {"open", "closing"}
    /\ wsState[w] # "closed" => hello[w] \in Hello

\* The registry, the snapshot, the sockets map and the closures agree on who is
\* connected in every state the handlers can reach.
RegistryInv == /\ TypeOK /\ StickyIsKnown /\ ConnectedIsBacked /\ RoutedIsAlive
               /\ FlagsOf(store) /\ SnapFlags /\ BoundIsLive

\* Per-peer FIFO: a PeerSocket has one request in flight (proxyRequest's chain).
OneInFlight == \A w \in Ws : \A q, r \in pending[w] : q = r

\* r waits in the chain of w.
Waits(r, w) == \E k \in DOMAIN queue[w] : queue[w][k] = r

\* No request is forgotten: a started one has an armed timer on one PeerSocket,
\* a queued one is in one queue, and a queue with requests has one in flight
\* whose settling starts the next, also after its socket was replaced or lost.
NoRequestLost ==
    /\ \A r \in Req :
         /\ outcome[r] = "sent" <=> \E w \in Ws : r \in pending[w]
         /\ outcome[r] = "queued" <=> \E w \in Ws : Waits(r, w)
    /\ \A w \in Ws : queue[w] # <<>> => pending[w] # {}

\* A request is in one place: settling it there leaves it nowhere else.
OnePlace ==
    \A v, w \in Ws :
        /\ \A r \in pending[v] \cap pending[w] : v = w
        /\ \A j \in DOMAIN queue[v], k \in DOMAIN queue[w] :
             queue[v][j] = queue[w][k] => v = w /\ j = k

\* A request reaches only the TD bound to the peer id it was made for, however
\* sockets are replaced, detached and bound again meanwhile.
SentWhereAddressed ==
    \A w \in Ws : \A k \in DOMAIN frames[w] : boundId[w] = target[frames[w][k]]

\* What makes it so: a socket is dialled and bound only when nothing is left of its
\* last use, and what a live one holds was made for the id it is bound to.
Addressed ==
    /\ \A r \in Req : outcome[r] # "new" => target[r] # NoId
    /\ \A w \in Ws :
         /\ wsState[w] = "dialed" => pending[w] = {} /\ queue[w] = <<>>
         /\ wsState[w] \in {"closed", "dialed"} => frames[w] = <<>>
         /\ wsState[w] # "closed" =>
              \A r \in Req : r \in pending[w] \/ Waits(r, w) => target[r] = boundId[w]
         /\ \A k \in DOMAIN frames[w] : outcome[frames[w][k]] # "new"

\* What the socket events, timers and replacements never do to the requests.
RequestInv == OneInFlight /\ NoRequestLost /\ OnePlace /\ SentWhereAddressed /\ Addressed

\* A caller gets one answer: a late response, a timer and a disconnect never
\* settle a request again (the pending entry goes before the promise settles).
SettledForGood ==
    [][\A r \in Req : outcome[r] \in Settled => outcome'[r] = outcome[r]]_hubVars

\* "keep alive while connected" (startHubServer): a connected tunnel peer is
\* dropped from the registry only together with its socket.
ConnectedIsKept ==
    [][\A i \in Known(store) :
         /\ store.peer[i].transport = "tunnel" /\ IsConnected(i)
         /\ i \notin Known(store')
         => sockets'[i] = NoWs]_hubVars

\* The sticky selection on disk is the one in memory unless a persist is due or
\* the stored one has expired since (every handler's persistStore).
DiskFollows ==
    restarts < MaxRestarts =>
        \/ snap.selectedId = store.selectedId
        \/ persistDue
        \/ snap.selectedId \in Id \ Known(store)

\* Every proxied request is answered, if only by its timeout.
EveryRequestSettles ==
    \A r \in Req : outcome[r] # "new" ~> outcome[r] \in Settled
=============================================================================
