---------------------------- MODULE TunnelManager ----------------------------
(***************************************************************************)
(* The hub's side of the reverse tunnels (src/hub/tunnelManager.ts):       *)
(* TouchDesigner (TD) dials a WebSocket and says hello, the hub binds the  *)
(* socket to a target id and proxies HTTP requests over it, one at a time  *)
(* per PeerSocket.                                                         *)
(*                                                                         *)
(* A macrotask of the hub's event loop is one action; the promise          *)
(* callbacks it resolves run before the next macrotask and belong to it.   *)
(* A WebSocket is named by an element of Ws, which is dialled again only   *)
(* after it has closed and its PeerSocket has nothing left to run.  The TD *)
(* client sends one hello per socket (tdmcp_tunnel.py, _session_loop).     *)
(***************************************************************************)
EXTENDS PeerStore, Sequences

CONSTANTS Ws, NoWs,  \* WebSocket connections; no entry in the sockets map
          Req        \* proxied requests

ASSUME WsAssumption == NoWs \notin Ws

VARIABLES
    store,       \* the PeerStore
    expects,     \* expects map: the nonce a hello must carry, NoNonce if none
    sockets,     \* sockets map: the PeerSocket of an id, named by its WebSocket
    persistDue,  \* persistTimer is armed
    wsState,     \* "dialed": OPEN, hello not yet read; "open": OPEN, hello accepted
    hello,       \* the hello TD sends on a socket
    boundId,     \* attachSocket's boundId
    frames,      \* request frames sent on a socket that TD has not answered
    pending,     \* PeerSocket.pending: requests with an armed timer
    queue,       \* PeerSocket.queue: proxied requests that have not started
    target,      \* the peer id a request was made for
    outcome      \* where a request stands

connVars  == <<wsState, hello, boundId>>
proxyVars == <<frames, pending, queue, outcome>>
tunnelVars == <<store, expects, sockets, persistDue, connVars, proxyVars, target>>

Hello   == [id : Id, nonce : Nonce]
NoHello == [id |-> NoId, nonce |-> NoNonce]

Settled == {"offline", "ok", "failed", "timeout", "lost"}

TunnelTypeOK ==
    /\ store \in Store
    /\ expects \in [Id -> Nonce \cup {NoNonce}]
    /\ sockets \in [Id -> Ws \cup {NoWs}]
    /\ persistDue \in BOOLEAN
    /\ wsState \in [Ws -> {"closed", "dialed", "open", "closing"}]
    /\ hello \in [Ws -> Hello \cup {NoHello}]
    /\ boundId \in [Ws -> Id \cup {NoId}]
    /\ frames \in [Ws -> Seq(Req)]
    /\ pending \in [Ws -> SUBSET Req]
    /\ queue \in [Ws -> Seq(Req)]
    /\ target \in [Req -> Id \cup {NoId}]
    /\ outcome \in [Req -> {"new", "queued", "sent"} \cup Settled]

TunnelInit ==
    /\ store = EmptyStore
    /\ expects = [i \in Id |-> NoNonce]
    /\ sockets = [i \in Id |-> NoWs]
    /\ persistDue = FALSE
    /\ wsState = [w \in Ws |-> "closed"]
    /\ hello = [w \in Ws |-> NoHello]
    /\ boundId = [w \in Ws |-> NoId]
    /\ frames = [w \in Ws |-> <<>>]
    /\ pending = [w \in Ws |-> {}]
    /\ queue = [w \in Ws |-> <<>>]
    /\ target = [r \in Req |-> NoId]
    /\ outcome = [r \in Req |-> "new"]

IsConnected(i) == sockets[i] # NoWs /\ wsState[sockets[i]] = "open"

\* A slip in the chain: after a rejection the next run does not start.
SettleUnchained(w, rs, how, open, sent) ==
    LET next == IF how # "ok" \/ queue[w] = <<>> THEN {} ELSE {Head(queue[w])}
    IN  /\ pending' = [pending EXCEPT ![w] = (@ \ rs) \cup next]
        /\ queue'   = [queue EXCEPT ![w] = IF next = {} THEN @ ELSE Tail(@)]
        /\ frames'  = IF open /\ next # {}
                      THEN [sent EXCEPT ![w] = Append(@, Head(queue[w]))]
                      ELSE sent
        /\ outcome' = [r \in Req |-> IF r \in rs THEN how
                                     ELSE IF r \in next THEN "sent"
                                     ELSE outcome[r]]

(***************************************************************************)
(* The promises of the requests rs of PeerSocket w settle; if there were   *)
(* any, the next queued run starts: its timer is armed and its frame sent. *)
(* ws.send throws only on a connecting socket; on one that is closing or   *)
(* closed (open = FALSE) the frame is silently dropped.  sent is what the  *)
(* frames are before that.                                                 *)
(***************************************************************************)
Settle(w, rs, how, open, sent) ==
    LET next == IF rs = {} \/ queue[w] = <<>> THEN {} ELSE {Head(queue[w])}
    IN  /\ pending' = [pending EXCEPT ![w] = (@ \ rs) \cup next]
        /\ queue'   = [queue EXCEPT ![w] = IF next = {} THEN @ ELSE Tail(@)]
        /\ frames'  = IF open /\ next # {}
                      THEN [sent EXCEPT ![w] = Append(@, Head(queue[w]))]
                      ELSE sent
        /\ outcome' = [r \in Req |-> IF r \in rs THEN how
                                     ELSE IF r \in next THEN "sent"
                                     ELSE outcome[r]]

RejectAllPending(w, open, sent) == Settle(w, pending[w], "failed", open, sent)

\* detachPeer(i): the map, the timer and the requests.  The WebSocket itself
\* is left as it is.
Detach(i, sent) ==
    LET w == sockets[i]
    IN  IF w = NoWs
        THEN frames' = sent /\ UNCHANGED <<sockets, persistDue, pending, queue, outcome>>
        ELSE /\ sockets' = [sockets EXCEPT ![i] = NoWs]
             /\ persistDue' = TRUE
             /\ RejectAllPending(w, wsState'[w] = "open", sent)

\* detachPeer(i): the peer record.
Detached(i) ==
    IF sockets[i] # NoWs /\ i \in Known(store) /\ store.peer[i].transport = "tunnel"
    THEN Register(store, i, [store.peer[i] EXCEPT !.tunnelConnected = FALSE])
    ELSE store

\* The "close" and "error" handlers of attachSocket.
DetachBound(w, sent) ==
    IF boundId[w] = NoId
    THEN UNCHANGED <<store, sockets, persistDue, proxyVars>>
    ELSE Detach(boundId[w], sent) /\ store' = Detached(boundId[w])

-----------------------------------------------------------------------------
\* TD connects to /tunnel (wss "connection") with an identity of its own.
Dial(w, h) ==
    /\ wsState[w] = "closed" /\ pending[w] = {} /\ queue[w] = <<>>
    /\ wsState' = [wsState EXCEPT ![w] = "dialed"]
    /\ hello' = [hello EXCEPT ![w] = h]
    /\ UNCHANGED <<store, expects, sockets, persistDue, boundId, proxyVars, target>>

\* unknown_or_expired_expect or nonce_mismatch: the hub closes the socket.
RejectHello(w) ==
    /\ wsState[w] = "dialed"
    /\ expects[hello[w].id] # hello[w].nonce
    /\ wsState' = [wsState EXCEPT ![w] = "closing"]
    /\ UNCHANGED <<store, expects, sockets, persistDue, hello, boundId, proxyVars, target>>

\* handleHello accepts: replace the id's socket, register the peer as connected.
AcceptHello(w) ==
    LET i   == hello[w].id
        old == sockets[i]
    IN  /\ wsState[w] = "dialed"
        /\ expects[i] = hello[w].nonce
        /\ IF old = NoWs
           THEN /\ wsState' = [wsState EXCEPT ![w] = "open"]
                /\ UNCHANGED proxyVars
           ELSE /\ wsState' = [wsState EXCEPT ![w] = "open", ![old] = "closing"]
                /\ RejectAllPending(old, FALSE, frames)
        /\ store' = Register(store, i, TunnelPeer(hello[w].nonce, TRUE))
        /\ sockets' = [sockets EXCEPT ![i] = w]
        /\ boundId' = [boundId EXCEPT ![w] = i]
        /\ persistDue' = TRUE
        /\ UNCHANGED <<expects, hello, target>>

\* TD answers its oldest request; the hub looks it up in the PeerSocket that
\* boundId is mapped to by now.  A CLOSING socket still delivers messages.
Response(w) ==
    LET r == Head(frames[w])
        s == IF boundId[w] = NoId THEN NoWs ELSE sockets[boundId[w]]
        sent == [frames EXCEPT ![w] = Tail(@)]
    IN  /\ wsState[w] \in {"open", "closing"} /\ frames[w] # <<>>
        /\ IF s # NoWs /\ r \in pending[s]
           THEN Settle(s, {r}, "ok", wsState[s] = "open", sent)
           ELSE frames' = sent /\ UNCHANGED <<pending, queue, outcome>>
        /\ UNCHANGED <<store, expects, sockets, persistDue, connVars, target>>

\* TD goes away (it quits, its client stops, the connection drops): the
\* readyState leaves OPEN before the "close" event is emitted.
TdLeaves(w) ==
    /\ wsState[w] \in {"dialed", "open"}
    /\ wsState' = [wsState EXCEPT ![w] = "closing"]
    /\ UNCHANGED <<store, expects, sockets, persistDue, hello, boundId, proxyVars, target>>

\* A malformed frame: the "error" handler runs ahead of the "close" handler.
SocketError(w) ==
    /\ wsState[w] \in {"dialed", "open"}
    /\ wsState' = [wsState EXCEPT ![w] = "closing"]
    /\ DetachBound(w, frames)
    /\ UNCHANGED <<expects, hello, boundId, target>>

\* A slip: no "close" handler.
CloseUnhandled(w) ==
    /\ wsState[w] = "closing"
    /\ wsState' = [wsState EXCEPT ![w] = "closed"]
    /\ hello' = [hello EXCEPT ![w] = NoHello]
    /\ boundId' = [boundId EXCEPT ![w] = NoId]
    /\ UNCHANGED <<store, expects, sockets, persistDue, proxyVars, target>>

\* The "close" handler detaches whatever socket its boundId is mapped to.
\* Nothing reads the closure and the frames of a closed socket again.
CloseEvent(w) ==
    /\ wsState[w] = "closing"
    /\ wsState' = [wsState EXCEPT ![w] = "closed"]
    /\ hello' = [hello EXCEPT ![w] = NoHello]
    /\ boundId' = [boundId EXCEPT ![w] = NoId]
    /\ DetachBound(w, [frames EXCEPT ![w] = <<>>])
    /\ UNCHANGED <<expects, target>>

\* A slip: the requests are not chained.
ProxyUnchained(r, i) ==
    LET w == sockets[i]
    IN  /\ outcome[r] = "new" /\ IsConnected(i)
        /\ target' = [target EXCEPT ![r] = i]
        /\ outcome' = [outcome EXCEPT ![r] = "sent"]
        /\ pending' = [pending EXCEPT ![w] = @ \cup {r}]
        /\ frames' = [frames EXCEPT ![w] = Append(@, r)]
        /\ UNCHANGED <<store, expects, sockets, persistDue, connVars, queue>>

\* proxyRequest: run at once if nothing is ahead of it on this PeerSocket.
ProxyRequest(r, i) ==
    LET w == sockets[i]
    IN  /\ outcome[r] = "new"
        /\ target' = [target EXCEPT ![r] = i]
        /\ IF ~ IsConnected(i)
           THEN /\ outcome' = [outcome EXCEPT ![r] = "offline"]
                /\ UNCHANGED <<frames, pending, queue>>
           ELSE IF pending[w] = {} /\ queue[w] = <<>>
           THEN /\ outcome' = [outcome EXCEPT ![r] = "sent"]
                /\ pending' = [pending EXCEPT ![w] = {r}]
                /\ frames' = [frames EXCEPT ![w] = Append(@, r)]
                /\ UNCHANGED queue
           ELSE /\ outcome' = [outcome EXCEPT ![r] = "queued"]
                /\ queue' = [queue EXCEPT ![w] = Append(@, r)]
                /\ UNCHANGED <<frames, pending>>
        /\ UNCHANGED <<store, expects, sockets, persistDue, connVars>>

\* A slip: the timer rejects and leaves the pending entry behind.
TimeoutKeepingEntry(w) ==
    /\ \E r \in pending[w] : outcome' = [outcome EXCEPT ![r] = "timeout"]
    /\ UNCHANGED <<store, expects, sockets, persistDue, connVars, target,
                   frames, pending, queue>>

\* The timer of a request fires (60 s, or the caller's X-TDMCP-Timeout-Ms).
Timeout(w) ==
    /\ \E r \in pending[w] : Settle(w, {r}, "timeout", wsState[w] = "open", frames)
    /\ UNCHANGED <<store, expects, sockets, persistDue, connVars, target>>

\* An expect outlives its ttlMs: getExpect and listExpects no longer see it.
ExpectExpires(i) ==
    /\ expects[i] # NoNonce
    /\ expects' = [expects EXCEPT ![i] = NoNonce]
    /\ UNCHANGED <<store, sockets, persistDue, connVars, proxyVars, target>>

TunnelStep ==
    \/ \E w \in Ws : \/ RejectHello(w) \/ AcceptHello(w) \/ Response(w)
                     \/ TdLeaves(w) \/ SocketError(w) \/ CloseEvent(w)
                     \/ Timeout(w)
                     \/ \E h \in Hello : Dial(w, h)
    \/ \E i \in Id : ExpectExpires(i) \/ \E r \in Req : ProxyRequest(r, i)
=============================================================================
