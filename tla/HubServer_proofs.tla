--------------------------- MODULE HubServer_proofs ---------------------------
(***************************************************************************)
(* Safety of the hub for any number of targets, sockets, nonces, requests  *)
(* and restarts.  First the registry: types, the sticky selection, the     *)
(* tunnelConnected flags and the sockets map; then the requests, the file  *)
(* on disk and the peers kept alive.                                       *)
(***************************************************************************)
EXTENDS HubServer, PeerStore_proofs

\* RegistryInv by the variables a step changes together.
StoreInv == /\ store \in Store /\ Sticky(store) /\ FlagsOf(store)
            /\ snap \in Snapshot /\ SnapFlags

SocketInv == /\ sockets \in [Id -> Ws \cup {NoWs}]
             /\ wsState \in [Ws -> {"closed", "dialed", "open", "closing"}]
             /\ hello \in [Ws -> Hello \cup {NoHello}]
             /\ boundId \in [Ws -> Id \cup {NoId}]
             /\ RoutedIsAlive /\ BoundIsLive

ProxyTypeOK == /\ frames \in [Ws -> Seq(Req)]
               /\ pending \in [Ws -> SUBSET Req]
               /\ queue \in [Ws -> Seq(Req)]
               /\ outcome \in [Req -> {"new", "queued", "sent"} \cup Settled]

OtherTypeOK == /\ expects \in [Id -> Nonce \cup {NoNonce}]
               /\ target \in [Req -> Id \cup {NoId}]
               /\ persistDue \in BOOLEAN
               /\ sweepDue \in BOOLEAN
               /\ restarts \in 0..MaxRestarts

\* Every flag has a socket behind it: with FlagsOf this is ConnectedIsBacked.
Backed(s) == \A i \in Id : s.peer[i].tunnelConnected => sockets[i] # NoWs

\* The parts are the invariant.
LEMMA RegistryParts ==
  RegistryInv <=> StoreInv /\ SocketInv /\ ProxyTypeOK /\ OtherTypeOK /\ Backed(store)
BY DEF RegistryInv, TypeOK, TunnelTypeOK, StickyIsKnown, ConnectedIsBacked, FlagsOf,
       StoreInv, SocketInv, ProxyTypeOK, OtherTypeOK, Backed, Known

-----------------------------------------------------------------------------
\* Settling requests and starting the next one stays within the types.
LEMMA SettleType ==
  ASSUME ProxyTypeOK, NEW w \in Ws, NEW rs \in SUBSET Req, NEW how \in Settled,
         NEW open, NEW sent \in [Ws -> Seq(Req)], Settle(w, rs, how, open, sent)
  PROVE  ProxyTypeOK'
<1> DEFINE next == IF rs = {} \/ queue[w] = <<>> THEN {} ELSE {Head(queue[w])}
<1>1. queue[w] \in Seq(Req)  BY DEF ProxyTypeOK
<1>2. queue[w] # <<>> => Head(queue[w]) \in Req /\ Tail(queue[w]) \in Seq(Req)
  BY <1>1
<1>3. next \in SUBSET Req  BY <1>2
<1>4. next # {} => Head(queue[w]) \in Req /\ Tail(queue[w]) \in Seq(Req)  BY <1>2
<1>5. /\ pending' = [pending EXCEPT ![w] = (@ \ rs) \cup next]
      /\ queue'   = [queue EXCEPT ![w] = IF next = {} THEN @ ELSE Tail(@)]
      /\ frames'  = IF open /\ next # {}
                    THEN [sent EXCEPT ![w] = Append(@, Head(queue[w]))]
                    ELSE sent
      /\ outcome' = [r \in Req |-> IF r \in rs THEN how
                                   ELSE IF r \in next THEN "sent"
                                   ELSE outcome[r]]
  BY DEF Settle
<1> HIDE DEF next
<1>6. pending' \in [Ws -> SUBSET Req]  BY <1>3, <1>5 DEF ProxyTypeOK
<1>7. queue' \in [Ws -> Seq(Req)]  BY <1>4, <1>5 DEF ProxyTypeOK
<1>8. frames' \in [Ws -> Seq(Req)]
  <2>1. sent[w] \in Seq(Req)  OBVIOUS
  <2>2. next # {} => Append(sent[w], Head(queue[w])) \in Seq(Req)  BY <1>4, <2>1
  <2> QED  BY <1>5, <2>2
<1>9. outcome' \in [Req -> {"new", "queued", "sent"} \cup Settled]
  BY <1>5 DEF ProxyTypeOK
<1> QED  BY <1>6, <1>7, <1>8, <1>9 DEF ProxyTypeOK

\* detachPeer empties the id's entry of the sockets map.
LEMMA DetachEffect ==
  ASSUME SocketInv, ProxyTypeOK, OtherTypeOK,
         NEW i \in Id, NEW sent \in [Ws -> Seq(Req)], Detach(i, sent)
  PROVE  /\ sockets' = [sockets EXCEPT ![i] = NoWs]
         /\ persistDue' \in BOOLEAN
         /\ ProxyTypeOK'
<1>1. ProxyTypeOK /\ sockets \in [Id -> Ws \cup {NoWs}] /\ persistDue \in BOOLEAN
  BY DEF SocketInv, OtherTypeOK
<1>2. CASE sockets[i] = NoWs
  <2>1. frames' = sent /\ UNCHANGED <<sockets, persistDue, pending, queue, outcome>>
    BY <1>2 DEF Detach
  <2> QED  BY <1>1, <1>2, <2>1 DEF ProxyTypeOK
<1>3. CASE sockets[i] # NoWs
  <2>1. sockets[i] \in Ws /\ pending[sockets[i]] \in SUBSET Req
    BY <1>1, <1>3 DEF ProxyTypeOK
  <2>2. /\ sockets' = [sockets EXCEPT ![i] = NoWs] /\ persistDue' = TRUE
        /\ Settle(sockets[i], pending[sockets[i]], "failed",
                  wsState'[sockets[i]] = "open", sent)
    BY <1>3 DEF Detach, RejectAllPending
  <2>3. "failed" \in Settled  BY DEF Settled
  <2> QED  BY <1>1, <2>1, <2>2, <2>3, SettleType
<1> QED  BY <1>2, <1>3

\* detachPeer leaves no flag on the id, and changes no other record.
LEMMA DetachedEffect ==
  ASSUME StoreInv, Backed(store), NEW i \in Id
  PROVE  /\ Detached(i) \in Store /\ Sticky(Detached(i)) /\ FlagsOf(Detached(i))
         /\ Known(Detached(i)) = Known(store)
         /\ ~ Detached(i).peer[i].tunnelConnected
         /\ \A j \in Id \ {i} : Detached(i).peer[j] = store.peer[j]
<1>1. store \in Store /\ Sticky(store) /\ FlagsOf(store)  BY DEF StoreInv
<1>2. store.peer \in [Id -> Peer]  BY <1>1 DEF Store
<1> DEFINE p == [store.peer[i] EXCEPT !.tunnelConnected = FALSE]
<1>3. p \in Peer /\ ~ p.tunnelConnected  BY <1>2 DEF Peer
<1> HIDE DEF p
<1>4. CASE sockets[i] # NoWs /\ i \in Known(store) /\ store.peer[i].transport = "tunnel"
  <2>1. Detached(i) = Register(store, i, p)  BY <1>4 DEF Detached, p
  <2>2. /\ Register(store, i, p) \in Store /\ Sticky(Register(store, i, p))
        /\ Known(Register(store, i, p)) = Known(store) \cup {i}
        /\ Register(store, i, p).peer = [store.peer EXCEPT ![i] = p]
    BY <1>1, <1>3, RegisterProperties
  <2> QED  BY <1>1, <1>2, <1>3, <1>4, <2>1, <2>2 DEF FlagsOf
<1>5. CASE ~(sockets[i] # NoWs /\ i \in Known(store) /\ store.peer[i].transport = "tunnel")
  <2>1. Detached(i) = store  BY <1>5 DEF Detached
  <2>2. ~ store.peer[i].tunnelConnected  BY <1>1, <1>5 DEF FlagsOf, Backed
  <2> QED  BY <1>1, <2>1, <2>2
<1> QED  BY <1>4, <1>5

\* A record put into the registry, flagged only if a socket is there.
LEMMA RegisterFlags ==
  ASSUME NEW s \in Store, Sticky(s), FlagsOf(s), NEW i \in Id, NEW p \in Peer,
         p.tunnelConnected => p.transport = "tunnel"
  PROVE  /\ Register(s, i, p) \in Store /\ Sticky(Register(s, i, p))
         /\ FlagsOf(Register(s, i, p))
         /\ \A j \in Id \ {i} : Register(s, i, p).peer[j] = s.peer[j]
         /\ Register(s, i, p).peer[i] = p
<1>1. /\ Register(s, i, p) \in Store /\ Sticky(Register(s, i, p))
      /\ Known(Register(s, i, p)) = Known(s) \cup {i}
      /\ Register(s, i, p).peer = [s.peer EXCEPT ![i] = p]
  BY RegisterProperties
<1>2. s.peer \in [Id -> Peer]  BY DEF Store
<1> QED  BY <1>1, <1>2 DEF FlagsOf

\* Sweeping raises no flag.
LEMMA SweepFlags ==
  ASSUME NEW s \in Store, Sticky(s), FlagsOf(s)
  PROVE  /\ Sweep(s) \in Store /\ Sticky(Sweep(s)) /\ FlagsOf(Sweep(s))
         /\ \A i \in Id : Sweep(s).peer[i].tunnelConnected => s.peer[i].tunnelConnected
<1>1. /\ Sweep(s) \in Store /\ Sticky(Sweep(s))
      /\ Known(Sweep(s)) = Fresh(s)
      /\ \A j \in Fresh(s) : Sweep(s).peer[j] = s.peer[j]
      /\ \A j \in Id \ Fresh(s) : Sweep(s).peer[j] = HttpPeer
  BY SweepProperties
<1>2. ~ HttpPeer.tunnelConnected  BY DEF HttpPeer
<1> QED  BY <1>1, <1>2 DEF FlagsOf

\* persistStore keeps the registry's invariant, whatever the handler stored.
LEMMA PersistEffect ==
  ASSUME StoreInv, NEW s \in Store, Sticky(s), FlagsOf(s), Persist(s)
  PROVE  /\ StoreInv'
         /\ \A i \in Id : store'.peer[i].tunnelConnected => s.peer[i].tunnelConnected
<1>1. /\ store' = Sweep(s) /\ store' \in Store /\ Sticky(store') /\ FlagsOf(store')
      /\ \A i \in Id : store'.peer[i].tunnelConnected => s.peer[i].tunnelConnected
  BY SweepFlags DEF Persist
<1>2. snap' \in Snapshot /\ SnapFlags'
  <2>1. CASE snap' = snap  BY <2>1 DEF StoreInv, SnapFlags
  <2>2. CASE snap' = [rank |-> store'.rank, peer |-> store'.peer,
                      selectedId |-> s.selectedId]
    BY <1>1, <2>2 DEF Store, Snapshot, SnapFlags, FlagsOf
  <2> QED  BY <1>1, <2>1, <2>2 DEF Persist
<1> QED  BY <1>1, <1>2 DEF StoreInv

-----------------------------------------------------------------------------
\* handleHello: the new socket is bound to the id it replaces the old one for.
LEMMA AcceptHelloStep ==
  ASSUME StoreInv, SocketInv, ProxyTypeOK, OtherTypeOK, Backed(store),
         NEW w \in Ws, AcceptHello(w), UNCHANGED <<sweepDue, snap, restarts>>
  PROVE  StoreInv' /\ SocketInv' /\ ProxyTypeOK' /\ OtherTypeOK' /\ Backed(store)'
<1> DEFINE i == hello[w].id
           p == TunnelPeer(hello[w].nonce, TRUE)
           old == sockets[i]
<1>1. /\ wsState[w] = "dialed"
      /\ store' = Register(store, i, p)
      /\ sockets' = [sockets EXCEPT ![i] = w]
      /\ boundId' = [boundId EXCEPT ![w] = i]
      /\ persistDue' = TRUE
      /\ UNCHANGED <<expects, hello, target>>
      /\ IF old = NoWs
         THEN wsState' = [wsState EXCEPT ![w] = "open"] /\ UNCHANGED proxyVars
         ELSE /\ wsState' = [wsState EXCEPT ![w] = "open", ![old] = "closing"]
              /\ Settle(old, pending[old], "failed", FALSE, frames)
  BY DEF AcceptHello, RejectAllPending
<1>2. hello[w] \in Hello /\ boundId[w] = NoId
  BY <1>1 DEF SocketInv, BoundIsLive
<1>3. i \in Id /\ p \in Peer /\ p.transport = "tunnel" /\ p.tunnelConnected
  BY <1>2 DEF Hello, TunnelPeer, Peer
<1> HIDE DEF i, p, old
<1>4. /\ Register(store, i, p) \in Store /\ Sticky(Register(store, i, p))
      /\ FlagsOf(Register(store, i, p))
      /\ \A j \in Id \ {i} : Register(store, i, p).peer[j] = store.peer[j]
  BY <1>3, RegisterFlags DEF StoreInv
<1>5. StoreInv'  BY <1>1, <1>4 DEF StoreInv, SnapFlags
<1>6. old \in Ws \cup {NoWs} /\ (old # NoWs => old # w /\ boundId[old] = i)
  BY <1>1, <1>3 DEF SocketInv, RoutedIsAlive, old
<1>7. SocketInv'
  <2>1. \A v \in Ws : wsState'[v] = IF v = w THEN "open"
                                    ELSE IF v = old THEN "closing" ELSE wsState[v]
    BY <1>1, <1>6, WsAssumption DEF SocketInv
  <2>2. wsState' \in [Ws -> {"closed", "dialed", "open", "closing"}]
    BY <1>1, <1>6 DEF SocketInv
  <2>3. /\ sockets' \in [Id -> Ws \cup {NoWs}]
        /\ hello' \in [Ws -> Hello \cup {NoHello}]
        /\ boundId' \in [Ws -> Id \cup {NoId}]
    BY <1>1, <1>3 DEF SocketInv
  <2>4. RoutedIsAlive'
    BY <1>1, <1>2, <1>3, <2>1, WsAssumption, IdAssumption DEF SocketInv, RoutedIsAlive
  <2>5. BoundIsLive'
    <3> SUFFICES ASSUME NEW v \in Ws
                 PROVE  /\ boundId'[v] # NoId => wsState'[v] \in {"open", "closing"}
                        /\ wsState'[v] # "closed" => hello[v] \in Hello
      BY <1>1 DEF BoundIsLive
    <3>1. CASE v = w  BY <1>2, <2>1, <3>1
    <3>2. CASE v # w /\ v = old
      <4>1. old # NoWs /\ wsState[old] \in {"open", "closing"}
        BY <1>3, <3>2, WsAssumption DEF SocketInv, RoutedIsAlive, old
      <4> QED  BY <2>1, <3>2, <4>1 DEF SocketInv, BoundIsLive
    <3>3. CASE v # w /\ v # old
      BY <1>1, <2>1, <3>3 DEF SocketInv, BoundIsLive
    <3> QED  BY <3>1, <3>2, <3>3
  <2> QED  BY <2>2, <2>3, <2>4, <2>5 DEF SocketInv
<1>8. ProxyTypeOK'
  <2>1. CASE old = NoWs  BY <1>1, <2>1 DEF ProxyTypeOK, proxyVars
  <2>2. CASE old # NoWs
    <3>1. Settle(old, pending[old], "failed", FALSE, frames)  BY <1>1, <2>2
    <3>2. old \in Ws /\ pending[old] \in SUBSET Req /\ "failed" \in Settled
      BY <1>6, <2>2 DEF ProxyTypeOK, Settled
    <3>3. frames \in [Ws -> Seq(Req)]  BY DEF ProxyTypeOK
    <3> QED  BY <3>1, <3>2, <3>3, SettleType
  <2> QED  BY <2>1, <2>2
<1>9. OtherTypeOK'  BY <1>1 DEF OtherTypeOK
<1>10. Backed(store)'
  BY <1>1, <1>3, <1>4, WsAssumption DEF Backed, SocketInv
<1> QED  BY <1>5, <1>7, <1>8, <1>9, <1>10

\* A response and a timeout settle one request of one PeerSocket.
LEMMA ResponseType ==
  ASSUME SocketInv, ProxyTypeOK, NEW w \in Ws, Response(w)
  PROVE  ProxyTypeOK'
<1> DEFINE r == Head(frames[w])
           s == IF boundId[w] = NoId THEN NoWs ELSE sockets[boundId[w]]
           sent == [frames EXCEPT ![w] = Tail(@)]
<1>1. /\ frames[w] # <<>>
      /\ IF s # NoWs /\ r \in pending[s]
         THEN Settle(s, {r}, "ok", wsState[s] = "open", sent)
         ELSE frames' = sent /\ UNCHANGED <<pending, queue, outcome>>
  BY DEF Response
<1>2. frames[w] \in Seq(Req) /\ frames \in [Ws -> Seq(Req)]  BY DEF ProxyTypeOK
<1>3. Tail(frames[w]) \in Seq(Req) /\ r \in Req  BY <1>1, <1>2
<1>4. sent \in [Ws -> Seq(Req)]  BY <1>2, <1>3
<1>5. s \in Ws \cup {NoWs}  BY DEF SocketInv
<1>6. {r} \in SUBSET Req /\ "ok" \in Settled  BY <1>3 DEF Settled
<1> HIDE DEF r, s, sent
<1>7. CASE s # NoWs /\ r \in pending[s]
  BY <1>1, <1>4, <1>5, <1>6, <1>7, SettleType
<1>8. CASE ~(s # NoWs /\ r \in pending[s])
  BY <1>1, <1>4, <1>8 DEF ProxyTypeOK
<1> QED  BY <1>7, <1>8

\* So does a timer.
LEMMA TimeoutType ==
  ASSUME ProxyTypeOK, NEW w \in Ws, Timeout(w)
  PROVE  ProxyTypeOK'
<1>1. PICK r \in pending[w] : Settle(w, {r}, "timeout", wsState[w] = "open", frames)
  BY DEF Timeout
<1>2. {r} \in SUBSET Req /\ frames \in [Ws -> Seq(Req)]  BY DEF ProxyTypeOK
<1>3. "timeout" \in Settled  BY DEF Settled
<1> QED  BY <1>1, <1>2, <1>3, SettleType

\* proxyRequest answers, starts or queues the request.
LEMMA ProxyRequestType ==
  ASSUME SocketInv, ProxyTypeOK, NEW r \in Req, NEW i \in Id, ProxyRequest(r, i)
  PROVE  ProxyTypeOK'
<1> DEFINE w == sockets[i]
<1>1. w \in Ws \cup {NoWs}  BY DEF SocketInv
<1>2. CASE ~ IsConnected(i)
  BY <1>2 DEF ProxyRequest, ProxyTypeOK, Settled
<1>3. ASSUME IsConnected(i)  PROVE ProxyTypeOK'
  <2>1. w \in Ws  BY <1>1, <1>3 DEF IsConnected
  <2>2. Append(frames[w], r) \in Seq(Req) /\ Append(queue[w], r) \in Seq(Req)
    BY <2>1 DEF ProxyTypeOK
  <2>3. CASE pending[w] = {} /\ queue[w] = <<>>
    <3>1. /\ outcome' = [outcome EXCEPT ![r] = "sent"]
          /\ pending' = [pending EXCEPT ![w] = {r}]
          /\ frames' = [frames EXCEPT ![w] = Append(@, r)]
          /\ queue' = queue
      BY <1>3, <2>3 DEF ProxyRequest
    <3> HIDE DEF w
    <3> QED  BY <2>1, <2>2, <3>1 DEF ProxyTypeOK
  <2>4. CASE ~(pending[w] = {} /\ queue[w] = <<>>)
    <3>1. /\ outcome' = [outcome EXCEPT ![r] = "queued"]
          /\ queue' = [queue EXCEPT ![w] = Append(@, r)]
          /\ frames' = frames /\ pending' = pending
      BY <1>3, <2>4 DEF ProxyRequest
    <3> HIDE DEF w
    <3> QED  BY <2>1, <2>2, <3>1 DEF ProxyTypeOK
  <2> QED  BY <2>3, <2>4
<1> QED  BY <1>2, <1>3

\* The "close" and "error" handlers, on a socket that is going away.
LEMMA DetachBoundEffect ==
  ASSUME StoreInv, SocketInv, ProxyTypeOK, OtherTypeOK, Backed(store), snap' = snap,
         NEW w \in Ws, NEW sent \in [Ws -> Seq(Req)],
         DetachBound(w, sent)
  PROVE  /\ StoreInv' /\ ProxyTypeOK' /\ Backed(store)' /\ persistDue' \in BOOLEAN
         /\ sockets' = [j \in Id |-> IF j = boundId[w] THEN NoWs ELSE sockets[j]]
<1> DEFINE i == boundId[w]
<1>1. CASE i = NoId
  <2>1. UNCHANGED <<store, sockets, persistDue, proxyVars>>  BY <1>1 DEF DetachBound
  <2>2. \A j \in Id : j # i  BY <1>1, IdAssumption
  <2>3. sockets' = [j \in Id |-> IF j = i THEN NoWs ELSE sockets[j]]
    BY <2>1, <2>2 DEF SocketInv
  <2>4. StoreInv' /\ ProxyTypeOK' /\ Backed(store)' /\ persistDue' \in BOOLEAN
    BY <2>1 DEF StoreInv, SnapFlags, ProxyTypeOK, proxyVars, Backed, OtherTypeOK
  <2> QED  BY <2>3, <2>4
<1>2. CASE i # NoId
  <2>1. i \in Id  BY <1>2 DEF SocketInv
  <2>2. Detach(i, sent) /\ store' = Detached(i)  BY <1>2 DEF DetachBound
  <2> HIDE DEF i
  <2>3. sockets' = [sockets EXCEPT ![i] = NoWs] /\ persistDue' \in BOOLEAN /\ ProxyTypeOK'
    BY <2>1, <2>2, DetachEffect
  <2>4. /\ store' \in Store /\ Sticky(store') /\ FlagsOf(store')
        /\ ~ store'.peer[i].tunnelConnected
        /\ \A j \in Id \ {i} : store'.peer[j] = store.peer[j]
    BY <2>1, <2>2, DetachedEffect
  <2>5. StoreInv'  BY <2>4 DEF StoreInv, SnapFlags
  <2>6. Backed(store)'  BY <2>3, <2>4 DEF Backed, SocketInv
  <2>7. sockets' = [j \in Id |-> IF j = i THEN NoWs ELSE sockets[j]]
    BY <2>1, <2>3 DEF SocketInv
  <2> QED  BY <2>3, <2>5, <2>6, <2>7 DEF i
<1> QED  BY <1>1, <1>2

\* DELETE /peers/:id: the detached record goes.
LEMMA DeletePeerStep ==
  ASSUME StoreInv, SocketInv, ProxyTypeOK, OtherTypeOK, Backed(store),
         NEW i \in Id, DeletePeer(i)
  PROVE  StoreInv' /\ SocketInv' /\ ProxyTypeOK' /\ OtherTypeOK' /\ Backed(store)'
<1> DEFINE d == IF IsConnected(i) THEN Detached(i) ELSE store
<1>1. /\ UNCHANGED connVars
      /\ IF IsConnected(i)
         THEN Detach(i, frames)
         ELSE UNCHANGED <<sockets, persistDue, proxyVars>>
      /\ IF i \in Known(d)
         THEN Persist(Remove(d, i))
         ELSE store' = d /\ UNCHANGED snap
      /\ UNCHANGED <<expects, target, sweepDue, restarts>>
  BY DEF DeletePeer
<1>2. /\ d \in Store /\ Sticky(d) /\ FlagsOf(d)
      /\ \A j \in Id : d.peer[j].tunnelConnected =>
                       store.peer[j].tunnelConnected /\ (IsConnected(i) => j # i)
  <2>1. CASE IsConnected(i)  BY <2>1, DetachedEffect
  <2>2. CASE ~ IsConnected(i)  BY <2>2 DEF StoreInv
  <2> QED  BY <2>1, <2>2
<1>3. /\ persistDue' \in BOOLEAN /\ ProxyTypeOK'
      /\ sockets' = [j \in Id |-> IF IsConnected(i) /\ j = i THEN NoWs ELSE sockets[j]]
  <2>1. CASE IsConnected(i)
    <3>1. frames \in [Ws -> Seq(Req)]  BY DEF ProxyTypeOK
    <3>2. /\ sockets' = [sockets EXCEPT ![i] = NoWs]
          /\ persistDue' \in BOOLEAN /\ ProxyTypeOK'
      BY <1>1, <2>1, <3>1, DetachEffect
    <3> QED  BY <2>1, <3>2 DEF SocketInv
  <2>2. CASE ~ IsConnected(i)
    BY <1>1, <2>2 DEF ProxyTypeOK, OtherTypeOK, SocketInv, proxyVars
  <2> QED  BY <2>1, <2>2
<1> HIDE DEF d
<1>4. /\ StoreInv'
      /\ \A j \in Id : store'.peer[j].tunnelConnected => d.peer[j].tunnelConnected
  <2>1. CASE i \in Known(d)
    <3> DEFINE e == Remove(d, i)
    <3>1. /\ e \in Store /\ Sticky(e) /\ Known(e) = Known(d) \ {i}
          /\ \A j \in Known(d) \ {i} : e.peer[j] = d.peer[j]
          /\ e.peer[i] = HttpPeer /\ ~ HttpPeer.tunnelConnected
      BY <1>2, RemoveProperties DEF HttpPeer
    <3>2. \A j \in Id \ Known(d) : e.peer[j] = HttpPeer
      <4>1. Known(d) \ {i} \in SUBSET Known(d)  OBVIOUS
      <4>2. /\ Kept(d, Known(d) \ {i}) \in Store
            /\ \A j \in Id \ (Known(d) \ {i}) : Kept(d, Known(d) \ {i}).peer[j] = HttpPeer
        BY <1>2, <4>1, KeptProperties
      <4>3. e.peer = Kept(d, Known(d) \ {i}).peer  BY <4>2 DEF Remove, Store
      <4> QED  BY <4>2, <4>3
    <3>3. Persist(e)  BY <1>1, <2>1
    <3> HIDE DEF e
    <3>4. /\ FlagsOf(e)
          /\ \A j \in Id : e.peer[j].tunnelConnected => d.peer[j].tunnelConnected
      BY <1>2, <3>1, <3>2 DEF FlagsOf
    <3> QED  BY <3>1, <3>3, <3>4, PersistEffect
  <2>2. CASE i \notin Known(d)  BY <1>1, <1>2, <2>2 DEF StoreInv, SnapFlags
  <2> QED  BY <2>1, <2>2
<1>5. SocketInv'
  BY <1>1, <1>3 DEF SocketInv, RoutedIsAlive, BoundIsLive, connVars
<1>6. Backed(store)'  BY <1>2, <1>3, <1>4 DEF Backed
<1>7. OtherTypeOK'  BY <1>1, <1>3 DEF OtherTypeOK
<1> QED  BY <1>3, <1>4, <1>5, <1>6, <1>7

\* The handlers that change only the registry's records, and persist them.
LEMMA PersistingStep ==
  ASSUME StoreInv, SocketInv, ProxyTypeOK, Backed(store),
         NEW s \in Store, Sticky(s), FlagsOf(s), Persist(s),
         \A i \in Id : s.peer[i].tunnelConnected => store.peer[i].tunnelConnected,
         UNCHANGED <<sockets, connVars, proxyVars>>
  PROVE  StoreInv' /\ SocketInv' /\ ProxyTypeOK' /\ Backed(store)'
<1>1. /\ StoreInv'
      /\ \A i \in Id : store'.peer[i].tunnelConnected => s.peer[i].tunnelConnected
  BY PersistEffect
<1> QED  BY <1>1 DEF SocketInv, RoutedIsAlive, BoundIsLive, ProxyTypeOK, Backed,
                     connVars, proxyVars

\* The handlers that change only the records, and leave the file alone.
LEMMA UnpersistedStep ==
  ASSUME StoreInv, SocketInv, ProxyTypeOK, Backed(store),
         store' \in Store, Sticky(store'), FlagsOf(store'),
         \A i \in Id : store'.peer[i].tunnelConnected => store.peer[i].tunnelConnected,
         UNCHANGED <<snap, sockets, connVars, proxyVars>>
  PROVE  StoreInv' /\ SocketInv' /\ ProxyTypeOK' /\ Backed(store)'
BY DEF StoreInv, SnapFlags, SocketInv, RoutedIsAlive, BoundIsLive, ProxyTypeOK, Backed,
       connVars, proxyVars

\* restoreStore: what the snapshot holds is a consistent registry without flags.
LEMMA RestoredEffect ==
  ASSUME StoreInv
  PROVE  /\ Restored \in Store /\ Sticky(Restored)
         /\ \A i \in Id : ~ Restored.peer[i].tunnelConnected
<1> DEFINE known == {i \in Id : snap.rank[i] > 0}
           peer == [i \in Id |-> IF snap.peer[i].transport = "tunnel"
                                 THEN [snap.peer[i] EXCEPT !.tunnelConnected = FALSE]
                                 ELSE snap.peer[i]]
           sel == IF snap.selectedId \in known THEN snap.selectedId ELSE First(snap, known)
<1>1. /\ snap.rank \in [Id -> Nat] /\ snap.peer \in [Id -> Peer]
      /\ snap.selectedId \in Id \cup {NoId} /\ SnapFlags
  BY DEF StoreInv, Snapshot
<1>2. known \in SUBSET Id  OBVIOUS
<1>3. \A i \in Id : peer[i] \in Peer /\ ~ peer[i].tunnelConnected
  BY <1>1 DEF Peer, SnapFlags
<1>4. sel \in known \cup {NoId} /\ (sel = NoId <=> known = {})
  <2>1. known # {} => First(snap, known) \in known  BY <1>1, <1>2, FirstIsMember
  <2>2. known = {} => First(snap, known) = NoId  BY DEF First
  <2>3. NoId \notin known  BY <1>2, IdAssumption
  <2> HIDE DEF known
  <2> QED  BY <2>1, <2>2, <2>3
<1>5. Restored = [rank |-> snap.rank, peer |-> peer, age |-> [i \in Id |-> 0],
                  selectedId |-> sel]
  BY DEF Restored
<1>6. peer \in [Id -> Peer]  BY <1>3
<1> HIDE DEF peer, sel
<1>7. Restored \in Store  BY <1>1, <1>2, <1>4, <1>5, <1>6 DEF Store
<1>8. Known(Restored) = known  BY <1>5 DEF Known
<1> QED  BY <1>3, <1>4, <1>5, <1>7, <1>8 DEF Sticky

-----------------------------------------------------------------------------
\* A tunnel event preserves the invariant.
LEMMA TunnelPreserves ==
  ASSUME RegistryInv, Tunnel
  PROVE  RegistryInv'
<1> DEFINE Parts == StoreInv /\ SocketInv /\ ProxyTypeOK /\ OtherTypeOK /\ Backed(store)
<1>1. StoreInv /\ SocketInv /\ ProxyTypeOK /\ OtherTypeOK /\ Backed(store)
  BY RegistryParts
<1>2. UNCHANGED <<sweepDue, snap, restarts>>  BY DEF Tunnel
<1> SUFFICES Parts'
  BY DEF RegistryInv, TypeOK, TunnelTypeOK, StickyIsKnown, ConnectedIsBacked, FlagsOf,
         StoreInv, SocketInv, ProxyTypeOK, OtherTypeOK, Backed, Known
<1>3. ASSUME NEW w \in Ws, NEW h \in Hello, Dial(w, h)  PROVE Parts'
  <2>1. /\ wsState[w] = "closed"
        /\ wsState' = [wsState EXCEPT ![w] = "dialed"]
        /\ hello' = [hello EXCEPT ![w] = h]
        /\ UNCHANGED <<store, expects, sockets, persistDue, boundId, proxyVars, target>>
    BY <1>3 DEF Dial
  <2>2. SocketInv'  BY <1>1, <2>1 DEF SocketInv, RoutedIsAlive, BoundIsLive
  <2> QED  BY <1>1, <1>2, <2>1, <2>2
           DEF StoreInv, SnapFlags, ProxyTypeOK, OtherTypeOK, Backed, proxyVars
<1>4. ASSUME NEW w \in Ws, RejectHello(w) \/ TdLeaves(w)  PROVE Parts'
  <2>1. /\ wsState[w] \in {"dialed", "open"}
        /\ wsState' = [wsState EXCEPT ![w] = "closing"]
        /\ UNCHANGED <<store, expects, sockets, persistDue, hello, boundId, proxyVars, target>>
    BY <1>4 DEF RejectHello, TdLeaves
  <2>2. SocketInv'  BY <1>1, <2>1 DEF SocketInv, RoutedIsAlive, BoundIsLive
  <2> QED  BY <1>1, <1>2, <2>1, <2>2
           DEF StoreInv, SnapFlags, ProxyTypeOK, OtherTypeOK, Backed, proxyVars
<1>5. ASSUME NEW w \in Ws, AcceptHello(w)  PROVE Parts'
  BY <1>1, <1>2, <1>5, AcceptHelloStep
<1>6. ASSUME NEW w \in Ws, Response(w) \/ Timeout(w)  PROVE Parts'
  <2>1. ProxyTypeOK'  BY <1>1, <1>6, ResponseType, TimeoutType
  <2>2. UNCHANGED <<store, expects, sockets, persistDue, connVars, target>>
    BY <1>6 DEF Response, Timeout
  <2> QED  BY <1>1, <1>2, <2>1, <2>2
           DEF StoreInv, SnapFlags, SocketInv, RoutedIsAlive, BoundIsLive, OtherTypeOK,
               Backed, connVars
<1>7. ASSUME NEW w \in Ws, SocketError(w)  PROVE Parts'
  <2>1. /\ wsState[w] \in {"dialed", "open"}
        /\ wsState' = [wsState EXCEPT ![w] = "closing"]
        /\ DetachBound(w, frames)
        /\ UNCHANGED <<expects, hello, boundId, target>>
    BY <1>7 DEF SocketError
  <2>2. frames \in [Ws -> Seq(Req)]  BY <1>1 DEF ProxyTypeOK
  <2>3. /\ StoreInv' /\ ProxyTypeOK' /\ Backed(store)' /\ persistDue' \in BOOLEAN
        /\ sockets' = [j \in Id |-> IF j = boundId[w] THEN NoWs ELSE sockets[j]]
    BY <1>1, <1>2, <2>1, <2>2, DetachBoundEffect
  <2>4. SocketInv'  BY <1>1, <2>1, <2>3 DEF SocketInv, RoutedIsAlive, BoundIsLive
  <2> QED  BY <1>1, <1>2, <2>1, <2>3, <2>4 DEF OtherTypeOK
<1>8. ASSUME NEW w \in Ws, CloseEvent(w)  PROVE Parts'
  <2> DEFINE sent == [frames EXCEPT ![w] = <<>>]
  <2>1. /\ wsState[w] = "closing"
        /\ wsState' = [wsState EXCEPT ![w] = "closed"]
        /\ hello' = [hello EXCEPT ![w] = NoHello]
        /\ boundId' = [boundId EXCEPT ![w] = NoId]
        /\ DetachBound(w, sent)
        /\ UNCHANGED <<expects, target>>
    BY <1>8 DEF CloseEvent
  <2>2. sent \in [Ws -> Seq(Req)]  BY <1>1 DEF ProxyTypeOK
  <2> HIDE DEF sent
  <2>3. /\ StoreInv' /\ ProxyTypeOK' /\ Backed(store)' /\ persistDue' \in BOOLEAN
        /\ sockets' = [j \in Id |-> IF j = boundId[w] THEN NoWs ELSE sockets[j]]
    BY <1>1, <1>2, <2>1, <2>2, DetachBoundEffect
  <2>4. SocketInv'
    <3>1. /\ sockets' \in [Id -> Ws \cup {NoWs}]
          /\ wsState' \in [Ws -> {"closed", "dialed", "open", "closing"}]
          /\ hello' \in [Ws -> Hello \cup {NoHello}]
          /\ boundId' \in [Ws -> Id \cup {NoId}]
      BY <1>1, <2>1, <2>3 DEF SocketInv
    <3>2. RoutedIsAlive'  BY <1>1, <2>1, <2>3 DEF SocketInv, RoutedIsAlive
    <3>3. BoundIsLive'  BY <1>1, <2>1 DEF SocketInv, BoundIsLive
    <3> QED  BY <3>1, <3>2, <3>3 DEF SocketInv
  <2> QED  BY <1>1, <1>2, <2>1, <2>3, <2>4 DEF OtherTypeOK
<1>9. ASSUME NEW i \in Id, NEW r \in Req, ProxyRequest(r, i)  PROVE Parts'
  <2>1. ProxyTypeOK'  BY <1>1, <1>9, ProxyRequestType
  <2>2. /\ target' = [target EXCEPT ![r] = i]
        /\ UNCHANGED <<store, expects, sockets, persistDue, connVars>>
    BY <1>9 DEF ProxyRequest
  <2> QED  BY <1>1, <1>2, <2>1, <2>2
           DEF StoreInv, SnapFlags, SocketInv, RoutedIsAlive, BoundIsLive, OtherTypeOK,
               Backed, connVars
<1>10. ASSUME NEW i \in Id, ExpectExpires(i)  PROVE Parts'
  <2>1. /\ expects' = [expects EXCEPT ![i] = NoNonce]
        /\ UNCHANGED <<store, sockets, persistDue, connVars, proxyVars, target>>
    BY <1>10 DEF ExpectExpires
  <2> QED  BY <1>1, <1>2, <2>1
           DEF StoreInv, SnapFlags, SocketInv, RoutedIsAlive, BoundIsLive, ProxyTypeOK,
               OtherTypeOK, Backed, connVars, proxyVars
<1> HIDE DEF Parts
<1> QED  BY <1>3, <1>4, <1>5, <1>6, <1>7, <1>8, <1>9, <1>10 DEF Tunnel, TunnelStep

\* An HTTP request, a timer or a crash of the hub preserves the invariant.
LEMMA ServerPreserves ==
  ASSUME RegistryInv, Http \/ Timers \/ Restart
  PROVE  RegistryInv'
<1> DEFINE Parts == StoreInv /\ SocketInv /\ ProxyTypeOK /\ OtherTypeOK /\ Backed(store)
           Rest == <<sockets, connVars, proxyVars>>
<1>1. StoreInv /\ SocketInv /\ ProxyTypeOK /\ OtherTypeOK /\ Backed(store)
  BY RegistryParts
<1>2. store \in Store /\ Sticky(store) /\ FlagsOf(store)  BY <1>1 DEF StoreInv
<1> SUFFICES Parts'
  BY DEF RegistryInv, TypeOK, TunnelTypeOK, StickyIsKnown, ConnectedIsBacked, FlagsOf,
         StoreInv, SocketInv, ProxyTypeOK, OtherTypeOK, Backed, Known
<1>3. \A s : s \in Store /\ Known(s) = Known(store) /\ s.peer = store.peer => FlagsOf(s)
  BY <1>2 DEF FlagsOf
<1>4. ASSUME NEW i \in Id, NEW p \in Peer, ~ p.tunnelConnected
      PROVE  LET s == Register(store, i, p)
             IN  /\ s \in Store /\ Sticky(s) /\ FlagsOf(s)
                 /\ \A j \in Id : s.peer[j].tunnelConnected => store.peer[j].tunnelConnected
  BY <1>2, <1>4, RegisterFlags
<1>5. ASSUME NEW i \in Id, NEW p \in RegisterBody, PostRegister(i, p)  PROVE Parts'
  <2>1. p \in Peer /\ ~ p.tunnelConnected
    <3>1. HttpPeer \in Peer /\ ~ HttpPeer.tunnelConnected  BY DEF HttpPeer, Peer
    <3>2. \A n \in Nonce \cup {NoNonce} :
            TunnelPeer(n, FALSE) \in Peer /\ ~ TunnelPeer(n, FALSE).tunnelConnected
      BY DEF TunnelPeer, Peer
    <3> QED  BY <3>1, <3>2 DEF RegisterBody
  <2>2. /\ Persist(Register(store, i, p)) /\ UNCHANGED Rest
        /\ UNCHANGED <<expects, persistDue, target, sweepDue, restarts>>
    BY <1>5 DEF PostRegister
  <2>3. StoreInv' /\ SocketInv' /\ ProxyTypeOK' /\ Backed(store)'
    BY <1>1, <1>4, <2>1, <2>2, PersistingStep
  <2> QED  BY <1>1, <2>2, <2>3 DEF OtherTypeOK
<1>6. ASSUME NEW i \in Id, NEW n \in Nonce, PostExpect(i, n)  PROVE Parts'
  <2>1. TunnelPeer(n, FALSE) \in Peer /\ ~ TunnelPeer(n, FALSE).tunnelConnected
    BY DEF TunnelPeer, Peer
  <2>2. /\ Persist(Register(store, i, TunnelPeer(n, FALSE))) /\ UNCHANGED Rest
        /\ expects' = [expects EXCEPT ![i] = n] /\ persistDue' = TRUE
        /\ UNCHANGED <<target, sweepDue, restarts>>
    BY <1>6 DEF PostExpect
  <2>3. StoreInv' /\ SocketInv' /\ ProxyTypeOK' /\ Backed(store)'
    BY <1>1, <1>4, <2>1, <2>2, PersistingStep
  <2> QED  BY <1>1, <2>2, <2>3 DEF OtherTypeOK
<1>7. ASSUME NEW i \in Id, PutSticky(i)  PROVE Parts'
  <2>1. /\ i \in Known(store) /\ Persist(Select(store, i)) /\ UNCHANGED Rest
        /\ UNCHANGED <<expects, persistDue, target, sweepDue, restarts>>
    BY <1>7 DEF PutSticky
  <2>2. /\ Select(store, i) \in Store /\ Sticky(Select(store, i))
        /\ Known(Select(store, i)) = Known(store) /\ Select(store, i).peer = store.peer
    BY <1>2, <2>1, SelectProperties
  <2>3. StoreInv' /\ SocketInv' /\ ProxyTypeOK' /\ Backed(store)'
    BY <1>1, <1>3, <2>1, <2>2, PersistingStep
  <2> QED  BY <1>1, <2>1, <2>3 DEF OtherTypeOK
<1>8. ASSUME NEW i \in Id, DeletePeer(i)  PROVE Parts'
  BY <1>1, <1>8, DeletePeerStep
<1>9. ASSUME NEW t, t = Older(store) \/ \E i \in Id : t = Heartbeat(store, {i}),
             store' = t, UNCHANGED Rest, UNCHANGED <<expects, persistDue, target, snap, restarts>>,
             sweepDue' \in BOOLEAN
      PROVE  Parts'
  <2>1. t \in Store /\ Sticky(t) /\ Known(t) = Known(store) /\ t.peer = store.peer
    BY <1>2, <1>9, TimeProperties
  <2>2. StoreInv' /\ SocketInv' /\ ProxyTypeOK' /\ Backed(store)'
    BY <1>1, <1>3, <1>9, <2>1, UnpersistedStep
  <2> QED  BY <1>1, <1>9, <2>2 DEF OtherTypeOK
<1>10. ASSUME NEW i \in Id, PostHeartbeat(i)  PROVE Parts'
  BY <1>1, <1>9, <1>10 DEF PostHeartbeat, OtherTypeOK
<1>11. CASE Tick
  BY <1>9, <1>11 DEF Tick
<1>12. CASE GetPeers
  <2>1. /\ store' = Sweep(store) /\ UNCHANGED <<snap, sockets, connVars, proxyVars>>
        /\ UNCHANGED <<expects, persistDue, target, sweepDue, restarts>>
    BY <1>12 DEF GetPeers
  <2>2. StoreInv' /\ SocketInv' /\ ProxyTypeOK' /\ Backed(store)'
    BY <1>1, <1>2, <2>1, SweepFlags, UnpersistedStep
  <2> QED  BY <1>1, <2>1, <2>2 DEF OtherTypeOK
<1>13. CASE SweepTimer
  <2> DEFINE listed == Sweep(store)
             alive  == {i \in Known(listed) : /\ listed.peer[i].transport = "tunnel"
                                              /\ IsConnected(i) \/ expects[i] # NoNonce}
             kept == Heartbeat(listed, alive)
  <2>1. /\ store' = Sweep(kept) /\ sweepDue' = FALSE
        /\ UNCHANGED <<snap, sockets, connVars, proxyVars>>
        /\ UNCHANGED <<expects, persistDue, target, restarts>>
    BY <1>13 DEF SweepTimer
  <2>2. /\ listed \in Store /\ Sticky(listed) /\ FlagsOf(listed)
        /\ \A i \in Id : listed.peer[i].tunnelConnected => store.peer[i].tunnelConnected
    BY <1>2, SweepFlags
  <2>3. kept \in Store /\ Sticky(kept) /\ Known(kept) = Known(listed) /\ kept.peer = listed.peer
    <3> HIDE DEF listed, alive
    <3> QED  BY <2>2, TimeProperties
  <2>4. FlagsOf(kept)  BY <2>2, <2>3 DEF FlagsOf
  <2> HIDE DEF listed, alive, kept
  <2>5. /\ store' \in Store /\ Sticky(store') /\ FlagsOf(store')
        /\ \A i \in Id : store'.peer[i].tunnelConnected => kept.peer[i].tunnelConnected
    BY <2>1, <2>3, <2>4, SweepFlags
  <2>6. StoreInv' /\ SocketInv' /\ ProxyTypeOK' /\ Backed(store)'
    BY <1>1, <2>1, <2>2, <2>3, <2>5, UnpersistedStep
  <2> QED  BY <1>1, <2>1, <2>6 DEF OtherTypeOK
<1>14. CASE PersistTimer
  <2>1. /\ Persist(store) /\ persistDue' = FALSE /\ UNCHANGED Rest
        /\ UNCHANGED <<expects, target, sweepDue, restarts>>
    BY <1>14 DEF PersistTimer
  <2>2. StoreInv' /\ SocketInv' /\ ProxyTypeOK' /\ Backed(store)'
    BY <1>1, <1>2, <2>1, PersistingStep
  <2> QED  BY <1>1, <2>1, <2>2 DEF OtherTypeOK
<1>15. CASE Restart
  <2>1. Restored \in Store /\ Sticky(Restored) /\ \A i \in Id : ~ Restored.peer[i].tunnelConnected
    BY <1>1, RestoredEffect
  <2>2. StoreInv' /\ Backed(store)'
    BY <1>1, <1>15, <2>1 DEF Restart, StoreInv, SnapFlags, FlagsOf, Backed
  <2>3. SocketInv'  BY <1>15 DEF Restart, SocketInv, RoutedIsAlive, BoundIsLive
  <2>4. ProxyTypeOK'  BY <1>1, <1>15 DEF Restart, ProxyTypeOK, Settled
  <2>5. OtherTypeOK'
    <3>1. restarts < MaxRestarts /\ restarts' = restarts + 1 /\ MaxRestarts \in Nat
      BY <1>15, ServerAssumption DEF Restart
    <3>2. restarts' \in 0..MaxRestarts  BY <1>1, <3>1 DEF OtherTypeOK
    <3> QED  BY <1>1, <1>15, <3>2 DEF Restart, OtherTypeOK
  <2> QED  BY <2>2, <2>3, <2>4, <2>5
<1> HIDE DEF Parts
<1> QED  BY <1>5, <1>6, <1>7, <1>8, <1>10, <1>11, <1>12, <1>13, <1>14, <1>15
         DEF Http, Timers

-----------------------------------------------------------------------------
\* The hub starts in the invariant.
LEMMA RegistryInit == Init => RegistryInv
<1> SUFFICES ASSUME Init  PROVE RegistryInv  OBVIOUS
<1>1. HttpPeer \in Peer /\ HttpPeer.transport = "http" /\ ~ HttpPeer.tunnelConnected
  BY DEF HttpPeer, Peer
<1>2. /\ EmptyStore \in Store
      /\ EmptyStore.peer = [i \in Id |-> HttpPeer] /\ EmptyStore.rank = [i \in Id |-> 0]
      /\ EmptyStore.selectedId = NoId
  BY <1>1 DEF EmptyStore, Store
<1>3. Sticky(EmptyStore) /\ FlagsOf(EmptyStore)
  BY <1>1, <1>2 DEF Sticky, Known, FlagsOf
<1>4. StoreInv /\ Backed(store)
  BY <1>1, <1>2, <1>3 DEF Init, TunnelInit, StoreInv, Snapshot, SnapFlags, Backed
<1>5. SocketInv  BY DEF Init, TunnelInit, SocketInv, RoutedIsAlive, BoundIsLive
<1>6. ProxyTypeOK  BY DEF Init, TunnelInit, ProxyTypeOK
<1>7. OtherTypeOK
  <2>1. restarts = 0 /\ MaxRestarts \in Nat  BY ServerAssumption DEF Init
  <2>2. restarts \in 0..MaxRestarts  BY <2>1
  <2> QED  BY <2>2 DEF Init, TunnelInit, OtherTypeOK
<1> QED  BY <1>4, <1>5, <1>6, <1>7, RegistryParts

\* Every handler, timer and restart keeps the registry's invariant.
LEMMA RegistryNext == RegistryInv /\ [Next]_hubVars => RegistryInv'
<1> SUFFICES ASSUME RegistryInv, [Next]_hubVars  PROVE RegistryInv'  OBVIOUS
<1>1. CASE Tunnel  BY <1>1, TunnelPreserves
<1>2. CASE Http \/ Timers \/ Restart  BY <1>2, ServerPreserves
<1>3. CASE UNCHANGED hubVars
  BY <1>3 DEF RegistryInv, TypeOK, TunnelTypeOK, StickyIsKnown, ConnectedIsBacked,
              RoutedIsAlive, FlagsOf, SnapFlags, BoundIsLive, hubVars, tunnelVars,
              connVars, proxyVars
<1> QED  BY <1>1, <1>2, <1>3 DEF Next

\* The registry, the snapshot and the sockets map stay consistent in every run
\* of the hub: what the events and handlers of server.ts and tunnelManager.ts keep.
THEOREM RegistryIsConsistent == Spec => []RegistryInv
BY RegistryInit, RegistryNext, PTL DEF Spec

\* Every variable keeps its type, whatever the handlers do.
THEOREM TypesAreCorrect == Spec => []TypeOK
<1>1. RegistryInv => TypeOK  BY DEF RegistryInv
<1> QED  BY <1>1, RegistryIsConsistent, PTL

\* The sticky selection is a registered peer through register, delete, expiry
\* and restore.
THEOREM StickySelectionIsKnown == Spec => []StickyIsKnown
<1>1. RegistryInv => StickyIsKnown  BY DEF RegistryInv
<1> QED  BY <1>1, RegistryIsConsistent, PTL

\* No handler leaves a tunnelConnected flag without a socket behind it.
THEOREM ConnectedFlagsAreBacked == Spec => []ConnectedIsBacked
<1>1. RegistryInv => ConnectedIsBacked  BY DEF RegistryInv
<1> QED  BY <1>1, RegistryIsConsistent, PTL

\* However sockets are replaced and closed, an id is never routed to a closed
\* socket or to the socket of another id.
THEOREM RoutesAreAlive == Spec => []RoutedIsAlive
<1>1. RegistryInv => RoutedIsAlive  BY DEF RegistryInv
<1> QED  BY <1>1, RegistryIsConsistent, PTL

-----------------------------------------------------------------------------
\* The requests of the PeerSockets, and what else they depend on.
ChainsInv == OneInFlight /\ NoRequestLost /\ OnePlace

\* The head of a chain and the rest of it.
LEMMA QueueHead ==
  ASSUME NEW q \in Seq(Req), q # <<>>
  PROVE  /\ Head(q) \in Req /\ Tail(q) \in Seq(Req)
         /\ 1 \in DOMAIN q /\ q[1] = Head(q)
         /\ \A k \in DOMAIN Tail(q) : k \in Nat /\ k + 1 \in DOMAIN q /\ k + 1 # 1 /\ Tail(q)[k] = q[k + 1]
         /\ \A k \in DOMAIN q : k # 1 => k - 1 \in DOMAIN Tail(q) /\ Tail(q)[k - 1] = q[k]
OBVIOUS

Answered == \A r \in Req : outcome[r] \in Settled => outcome'[r] = outcome[r]

\* No PeerSocket gets a request it did not have, and only the head of w's chain is sent.
ChainStep(w, open, sent) ==
    /\ ChainsInv' /\ Answered
    /\ \A v \in Ws, r \in Req : r \in pending'[v] \/ Waits(r, v)' => r \in pending[v] \/ Waits(r, v)
    /\ \A r \in Req : outcome[r] = "new" <=> outcome'[r] = "new"
    /\ \/ frames' = sent
       \/ \E h \in Req : /\ open /\ queue[w] # <<>> /\ Waits(h, w) /\ outcome[h] # "new"
                         /\ frames' = [sent EXCEPT ![w] = Append(@, h)]

\* All requests in flight on a PeerSocket settle, and the next one of its chain starts.
LEMMA SettleChains ==
  ASSUME ProxyTypeOK, ChainsInv, NEW w \in Ws, NEW how \in Settled, NEW open, NEW sent,
         Settle(w, pending[w], how, open, sent)
  PROVE  ChainStep(w, open, sent)
<1> DEFINE h == Head(queue[w])
<1>1. /\ queue \in [Ws -> Seq(Req)] /\ pending \in [Ws -> SUBSET Req]
      /\ outcome \in [Req -> {"new", "queued", "sent"} \cup Settled]
  BY DEF ProxyTypeOK
<1>2. \A r \in pending[w] : outcome[r] = "sent" /\ \A v \in Ws : r \in pending[v] => v = w
  BY <1>1 DEF ChainsInv, NoRequestLost, OnePlace
<1>3. how \notin {"new", "queued", "sent"}  BY DEF Settled
<1>4. CASE queue[w] = <<>>
  <2>1. /\ pending' = [pending EXCEPT ![w] = {}] /\ queue' = queue /\ frames' = sent
        /\ outcome' = [r \in Req |-> IF r \in pending[w] THEN how ELSE outcome[r]]
    BY <1>1, <1>4 DEF Settle
  <2>2. \A v \in Ws, r \in Req : /\ Waits(r, v)' <=> Waits(r, v)
                                 /\ r \in pending'[v] <=> r \in pending[v] /\ r \notin pending[w]
    BY <1>1, <1>2, <2>1 DEF Waits
  <2>3. OneInFlight' /\ OnePlace'  BY <1>1, <2>1 DEF ChainsInv, OneInFlight, OnePlace
  <2>4. NoRequestLost'
    <3>1. \A r \in Req : /\ outcome'[r] = "sent" <=> \E v \in Ws : r \in pending'[v]
                         /\ outcome'[r] = "queued" <=> \E v \in Ws : Waits(r, v)'
      BY <1>1, <1>2, <1>3, <2>1, <2>2 DEF ChainsInv, NoRequestLost
    <3>2. \A v \in Ws : queue'[v] # <<>> => pending'[v] # {}
      BY <1>1, <1>4, <2>1 DEF ChainsInv, NoRequestLost
    <3> QED  BY <3>1, <3>2 DEF NoRequestLost
  <2> QED  BY <1>2, <1>3, <2>1, <2>2, <2>3, <2>4 DEF ChainsInv, ChainStep, Answered, Settled
<1>5. CASE queue[w] # <<>>
  <2>1. /\ h \in Req /\ Tail(queue[w]) \in Seq(Req)
        /\ 1 \in DOMAIN queue[w] /\ queue[w][1] = h
        /\ \A k \in DOMAIN Tail(queue[w]) :
             k \in Nat /\ k + 1 \in DOMAIN queue[w] /\ k + 1 # 1 /\ Tail(queue[w])[k] = queue[w][k + 1]
        /\ \A k \in DOMAIN queue[w] : k # 1 =>
             k - 1 \in DOMAIN Tail(queue[w]) /\ Tail(queue[w])[k - 1] = queue[w][k]
    BY <1>1, <1>5, QueueHead
  <2>2. pending[w] # {}  BY <1>5 DEF ChainsInv, NoRequestLost
  <2>3. Waits(h, w)  BY <2>1 DEF Waits
  <2>4. outcome[h] = "queued"  BY <2>1, <2>3 DEF ChainsInv, NoRequestLost
  <2>5. \A v \in Ws : h \notin pending[v]  BY <2>1, <2>4 DEF ChainsInv, NoRequestLost
  <2>6. /\ pending' = [pending EXCEPT ![w] = {h}]
        /\ queue' = [queue EXCEPT ![w] = Tail(@)]
        /\ outcome' = [r \in Req |-> IF r \in pending[w] THEN how ELSE IF r = h THEN "sent" ELSE outcome[r]]
        /\ frames' = IF open THEN [sent EXCEPT ![w] = Append(@, h)] ELSE sent
    BY <1>1, <1>5, <2>2 DEF Settle
  <2>7. \A v \in Ws, r \in Req : Waits(r, v)' <=> Waits(r, v) /\ r # h
    <3> SUFFICES ASSUME NEW v \in Ws, NEW r \in Req  PROVE Waits(r, v)' <=> Waits(r, v) /\ r # h
      OBVIOUS
    <3>1. CASE v # w
      <4>1. queue'[v] = queue[v]  BY <1>1, <2>6, <3>1
      <4>2. ~ Waits(h, v)  BY <2>1, <3>1 DEF Waits, ChainsInv, OnePlace
      <4> QED  BY <4>1, <4>2 DEF Waits
    <3>2. CASE v = w
      <4>1. queue'[w] = Tail(queue[w])  BY <1>1, <2>6
      <4>2. ASSUME NEW k \in DOMAIN Tail(queue[w]), Tail(queue[w])[k] = r  PROVE Waits(r, w) /\ r # h
        <5>1. k + 1 \in DOMAIN queue[w] /\ k + 1 # 1 /\ queue[w][k + 1] = r  BY <2>1, <4>2
        <5>2. r # h  BY <2>1, <5>1 DEF ChainsInv, OnePlace
        <5> QED  BY <5>1, <5>2 DEF Waits
      <4>3. ASSUME Waits(r, w), r # h  PROVE Waits(r, w)'
        <5>1. PICK k \in DOMAIN queue[w] : queue[w][k] = r  BY <4>3 DEF Waits
        <5>2. k - 1 \in DOMAIN Tail(queue[w]) /\ Tail(queue[w])[k - 1] = r  BY <2>1, <4>3, <5>1
        <5> QED  BY <4>1, <5>2 DEF Waits
      <4> QED  BY <3>2, <4>1, <4>2, <4>3 DEF Waits
    <3> QED  BY <3>1, <3>2
  <2>8. \A v \in Ws, r \in Req : r \in pending'[v] <=> IF r = h THEN v = w ELSE r \in pending[v] /\ r \notin pending[w]
    BY <1>1, <1>2, <2>5, <2>6
  <2>9. OneInFlight'  BY <1>1, <2>6 DEF ChainsInv, OneInFlight
  <2>10. OnePlace'
    <3>1. ASSUME NEW v \in Ws, NEW u \in Ws, NEW r \in pending'[v] \cap pending'[u]  PROVE v = u
      BY <1>1, <2>1, <2>5, <2>6, <3>1 DEF ChainsInv, OnePlace
    <3>2. ASSUME NEW v \in Ws, NEW u \in Ws, NEW j \in DOMAIN queue'[v], NEW k \in DOMAIN queue'[u],
                 queue'[v][j] = queue'[u][k]
          PROVE  v = u /\ j = k
      <4> DEFINE Shift(x, n) == IF x = w THEN n + 1 ELSE n
      <4>1. ASSUME NEW x \in Ws, NEW n \in DOMAIN queue'[x]
            PROVE  n \in Nat /\ Shift(x, n) \in DOMAIN queue[x] /\ queue'[x][n] = queue[x][Shift(x, n)]
        BY <1>1, <2>1, <2>6
      <4>2. v = u /\ Shift(v, j) = Shift(u, k)
        <5> HIDE DEF Shift
        <5> QED  BY <3>2, <4>1 DEF ChainsInv, OnePlace
      <4>3. j \in Nat /\ k \in Nat  BY <4>1
      <4> QED  BY <4>2, <4>3
    <3> QED  BY <3>1, <3>2 DEF OnePlace
  <2>11. NoRequestLost'
    <3>1. \A r \in Req : outcome'[r] = "sent" <=> \E v \in Ws : r \in pending'[v]
      BY <1>1, <1>2, <1>3, <2>1, <2>4, <2>5, <2>6, <2>8 DEF ChainsInv, NoRequestLost
    <3>2. \A r \in Req : outcome'[r] = "queued" <=> \E v \in Ws : Waits(r, v)'
      BY <1>1, <1>2, <1>3, <2>4, <2>6, <2>7 DEF ChainsInv, NoRequestLost
    <3>3. \A v \in Ws : queue'[v] # <<>> => pending'[v] # {}
      BY <1>1, <2>6 DEF ChainsInv, NoRequestLost
    <3> QED  BY <3>1, <3>2, <3>3 DEF NoRequestLost
  <2>12. \A v \in Ws, r \in Req : r \in pending'[v] \/ Waits(r, v)' => r \in pending[v] \/ Waits(r, v)
    BY <2>3, <2>7, <2>8
  <2>13. \A r \in Req : /\ outcome[r] \in Settled => outcome'[r] = outcome[r]
                        /\ outcome[r] = "new" <=> outcome'[r] = "new"
    BY <1>2, <1>3, <2>4, <2>6 DEF Settled
  <2> HIDE DEF h
  <2> QED  BY <1>5, <2>1, <2>3, <2>4, <2>6, <2>9, <2>10, <2>11, <2>12, <2>13
           DEF ChainsInv, ChainStep, Answered
<1> QED  BY <1>4, <1>5

\* What a step may do to the sockets while they hold requests, sent being the frames
\* that are left: a socket keeps its id until it is closed, unless it holds nothing.
Moved(sent) ==
    /\ target' = target
    /\ sent \in [Ws -> Seq(Req)]
    /\ \A v \in Ws :
        /\ \/ pending[v] = {} /\ queue[v] = <<>>
           \/ wsState'[v] = "closed"
           \/ wsState'[v] # "dialed" /\ wsState[v] # "closed" /\ boundId'[v] = boundId[v]
        /\ wsState'[v] \in {"closed", "dialed"} => sent[v] = <<>>
        /\ \A k \in DOMAIN sent[v] :
            boundId'[v] = target[sent[v][k]] /\ outcome[sent[v][k]] # "new"

\* The requests of one PeerSocket settle, or none.
SettlesOne(sent) ==
    \/ frames' = sent /\ UNCHANGED <<pending, queue, outcome>>
    \/ \E u \in Ws, how \in Settled, open \in BOOLEAN :
        (open => wsState'[u] = "open") /\ Settle(u, pending[u], how, open, sent)

\* Such a step keeps the requests' invariant and every answer.
LEMMA MoveKeepsRequests ==
  ASSUME ProxyTypeOK, ProxyTypeOK', RequestInv, NEW sent, Moved(sent), SettlesOne(sent)
  PROVE  RequestInv' /\ Answered
<1>1. ChainsInv  BY DEF RequestInv, ChainsInv
<1>2. /\ ChainsInv' /\ Answered
      /\ \A v \in Ws, r \in Req : r \in pending'[v] \/ Waits(r, v)' => r \in pending[v] \/ Waits(r, v)
      /\ \A r \in Req : outcome[r] = "new" <=> outcome'[r] = "new"
      /\ \/ frames' = sent
         \/ \E u \in Ws, h \in Req :
              /\ wsState'[u] = "open" /\ queue[u] # <<>> /\ Waits(h, u) /\ outcome[h] # "new"
              /\ frames' = [sent EXCEPT ![u] = Append(@, h)]
  <2>1. CASE frames' = sent /\ UNCHANGED <<pending, queue, outcome>>
    BY <1>1, <2>1 DEF ChainsInv, OneInFlight, NoRequestLost, OnePlace, Waits, Answered
  <2>2. ASSUME NEW u \in Ws, NEW how \in Settled, NEW open \in BOOLEAN,
               open => wsState'[u] = "open", Settle(u, pending[u], how, open, sent)
        PROVE  /\ ChainsInv' /\ Answered
               /\ \A v \in Ws, r \in Req : r \in pending'[v] \/ Waits(r, v)' => r \in pending[v] \/ Waits(r, v)
               /\ \A r \in Req : outcome[r] = "new" <=> outcome'[r] = "new"
               /\ \/ frames' = sent
                  \/ \E x \in Ws, h \in Req :
                       /\ wsState'[x] = "open" /\ queue[x] # <<>> /\ Waits(h, x) /\ outcome[h] # "new"
                       /\ frames' = [sent EXCEPT ![x] = Append(@, h)]
    <3>1. ChainStep(u, open, sent)  BY <1>1, <2>2, SettleChains
    <3> QED  BY <2>2, <3>1 DEF ChainStep
  <2> QED  BY <2>1, <2>2 DEF SettlesOne
<1>3. /\ queue' \in [Ws -> Seq(Req)] /\ pending' \in [Ws -> SUBSET Req]
      /\ queue \in [Ws -> Seq(Req)] /\ pending \in [Ws -> SUBSET Req] /\ target' = target
  BY DEF ProxyTypeOK, Moved
<1>4. \A v \in Ws : queue'[v] # <<>> => \E r \in Req : Waits(r, v)'
  <2> SUFFICES ASSUME NEW v \in Ws, queue'[v] # <<>>  PROVE \E r \in Req : Waits(r, v)'
    OBVIOUS
  <2>1. 1 \in DOMAIN queue'[v] /\ queue'[v][1] \in Req  BY <1>3
  <2> QED  BY <2>1 DEF Waits
<1>5. ASSUME NEW v \in Ws
      PROVE  /\ wsState'[v] = "dialed" => pending'[v] = {} /\ queue'[v] = <<>>
             /\ wsState'[v] # "closed" =>
                  \A r \in Req : r \in pending'[v] \/ Waits(r, v)' => target'[r] = boundId'[v]
  <2>1. (pending[v] = {} /\ queue[v] = <<>>) => \A r \in Req : ~ (r \in pending[v] \/ Waits(r, v))
    BY DEF Waits
  <2>2. \A r \in Req : r \in pending'[v] \/ Waits(r, v)' => r \in pending[v] \/ Waits(r, v)
    BY <1>2
  <2>3. (\A r \in Req : ~ (r \in pending'[v] \/ Waits(r, v)')) => pending'[v] = {} /\ queue'[v] = <<>>
    BY <1>3, <1>4
  <2>4. \/ pending[v] = {} /\ queue[v] = <<>>
        \/ wsState'[v] = "closed"
        \/ wsState'[v] # "dialed" /\ wsState[v] # "closed" /\ boundId'[v] = boundId[v]
    BY DEF Moved
  <2>5. wsState[v] # "closed" =>
          \A r \in Req : r \in pending[v] \/ Waits(r, v) => target[r] = boundId[v]
    BY DEF RequestInv, Addressed
  <2> QED  BY <1>3, <2>1, <2>2, <2>3, <2>4, <2>5
<1>6. ASSUME NEW v \in Ws
      PROVE  /\ wsState'[v] \in {"closed", "dialed"} => frames'[v] = <<>>
             /\ \A k \in DOMAIN frames'[v] :
                  boundId'[v] = target'[frames'[v][k]] /\ outcome'[frames'[v][k]] # "new"
  <2>1. /\ sent[v] \in Seq(Req)
        /\ wsState'[v] \in {"closed", "dialed"} => sent[v] = <<>>
        /\ \A k \in DOMAIN sent[v] : boundId'[v] = target[sent[v][k]] /\ outcome[sent[v][k]] # "new"
    BY DEF Moved
  <2>2. \A k \in DOMAIN sent[v] : sent[v][k] \in Req /\ outcome'[sent[v][k]] # "new"
    BY <1>2, <2>1
  <2>3. CASE frames'[v] = sent[v]  BY <1>3, <2>1, <2>2, <2>3
  <2>4. ASSUME NEW h \in Req, wsState'[v] = "open", queue[v] # <<>>, Waits(h, v), outcome[h] # "new",
               frames'[v] = Append(sent[v], h)
        PROVE  /\ wsState'[v] \in {"closed", "dialed"} => frames'[v] = <<>>
               /\ \A k \in DOMAIN frames'[v] :
                    boundId'[v] = target'[frames'[v][k]] /\ outcome'[frames'[v][k]] # "new"
    <3>1. wsState[v] # "closed" /\ boundId'[v] = boundId[v]  BY <2>4 DEF Moved
    <3>2. target[h] = boundId'[v]  BY <2>4, <3>1 DEF RequestInv, Addressed
    <3>3. \A k \in DOMAIN frames'[v] : frames'[v][k] = h \/ (k \in DOMAIN sent[v] /\ frames'[v][k] = sent[v][k])
      BY <2>1, <2>4
    <3> QED  BY <1>2, <1>3, <2>1, <2>2, <2>4, <3>2, <3>3
  <2>5. sent \in [Ws -> Seq(Req)]  BY DEF Moved
  <2> QED  BY <1>2, <2>3, <2>4, <2>5
<1>7. \A r \in Req : outcome'[r] # "new" => target'[r] # NoId
  BY <1>2, <1>3 DEF RequestInv, Addressed
<1> QED  BY <1>2, <1>5, <1>6, <1>7 DEF RequestInv, ChainsInv, SentWhereAddressed, Addressed

\* detachPeer settles what its PeerSocket holds.
LEMMA DetachSettles ==
  ASSUME SocketInv, NEW i \in Id, NEW sent, Detach(i, sent)
  PROVE  SettlesOne(sent)
<1>1. CASE sockets[i] = NoWs  BY <1>1 DEF Detach, SettlesOne
<1>2. CASE sockets[i] # NoWs
  <2>1. sockets[i] \in Ws /\ "failed" \in Settled /\ (wsState'[sockets[i]] = "open") \in BOOLEAN
    BY <1>2 DEF SocketInv, Settled
  <2>2. Settle(sockets[i], pending[sockets[i]], "failed", wsState'[sockets[i]] = "open", sent)
    BY <1>2 DEF Detach, RejectAllPending
  <2> QED  BY <2>1, <2>2 DEF SettlesOne
<1> QED  BY <1>1, <1>2

\* So do the "close" and "error" handlers.
LEMMA DetachBoundSettles ==
  ASSUME SocketInv, NEW w \in Ws, NEW sent, boundId[w] = NoId => sent = frames, DetachBound(w, sent)
  PROVE  SettlesOne(sent)
<1>1. CASE boundId[w] = NoId  BY <1>1 DEF DetachBound, SettlesOne, proxyVars
<1>2. CASE boundId[w] # NoId
  <2>1. boundId[w] \in Id  BY <1>2 DEF SocketInv
  <2> QED  BY <1>2, <2>1, DetachSettles DEF DetachBound
<1> QED  BY <1>1, <1>2

\* A socket event or a timer: what it leaves in place, and what settles.
LEMMA SocketStep ==
  ASSUME SocketInv, ProxyTypeOK, RequestInv, NEW w \in Ws,
         \/ RejectHello(w) \/ AcceptHello(w) \/ TdLeaves(w) \/ SocketError(w)
         \/ CloseEvent(w) \/ \E h \in Hello : Dial(w, h)
  PROVE  \E sent : Moved(sent) /\ SettlesOne(sent)
<1>1. /\ sockets \in [Id -> Ws \cup {NoWs}] /\ boundId \in [Ws -> Id \cup {NoId}]
      /\ wsState \in [Ws -> {"closed", "dialed", "open", "closing"}]
      /\ frames \in [Ws -> Seq(Req)] /\ pending \in [Ws -> SUBSET Req]
  BY DEF SocketInv, ProxyTypeOK
<1>2. \A v \in Ws :
        /\ wsState[v] = "dialed" => pending[v] = {} /\ queue[v] = <<>>
        /\ wsState[v] \in {"closed", "dialed"} => frames[v] = <<>>
        /\ \A k \in DOMAIN frames[v] : boundId[v] = target[frames[v][k]] /\ outcome[frames[v][k]] # "new"
  BY DEF RequestInv, SentWhereAddressed, Addressed
<1>3. ASSUME NEW h \in Hello, Dial(w, h)  PROVE Moved(frames) /\ SettlesOne(frames)
  <2>1. Moved(frames)  BY <1>1, <1>2, <1>3 DEF Dial, Moved, proxyVars
  <2> QED  BY <1>3, <2>1 DEF Dial, SettlesOne, proxyVars
<1>4. CASE RejectHello(w) \/ TdLeaves(w)
  <2>1. Moved(frames)  BY <1>1, <1>2, <1>4 DEF RejectHello, TdLeaves, Moved
  <2>2. SettlesOne(frames)  BY <1>4 DEF RejectHello, TdLeaves, SettlesOne, proxyVars
  <2> QED  BY <2>1, <2>2
<1>5. CASE AcceptHello(w)
  <2> DEFINE i == hello[w].id
             old == sockets[i]
  <2>1. /\ wsState[w] = "dialed" /\ target' = target /\ boundId' = [boundId EXCEPT ![w] = i]
        /\ IF old = NoWs
           THEN wsState' = [wsState EXCEPT ![w] = "open"] /\ UNCHANGED proxyVars
           ELSE /\ wsState' = [wsState EXCEPT ![w] = "open", ![old] = "closing"]
                /\ Settle(old, pending[old], "failed", FALSE, frames)
    BY <1>5 DEF AcceptHello, RejectAllPending
  <2>2. i \in Id  BY <2>1 DEF SocketInv, BoundIsLive, Hello
  <2>3. old \in Ws \cup {NoWs} /\ (old # NoWs => wsState[old] \in {"open", "closing"})
    BY <2>2 DEF SocketInv, RoutedIsAlive
  <2> HIDE DEF i, old
  <2>4. \A v \in Ws : /\ wsState'[v] = IF v = w THEN "open" ELSE IF v = old THEN "closing" ELSE wsState[v]
                      /\ v # w => boundId'[v] = boundId[v]
    BY <1>1, <2>1, <2>3, WsAssumption
  <2>5. Moved(frames)
    <3> SUFFICES ASSUME NEW v \in Ws
                 PROVE  /\ \/ pending[v] = {} /\ queue[v] = <<>>
                           \/ wsState'[v] = "closed"
                           \/ wsState'[v] # "dialed" /\ wsState[v] # "closed" /\ boundId'[v] = boundId[v]
                        /\ wsState'[v] \in {"closed", "dialed"} => frames[v] = <<>>
                        /\ \A k \in DOMAIN frames[v] :
                             boundId'[v] = target[frames[v][k]] /\ outcome[frames[v][k]] # "new"
      BY <1>1, <2>1 DEF Moved
    <3>1. CASE v = w  BY <1>2, <2>1, <2>4, <3>1
    <3>2. CASE v # w  BY <1>1, <1>2, <2>3, <2>4, <3>2, WsAssumption
    <3> QED  BY <3>1, <3>2
  <2>6. SettlesOne(frames)
    <3>1. CASE old = NoWs  BY <2>1, <3>1 DEF SettlesOne, proxyVars
    <3>2. CASE old # NoWs  BY <2>1, <2>3, <3>2 DEF SettlesOne, Settled
    <3> QED  BY <3>1, <3>2
  <2> QED  BY <2>5, <2>6
<1>6. CASE SocketError(w)
  <2>1. /\ wsState[w] \in {"dialed", "open"} /\ wsState' = [wsState EXCEPT ![w] = "closing"]
        /\ DetachBound(w, frames) /\ UNCHANGED <<boundId, target>>
    BY <1>6 DEF SocketError
  <2>2. Moved(frames)  BY <1>1, <1>2, <2>1 DEF Moved
  <2> QED  BY <2>1, <2>2, DetachBoundSettles
<1>7. CASE CloseEvent(w)
  <2> DEFINE sent == [frames EXCEPT ![w] = <<>>]
  <2>1. /\ wsState[w] = "closing" /\ wsState' = [wsState EXCEPT ![w] = "closed"]
        /\ boundId' = [boundId EXCEPT ![w] = NoId]
        /\ DetachBound(w, sent) /\ target' = target
    BY <1>7 DEF CloseEvent
  <2>2. sent \in [Ws -> Seq(Req)]  BY <1>1
  <2>3. \A v \in Ws : sent[v] = IF v = w THEN <<>> ELSE frames[v]  BY <1>1
  <2>4. boundId[w] = NoId => sent = frames
    <3> SUFFICES ASSUME boundId[w] = NoId, frames[w] # <<>>  PROVE FALSE
      BY <1>1
    <3>1. 1 \in DOMAIN frames[w] /\ frames[w][1] \in Req  BY <1>1
    <3>2. target[frames[w][1]] # NoId  BY <1>2, <3>1 DEF RequestInv, Addressed
    <3> QED  BY <1>2, <3>1, <3>2
  <2> HIDE DEF sent
  <2>5. Moved(sent)
    <3> SUFFICES ASSUME NEW v \in Ws
                 PROVE  /\ \/ wsState'[v] = "closed"
                           \/ wsState'[v] = "dialed" /\ pending[v] = {} /\ queue[v] = <<>>
                           \/ wsState'[v] # "dialed" /\ wsState[v] # "closed" /\ boundId'[v] = boundId[v]
                        /\ wsState'[v] \in {"closed", "dialed"} => sent[v] = <<>>
                        /\ \A k \in DOMAIN sent[v] :
                             boundId'[v] = target[sent[v][k]] /\ outcome[sent[v][k]] # "new"
      BY <2>1, <2>2 DEF Moved
    <3>1. CASE v = w  BY <1>1, <2>1, <2>3, <3>1
    <3>2. CASE v # w
      <4>1. wsState'[v] = wsState[v] /\ boundId'[v] = boundId[v] /\ sent[v] = frames[v]
        BY <1>1, <2>1, <2>3, <3>2
      <4> QED  BY <1>2, <4>1
    <3> QED  BY <3>1, <3>2
  <2> QED  BY <2>1, <2>4, <2>5, DetachBoundSettles
<1> QED  BY <1>3, <1>4, <1>5, <1>6, <1>7

\* A response and a timeout settle the one request in flight.
LEMMA AnswerStep ==
  ASSUME SocketInv, ProxyTypeOK, RequestInv, NEW w \in Ws, Response(w) \/ Timeout(w)
  PROVE  \E sent : Moved(sent) /\ SettlesOne(sent)
<1>1. /\ sockets \in [Id -> Ws \cup {NoWs}] /\ boundId \in [Ws -> Id \cup {NoId}]
      /\ wsState \in [Ws -> {"closed", "dialed", "open", "closing"}]
      /\ frames \in [Ws -> Seq(Req)] /\ pending \in [Ws -> SUBSET Req]
  BY DEF SocketInv, ProxyTypeOK
<1>2. \A v \in Ws :
        /\ wsState[v] = "dialed" => pending[v] = {} /\ queue[v] = <<>>
        /\ wsState[v] \in {"closed", "dialed"} => frames[v] = <<>>
        /\ \A k \in DOMAIN frames[v] : boundId[v] = target[frames[v][k]] /\ outcome[frames[v][k]] # "new"
  BY DEF RequestInv, SentWhereAddressed, Addressed
<1>3. \A v \in Ws, r \in Req : r \in pending[v] => pending[v] = {r}
  BY <1>1 DEF RequestInv, OneInFlight
<1>4. wsState' = wsState /\ boundId' = boundId /\ target' = target
  BY DEF Response, Timeout, connVars
<1>5. CASE Timeout(w)
  <2>1. PICK r \in pending[w] : Settle(w, {r}, "timeout", wsState[w] = "open", frames)
    BY <1>5 DEF Timeout
  <2>2. Settle(w, pending[w], "timeout", wsState[w] = "open", frames)  BY <1>1, <1>3, <2>1
  <2>3. SettlesOne(frames)
    <3>1. "timeout" \in Settled /\ (wsState[w] = "open") \in BOOLEAN  BY DEF Settled
    <3> QED  BY <1>4, <2>2, <3>1 DEF SettlesOne
  <2>4. Moved(frames)  BY <1>1, <1>2, <1>4 DEF Moved
  <2> QED  BY <2>3, <2>4
<1>6. CASE Response(w)
  <2> DEFINE r == Head(frames[w])
             s == IF boundId[w] = NoId THEN NoWs ELSE sockets[boundId[w]]
             sent == [frames EXCEPT ![w] = Tail(@)]
  <2>1. /\ frames[w] # <<>> /\ wsState[w] \in {"open", "closing"}
        /\ IF s # NoWs /\ r \in pending[s]
           THEN Settle(s, {r}, "ok", wsState[s] = "open", sent)
           ELSE frames' = sent /\ UNCHANGED <<pending, queue, outcome>>
    BY <1>6 DEF Response
  <2>2. frames[w] \in Seq(Req) /\ r \in Req /\ s \in Ws \cup {NoWs}  BY <1>1, <2>1
  <2>3. /\ Tail(frames[w]) \in Seq(Req)
        /\ \A k \in DOMAIN Tail(frames[w]) : k + 1 \in DOMAIN frames[w] /\ Tail(frames[w])[k] = frames[w][k + 1]
    BY <2>1, <2>2, QueueHead
  <2>4. /\ sent \in [Ws -> Seq(Req)]
        /\ \A v \in Ws : sent[v] = IF v = w THEN Tail(frames[w]) ELSE frames[v]
    BY <1>1, <2>3
  <2> HIDE DEF r, s, sent
  <2>5. Moved(sent)
    <3> SUFFICES ASSUME NEW v \in Ws
                 PROVE  /\ \/ pending[v] = {} /\ queue[v] = <<>>
                           \/ wsState[v] = "closed"
                           \/ wsState[v] # "dialed" /\ wsState[v] # "closed"
                        /\ wsState[v] \in {"closed", "dialed"} => sent[v] = <<>>
                        /\ \A k \in DOMAIN sent[v] :
                             boundId[v] = target[sent[v][k]] /\ outcome[sent[v][k]] # "new"
      BY <1>4, <2>4 DEF Moved
    <3>1. CASE v = w
      <4>1. sent[w] = Tail(frames[w])  BY <2>4
      <4>2. \A k \in DOMAIN sent[w] :
              boundId[w] = target[sent[w][k]] /\ outcome[sent[w][k]] # "new"
        <5> SUFFICES ASSUME NEW k \in DOMAIN sent[w]
                     PROVE  boundId[w] = target[sent[w][k]] /\ outcome[sent[w][k]] # "new"
          OBVIOUS
        <5>1. k + 1 \in DOMAIN frames[w] /\ sent[w][k] = frames[w][k + 1]  BY <2>3, <4>1
        <5> QED  BY <1>2, <5>1
      <4> QED  BY <2>1, <3>1, <4>2
    <3>2. CASE v # w  BY <1>1, <1>2, <2>4, <3>2
    <3> QED  BY <3>1, <3>2
  <2>6. SettlesOne(sent)
    <3>1. CASE s # NoWs /\ r \in pending[s]
      <4>1. s \in Ws /\ pending[s] = {r}  BY <1>3, <2>2, <3>1
      <4>2. Settle(s, pending[s], "ok", wsState[s] = "open", sent)  BY <2>1, <3>1, <4>1
      <4>3. "ok" \in Settled /\ (wsState[s] = "open") \in BOOLEAN  BY DEF Settled
      <4> QED  BY <1>4, <4>1, <4>2, <4>3 DEF SettlesOne
    <3>2. CASE ~(s # NoWs /\ r \in pending[s])  BY <2>1, <3>2 DEF SettlesOne
    <3> QED  BY <3>1, <3>2
  <2> QED  BY <2>5, <2>6
<1> QED  BY <1>5, <1>6

\* proxyRequest puts a request nobody has seen into one place.
LEMMA ProxyRequestStep ==
  ASSUME SocketInv, ProxyTypeOK, OtherTypeOK, RequestInv, NEW r \in Req, NEW i \in Id,
         ProxyRequest(r, i)
  PROVE  RequestInv' /\ Answered
<1> DEFINE w == sockets[i]
<1>1. /\ sockets \in [Id -> Ws \cup {NoWs}] /\ boundId \in [Ws -> Id \cup {NoId}]
      /\ frames \in [Ws -> Seq(Req)] /\ pending \in [Ws -> SUBSET Req] /\ queue \in [Ws -> Seq(Req)]
      /\ outcome \in [Req -> {"new", "queued", "sent"} \cup Settled] /\ target \in [Req -> Id \cup {NoId}]
  BY DEF SocketInv, ProxyTypeOK, OtherTypeOK
<1>2. /\ outcome[r] = "new" /\ target' = [target EXCEPT ![r] = i]
      /\ wsState' = wsState /\ boundId' = boundId
  BY DEF ProxyRequest, connVars
<1>3. \A v \in Ws : r \notin pending[v] /\ ~ Waits(r, v) /\ \A k \in DOMAIN frames[v] : frames[v][k] # r
  BY <1>2 DEF RequestInv, NoRequestLost, Addressed
<1>4. \A v \in Ws : /\ \A k \in DOMAIN frames[v] : frames[v][k] \in Req
                    /\ \A k \in DOMAIN queue[v] : queue[v][k] \in Req
  BY <1>1
<1>5. \A q \in Req : target'[q] = IF q = r THEN i ELSE target[q]  BY <1>1, <1>2
<1>6. i # NoId  BY IdAssumption
<1>7. CASE ~ IsConnected(i)
  <2>1. outcome' = [outcome EXCEPT ![r] = "offline"] /\ UNCHANGED <<frames, pending, queue>>
    BY <1>7 DEF ProxyRequest
  <2>2. \A q \in Req : outcome'[q] = IF q = r THEN "offline" ELSE outcome[q]  BY <1>1, <2>1
  <2>3. \A q \in Req, v \in Ws : Waits(q, v)' <=> Waits(q, v)  BY <2>1 DEF Waits
  <2>4. OneInFlight' /\ OnePlace'  BY <2>1 DEF RequestInv, OneInFlight, OnePlace
  <2>5. NoRequestLost'  BY <1>2, <1>3, <2>1, <2>2, <2>3 DEF RequestInv, NoRequestLost
  <2>6. SentWhereAddressed'  BY <1>2, <1>3, <1>4, <1>5, <2>1 DEF RequestInv, SentWhereAddressed
  <2>7. Addressed'  BY <1>2, <1>3, <1>4, <1>5, <1>6, <2>1, <2>2, <2>3 DEF RequestInv, Addressed
  <2> QED  BY <1>2, <2>2, <2>4, <2>5, <2>6, <2>7 DEF RequestInv, Answered, Settled
<1>8. ASSUME IsConnected(i)  PROVE RequestInv' /\ Answered
  <2>1. w \in Ws /\ wsState[w] = "open" /\ boundId[w] = i
    BY <1>1, <1>8 DEF IsConnected, SocketInv, RoutedIsAlive
  <2> HIDE DEF w
  <2>2. CASE pending[w] = {} /\ queue[w] = <<>>
    <3>1. /\ outcome' = [outcome EXCEPT ![r] = "sent"] /\ queue' = queue
          /\ pending' = [pending EXCEPT ![w] = {r}] /\ frames' = [frames EXCEPT ![w] = Append(@, r)]
      BY <1>8, <2>2 DEF ProxyRequest, w
    <3>2. \A q \in Req : outcome'[q] = IF q = r THEN "sent" ELSE outcome[q]  BY <1>1, <3>1
    <3>3. \A q \in Req, v \in Ws : /\ Waits(q, v)' <=> Waits(q, v)
                                   /\ q \in pending'[v] <=> IF q = r THEN v = w ELSE q \in pending[v]
      BY <1>1, <1>3, <2>1, <2>2, <3>1 DEF Waits
    <3>4. OneInFlight' /\ OnePlace'
      BY <1>1, <1>3, <2>1, <3>1 DEF RequestInv, OneInFlight, OnePlace
    <3>5. NoRequestLost'
      <4>1. \A q \in Req : /\ outcome'[q] = "sent" <=> \E v \in Ws : q \in pending'[v]
                           /\ outcome'[q] = "queued" <=> \E v \in Ws : Waits(q, v)'
        BY <1>3, <2>1, <3>2, <3>3 DEF RequestInv, NoRequestLost
      <4>2. \A v \in Ws : queue'[v] # <<>> => pending'[v] # {}
        BY <1>1, <2>1, <3>1 DEF RequestInv, NoRequestLost
      <4> QED  BY <4>1, <4>2 DEF NoRequestLost
    <3>6. \A v \in Ws : \A k \in DOMAIN frames'[v] :
            \/ v = w /\ frames'[v][k] = r
            \/ k \in DOMAIN frames[v] /\ frames'[v][k] = frames[v][k]
      BY <1>1, <2>1, <3>1
    <3>7. SentWhereAddressed'
      BY <1>2, <1>3, <1>4, <1>5, <2>1, <3>6 DEF RequestInv, SentWhereAddressed
    <3>8. Addressed'
      <4>1. \A v \in Ws : v # w => frames'[v] = frames[v] /\ pending'[v] = pending[v]
        BY <1>1, <3>1
      <4> QED  BY <1>2, <1>3, <1>4, <1>5, <1>6, <2>1, <3>1, <3>2, <3>3, <3>6, <4>1 DEF RequestInv, Addressed
    <3> QED  BY <1>2, <3>2, <3>4, <3>5, <3>7, <3>8 DEF RequestInv, Answered, Settled
  <2>3. CASE ~(pending[w] = {} /\ queue[w] = <<>>)
    <3>1. /\ outcome' = [outcome EXCEPT ![r] = "queued"] /\ queue' = [queue EXCEPT ![w] = Append(@, r)]
          /\ UNCHANGED <<frames, pending>>
      BY <1>8, <2>3 DEF ProxyRequest, w
    <3>2. \A q \in Req : outcome'[q] = IF q = r THEN "queued" ELSE outcome[q]  BY <1>1, <3>1
    <3>3. \A v \in Ws : \A k \in DOMAIN queue'[v] :
            \/ v = w /\ k = Len(queue[w]) + 1 /\ queue'[v][k] = r
            \/ k \in DOMAIN queue[v] /\ queue'[v][k] = queue[v][k]
      BY <1>1, <2>1, <3>1
    <3>4. \A v \in Ws : /\ \A k \in DOMAIN queue[v] : k \in DOMAIN queue'[v] /\ queue'[v][k] = queue[v][k]
                        /\ v # w => queue'[v] = queue[v]
      BY <1>1, <2>1, <3>1
    <3>5. \A q \in Req, v \in Ws : Waits(q, v)' <=> IF q = r THEN v = w ELSE Waits(q, v)
      <4>1. Len(queue[w]) + 1 \in DOMAIN queue'[w] /\ queue'[w][Len(queue[w]) + 1] = r
        BY <1>1, <2>1, <3>1
      <4> QED  BY <1>3, <3>3, <3>4, <4>1 DEF Waits
    <3>6. OneInFlight'  BY <3>1 DEF RequestInv, OneInFlight
    <3>7. OnePlace'  BY <1>3, <3>1, <3>3 DEF RequestInv, OnePlace, Waits
    <3>8. NoRequestLost'
      <4>1. pending[w] # {}  BY <2>1, <2>3 DEF RequestInv, NoRequestLost
      <4> QED  BY <1>3, <2>1, <3>1, <3>2, <3>4, <3>5, <4>1 DEF RequestInv, NoRequestLost
    <3>9. SentWhereAddressed'  BY <1>2, <1>3, <1>4, <1>5, <3>1 DEF RequestInv, SentWhereAddressed
    <3>10. Addressed'
      BY <1>2, <1>3, <1>4, <1>5, <1>6, <2>1, <3>1, <3>2, <3>4, <3>5 DEF RequestInv, Addressed
    <3> QED  BY <1>2, <3>2, <3>6, <3>7, <3>8, <3>9, <3>10 DEF RequestInv, Answered, Settled
  <2> QED  BY <2>2, <2>3
<1> QED  BY <1>7, <1>8

\* The steps that touch no socket and no request.
LEMMA RequestsStay ==
  ASSUME RequestInv, UNCHANGED <<connVars, proxyVars, target>>
  PROVE  RequestInv' /\ Answered
BY DEF RequestInv, OneInFlight, NoRequestLost, OnePlace, Waits, SentWhereAddressed, Addressed,
       Answered, connVars, proxyVars

\* A crash forgets the requests; the callers of those not answered see a reset.
LEMMA RestartKeepsRequests ==
  ASSUME ProxyTypeOK, RequestInv, Restart
  PROVE  RequestInv' /\ Answered
<1>1. outcome \in [Req -> {"new", "queued", "sent"} \cup Settled]  BY DEF ProxyTypeOK
<1>2. /\ wsState' = [v \in Ws |-> "closed"] /\ frames' = [v \in Ws |-> <<>>]
      /\ pending' = [v \in Ws |-> {}] /\ queue' = [v \in Ws |-> <<>>] /\ target' = target
      /\ outcome' = [r \in Req |-> IF outcome[r] \in {"queued", "sent"} THEN "lost" ELSE outcome[r]]
  BY DEF Restart
<1>3. \A r \in Req : /\ outcome'[r] \notin {"queued", "sent"}
                     /\ outcome[r] = "new" <=> outcome'[r] = "new"
                     /\ outcome[r] \in Settled => outcome'[r] = outcome[r]
  BY <1>1, <1>2 DEF Settled
<1>4. OneInFlight' /\ OnePlace'  BY <1>2 DEF OneInFlight, OnePlace
<1>5. NoRequestLost'  BY <1>2, <1>3 DEF NoRequestLost, Waits
<1>6. SentWhereAddressed' /\ Addressed'
  BY <1>2, <1>3 DEF RequestInv, SentWhereAddressed, Addressed
<1> QED  BY <1>3, <1>4, <1>5, <1>6 DEF RequestInv, Answered

\* No request, nothing lost.
LEMMA RequestInit == Init => RequestInv
BY DEF Init, TunnelInit, RequestInv, OneInFlight, NoRequestLost, OnePlace, Waits,
       SentWhereAddressed, Addressed

\* Every step of the hub, by its handler.
LEMMA RequestNext ==
  ASSUME RegistryInv, RegistryInv', RequestInv, [Next]_hubVars
  PROVE  RequestInv' /\ Answered
<1>1. SocketInv /\ ProxyTypeOK /\ OtherTypeOK  BY RegistryParts
<1>2. ProxyTypeOK'  BY DEF RegistryInv, TypeOK, TunnelTypeOK, ProxyTypeOK
<1>3. ASSUME NEW sent, Moved(sent), SettlesOne(sent)  PROVE RequestInv' /\ Answered
  BY <1>1, <1>2, <1>3, MoveKeepsRequests
<1>4. ASSUME NEW w \in Ws,
             \/ RejectHello(w) \/ AcceptHello(w) \/ TdLeaves(w) \/ SocketError(w)
             \/ CloseEvent(w) \/ \E h \in Hello : Dial(w, h)
      PROVE  RequestInv' /\ Answered
  BY <1>1, <1>3, <1>4, SocketStep
<1>5. ASSUME NEW w \in Ws, Response(w) \/ Timeout(w)  PROVE RequestInv' /\ Answered
  BY <1>1, <1>3, <1>5, AnswerStep
<1>6. ASSUME NEW i \in Id, NEW r \in Req, ProxyRequest(r, i)  PROVE RequestInv' /\ Answered
  BY <1>1, <1>6, ProxyRequestStep
<1>7. ASSUME NEW i \in Id, ExpectExpires(i)  PROVE RequestInv' /\ Answered
  BY <1>7, RequestsStay DEF ExpectExpires
<1>8. CASE Tunnel  BY <1>4, <1>5, <1>6, <1>7, <1>8 DEF Tunnel, TunnelStep
<1>9. ASSUME NEW i \in Id, DeletePeer(i)  PROVE RequestInv' /\ Answered
  <2>1. UNCHANGED <<connVars, target>>  BY <1>9 DEF DeletePeer
  <2>2. CASE IsConnected(i)
    <3>1. SettlesOne(frames)  BY <1>1, <1>9, <2>2, DetachSettles DEF DeletePeer
    <3>2. Moved(frames)
      <4>1. /\ wsState \in [Ws -> {"closed", "dialed", "open", "closing"}] /\ frames \in [Ws -> Seq(Req)]
        BY <1>1 DEF SocketInv, ProxyTypeOK
      <4> QED  BY <2>1, <4>1 DEF Moved, RequestInv, SentWhereAddressed, Addressed, connVars
    <3> QED  BY <1>3, <3>1, <3>2
  <2>3. CASE ~ IsConnected(i)
    <3>1. UNCHANGED proxyVars  BY <1>9, <2>3 DEF DeletePeer
    <3> QED  BY <2>1, <3>1, RequestsStay
  <2> QED  BY <2>2, <2>3
<1>10. CASE Http
  <2>1. CASE \/ GetPeers
             \/ \E i \in Id : \/ PostHeartbeat(i) \/ PutSticky(i)
                              \/ \E n \in Nonce : PostExpect(i, n)
                              \/ \E p \in RegisterBody : PostRegister(i, p)
    <3>1. UNCHANGED <<connVars, proxyVars, target>>
      BY <2>1 DEF GetPeers, PostHeartbeat, PutSticky, PostExpect, PostRegister
    <3> QED  BY <3>1, RequestsStay
  <2> QED  BY <1>9, <1>10, <2>1 DEF Http
<1>11. CASE Timers
  <2>1. UNCHANGED <<connVars, proxyVars, target>>
    BY <1>11 DEF Timers, Tick, SweepTimer, PersistTimer
  <2> QED  BY <2>1, RequestsStay
<1>12. CASE Restart  BY <1>1, <1>12, RestartKeepsRequests
<1>13. CASE UNCHANGED hubVars
  BY <1>13, RequestsStay DEF hubVars, tunnelVars
<1> QED  BY <1>8, <1>10, <1>11, <1>12, <1>13 DEF Next

\* Requests never overlap on a socket, are never lost, and never reach a TD they
\* were not made for, in every run of the hub (proxyRequest, detachPeer).
THEOREM RequestsAreKept == Spec => []RequestInv
BY RegistryInit, RegistryNext, RequestInit, RequestNext, PTL DEF Spec

\* Whatever settles a request first, nothing settles it again.
THEOREM RequestsSettleOnce == Spec => SettledForGood
<1>1. RegistryInv /\ RegistryInv' /\ RequestInv /\ [Next]_hubVars
        => [\A r \in Req : outcome[r] \in Settled => outcome'[r] = outcome[r]]_hubVars
  BY RequestNext DEF Answered
<1> QED  BY <1>1, RegistryIsConsistent, RequestsAreKept, PTL DEF Spec, SettledForGood

-----------------------------------------------------------------------------
\* What the operations of the registry do to ages and to the selection.
LEMMA KeptAges ==
  ASSUME NEW s \in Store, NEW S \in SUBSET Known(s), NEW sel
  PROVE  /\ \A i \in S : [Kept(s, S) EXCEPT !.selectedId = sel].age[i] = s.age[i]
         /\ [Kept(s, S) EXCEPT !.selectedId = sel].selectedId = sel
<1> DEFINE k == Kept(s, S)
<1>1. k \in Store  BY KeptProperties
<1>2. \A i \in S : k.age[i] = s.age[i]  BY DEF Kept, Known
<1> HIDE DEF k
<1>3. [k EXCEPT !.selectedId = sel].age = k.age /\ [k EXCEPT !.selectedId = sel].selectedId = sel
  BY <1>1 DEF Store
<1> QED  BY <1>2, <1>3 DEF k

\* sweep leaves the ages of what stays, and replaces only an expired selection.
LEMMA SweepAges ==
  ASSUME NEW s \in Store
  PROVE  /\ \A i \in Fresh(s) : Sweep(s).age[i] = s.age[i]
         /\ Sweep(s).selectedId = s.selectedId \/ s.selectedId \notin Fresh(s) \cup {NoId}
<1> DEFINE k == Kept(s, Fresh(s))
           sel == IF k.selectedId \in Fresh(s) \cup {NoId} THEN k.selectedId ELSE First(s, Fresh(s))
           t == [k EXCEPT !.selectedId = sel]
<1>1. Fresh(s) \in SUBSET Known(s)  BY DEF Fresh
<1>2. Sweep(s) = t  BY DEF Sweep
<1>3. k.selectedId = s.selectedId  BY DEF Kept
<1>4. sel = s.selectedId \/ s.selectedId \notin Fresh(s) \cup {NoId}  BY <1>3
<1> HIDE DEF sel
<1>5. (\A i \in Fresh(s) : t.age[i] = s.age[i]) /\ t.selectedId = sel  BY <1>1, KeptAges
<1> HIDE DEF t
<1> QED  BY <1>2, <1>4, <1>5

\* remove leaves the ages of the other peers.
LEMMA RemoveAges ==
  ASSUME NEW s \in Store, NEW i \in Id
  PROVE  \A j \in Known(s) \ {i} : Remove(s, i).age[j] = s.age[j]
<1> DEFINE rest == Known(s) \ {i}
           k == Kept(s, rest)
           sel == IF k.selectedId = i /\ i \in Known(s) THEN First(s, rest) ELSE k.selectedId
           t == [k EXCEPT !.selectedId = sel]
<1>1. Remove(s, i) = t  BY DEF Remove
<1>2. rest \in SUBSET Known(s)  OBVIOUS
<1> HIDE DEF sel
<1>3. \A j \in rest : t.age[j] = s.age[j]
  <2> HIDE DEF rest
  <2> QED  BY <1>2, KeptAges
<1> HIDE DEF t
<1> QED  BY <1>1, <1>3

\* register renews the peer, and selects it if nothing is selected.
LEMMA RegisterAges ==
  ASSUME NEW s \in Store, NEW i \in Id, NEW p
  PROVE  /\ Register(s, i, p).age = [s.age EXCEPT ![i] = 0]
         /\ Register(s, i, p).selectedId = IF s.selectedId = NoId THEN i ELSE s.selectedId
BY DEF Register, Store

\* heartbeat renews the peers it is sent for and selects none.
LEMMA HeartbeatAges ==
  ASSUME NEW s \in Store, NEW S
  PROVE  /\ Heartbeat(s, S).age = [i \in Id |-> IF i \in S THEN 0 ELSE s.age[i]]
         /\ Heartbeat(s, S).selectedId = s.selectedId
BY DEF Heartbeat, Store

\* A sweep period makes a peer older by one at most.
LEMMA OlderAges ==
  ASSUME NEW s \in Store
  PROVE  /\ \A i \in Id : Older(s).age[i] = s.age[i] \/ Older(s).age[i] = s.age[i] + 1
         /\ Older(s).selectedId = s.selectedId
BY DEF Older, Store

-----------------------------------------------------------------------------
\* The snapshot names a selection whenever it lists a peer.
SnapNames == snap.selectedId = NoId => \A i \in Id : snap.rank[i] = 0

DiskInv == DiskFollows /\ SnapNames

\* The registry lost peers at most, and its selection with them.
Shrinks(s, t) ==
    /\ Known(t) \subseteq Known(s)
    /\ t.selectedId = s.selectedId \/ s.selectedId \in Id \ Known(t)

\* An expiry takes peers, and the selection with its peer.
LEMMA SweepShrinks ==
  ASSUME NEW s \in Store, Sticky(s)
  PROVE  Shrinks(s, Sweep(s)) /\ Sweep(s) \in Store /\ Sticky(Sweep(s))
<1>1. Known(Sweep(s)) = Fresh(s) /\ Fresh(s) \subseteq Known(s) /\ Sweep(s) \in Store /\ Sticky(Sweep(s))
  BY SweepProperties DEF Fresh
<1>2. s.selectedId \in Id \cup {NoId}  BY DEF Store
<1> QED  BY <1>1, <1>2, SweepAges DEF Shrinks

\* persistStore writes the selection it was called with.
LEMMA PersistKeepsDisk ==
  ASSUME StoreInv, SnapNames, NEW s \in Store, Sticky(s), Persist(s), restarts' = restarts
  PROVE  DiskInv'
<1>1. store' = Sweep(s) /\ Shrinks(s, Sweep(s))  BY SweepShrinks DEF Persist
<1>2. CASE restarts < MaxRestarts
  <2>1. snap'.selectedId = s.selectedId /\ snap'.rank = Sweep(s).rank  BY <1>2 DEF Persist
  <2>2. s.selectedId = NoId => Known(Sweep(s)) = {}  BY <1>1 DEF Sticky, Shrinks
  <2>3. Sweep(s).rank \in [Id -> Nat]  BY SweepShrinks DEF Store
  <2> QED  BY <1>1, <2>1, <2>2, <2>3 DEF DiskInv, DiskFollows, SnapNames, Shrinks, Known
<1>3. CASE ~(restarts < MaxRestarts)  BY <1>3 DEF Persist, DiskInv, DiskFollows, SnapNames
<1> QED  BY <1>2, <1>3

\* A handler that does not persist arms the timer, or only shrinks the registry.
LEMMA UnpersistedKeepsDisk ==
  ASSUME DiskInv, snap' = snap, restarts' = restarts,
         persistDue' = TRUE \/ (persistDue' = persistDue /\ Shrinks(store, store'))
  PROVE  DiskInv'
BY DEF DiskInv, DiskFollows, SnapNames, Shrinks

\* detachPeer arms the timer when it touches a record.
LEMMA DetachKeepsDisk ==
  ASSUME DiskInv, NEW w \in Ws, NEW sent, DetachBound(w, sent), snap' = snap, restarts' = restarts
  PROVE  DiskInv'
<1>1. \/ persistDue' = TRUE
      \/ persistDue' = persistDue /\ store' = store
  BY DEF DetachBound, Detach, Detached
<1> QED  BY <1>1, UnpersistedKeepsDisk DEF Shrinks

\* Every handler keeps the file and the registry together.
LEMMA DiskNext ==
  ASSUME RegistryInv, DiskInv, [Next]_hubVars
  PROVE  DiskInv'
<1>1. /\ StoreInv /\ SnapNames /\ store \in Store /\ Sticky(store) /\ FlagsOf(store)
      /\ SocketInv /\ OtherTypeOK /\ Backed(store)
  BY RegistryParts DEF StoreInv, DiskInv
<1>2. ASSUME NEW s \in Store, Sticky(s), Persist(s), restarts' = restarts  PROVE DiskInv'
  BY <1>1, <1>2, PersistKeepsDisk
<1>3. ASSUME snap' = snap, restarts' = restarts,
             persistDue' = TRUE \/ (persistDue' = persistDue /\ Shrinks(store, store'))
      PROVE  DiskInv'
  BY <1>3, UnpersistedKeepsDisk
<1>4. store' = store => Shrinks(store, store')  BY DEF Shrinks
<1>5. CASE Tunnel
  <2>1. snap' = snap /\ restarts' = restarts  BY <1>5 DEF Tunnel
  <2>2. ASSUME NEW w \in Ws, SocketError(w) \/ CloseEvent(w)  PROVE DiskInv'
    BY <2>1, <2>2, DetachKeepsDisk DEF SocketError, CloseEvent
  <2>3. ASSUME NEW w \in Ws, AcceptHello(w)  PROVE DiskInv'
    BY <1>3, <2>1, <2>3 DEF AcceptHello
  <2>4. ASSUME NEW w \in Ws, \/ RejectHello(w) \/ Response(w) \/ TdLeaves(w) \/ Timeout(w)
                             \/ \E h \in Hello : Dial(w, h)
        PROVE  DiskInv'
    BY <1>3, <1>4, <2>1, <2>4 DEF RejectHello, Response, TdLeaves, Timeout, Dial
  <2>5. ASSUME NEW i \in Id, ExpectExpires(i) \/ \E r \in Req : ProxyRequest(r, i)  PROVE DiskInv'
    BY <1>3, <1>4, <2>1, <2>5 DEF ExpectExpires, ProxyRequest
  <2> QED  BY <1>5, <2>2, <2>3, <2>4, <2>5 DEF Tunnel, TunnelStep
<1>6. ASSUME NEW i \in Id, NEW p \in Peer
      PROVE  Register(store, i, p) \in Store /\ Sticky(Register(store, i, p))
  BY <1>1, RegisterProperties
<1>7. ASSUME NEW i \in Id, NEW p \in RegisterBody, PostRegister(i, p)  PROVE DiskInv'
  <2>1. p \in Peer
    <3>1. HttpPeer \in Peer  BY DEF HttpPeer, Peer
    <3>2. \A n \in Nonce \cup {NoNonce} : TunnelPeer(n, FALSE) \in Peer  BY DEF TunnelPeer, Peer
    <3> QED  BY <3>1, <3>2 DEF RegisterBody
  <2> QED  BY <1>2, <1>6, <1>7, <2>1 DEF PostRegister
<1>8. ASSUME NEW i \in Id, NEW n \in Nonce, PostExpect(i, n)  PROVE DiskInv'
  <2>1. TunnelPeer(n, FALSE) \in Peer  BY DEF TunnelPeer, Peer
  <2> QED  BY <1>2, <1>6, <1>8, <2>1 DEF PostExpect
<1>9. ASSUME NEW i \in Id, PutSticky(i)  PROVE DiskInv'
  BY <1>1, <1>2, <1>9, SelectProperties DEF PutSticky
<1>10. ASSUME NEW i \in Id, PostHeartbeat(i)  PROVE DiskInv'
  <2>1. store' = Heartbeat(store, {i})  BY <1>10 DEF PostHeartbeat
  <2>2. Shrinks(store, store')  BY <1>1, <2>1, TimeProperties, HeartbeatAges DEF Shrinks
  <2> QED  BY <1>3, <1>10, <2>2 DEF PostHeartbeat
<1>11. ASSUME NEW i \in Id, DeletePeer(i)  PROVE DiskInv'
  <2> DEFINE d == IF IsConnected(i) THEN Detached(i) ELSE store
  <2>1. /\ IF IsConnected(i) THEN Detach(i, frames) ELSE UNCHANGED <<sockets, persistDue, proxyVars>>
        /\ IF i \in Known(d) THEN Persist(Remove(d, i)) ELSE store' = d /\ UNCHANGED snap
        /\ restarts' = restarts
    BY <1>11 DEF DeletePeer
  <2>2. d \in Store /\ Sticky(d)
    <3>1. Detached(i) \in Store /\ Sticky(Detached(i))  BY <1>1, DetachedEffect
    <3> QED  BY <1>1, <3>1
  <2>3. IsConnected(i) => persistDue' = TRUE  BY <2>1 DEF IsConnected, Detach
  <2>4. ~ IsConnected(i) => persistDue' = persistDue /\ d = store  BY <2>1
  <2> HIDE DEF d
  <2>5. CASE i \in Known(d)  BY <1>2, <2>1, <2>2, <2>5, RemoveProperties
  <2>6. CASE i \notin Known(d)  BY <1>3, <1>4, <2>1, <2>3, <2>4, <2>6
  <2> QED  BY <2>5, <2>6
<1>12. CASE GetPeers
  BY <1>1, <1>3, <1>12, SweepShrinks DEF GetPeers
<1>13. CASE Tick
  <2>1. Shrinks(store, Older(store))  BY <1>1, TimeProperties, OlderAges DEF Shrinks
  <2> QED  BY <1>3, <1>13, <2>1 DEF Tick
<1>14. CASE SweepTimer
  <2> DEFINE listed == Sweep(store)
             alive  == {i \in Known(listed) : /\ listed.peer[i].transport = "tunnel"
                                              /\ IsConnected(i) \/ expects[i] # NoNonce}
             kept == Heartbeat(listed, alive)
  <2>1. store' = Sweep(kept) /\ UNCHANGED <<persistDue, snap, restarts>>  BY <1>14 DEF SweepTimer
  <2>2. Shrinks(store, listed) /\ listed \in Store /\ Sticky(listed)  BY <1>1, SweepShrinks
  <2> HIDE DEF listed, alive
  <2>3. kept \in Store /\ Sticky(kept) /\ Known(kept) = Known(listed) /\ kept.selectedId = listed.selectedId
    BY <2>2, TimeProperties, HeartbeatAges
  <2> HIDE DEF kept
  <2>4. Shrinks(kept, Sweep(kept))  BY <2>3, SweepShrinks
  <2>5. Shrinks(store, store')  BY <2>1, <2>2, <2>3, <2>4 DEF Shrinks
  <2> QED  BY <1>3, <2>1, <2>5
<1>15. CASE PersistTimer  BY <1>1, <1>2, <1>15 DEF PersistTimer
<1>16. CASE Restart
  <2> DEFINE known == {i \in Id : snap.rank[i] > 0}
             sel == IF snap.selectedId \in known THEN snap.selectedId ELSE First(snap, known)
  <2>1. snap.rank \in [Id -> Nat] /\ snap.selectedId \in Id \cup {NoId}
    BY <1>1 DEF StoreInv, Snapshot
  <2>2. Restored.rank = snap.rank /\ Restored.selectedId = sel  BY DEF Restored
  <2>3. Known(Restored) = known  BY <2>2 DEF Known
  <2>4. snap.selectedId = NoId => known = {}  BY <1>1 DEF SnapNames
  <2>5. known = {} => First(snap, known) = NoId  BY DEF First
  <2>6. store' = Restored /\ snap' = snap  BY <1>16 DEF Restart
  <2> HIDE DEF known
  <2>7. sel = snap.selectedId \/ snap.selectedId \in Id \ known  BY <2>1, <2>4, <2>5
  <2> HIDE DEF sel
  <2>8. DiskFollows'  BY <2>2, <2>3, <2>6, <2>7 DEF DiskFollows
  <2>9. SnapNames'  BY <1>1, <2>6 DEF SnapNames
  <2> QED  BY <2>8, <2>9 DEF DiskInv
<1>17. CASE UNCHANGED hubVars
  BY <1>17 DEF DiskInv, DiskFollows, SnapNames, hubVars, tunnelVars
<1> QED  BY <1>5, <1>7, <1>8, <1>9, <1>10, <1>11, <1>12, <1>13, <1>14, <1>15, <1>16, <1>17
         DEF Next, Http, Timers

\* The sticky selection in the file is that of the registry whenever it would be
\* read, but for a persist that is due or an expiry that the restore makes up for.
THEOREM DiskIsUpToDate == Spec => []DiskFollows
<1>1. Init => DiskInv  BY DEF Init, TunnelInit, DiskInv, DiskFollows, SnapNames, EmptyStore
<1>2. DiskInv => DiskFollows  BY DEF DiskInv
<1> QED  BY <1>1, <1>2, DiskNext, RegistryIsConsistent, PTL DEF Spec

-----------------------------------------------------------------------------
\* A connected tunnel peer had a heartbeat when the last sweep was done.
Connected(s, i) == s.peer[i].transport = "tunnel" /\ IsConnected(i)

AliveInv ==
    \A i \in Known(store) : Connected(store, i) => store.age[i] <= IF sweepDue THEN 1 ELSE 0

\* The same of a registry s that the step passes through, with the sockets after it.
AliveNext(s) ==
    \A i \in Known(s) :
        s.peer[i].transport = "tunnel" /\ IsConnected(i)' =>
            s.age[i] <= IF sweepDue' THEN 1 ELSE 0

\* The peers of the registry that are connected, and stay so, have not expired in s.
Holds(s) ==
    \A i \in Known(store) : Connected(store, i) => i \in Fresh(s) \/ sockets'[i] = NoWs

\* What ConnectedIsKept says of a step.
KeepsConnected ==
    \A i \in Known(store) :
        /\ store.peer[i].transport = "tunnel" /\ IsConnected(i)
        /\ i \notin Known(store')
        => sockets'[i] = NoWs

\* A tick or two after its heartbeat no peer has expired.
LEMMA AliveIsFresh ==
  ASSUME AliveInv, NEW i \in Known(store), Connected(store, i), store \in Store
  PROVE  i \in Fresh(store)
<1>1. store.age[i] \in Nat  BY DEF Store, Known
<1>2. store.age[i] <= 1  BY <1>1 DEF AliveInv
<1> QED  BY <1>1, <1>2, TtlAssumption DEF Fresh

\* A handler that stores s, sweeping it or not, drops no connected peer.
LEMMA AliveStep ==
  ASSUME NEW s \in Store, Sticky(s), AliveNext(s), Holds(s), store' = s \/ store' = Sweep(s)
  PROVE  AliveInv' /\ KeepsConnected
<1>1. Fresh(s) \subseteq Known(s)  BY DEF Fresh
<1>2. CASE store' = s
  BY <1>1, <1>2 DEF AliveInv, AliveNext, Connected, Holds, KeepsConnected
<1>3. CASE store' = Sweep(s)
  <2>1. /\ Known(Sweep(s)) = Fresh(s)
        /\ \A j \in Fresh(s) : Sweep(s).peer[j] = s.peer[j] /\ Sweep(s).age[j] = s.age[j]
    BY SweepProperties, SweepAges
  <2> QED  BY <1>1, <1>3, <2>1 DEF AliveInv, AliveNext, Connected, Holds, KeepsConnected
<1> QED  BY <1>2, <1>3

\* No other peer is connected after the step, and no timer fires in it.
Calm == /\ \A i \in Id : IsConnected(i)' => IsConnected(i)
        /\ sweepDue' = sweepDue

\* A step that connects nobody and at most sweeps drops no connected peer.
LEMMA CalmStep ==
  ASSUME AliveInv, store \in Store, Sticky(store), Calm,
         store' = store \/ store' = Sweep(store)
  PROVE  AliveInv' /\ KeepsConnected
<1>1. Known(store) \subseteq Id  BY DEF Known
<1>2. AliveNext(store)  BY <1>1 DEF AliveInv, AliveNext, Calm, Connected
<1>3. Holds(store)  BY AliveIsFresh DEF Holds
<1> QED  BY <1>2, <1>3, AliveStep

\* A registered peer is fresh, and the others are as before.
LEMMA RegisterAlive ==
  ASSUME AliveInv, store \in Store, Sticky(store), NEW i \in Id, NEW p \in Peer,
         \A j \in Id \ {i} : IsConnected(j)' => IsConnected(j), sweepDue' = sweepDue,
         store' = Register(store, i, p) \/ store' = Sweep(Register(store, i, p))
  PROVE  AliveInv' /\ KeepsConnected
<1> DEFINE s == Register(store, i, p)
<1>1. /\ s \in Store /\ Sticky(s) /\ Known(s) = Known(store) \cup {i}
      /\ s.peer = [store.peer EXCEPT ![i] = p]
      /\ s.age = [store.age EXCEPT ![i] = 0]
  BY RegisterProperties, RegisterAges
<1>2. store.peer \in [Id -> Peer] /\ store.age \in [Id -> Nat] /\ Known(store) \subseteq Id
  BY DEF Store, Known
<1>3. s.age[i] = 0 /\ \A j \in Id \ {i} : s.age[j] = store.age[j] /\ s.peer[j] = store.peer[j]
  BY <1>1, <1>2
<1>4. store' = s \/ store' = Sweep(s)  OBVIOUS
<1> HIDE DEF s
<1>5. AliveNext(s)
  <2> SUFFICES ASSUME NEW j \in Known(s), s.peer[j].transport = "tunnel", IsConnected(j)'
               PROVE  s.age[j] <= IF sweepDue' THEN 1 ELSE 0
    BY DEF AliveNext
  <2>1. CASE j = i  BY <1>3, <2>1
  <2>2. CASE j # i
    <3>1. j \in Known(store) /\ j \in Id \ {i}  BY <1>1, <1>2, <2>2
    <3> QED  BY <1>3, <3>1 DEF AliveInv, Connected
  <2> QED  BY <2>1, <2>2
<1>6. Holds(s)
  <2> SUFFICES ASSUME NEW j \in Known(store), Connected(store, j)  PROVE j \in Fresh(s)
    BY DEF Holds
  <2>1. CASE j = i  BY <1>1, <1>3, <2>1, TtlAssumption DEF Fresh
  <2>2. CASE j # i
    <3>1. j \in Fresh(store) /\ j \in Id \ {i}  BY <1>2, <2>2, AliveIsFresh
    <3> QED  BY <1>1, <1>3, <3>1 DEF Fresh
  <2> QED  BY <2>1, <2>2
<1> QED  BY <1>1, <1>4, <1>5, <1>6, AliveStep

\* detachPeer forgets the socket of the peer, and nothing of the others.
LEMMA DetachedAlive ==
  ASSUME RegistryInv, AliveInv, NEW i \in Id,
         sockets' = [sockets EXCEPT ![i] = NoWs], sweepDue' = sweepDue,
         \A v \in Ws : wsState'[v] = "open" => wsState[v] = "open"
  PROVE  /\ AliveNext(Detached(i)) /\ Holds(Detached(i))
         /\ Detached(i) \in Store /\ Sticky(Detached(i)) /\ Known(Detached(i)) = Known(store)
         /\ \A j \in Id \ {i} : Detached(i).age[j] = store.age[j]
<1>1. /\ StoreInv /\ Backed(store) /\ store \in Store /\ Sticky(store)
      /\ sockets \in [Id -> Ws \cup {NoWs}]
  BY RegistryParts DEF StoreInv, SocketInv
<1>2. /\ Detached(i) \in Store /\ Sticky(Detached(i)) /\ Known(Detached(i)) = Known(store)
      /\ \A j \in Id \ {i} : Detached(i).peer[j] = store.peer[j]
  BY <1>1, DetachedEffect
<1>3. /\ store.age \in [Id -> Nat] /\ Known(store) \subseteq Id
      /\ \A j \in Fresh(store) : j \in Known(store) /\ store.age[j] <= TtlTicks
  BY <1>1 DEF Store, Known, Fresh
<1>4. \A j \in Id \ {i} : Detached(i).age[j] = store.age[j]
  <2> DEFINE p == [store.peer[i] EXCEPT !.tunnelConnected = FALSE]
  <2>1. Detached(i) = store \/ Detached(i) = Register(store, i, p)  BY DEF Detached
  <2> HIDE DEF p
  <2>2. Register(store, i, p).age = [store.age EXCEPT ![i] = 0]  BY <1>1, RegisterAges
  <2>3. CASE Detached(i) = store  BY <2>3
  <2>4. CASE Detached(i) = Register(store, i, p)  BY <1>3, <2>2, <2>4
  <2> QED  BY <2>1, <2>3, <2>4
<1>5. \A j \in Id : IsConnected(j)' => j # i /\ IsConnected(j)
  BY <1>1 DEF IsConnected
<1>6. AliveNext(Detached(i))
  <2> SUFFICES ASSUME NEW j \in Known(store), IsConnected(j)', store.peer[j].transport = "tunnel",
                      j \in Id \ {i}
               PROVE  store.age[j] <= IF sweepDue' THEN 1 ELSE 0
    BY <1>2, <1>3, <1>4, <1>5 DEF AliveNext
  <2> QED  BY <1>5 DEF AliveInv, Connected
<1>7. Holds(Detached(i))
  <2> SUFFICES ASSUME NEW j \in Known(store), Connected(store, j), j # i
               PROVE  j \in Fresh(Detached(i))
    BY <1>1, <1>3 DEF Holds
  <2>1. j \in Fresh(store) /\ j \in Id \ {i}  BY <1>1, <1>3, AliveIsFresh
  <2> QED  BY <1>2, <1>3, <1>4, <2>1 DEF Fresh
<1> QED  BY <1>2, <1>4, <1>6, <1>7

\* The handlers of "error" and "close".
LEMMA DetachBoundAlive ==
  ASSUME RegistryInv, AliveInv, NEW w \in Ws, NEW sent, DetachBound(w, sent),
         sweepDue' = sweepDue, \A v \in Ws : wsState'[v] = "open" => wsState[v] = "open"
  PROVE  AliveInv' /\ KeepsConnected
<1>1. /\ store \in Store /\ Sticky(store) /\ sockets \in [Id -> Ws \cup {NoWs}]
      /\ boundId[w] \in Id \cup {NoId}
  BY RegistryParts DEF StoreInv, SocketInv
<1>2. CASE store' = store /\ sockets' = sockets
  <2>1. Calm  BY <1>1, <1>2 DEF Calm, IsConnected
  <2> QED  BY <1>1, <1>2, <2>1, CalmStep
<1>3. CASE ~(store' = store /\ sockets' = sockets)
  <2> DEFINE i == boundId[w]
  <2>1. i # NoId /\ Detach(i, sent) /\ store' = Detached(i)  BY <1>3 DEF DetachBound
  <2>2. i \in Id  BY <1>1, <2>1
  <2> HIDE DEF i
  <2>3. sockets[i] # NoWs  BY <1>3, <2>1 DEF Detach, Detached
  <2>4. sockets' = [sockets EXCEPT ![i] = NoWs]  BY <2>1, <2>3 DEF Detach
  <2>5. /\ AliveNext(Detached(i)) /\ Holds(Detached(i))
        /\ Detached(i) \in Store /\ Sticky(Detached(i))
    BY <2>2, <2>4, DetachedAlive
  <2> QED  BY <2>1, <2>5, AliveStep
<1> QED  BY <1>2, <1>3

\* A hello: the sockets of the other ids stay as they are, or close.
LEMMA AcceptHelloAlive ==
  ASSUME RegistryInv, AliveInv, NEW w \in Ws, AcceptHello(w), sweepDue' = sweepDue
  PROVE  AliveInv' /\ KeepsConnected
<1> DEFINE i == hello[w].id
           p == TunnelPeer(hello[w].nonce, TRUE)
           old == sockets[i]
<1>1. store \in Store /\ Sticky(store) /\ SocketInv  BY RegistryParts DEF StoreInv
<1>2. /\ wsState[w] = "dialed" /\ store' = Register(store, i, p)
      /\ sockets' = [sockets EXCEPT ![i] = w]
      /\ \/ wsState' = [wsState EXCEPT ![w] = "open"]
         \/ wsState' = [wsState EXCEPT ![w] = "open", ![old] = "closing"]
  BY DEF AcceptHello
<1>3. hello[w] \in Hello  BY <1>1, <1>2 DEF SocketInv, BoundIsLive
<1>4. i \in Id /\ p \in Peer  BY <1>3 DEF Hello, TunnelPeer, Peer
<1> HIDE DEF i, p, old
<1>5. \A j \in Id \ {i} : IsConnected(j)' => IsConnected(j)
  <2> SUFFICES ASSUME NEW j \in Id \ {i}, IsConnected(j)'  PROVE IsConnected(j)
    OBVIOUS
  <2>1. sockets'[j] = sockets[j] /\ sockets[j] \in Ws \cup {NoWs}  BY <1>1, <1>2 DEF SocketInv
  <2>2. sockets[j] # NoWs /\ wsState'[sockets[j]] = "open"  BY <2>1 DEF IsConnected
  <2>3. sockets[j] \in Ws /\ sockets[j] # w  BY <1>1, <1>2, <2>1, <2>2 DEF SocketInv, RoutedIsAlive
  <2>4. wsState \in [Ws -> {"closed", "dialed", "open", "closing"}]  BY <1>1 DEF SocketInv
  <2>5. wsState[sockets[j]] = "open"
    <3> DEFINE v == sockets[j]
    <3>1. v \in Ws /\ v # w /\ wsState'[v] = "open"  BY <2>2, <2>3
    <3> HIDE DEF v
    <3>2. wsState[v] = "open"  BY <1>2, <2>4, <3>1
    <3> QED  BY <3>2 DEF v
  <2> QED  BY <2>2, <2>5 DEF IsConnected
<1> QED  BY <1>1, <1>2, <1>4, <1>5, RegisterAlive

\* DELETE /peers/:id drops its socket before its record.
LEMMA DeletePeerAlive ==
  ASSUME RegistryInv, AliveInv, NEW i \in Id, DeletePeer(i)
  PROVE  AliveInv' /\ KeepsConnected
<1> DEFINE d == IF IsConnected(i) THEN Detached(i) ELSE store
<1>1. /\ store \in Store /\ Sticky(store) /\ sockets \in [Id -> Ws \cup {NoWs}]
      /\ Known(store) \subseteq Id
  BY RegistryParts DEF StoreInv, SocketInv, Known
<1>2. /\ UNCHANGED <<wsState, sweepDue>>
      /\ IF IsConnected(i) THEN sockets' = [sockets EXCEPT ![i] = NoWs] ELSE sockets' = sockets
      /\ \/ i \in Known(d) /\ store' = Sweep(Remove(d, i))
         \/ i \notin Known(d) /\ store' = d
  BY DEF DeletePeer, Persist, Detach, IsConnected, connVars
<1>3. AliveNext(d) /\ Holds(d) /\ d \in Store /\ Sticky(d)
  <2>1. CASE IsConnected(i)
    <3>1. \A v \in Ws : wsState'[v] = "open" => wsState[v] = "open"  BY <1>2
    <3>2. /\ AliveNext(Detached(i)) /\ Holds(Detached(i))
          /\ Detached(i) \in Store /\ Sticky(Detached(i))
      BY <1>2, <2>1, <3>1, DetachedAlive
    <3> QED  BY <2>1, <3>2
  <2>2. CASE ~ IsConnected(i)
    <3>1. \A j \in Id : IsConnected(j)' => IsConnected(j)  BY <1>2, <2>2 DEF IsConnected
    <3>2. AliveNext(store)  BY <1>1, <1>2, <3>1 DEF AliveNext, AliveInv, Connected
    <3>3. Holds(store)  BY <1>1, AliveIsFresh DEF Holds
    <3> QED  BY <1>1, <2>2, <3>2, <3>3
  <2> QED  BY <2>1, <2>2
<1>4. sockets'[i] = NoWs \/ ~ IsConnected(i)  BY <1>1, <1>2
<1> HIDE DEF d
<1>5. CASE store' = d  BY <1>3, <1>5, AliveStep
<1>6. CASE store' = Sweep(Remove(d, i))
  <2> DEFINE r == Remove(d, i)
  <2>1. /\ r \in Store /\ Sticky(r) /\ Known(r) = Known(d) \ {i}
        /\ \A j \in Known(d) \ {i} : r.peer[j] = d.peer[j] /\ r.age[j] = d.age[j]
    BY <1>3, RemoveProperties, RemoveAges
  <2>2. store' = Sweep(r)  BY <1>6
  <2> HIDE DEF r
  <2>3. AliveNext(r)  BY <1>3, <2>1 DEF AliveNext
  <2>4. Holds(r)
    <3> SUFFICES ASSUME NEW j \in Known(store), Connected(store, j), sockets'[j] # NoWs
                 PROVE  j \in Fresh(r)
      BY DEF Holds
    <3>1. j # i  BY <1>4 DEF Connected
    <3>2. j \in Fresh(d)  BY <1>3 DEF Holds
    <3> QED  BY <2>1, <3>1, <3>2 DEF Fresh
  <2> QED  BY <2>1, <2>2, <2>3, <2>4, AliveStep
<1> QED  BY <1>2, <1>5, <1>6

\* The sweep timer: whoever is connected gets a heartbeat before the second sweep.
LEMMA SweepTimerAlive ==
  ASSUME RegistryInv, AliveInv, SweepTimer
  PROVE  AliveInv' /\ KeepsConnected
<1> DEFINE listed == Sweep(store)
           alive  == {i \in Known(listed) : /\ listed.peer[i].transport = "tunnel"
                                            /\ IsConnected(i) \/ expects[i] # NoNonce}
           kept == Heartbeat(listed, alive)
<1>1. store \in Store /\ Sticky(store) /\ Known(store) \subseteq Id
  BY RegistryParts DEF StoreInv, Known
<1>2. store' = Sweep(kept) /\ UNCHANGED <<sockets, connVars>> /\ sweepDue' = FALSE
  BY DEF SweepTimer
<1>3. /\ listed \in Store /\ Sticky(listed) /\ Known(listed) = Fresh(store)
      /\ \A i \in Fresh(store) : listed.peer[i] = store.peer[i]
  BY <1>1, SweepProperties
<1>4. \A i \in Known(listed) : Connected(listed, i) => i \in alive  BY DEF Connected
<1> HIDE DEF listed, alive
<1>5. /\ kept \in Store /\ Sticky(kept) /\ Known(kept) = Known(listed)
      /\ kept.peer = listed.peer
      /\ kept.age = [i \in Id |-> IF i \in alive THEN 0 ELSE listed.age[i]]
  BY <1>3, TimeProperties, HeartbeatAges
<1> HIDE DEF kept
<1>6. \A i \in Known(listed) : i \in Id /\ (Connected(listed, i) => kept.age[i] = 0)
  BY <1>4, <1>5 DEF Known
<1>7. AliveNext(kept)
  <2>1. \A i \in Id : IsConnected(i)' => IsConnected(i)  BY <1>2 DEF IsConnected, connVars
  <2> QED  BY <1>2, <1>5, <1>6, <2>1 DEF AliveNext, Connected
<1>8. Holds(kept)
  <2> SUFFICES ASSUME NEW i \in Known(store), Connected(store, i)  PROVE i \in Fresh(kept)
    BY DEF Holds
  <2>1. i \in Known(listed) /\ listed.peer[i] = store.peer[i]
    BY <1>1, <1>3, AliveIsFresh
  <2>2. kept.age[i] = 0  BY <1>6, <2>1 DEF Connected
  <2> QED  BY <1>5, <2>1, <2>2, TtlAssumption DEF Fresh
<1> QED  BY <1>2, <1>5, <1>7, <1>8, AliveStep

\* Every handler keeps the connected peers young, and drops none of them.
LEMMA AliveStepNext ==
  ASSUME RegistryInv, AliveInv, [Next]_hubVars
  PROVE  AliveInv' /\ KeepsConnected
<1>1. /\ store \in Store /\ Sticky(store) /\ SocketInv /\ OtherTypeOK
      /\ store.age \in [Id -> Nat] /\ Known(store) \subseteq Id
  BY RegistryParts DEF StoreInv, Store, Known
<1>2. ASSUME Calm, store' = store \/ store' = Sweep(store)  PROVE AliveInv' /\ KeepsConnected
  BY <1>1, <1>2, CalmStep
<1>3. ASSUME UNCHANGED <<sockets, wsState>>
      PROVE  \A i \in Id : IsConnected(i)' => IsConnected(i)
  BY <1>3 DEF IsConnected
<1>4. ASSUME UNCHANGED <<sockets, connVars, sweepDue>>  PROVE Calm
  BY <1>3, <1>4 DEF Calm, connVars
<1>5. ASSUME NEW i \in Id, NEW p \in Peer, UNCHANGED <<sockets, connVars, sweepDue>>,
             Persist(Register(store, i, p))
      PROVE  AliveInv' /\ KeepsConnected
  BY <1>1, <1>3, <1>5, RegisterAlive DEF Persist, connVars
<1>6. CASE Tunnel
  <2>1. sweepDue' = sweepDue  BY <1>6 DEF Tunnel
  <2>2. ASSUME NEW w \in Ws, SocketError(w) \/ CloseEvent(w)  PROVE AliveInv' /\ KeepsConnected
    <3>1. \A v \in Ws : wsState'[v] = "open" => wsState[v] = "open"
      BY <1>1, <2>2 DEF SocketError, CloseEvent, SocketInv
    <3>2. \E sent : DetachBound(w, sent)  BY <2>2 DEF SocketError, CloseEvent
    <3> QED  BY <2>1, <3>1, <3>2, DetachBoundAlive
  <2>3. ASSUME NEW w \in Ws, AcceptHello(w)  PROVE AliveInv' /\ KeepsConnected
    BY <2>1, <2>3, AcceptHelloAlive
  <2>4. ASSUME NEW w \in Ws, RejectHello(w) \/ TdLeaves(w) \/ \E h \in Hello : Dial(w, h)
        PROVE  AliveInv' /\ KeepsConnected
    <3>1. store' = store /\ sockets' = sockets
          /\ \A v \in Ws : wsState'[v] = "open" => wsState[v] = "open"
      BY <1>1, <2>4 DEF RejectHello, TdLeaves, Dial, SocketInv
    <3>2. Calm  BY <1>1, <2>1, <3>1 DEF Calm, IsConnected, SocketInv
    <3> QED  BY <1>2, <3>1, <3>2
  <2>5. ASSUME NEW w \in Ws, Response(w) \/ Timeout(w)  PROVE AliveInv' /\ KeepsConnected
    BY <1>2, <1>4, <2>1, <2>5 DEF Response, Timeout
  <2>6. ASSUME NEW i \in Id, ExpectExpires(i) \/ \E r \in Req : ProxyRequest(r, i)
        PROVE  AliveInv' /\ KeepsConnected
    BY <1>2, <1>4, <2>1, <2>6 DEF ExpectExpires, ProxyRequest
  <2> QED  BY <1>6, <2>2, <2>3, <2>4, <2>5, <2>6 DEF Tunnel, TunnelStep
<1>7. ASSUME NEW i \in Id, NEW p \in RegisterBody, PostRegister(i, p)
      PROVE  AliveInv' /\ KeepsConnected
  <2>1. p \in Peer
    <3>1. HttpPeer \in Peer  BY DEF HttpPeer, Peer
    <3>2. \A n \in Nonce \cup {NoNonce} : TunnelPeer(n, FALSE) \in Peer  BY DEF TunnelPeer, Peer
    <3> QED  BY <3>1, <3>2 DEF RegisterBody
  <2> QED  BY <1>5, <1>7, <2>1 DEF PostRegister
<1>8. ASSUME NEW i \in Id, NEW n \in Nonce, PostExpect(i, n)  PROVE AliveInv' /\ KeepsConnected
  <2>1. TunnelPeer(n, FALSE) \in Peer  BY DEF TunnelPeer, Peer
  <2> QED  BY <1>5, <1>8, <2>1 DEF PostExpect
<1>9. ASSUME NEW i \in Id, PutSticky(i)  PROVE AliveInv' /\ KeepsConnected
  <2> DEFINE s == Select(store, i)
  <2>1. s \in Store /\ Sticky(s) /\ Known(s) = Known(store) /\ s.peer = store.peer
    BY <1>1, <1>9, SelectProperties DEF PutSticky
  <2>2. s.age = store.age  BY <1>1 DEF Select, Store
  <2>3. store' = Sweep(s) /\ Calm  BY <1>4, <1>9 DEF PutSticky, Persist
  <2> HIDE DEF s
  <2>4. AliveNext(s)  BY <1>1, <2>1, <2>2, <2>3 DEF AliveNext, AliveInv, Calm, Connected
  <2>5. Holds(s)  BY <1>1, <2>1, <2>2, AliveIsFresh DEF Holds, Fresh
  <2> QED  BY <2>1, <2>3, <2>4, <2>5, AliveStep
<1>10. ASSUME NEW i \in Id, PostHeartbeat(i)  PROVE AliveInv' /\ KeepsConnected
  <2> DEFINE s == Heartbeat(store, {i})
  <2>1. s \in Store /\ Sticky(s) /\ Known(s) = Known(store) /\ s.peer = store.peer
    BY <1>1, TimeProperties
  <2>2. s.age = [j \in Id |-> IF j \in {i} THEN 0 ELSE store.age[j]]  BY <1>1, HeartbeatAges
  <2>3. store' = s /\ Calm  BY <1>4, <1>10 DEF PostHeartbeat
  <2> HIDE DEF s
  <2>4. \A j \in Known(store) : s.age[j] = 0 \/ s.age[j] = store.age[j]  BY <1>1, <2>2
  <2>5. AliveNext(s)
    <3> SUFFICES ASSUME NEW j \in Known(store), s.peer[j].transport = "tunnel", IsConnected(j)'
                 PROVE  s.age[j] <= IF sweepDue' THEN 1 ELSE 0
      BY <2>1 DEF AliveNext
    <3>1. store.age[j] <= IF sweepDue THEN 1 ELSE 0
      BY <1>1, <2>1, <2>3 DEF AliveInv, Calm, Connected
    <3> QED  BY <2>3, <2>4, <3>1 DEF Calm
  <2>6. Holds(s)
    <3> SUFFICES ASSUME NEW j \in Known(store), Connected(store, j)  PROVE j \in Fresh(s)
      BY DEF Holds
    <3>1. j \in Fresh(store)  BY <1>1, AliveIsFresh
    <3> QED  BY <2>1, <2>4, <3>1, TtlAssumption DEF Fresh
  <2> QED  BY <2>1, <2>3, <2>5, <2>6, AliveStep
<1>11. ASSUME NEW i \in Id, DeletePeer(i)  PROVE AliveInv' /\ KeepsConnected
  BY <1>11, DeletePeerAlive
<1>12. CASE GetPeers  BY <1>2, <1>4, <1>12 DEF GetPeers
<1>13. CASE Tick
  <2> DEFINE s == Older(store)
  <2>1. s \in Store /\ Sticky(s) /\ Known(s) = Known(store) /\ s.peer = store.peer
    BY <1>1, TimeProperties
  <2>2. \A j \in Id : s.age[j] = store.age[j] \/ s.age[j] = store.age[j] + 1
    BY <1>1, OlderAges
  <2>3. store' = s /\ ~ sweepDue /\ sweepDue' = TRUE /\ UNCHANGED <<sockets, wsState>>
    BY <1>13 DEF Tick, connVars
  <2> HIDE DEF s
  <2>4. \A j \in Known(store) : Connected(store, j) => s.age[j] \in {0, 1}
    <3> SUFFICES ASSUME NEW j \in Known(store), Connected(store, j)  PROVE s.age[j] \in {0, 1}
      OBVIOUS
    <3>1. j \in Id /\ store.age[j] \in Nat  BY <1>1
    <3>2. store.age[j] = 0  BY <2>3, <3>1 DEF AliveInv
    <3> QED  BY <2>2, <3>1, <3>2
  <2>5. AliveNext(s)
    <3> SUFFICES ASSUME NEW j \in Known(store), s.peer[j].transport = "tunnel", IsConnected(j)'
                 PROVE  s.age[j] <= 1
      BY <2>1, <2>3 DEF AliveNext
    <3>1. Connected(store, j)  BY <1>1, <1>3, <2>1, <2>3 DEF Connected
    <3> QED  BY <2>4, <3>1
  <2>6. Holds(s)  BY <2>1, <2>4, TtlAssumption DEF Holds, Fresh
  <2> QED  BY <2>1, <2>3, <2>5, <2>6, AliveStep
<1>14. CASE SweepTimer  BY <1>14, SweepTimerAlive
<1>15. CASE PersistTimer  BY <1>2, <1>4, <1>15 DEF PersistTimer, Persist
<1>16. CASE Restart
  <2>1. \A i \in Id : sockets'[i] = NoWs  BY <1>16 DEF Restart
  <2>2. Known(store)' \subseteq Id  BY DEF Known
  <2> QED  BY <1>1, <2>1, <2>2 DEF AliveInv, KeepsConnected, Connected, IsConnected
<1>17. CASE UNCHANGED hubVars
  BY <1>2, <1>4, <1>17 DEF hubVars, tunnelVars, connVars
<1> QED  BY <1>6, <1>7, <1>8, <1>9, <1>10, <1>11, <1>12, <1>13, <1>14, <1>15, <1>16, <1>17
         DEF Next, Http, Timers

\* "keep alive while connected": no expiry, delete or persist of another handler
\* takes a connected tunnel peer out of the registry while its socket is there.
THEOREM ConnectedPeersAreKept == Spec => ConnectedIsKept
<1>1. Init => AliveInv  BY DEF Init, TunnelInit, AliveInv, EmptyStore, Known
<1>2. RegistryInv /\ AliveInv /\ [Next]_hubVars => AliveInv' /\ [KeepsConnected]_hubVars
  BY AliveStepNext
<1> QED  BY <1>1, <1>2, RegistryIsConsistent, PTL DEF Spec, ConnectedIsKept, KeepsConnected
=============================================================================
