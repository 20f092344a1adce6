------------------------------ MODULE PeerStore ------------------------------
(***************************************************************************)
(* The hub's in-memory peer registry (src/hub/peerStore.ts), as pure       *)
(* operators on a store record: the handlers of module HubServer compose   *)
(* them the way the code composes the method calls.                        *)
(*                                                                         *)
(* The class keeps a JavaScript Map, whose iteration order is insertion    *)
(* order, and the sticky selectedId.  The order is kept here as a rank per *)
(* id: 0 for an absent id, otherwise its place among the present ones.     *)
(* Time is counted in sweep periods (10 s): age is the number of periods   *)
(* since lastHeartbeatAt, and a peer has outlived its 45 s TTL once its    *)
(* age is above TtlTicks.                                                  *)
(***************************************************************************)
EXTENDS Naturals, FiniteSets

CONSTANTS Id,        \* target ids
          NoId,      \* selectedId = null
          Nonce,     \* launch nonces
          NoNonce,   \* a record registered without a nonce
          TtlTicks   \* sweep periods a peer outlives its last heartbeat

ASSUME IdAssumption    == IsFiniteSet(Id) /\ NoId \notin Id
ASSUME NonceAssumption == NoNonce \notin Nonce
ASSUME TtlAssumption   == TtlTicks \in Nat \ {0}

\* The fields of HubPeer the hub's own logic reads.
Peer == [transport : {"http", "tunnel"}, tunnelConnected : BOOLEAN,
         nonce : Nonce \cup {NoNonce}]

Store == [rank : [Id -> Nat], peer : [Id -> Peer], age : [Id -> Nat],
          selectedId : Id \cup {NoId}]

TunnelPeer(n, connected) ==
    [transport |-> "tunnel", tunnelConnected |-> connected, nonce |-> n]
HttpPeer == [transport |-> "http", tunnelConnected |-> FALSE, nonce |-> NoNonce]

EmptyStore == [rank |-> [i \in Id |-> 0], peer |-> [i \in Id |-> HttpPeer],
               age |-> [i \in Id |-> 0], selectedId |-> NoId]

Known(s) == {i \in Id : s.rank[i] > 0}

\* The first key of the Map among the ids of S, or null.
First(s, S) ==
    IF S = {} THEN NoId
    ELSE CHOOSE i \in S : \A j \in S : s.rank[i] <= s.rank[j]

\* The Map after every id outside S has been deleted: the others keep their order.
Kept(s, S) ==
    [rank |-> [i \in Id |-> IF i \in S
                            THEN Cardinality({j \in S : s.rank[j] <= s.rank[i]})
                            ELSE 0],
     peer |-> [i \in Id |-> IF i \in S THEN s.peer[i] ELSE HttpPeer],
     age  |-> [i \in Id |-> IF i \in S THEN s.age[i] ELSE 0],
     selectedId |-> s.selectedId]

\* register: a known id keeps its place, the first id ever selects itself.
Register(s, i, p) ==
    [s EXCEPT !.rank[i] = IF i \in Known(s) THEN @ ELSE Cardinality(Known(s)) + 1,
              !.peer[i] = p,
              !.age[i]  = 0,
              !.selectedId = IF @ = NoId THEN i ELSE @]

Heartbeat(s, S) == [s EXCEPT !.age = [i \in Id |-> IF i \in S THEN 0 ELSE @[i]]]

\* remove: the sticky selection of a deleted peer falls to the first one left.
Remove(s, i) ==
    LET rest == Known(s) \ {i}
    IN  [Kept(s, rest) EXCEPT
           !.selectedId = IF @ = i /\ i \in Known(s) THEN First(s, rest) ELSE @]

Select(s, i) == [s EXCEPT !.selectedId = i]

Fresh(s) == {i \in Known(s) : s.age[i] <= TtlTicks}

\* sweep, which list() runs as well.
Sweep(s) ==
    [Kept(s, Fresh(s)) EXCEPT
       !.selectedId = IF @ \in Fresh(s) \cup {NoId} THEN @ ELSE First(s, Fresh(s))]

\* One sweep period passes without a heartbeat for any peer.
Older(s) ==
    [s EXCEPT !.age = [i \in Id |->
        IF i \in Known(s) /\ @[i] <= TtlTicks THEN @[i] + 1 ELSE @[i]]]

\* The store's own consistency: the sticky id is a present peer, and there is
\* one as soon as there is a peer.
Sticky(s) ==
    /\ s.selectedId \in Known(s) \cup {NoId}
    /\ s.selectedId = NoId <=> Known(s) = {}
=============================================================================
