----------------------------- MODULE MCHubServer -----------------------------
(* Instances of HubServer for TLC. *)
EXTENDS HubServer, TLC

Symmetry == Permutations(Id) \cup Permutations(Ws) \cup Permutations(Req)

\* Once the last restart has happened nothing reads the file.
View == <<tunnelVars, sweepDue, restarts, IF restarts < MaxRestarts THEN snap ELSE <<>>>>

\* The requests of several targets while no TTL elapses and no HTTP peer
\* registers: those steps touch no socket and no request.
RoutingNext ==
    \/ Tunnel
    \/ \E i \in Id : DeletePeer(i) \/ PutSticky(i) \/ \E n \in Nonce : PostExpect(i, n)

RoutingSpec == Init /\ [][RoutingNext]_hubVars /\ Fairness
=============================================================================
