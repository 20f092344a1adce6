---------------------------- MODULE MCTunnelClient ----------------------------
(* Instances of TunnelClient for TLC. *)
EXTENDS TunnelClient, TLC

Symmetry == Permutations(Worker) \cup Permutations(Conn) \cup Permutations(Req)
=============================================================================
