-------------------------- MODULE MCTcpTunnelListen --------------------------
(* Instance of TcpTunnelListen: one connection ID, used by the client f1.   *)
EXTENDS TcpTunnelListen, TLC

CONSTANTS f1

MCClient == [x \in ConnIDs |-> f1]
MCSymmetry == Permutations(Conns) \cup Permutations(Pools) \cup Permutations(PoolIDs)
=============================================================================
