--------------------------- MODULE MCTcpTunnelConn ---------------------------
(* Small instances of TcpTunnelConn for TLC: control packets c, small      *)
(* packets s and large packets b, the ones whose name ends in n no-drop.   *)
EXTENDS TcpTunnelConn

CONSTANTS c1, s1, s2, s1n, b1, b2, b3, b1n

MCWire == [p \in Packets |-> IF p \in {b1, b2, b3, b1n} THEN 2 ELSE 1]
=============================================================================
