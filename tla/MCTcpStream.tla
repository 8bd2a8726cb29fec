----------------------------- MODULE MCTcpStream -----------------------------
(* Small instances of TcpStream for TLC.                                   *)
EXTENDS TcpStream

CONSTANTS ClientBytes, ServerBytes, ClientWindow, ServerWindow, ToClient, ToServer

MCAppBytes == [e \in Ends |-> IF e = "client" THEN ClientBytes ELSE ServerBytes]
MCWindow == [e \in Ends |-> IF e = "client" THEN ClientWindow ELSE ServerWindow]
MCNetCap == [e \in Ends |-> IF e = "client" THEN ToClient ELSE ToServer]
=============================================================================
