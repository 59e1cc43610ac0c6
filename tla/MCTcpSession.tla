---------------------------- MODULE MCTcpSession ----------------------------
(***************************************************************************)
(* A server that sends its state and one change of a property, the second  *)
(* message empty and the third longer than a chunk, to a client that sends *)
(* one command.                                                            *)
(***************************************************************************)
EXTENDS TcpSession

CONSTANTS server, client

MCPeers == {server, client}
MCOther == [p \in MCPeers |-> IF p = server THEN client ELSE server]
MCLengths == [p \in MCPeers |-> IF p = server THEN <<2, 0, 3>> ELSE <<1>>]
=============================================================================
