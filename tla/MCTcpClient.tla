---------------------------- MODULE MCTcpClient ----------------------------
(* Checks TcpClient on two shards with two connections each. *)
EXTENDS TcpClient
=============================================================================
