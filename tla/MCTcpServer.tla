---------------------------- MODULE MCTcpServer ----------------------------
(* Checks TcpServer on two shards. *)
EXTENDS TcpServer
=============================================================================
