---------------------------- MODULE MCUdpServer ----------------------------
(* Checks UdpServer on two shards with counters of one bit. *)
EXTENDS UdpServer
=============================================================================
