---------------------------- MODULE MCUdpClient ----------------------------
(* Checks UdpClient on two shards. *)
EXTENDS UdpClient
=============================================================================
