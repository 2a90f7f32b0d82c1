---------------------------- MODULE MCUdpDuplex ----------------------------
(***************************************************************************)
(* Checks UdpDuplex with two shards of two connections on three ports: the *)
(* last connection wraps to the port of the first.                         *)
(***************************************************************************)
EXTENDS UdpDuplex

TwoShards == 0 .. 1
=============================================================================
