--------------------------- MODULE MCTcpPingPong ---------------------------
(* Checks TcpPingPong with packets that do not divide the buffer. *)
EXTENDS TcpPingPong

EqualPackets == [e \in Ends |-> 2]
=============================================================================
