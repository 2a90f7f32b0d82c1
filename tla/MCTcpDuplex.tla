---------------------------- MODULE MCTcpDuplex ----------------------------
(* Checks TcpDuplex with equal and with different packet sizes. *)
EXTENDS TcpDuplex

EqualPackets == [e \in Ends |-> 2]
OtherPackets == [client |-> 3, server |-> 2]
=============================================================================
