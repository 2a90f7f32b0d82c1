---------------------------- MODULE DuplexPorts ----------------------------
(***************************************************************************)
(* The ports of udp_duplex.  Each connection of each shard has a port of   *)
(* its own, computed in a uint16_t from the shard, the connection and an   *)
(* offset that tells the two processes of a benchmark apart.               *)
(***************************************************************************)
EXTENDS Integers

CONSTANTS
  Smp,          \* the number of shards
  Connections,  \* CONCURRENT_CONNECTIONS
  PortT,        \* the number of values of a uint16_t
  StartPort,    \* START_PORT
  MyOffset,     \* MY_PORT_OFFSET
  OtherOffset   \* OTHER_PORT_OFFSET, the MY_PORT_OFFSET of the other process

\* CONCURRENT_CONNECTIONS is a uint16_t itself.
ASSUME PortsAssumption ==
  /\ Smp \in Nat \ {0} /\ PortT \in Nat \ {0} /\ Connections \in 0 .. PortT - 1
  /\ StartPort \in Nat /\ MyOffset \in Nat /\ OtherOffset \in Nat

Tasks == 0 .. Connections - 1

\* Variant: the shard's number is not scaled.
IndexUnscaled(s, i) == s + i

Index(s, i) == s * Connections + i

TargetPort(s, i) == (StartPort + Index(s, i)) % PortT

MyPort(s, i)    == (TargetPort(s, i) + MyOffset) % PortT
OtherPort(s, i) == (TargetPort(s, i) + OtherOffset) % PortT

\* What the other process binds, if it runs as many shards and connections.
OtherPorts == {OtherPort(s, i) : s \in 0 .. Smp - 1, i \in Tasks}
=============================================================================
