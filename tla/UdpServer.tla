----------------------------- MODULE UdpServer -----------------------------
(***************************************************************************)
(* The process of server.cpp: the loop of each shard receives on a port of *)
(* its own.  receive() resolves when a datagram comes, which may be never; *)
(* stop() does not wake it.                                                *)
(***************************************************************************)
EXTENDS UdpService

FairSpec == Spec /\ Fairness

\* A signal comes while the benchmark runs, or before.
Signalled == exit = "stop" /\ main \in {"setup", "run", "report"}

\* Only a receive() that waits for ever keeps a signalled server from its
\* end, which is a clean exit with the report written, or, if some shard
\* failed, the end without one (the TODO at server.cpp:20 names the gap).
OnlyIdleReceiveBlocksExit ==
  (\A s \in Shards : []<>(loop[s] # "waiting")) =>
    (Signalled ~> \/ proc = "exited" /\ \A s \in Shards : report[s] # NotCollected
                  \/ proc = "sharded_assert" /\ \E s \in Shards : loop[s] = "failed")
=============================================================================
