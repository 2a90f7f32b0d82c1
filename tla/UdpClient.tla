----------------------------- MODULE UdpClient -----------------------------
(***************************************************************************)
(* The process of client.cpp: the loop of each shard sends as fast as its  *)
(* channel takes packets, and send() resolves in the end.                  *)
(***************************************************************************)
EXTENDS UdpService

FairSpec == Spec /\ Fairness /\ \A s \in Shards : WF_vars(Answered(s) \/ LoopFails(s))

\* A signal that comes while the client runs ends the process: cleanly and
\* with the report, unless a channel failed on some shard.
SignalEndsClient ==
  (exit = "stop" /\ main \in {"setup", "run", "report"}) ~>
     \/ proc = "exited" /\ \A s \in Shards : report[s] # NotCollected
     \/ proc = "sharded_assert" /\ \E s \in Shards : loop[s] = "failed"
=============================================================================
