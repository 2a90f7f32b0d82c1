------------------------------ MODULE GatedRun ------------------------------
(***************************************************************************)
(* What a benchmark process promises, whatever its shards and its sockets  *)
(* do: operations run on the service instances; none begins after the run, *)
(* and those that the run waits for are over on every shard when it ends,  *)
(* with a report or in a failure; an instance is destroyed only after the  *)
(* report and with nothing running on it.                                  *)
(***************************************************************************)
CONSTANTS
  Instances,  \* the service instances, one per shard
  Operations, \* what may run on one of them
  Awaited     \* the operations that the run waits for

VARIABLES
  phase,      \* "running", "over" or "stopping"
  running,    \* per instance, the operations in progress
  live        \* per instance, whether it exists

vars == <<phase, running, live>>

Init ==
  /\ phase = "running"
  /\ running = [s \in Instances |-> {}]
  /\ live = [s \in Instances |-> TRUE]

\* Operations begin only during the run.
Begin(s) ==
  /\ phase = "running" /\ live[s]
  /\ \E ops \in SUBSET Operations : running' = [running EXCEPT ![s] = @ \cup ops]
  /\ UNCHANGED <<phase, live>>

End(s) ==
  /\ \E op \in running[s] : running' = [running EXCEPT ![s] = @ \ {op}]
  /\ UNCHANGED <<phase, live>>

RunEnds ==
  /\ phase = "running"
  /\ \A s \in Instances : running[s] \cap Awaited = {}
  /\ phase' = "over"
  /\ UNCHANGED <<running, live>>

Stop ==
  /\ phase = "over"
  /\ phase' = "stopping"
  /\ UNCHANGED <<running, live>>

DestroyInstance(s) ==
  /\ phase = "stopping"
  /\ live[s] /\ running[s] = {}
  /\ live' = [live EXCEPT ![s] = FALSE]
  /\ UNCHANGED <<phase, running>>

Next ==
  \/ RunEnds \/ Stop
  \/ \E s \in Instances : Begin(s) \/ End(s) \/ DestroyInstance(s)

Spec == Init /\ [][Next]_vars
=============================================================================
