----------------------------- MODULE UdpDuplex -----------------------------
(***************************************************************************)
(* The process of udp_duplex: per shard a throughput_service that starts   *)
(* its connections inside a gate and resolves run_udp when the gate has    *)
(* drained.  A connection is a writing loop over an unbound channel and a  *)
(* reading loop over a channel bound to a port of its own.  The writing    *)
(* loop starts first: when the other channel cannot be made or bound,      *)
(* handle_connection throws, the gate is left, and the writing loop is an  *)
(* orphan; when its own channel cannot be made, no loop starts.  An        *)
(* iteration of a loop is one step, from the answer of the channel to the  *)
(* next call; what is counted is left to UdpService.                       *)
(***************************************************************************)
EXTENDS AppMain, DuplexPorts

CONSTANTS
  Others,  \* the ports that may be held by what is not a reading loop of this
           \* process: another program, or a sending channel of either
  Faults   \* whether a channel may fail for another reason than its port

ASSUME ShardsAreNumbered == Shards = 0 .. Smp - 1
ASSUME FaultsAssumption == Faults \in BOOLEAN

VARIABLES
  interrupted,  \* per shard, interrupted_
  gate,         \* per shard, the connections inside gate_
  closed,       \* per shard, gate_.close() has been called
  writer,       \* per shard and connection, its writing loop
  reader        \* per shard and connection, its reading loop

serviceVars == <<interrupted, gate, closed, writer, reader>>
vars == <<main, mainWait, mainErr, exit, exitWait, exitErr, mail, alive, proc,
          interrupted, gate, closed, writer, reader>>

Init ==
  /\ AppInit
  /\ interrupted = [s \in Shards |-> FALSE]
  /\ gate = [s \in Shards |-> {}]
  /\ closed = [s \in Shards |-> FALSE]
  /\ writer = [s \in Shards |-> [i \in Tasks |-> "none"]]
  /\ reader = [s \in Shards |-> [i \in Tasks |-> "none"]]

TypeOK ==
  /\ AppTypeOK
  /\ interrupted \in [Shards -> BOOLEAN]
  /\ gate \in [Shards -> SUBSET Tasks]
  /\ closed \in [Shards -> BOOLEAN]
  /\ writer \in [Shards -> [Tasks -> {"none", "sending", "ended"}]]
  /\ reader \in [Shards -> [Tasks -> {"none", "receiving", "ended", "unbound", "failed"}]]

-----------------------------------------------------------------------------
\* A channel of this process is bound to the port.
Bound(port) == \E s \in Shards, i \in Tasks : reader[s][i] = "receiving" /\ MyPort(s, i) = port

\* The connections of shard s that cannot have their port.
PortHeld(s, taken) == {i \in Tasks : Bound(MyPort(s, i)) \/ MyPort(s, i) \in taken}

\* The connections whose channels may fail otherwise (line 83 or 101).
Failing == SUBSET IF Faults THEN Tasks ELSE {}

\* A connection of shard s starts its writing loop unless it is mute, then
\* its reading loop unless it is deaf or its port is held; an interrupted
\* loop ends at once.
StartConnections(s, held, mute, deaf) ==
  LET sends    == IF interrupted[s] THEN "ended" ELSE "sending"
      receives == IF interrupted[s] THEN "ended" ELSE "receiving"
  IN  /\ writer' = [writer EXCEPT ![s] = [i \in Tasks |-> IF i \in mute THEN "ended" ELSE sends]]
      /\ reader' = [reader EXCEPT ![s] = [i \in Tasks |->
           IF i \in mute THEN "failed" ELSE IF i \in held THEN "unbound"
           ELSE IF i \in deaf THEN "failed" ELSE receives]]
      /\ gate' = [gate EXCEPT ![s] = IF interrupted[s] THEN {} ELSE Tasks \ (held \cup mute \cup deaf)]
      /\ closed' = [closed EXCEPT ![s] = TRUE]

\* Variant: run_udp does not wait for the gate.
RunUdpDetached(s) ==
  /\ main = "run"
  /\ Deliver(s, "main")
  /\ \E taken \in SUBSET Others, mute, deaf \in Failing : StartConnections(s, PortHeld(s, taken), mute, deaf)
  /\ mainWait' = mainWait \ {s}
  /\ UNCHANGED <<main, mainErr, exitVars, alive, proc, interrupted>>

\* run_udp: the call resolves when the gate, closed at once, is empty.
RunUdp(s) ==
  /\ main = "run"
  /\ Deliver(s, "main")
  /\ \E taken \in SUBSET Others, mute, deaf \in Failing : StartConnections(s, PortHeld(s, taken), mute, deaf)
  /\ mainWait' = IF gate'[s] = {} THEN mainWait \ {s} ELSE mainWait
  /\ UNCHANGED <<main, mainErr, exitVars, alive, proc, interrupted>>

Leave(s, i) ==
  /\ gate' = [gate EXCEPT ![s] = @ \ {i}]
  /\ mainWait' = IF i \in gate[s] /\ gate[s] = {i} THEN mainWait \ {s} ELSE mainWait

\* A loop of the connection ends: on the flag, after an answer of its
\* channel, or because the channel fails.  The connection is over, and
\* leaves the gate, with the second of its loops (when_all).
WriterEnds(s, i) ==
  /\ proc = "up" /\ alive[s]
  /\ writer[s][i] = "sending"
  /\ writer' = [writer EXCEPT ![s][i] = "ended"]
  /\ IF reader[s][i] = "ended" THEN Leave(s, i) ELSE UNCHANGED <<gate, mainWait>>
  /\ UNCHANGED <<main, mainErr, exitVars, mail, alive, proc, interrupted, closed, reader>>

\* Variant: the connection is over with the first of its loops.
ReaderEndsLeaving(s, i) ==
  /\ proc = "up"
  /\ reader[s][i] = "receiving"
  /\ reader' = [reader EXCEPT ![s][i] = "ended"]
  /\ Leave(s, i)
  /\ UNCHANGED <<main, mainErr, exitVars, mail, alive, proc, interrupted, closed, writer>>

ReaderEnds(s, i) ==
  /\ proc = "up" /\ alive[s]
  /\ reader[s][i] = "receiving"
  /\ reader' = [reader EXCEPT ![s][i] = "ended"]
  /\ IF writer[s][i] = "ended" THEN Leave(s, i) ELSE UNCHANGED <<gate, mainWait>>
  /\ UNCHANGED <<main, mainErr, exitVars, mail, alive, proc, interrupted, closed, writer>>

\* A loop goes on, on an instance that has been destroyed.
LoopUsesDeadService(s, i) ==
  /\ proc = "up" /\ ~alive[s]
  /\ writer[s][i] = "sending" \/ reader[s][i] = "receiving"
  /\ proc' = "use_after_free"
  /\ UNCHANGED <<mainVars, exitVars, mail, alive, serviceVars>>

-----------------------------------------------------------------------------
\* stop(): sets the flag and returns.
StopByMain(s) ==
  /\ main = "stop"
  /\ Deliver(s, "main")
  /\ interrupted' = [interrupted EXCEPT ![s] = TRUE]
  /\ mainWait' = mainWait \ {s}
  /\ UNCHANGED <<main, mainErr, exitVars, alive, proc, gate, closed, writer, reader>>

\* Variant: stop() does not set the flag.
StopByExitForgets(s) ==
  /\ alive[s]
  /\ Deliver(s, "exit")
  /\ exitWait' = exitWait \ {s}
  /\ UNCHANGED <<mainVars, exit, exitErr, alive, proc, serviceVars>>

StopByExit(s) ==
  /\ alive[s]
  /\ Deliver(s, "exit")
  /\ interrupted' = [interrupted EXCEPT ![s] = TRUE]
  /\ exitWait' = exitWait \ {s}
  /\ UNCHANGED <<mainVars, exit, exitErr, alive, proc, gate, closed, writer, reader>>

AppStep ==
  /\ AppNext \/ \E s \in Shards : ExitMissesInstance(s)
  /\ UNCHANGED serviceVars

Signal == Interrupt /\ UNCHANGED serviceVars

Call(s) == RunUdp(s) \/ StopByMain(s) \/ StopByExit(s)

Next ==
  \/ AppStep \/ Signal
  \/ \E s \in Shards : Call(s)
  \/ \E s \in Shards, i \in Tasks : WriterEnds(s, i) \/ ReaderEnds(s, i) \/ LoopUsesDeadService(s, i)

Spec == Init /\ [][Next]_vars

(***************************************************************************)
(* The reactors run what is ready, and send() resolves in the end: an      *)
(* interrupted writing loop ends.  No datagram need come.                  *)
(***************************************************************************)
Fairness ==
  /\ WF_vars(AppStep)
  /\ \A s \in Shards : WF_vars(Call(s))
  /\ \A s \in Shards, i \in Tasks : WF_vars(interrupted[s] /\ WriterEnds(s, i))

FairSpec == Spec /\ Fairness

-----------------------------------------------------------------------------
Sending(s, i)   == writer[s][i] = "sending"
Receiving(s, i) == reader[s][i] = "receiving"
PortLost(s, i)  == reader[s][i] = "unbound"

\* The writing loop of a connection that has left the gate: handle_connection
\* threw past it because there was no channel to read from.
Orphan(s, i) == Sending(s, i) /\ reader[s][i] \in {"unbound", "failed"}

\* Only orphans outlive run_udp: when the report is collected, and later, no
\* other loop of any connection still uses its instance.
OnlyOrphansOutliveRun ==
  main \notin {"setup", "run"} =>
    \A s \in Shards, i \in Tasks : ~Receiving(s, i) /\ (Sending(s, i) => Orphan(s, i))

\* Only an orphan runs on a destroyed instance; that may happen without any
\* signal, but not before the report, which counts all other connections
\* to their end.
DeadServiceNeedsOrphan ==
  proc = "use_after_free" => Reported /\ \E s \in Shards, i \in Tasks : Orphan(s, i) /\ ~alive[s]

\* A connection loses its port to something that is no reading loop of its
\* process, or to a connection of its own process that is so far from it that
\* a uint16_t wraps in between: the shards' ranges of ports do not overlap
\* otherwise.
PortsLostToOthersOrWrap ==
  \A s \in Shards, i \in Tasks :
    PortLost(s, i) =>
      \/ MyPort(s, i) \in Others
      \/ \E t \in Shards, j \in Tasks :
           Index(s, i) - Index(t, j) >= PortT \/ Index(t, j) - Index(s, i) >= PortT

\* A signal comes while the benchmark runs, or before.
Signalled == exit = "stop" /\ main \in {"setup", "run", "report"}

\* Nothing but a receive() without a datagram keeps a signalled process from
\* its end: of two processes that are interrupted one after the other, the
\* second one may wait for ever, as the first has stopped sending.
OnlyIdleReceiveBlocksExit ==
  (\A s \in Shards : interrupted[s] ~> \A i \in Tasks : ~Receiving(s, i)) =>
    (Signalled ~> Reported /\ proc \in {"exited", "use_after_free"})

-----------------------------------------------------------------------------
Phase ==
  IF main \in {"setup", "run"} THEN "running" ELSE IF main = "report" THEN "over" ELSE "stopping"

Promise == INSTANCE GatedRun WITH
  Instances <- Shards, Operations <- Tasks, Awaited <- Tasks, phase <- Phase, running <- gate, live <- alive

\* Of the connections in its gate udp_duplex keeps the promise of GatedRun:
\* what can break it is outside the gate.
ImplementsGatedRun == Promise!Spec
=============================================================================
