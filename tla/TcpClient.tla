----------------------------- MODULE TcpClient -----------------------------
(***************************************************************************)
(* The process of tcp_client (and of tcp_client_pingpong, whose service    *)
(* and main() differ only in handle_connection): one throughput_service    *)
(* per shard, which opens its connections inside a gate and resolves       *)
(* run_tcp when the gate has drained.  What a handler does on its socket   *)
(* is the subject of TcpDuplex and TcpPingPong; here it is an operation    *)
(* that begins, uses the instance, and ends.                               *)
(***************************************************************************)
EXTENDS AppMain

CONSTANT Tasks  \* the connections of one shard, 0 .. CONCURRENT_CONNECTIONS - 1

VARIABLES
  interrupted,  \* per shard, interrupted_
  gate,         \* per shard, the operations inside gate_
  closed,       \* per shard, gate_.close() has been called
  task          \* per shard and connection, how far its future chain is

serviceVars == <<interrupted, gate, closed, task>>
vars == <<main, mainWait, mainErr, exit, exitWait, exitErr, mail, alive, proc,
          interrupted, gate, closed, task>>

TaskStates == {"none", "connecting", "open", "ended"}

Init ==
  /\ AppInit
  /\ interrupted = [s \in Shards |-> FALSE]
  /\ gate = [s \in Shards |-> {}]
  /\ closed = [s \in Shards |-> FALSE]
  /\ task = [s \in Shards |-> [i \in Tasks |-> "none"]]

TypeOK ==
  /\ AppTypeOK
  /\ interrupted \in [Shards -> BOOLEAN]
  /\ gate \in [Shards -> SUBSET Tasks]
  /\ closed \in [Shards -> BOOLEAN]
  /\ task \in [Shards -> [Tasks -> TaskStates]]

\* Variant: run_tcp does not wait for the gate.
RunTcpDetached(s) ==
  /\ main = "run"
  /\ Deliver(s, "main")
  /\ task' = [task EXCEPT ![s] = [i \in Tasks |-> "connecting"]]
  /\ gate' = [gate EXCEPT ![s] = Tasks]
  /\ closed' = [closed EXCEPT ![s] = TRUE]
  /\ mainWait' = mainWait \ {s}
  /\ UNCHANGED <<main, mainErr, exitVars, alive, proc, interrupted>>

\* run_tcp: every connection enters the gate and starts to connect; the
\* call resolves when the gate, closed at once, is empty.
RunTcp(s) ==
  /\ main = "run"
  /\ Deliver(s, "main")
  /\ task' = [task EXCEPT ![s] = [i \in Tasks |-> "connecting"]]
  /\ gate' = [gate EXCEPT ![s] = Tasks]
  /\ closed' = [closed EXCEPT ![s] = TRUE]
  /\ mainWait' = IF Tasks = {} THEN mainWait \ {s} ELSE mainWait
  /\ UNCHANGED <<main, mainErr, exitVars, alive, proc, interrupted>>

\* connect() resolves and handle_connection starts.
Connected(s, i) ==
  /\ proc = "up"
  /\ task[s][i] = "connecting"
  /\ task' = [task EXCEPT ![s][i] = "open"]
  /\ UNCHANGED <<appVars, interrupted, gate, closed>>

\* The operation leaves the gate; the last one out of a closed gate resolves
\* the future of close(), which is the run_tcp call of main().
Leave(s, i) ==
  /\ gate' = [gate EXCEPT ![s] = @ \ {i}]
  /\ mainWait' = IF closed[s] /\ gate[s] \subseteq {i} THEN mainWait \ {s} ELSE mainWait

\* connect() fails, or the handler's future resolves in either way: the
\* exception is discarded with the future.
TaskEnds(s, i) ==
  /\ proc = "up"
  /\ task[s][i] \in {"connecting", "open"}
  /\ task' = [task EXCEPT ![s][i] = "ended"]
  /\ Leave(s, i)
  /\ UNCHANGED <<main, mainErr, exitVars, mail, alive, proc, interrupted, closed>>

\* stop(): sets the flag and returns.
StopByMain(s) ==
  /\ main = "stop"
  /\ Deliver(s, "main")
  /\ interrupted' = [interrupted EXCEPT ![s] = TRUE]
  /\ mainWait' = mainWait \ {s}
  /\ UNCHANGED <<main, mainErr, exitVars, alive, proc, gate, closed, task>>

\* Variant: stop() does not set the flag.
StopByExitForgets(s) ==
  /\ alive[s]
  /\ Deliver(s, "exit")
  /\ exitWait' = exitWait \ {s}
  /\ UNCHANGED <<mainVars, exit, exitErr, alive, proc, interrupted, gate, closed, task>>

StopByExit(s) ==
  /\ alive[s]
  /\ Deliver(s, "exit")
  /\ interrupted' = [interrupted EXCEPT ![s] = TRUE]
  /\ exitWait' = exitWait \ {s}
  /\ UNCHANGED <<mainVars, exit, exitErr, alive, proc, gate, closed, task>>

AppStep ==
  /\ AppNext \/ \E s \in Shards : ExitMissesInstance(s)
  /\ UNCHANGED serviceVars

Signal == Interrupt /\ UNCHANGED serviceVars

Next ==
  \/ AppStep \/ Signal
  \/ \E s \in Shards : RunTcp(s) \/ StopByMain(s) \/ StopByExit(s)
  \/ \E s \in Shards, i \in Tasks : Connected(s, i) \/ TaskEnds(s, i)

Spec == Init /\ [][Next]_vars

(***************************************************************************)
(* The reactors keep running what is ready: every step of the chain and of *)
(* the exit tasks happens, except that a signal need never come.  A        *)
(* connect() resolves in the end (the kernel gives up).  Nothing makes a   *)
(* handler end, not even stop(): a write, a close or a read waits for the  *)
(* peer, without a timeout.  TcpDuplex and TcpPingPong say when it does.   *)
(***************************************************************************)
Fairness ==
  /\ WF_vars(AppStep)
  /\ \A s \in Shards : WF_vars(RunTcp(s) \/ StopByMain(s) \/ StopByExit(s))
  /\ \A s \in Shards, i \in Tasks :
       WF_vars(task[s][i] = "connecting" /\ (Connected(s, i) \/ TaskEnds(s, i)))

FairSpec == Spec /\ Fairness

-----------------------------------------------------------------------------
Active(s) == {i \in Tasks : task[s][i] \in {"connecting", "open"}}
Open(s)   == {i \in Tasks : task[s][i] = "open"}

\* The report is collected, and then the instances are stopped and
\* destroyed, only when no connection of any shard is still using its
\* instance: counters cannot move under the report, and no continuation
\* runs on a destroyed throughput_service (tcp_client.cpp, run_tcp
\* returning gate_.close()).
DrainedBeforeReport ==
  main \in {"report", "stop", "clear", "done"} => \A s \in Shards : Active(s) = {}

\* The gate of a live instance holds exactly the operations in progress.
GateHoldsActive == \A s \in Shards : gate[s] = Active(s)

\* A process hangs in its exit tasks only if the signal came so late that
\* the report was already written.
StuckOnlyAfterReport == exit = "stuck" \/ exitErr => main \in {"clear", "done"}

\* Nothing can happen any more but a signal, or the end of a handler.
Connecting == \E s \in Shards, i \in Tasks : task[s][i] = "connecting"
Standstill == proc = "up" /\ ~(ChainMoves \/ TimerWaits \/ CallWaits \/ ExitMoves \/ Connecting)

\* main() waits in the benchmark for the shards with a running handler, and
\* for those only.
WaitsForHandlers == main = "run" /\ mainWait # {} /\ mainWait = {s \in Shards : Open(s) # {}}
AllTold == \A s \in Shards : interrupted[s]

\* A client process comes to rest in three ways only: in handlers that
\* nobody has interrupted; in handlers that go on although every shard was
\* told to end, as they do for ever in the jam of TcpDuplex or TcpPingPong;
\* or in its exit tasks, when the chain of main() is done and the hook met
\* an instance that was gone.
RestsForAReason ==
  Standstill =>
    \/ WaitsForHandlers /\ (exit = "idle" \/ (exit = "stop" /\ AllTold))
    \/ main = "done" /\ exit = "stuck"

\* After a signal that comes before sharded::stop destroys the instances the
\* process rests in handlers that were told to end and nowhere else, however
\* its shards interleave the calls of main() and of the hook: in particular
\* its exit tasks never hang.
SignalInTime == exit = "stop" /\ main \in {"setup", "run", "report", "stop"}
SignalInTimeRestsInHandlers == [](SignalInTime => [](Standstill => WaitsForHandlers /\ AllTold))

\* Only a handler that goes on although it was told to end keeps a process
\* that got such a signal from a clean exit, with the report written and
\* every instance destroyed before the sharded<> is.
OnlyHandlersBlockExit ==
  (\A s \in Shards : interrupted[s] ~> Open(s) = {}) => (SignalInTime ~> proc = "exited" /\ main = "done")

-----------------------------------------------------------------------------
\* The abstract process of GatedRun: the first two stages run operations,
\* the third reports, and the rest stop the service.
Phase ==
  IF main \in {"setup", "run"} THEN "running" ELSE IF main = "report" THEN "over" ELSE "stopping"
Running == [s \in Shards |-> Active(s)]

Promise == INSTANCE GatedRun WITH
  Instances <- Shards, Operations <- Tasks, Awaited <- Tasks, phase <- Phase, running <- Running, live <- alive

\* tcp_client keeps the promise of GatedRun: operations begin only before
\* the report, the report finds an idle service, and instances go last.
ImplementsGatedRun == Promise!Spec
=============================================================================
