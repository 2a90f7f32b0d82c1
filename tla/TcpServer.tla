----------------------------- MODULE TcpServer -----------------------------
(***************************************************************************)
(* The process of tcp_server (and of tcp_server_pingpong, whose service    *)
(* and main() are the same but for TCP_NODELAY): one throughput_service    *)
(* per shard, which accepts connections inside a gate until it is          *)
(* interrupted.  Each accepted connection runs its handler inside the same *)
(* gate, in the background; stop() raises the flag, aborts accept() and    *)
(* closes the gate.                                                        *)
(***************************************************************************)
EXTENDS AppMain

CONSTANTS
  Conns,       \* the connections clients open to one shard
  Acceptor,    \* the accept loop, as an operation inside the gate
  Faults,      \* whether listen() and accept() may fail by themselves
  GateAsserts  \* whether the build keeps the assertion in gate::close()

ASSUME AcceptorAssumption == Acceptor \notin Conns
ASSUME SwitchesAssumption == Faults \in BOOLEAN /\ GateAsserts \in BOOLEAN

VARIABLES
  interrupted,  \* per shard, interrupted_
  listener,     \* per shard, what listener_ points to
  acceptor,     \* per shard, the accept loop and its pending accept()
  task,         \* per shard and connection, its handler
  gate,         \* per shard, the operations inside gate_
  closed,       \* per shard, gate_.close() has been called
  closer        \* per shard, who waits for the gate to drain

serviceVars == <<interrupted, listener, acceptor, task, gate, closed, closer>>
vars == <<main, mainWait, mainErr, exit, exitWait, exitErr, mail, alive, proc,
          interrupted, listener, acceptor, task, gate, closed, closer>>

Init ==
  /\ AppInit
  /\ interrupted = [s \in Shards |-> FALSE]
  /\ listener = [s \in Shards |-> "null"]
  /\ acceptor = [s \in Shards |-> "none"]
  /\ task = [s \in Shards |-> [c \in Conns |-> "fresh"]]
  /\ gate = [s \in Shards |-> {}]
  /\ closed = [s \in Shards |-> FALSE]
  /\ closer = [s \in Shards |-> "none"]

TypeOK ==
  /\ AppTypeOK
  /\ interrupted \in [Shards -> BOOLEAN]
  /\ listener \in [Shards -> {"null", "live", "dangling"}]
  /\ acceptor \in [Shards -> {"none", "pending", "ready", "error", "stopped", "failed"}]
  /\ task \in [Shards -> [Conns -> {"fresh", "open", "ended"}]]
  /\ gate \in [Shards -> SUBSET (Conns \cup {Acceptor})]
  /\ closed \in [Shards -> BOOLEAN]
  /\ closer \in [Shards -> {"none", "main", "exit"}]

-----------------------------------------------------------------------------
(* run_tcp: the accept loop. *)

\* with_gate throws on a closed gate, and listen() may fail: the call fails.
RunTcpThrows(s) ==
  /\ main = "run"
  /\ Deliver(s, "main")
  /\ closed[s] \/ Faults
  /\ mainErr' = TRUE
  /\ mainWait' = mainWait \ {s}
  /\ UNCHANGED <<main, exitVars, alive, proc, serviceVars>>

RunTcp(s) ==
  /\ main = "run"
  /\ Deliver(s, "main")
  /\ ~closed[s]
  /\ gate' = [gate EXCEPT ![s] = @ \cup {Acceptor}]
  /\ listener' = [listener EXCEPT ![s] = "live"]
  /\ acceptor' = [acceptor EXCEPT ![s] = "pending"]
  /\ UNCHANGED <<mainVars, exitVars, alive, proc, interrupted, task, closed, closer>>

\* The pending accept() resolves with a connection, or with an error.
AcceptResolves(s) ==
  /\ proc = "up"
  /\ acceptor[s] = "pending"
  /\ \/ /\ \E c \in Conns : task[s][c] = "fresh"
        /\ acceptor' = [acceptor EXCEPT ![s] = "ready"]
     \/ /\ Faults
        /\ acceptor' = [acceptor EXCEPT ![s] = "error"]
  /\ UNCHANGED <<appVars, interrupted, listener, task, gate, closed, closer>>

\* The operation leaves the gate.  Out of a closed gate, the last one
\* resolves the future its closer holds.
Drains(s, op) == closed[s] /\ gate[s] \subseteq {op}
Leave(s, op) ==
  /\ gate' = [gate EXCEPT ![s] = @ \ {op}]
  /\ exitWait' = IF Drains(s, op) /\ closer[s] = "exit" THEN exitWait \ {s} ELSE exitWait

\* The loop is over: its listener dies with the do_with, listener_ remains.
LoopEnds(s, how) ==
  /\ acceptor' = [acceptor EXCEPT ![s] = how]
  /\ listener' = [listener EXCEPT ![s] = "dangling"]
  /\ Leave(s, Acceptor)
  /\ mainWait' = mainWait \ {s}
  /\ UNCHANGED <<main, exit, exitErr, mail, alive, proc, interrupted, task, closed, closer>>

\* The continuation of accept(), in its three branches.
AcceptSeesInterrupt(s) ==
  /\ proc = "up"
  /\ acceptor[s] \in {"ready", "error"}
  /\ interrupted[s]
  /\ LoopEnds(s, "stopped")
  /\ UNCHANGED mainErr

\* Variant: the flag is not looked at before the result of accept().
AcceptThrowsFirst(s) ==
  /\ proc = "up"
  /\ acceptor[s] = "error" \/ (acceptor[s] = "ready" /\ closed[s])
  /\ LoopEnds(s, "failed")
  /\ mainErr' = TRUE

\* Variant: a failing accept() ends the loop in silence.
AcceptThrowIgnored(s) ==
  /\ proc = "up"
  /\ ~interrupted[s]
  /\ acceptor[s] = "error" \/ (acceptor[s] = "ready" /\ closed[s])
  /\ LoopEnds(s, "failed")
  /\ UNCHANGED mainErr

AcceptThrows(s) ==
  /\ proc = "up"
  /\ ~interrupted[s]
  /\ acceptor[s] = "error" \/ (acceptor[s] = "ready" /\ closed[s])
  /\ LoopEnds(s, "failed")
  /\ mainErr' = TRUE

\* Variant: the handler runs outside the gate.
AcceptHandlesOutside(s) ==
  /\ proc = "up"
  /\ acceptor[s] = "ready"
  /\ ~interrupted[s] /\ ~closed[s]
  /\ \E c \in Conns :
       /\ task[s][c] = "fresh"
       /\ task' = [task EXCEPT ![s][c] = "open"]
  /\ acceptor' = [acceptor EXCEPT ![s] = "pending"]
  /\ UNCHANGED <<appVars, interrupted, listener, gate, closed, closer>>

\* Variant: a resolved accept() is handled although the shard is stopped.
AcceptHandlesLate(s) ==
  /\ proc = "up"
  /\ acceptor[s] = "ready"
  /\ \E c \in Conns :
       /\ task[s][c] = "fresh"
       /\ task' = [task EXCEPT ![s][c] = "open"]
       /\ gate' = [gate EXCEPT ![s] = @ \cup {c}]
  /\ acceptor' = [acceptor EXCEPT ![s] = "pending"]
  /\ UNCHANGED <<appVars, interrupted, listener, closed, closer>>

\* The branch that starts a handler, and the accept() of the next iteration.
\* A stop() may come between the two; it is then as if it came after them,
\* for Seastar makes an accept() fail that follows an abort_accept() as well
\* as the one that it finds pending.
AcceptHandles(s) ==
  /\ proc = "up"
  /\ acceptor[s] = "ready"
  /\ ~interrupted[s] /\ ~closed[s]
  /\ \E c \in Conns :
       /\ task[s][c] = "fresh"
       /\ task' = [task EXCEPT ![s][c] = "open"]
       /\ gate' = [gate EXCEPT ![s] = @ \cup {c}]
  /\ acceptor' = [acceptor EXCEPT ![s] = "pending"]
  /\ UNCHANGED <<appVars, interrupted, listener, closed, closer>>

\* The handler's future resolves, in either way.
HandlerEnds(s, c) ==
  /\ proc = "up"
  /\ task[s][c] = "open"
  /\ task' = [task EXCEPT ![s][c] = "ended"]
  /\ Leave(s, c)
  /\ mainWait' = IF Drains(s, c) /\ closer[s] = "main" THEN mainWait \ {s} ELSE mainWait
  /\ UNCHANGED <<main, mainErr, exit, exitErr, mail, alive, proc,
                 interrupted, listener, acceptor, closed, closer>>

-----------------------------------------------------------------------------
(* stop(), called by the at_exit hook and by sharded::stop. *)

StopCalled(s, caller) ==
  /\ alive[s]
  /\ caller = "main" => main = "stop"
  /\ Deliver(s, caller)

\* Variant: stop() leaves the pending accept() alone.
RaiseOnly(s) ==
  /\ interrupted' = [interrupted EXCEPT ![s] = TRUE]
  /\ UNCHANGED <<main, mainErr, exit, alive, listener, acceptor, task, gate>>

\* interrupted_ = true; if (listener_) listener_->abort_accept();
RaiseAndAbort(s) ==
  /\ interrupted' = [interrupted EXCEPT ![s] = TRUE]
  /\ acceptor' = IF listener[s] = "live" /\ acceptor[s] = "pending"
                   THEN [acceptor EXCEPT ![s] = "error"] ELSE acceptor
  /\ UNCHANGED <<main, mainErr, exit, alive, listener, task, gate>>

\* return gate_.close();
Stop(s, caller) ==
  /\ StopCalled(s, caller)
  /\ RaiseAndAbort(s)
  /\ ~closed[s]
  /\ closed' = [closed EXCEPT ![s] = TRUE]
  /\ closer' = [closer EXCEPT ![s] = caller]
  /\ exitWait' = IF gate[s] = {} /\ caller = "exit" THEN exitWait \ {s} ELSE exitWait
  /\ mainWait' = IF gate[s] = {} /\ caller = "main" THEN mainWait \ {s} ELSE mainWait
  /\ UNCHANGED <<exitErr, proc>>

\* Variant: the second stop() does not wait for the gate.
StopAgainAtOnce(s) ==
  /\ StopCalled(s, "main")
  /\ RaiseAndAbort(s)
  /\ closed[s]
  /\ mainWait' = mainWait \ {s}
  /\ exitWait' = exitWait \ {s}
  /\ UNCHANGED <<closer, closed, exitErr, proc>>

\* close() must not be called twice.  With its assertion the process ends;
\* without it the second future takes the place of the first, which breaks
\* if the gate had not drained.  The second call is always main()'s, which
\* stops the service once the hook has stopped every accept loop.
StopAgain(s) ==
  /\ StopCalled(s, "main")
  /\ RaiseAndAbort(s)
  /\ closed[s]
  /\ IF GateAsserts
       THEN proc' = "gate_assert" /\ UNCHANGED <<closer, mainWait, exitWait, exitErr>>
       ELSE /\ closer' = [closer EXCEPT ![s] = "main"]
            /\ mainWait' = IF gate[s] = {} THEN mainWait \ {s} ELSE mainWait
            /\ exitErr' = (exitErr \/ s \in exitWait)
            /\ exitWait' = exitWait \ {s}
            /\ UNCHANGED proc
  /\ UNCHANGED closed

\* abort_accept() on a destroyed listener is undefined: it may do nothing
\* (the two actions above), or end the process.
StopUsesDeadListener(s, caller) ==
  /\ StopCalled(s, caller)
  /\ listener[s] = "dangling"
  /\ proc' = "use_after_free"
  /\ interrupted' = [interrupted EXCEPT ![s] = TRUE]
  /\ UNCHANGED <<mainVars, exitVars, alive, listener, acceptor, task, gate, closed, closer>>

AppStep == (AppNext \/ MainFail) /\ UNCHANGED serviceVars
Signal  == Interrupt /\ UNCHANGED serviceVars
Call(s) ==
  \/ RunTcp(s) \/ RunTcpThrows(s) \/ StopAgain(s)
  \/ \E caller \in {"main", "exit"} : Stop(s, caller) \/ StopUsesDeadListener(s, caller)
Accepted(s) == AcceptSeesInterrupt(s) \/ AcceptThrows(s) \/ AcceptHandles(s)

Next ==
  \/ AppStep \/ Signal
  \/ \E s \in Shards : Call(s) \/ AcceptResolves(s) \/ Accepted(s)
  \/ \E s \in Shards, c \in Conns : HandlerEnds(s, c)

Spec == Init /\ [][Next]_vars

(***************************************************************************)
(* The reactors keep running what is ready.  Nothing forces a client to    *)
(* connect, a signal to come, or a handler to end.                         *)
(***************************************************************************)
Fairness ==
  /\ WF_vars(AppStep)
  /\ \A s \in Shards : WF_vars(Call(s)) /\ WF_vars(Accepted(s))

FairSpec == Spec /\ Fairness

-----------------------------------------------------------------------------
Open(s)      == {c \in Conns : task[s][c] = "open"}
Accepting(s) == acceptor[s] \in {"pending", "ready", "error"}

\* The gate of a shard tracks its accept loop and exactly the connections it
\* has accepted and not finished: "The gate to track background operations"
\* (tcp_server.cpp:144).
GateTracksOperations ==
  \A s \in Shards : gate[s] = Open(s) \cup (IF Accepting(s) THEN {Acceptor} ELSE {})

\* Once stop() has closed the gate of a shard, no operation enters it: the
\* continuation of an accept() that had already resolved looks at
\* interrupted_ before it starts a handler.
ClosedGateOnlyDrains == [][\A s \in Shards : closed[s] => gate'[s] \subseteq gate[s]]_vars

\* Without a failure of listen() or accept(), a signal costs the report only
\* if it comes before any shard listens: run_tcp then meets a closed gate.
ReportLostOnlyByEarlySignal ==
  ~Faults => (main = "failed" => \A s \in Shards : listener[s] = "null")

\* Without such a failure, the second stop() of an instance, which closes a
\* closed gate through a listener that is gone, comes after the report.
CrashOnlyAfterReport ==
  ~Faults => (proc \in {"gate_assert", "use_after_free"} => Reported)

\* An instance is destroyed only when neither its accept loop nor one of its
\* handlers is running, whatever stop() did the second time.
NoUseAfterDestroy == \A s \in Shards : ~alive[s] => gate[s] = {}

\* A process hangs in its exit tasks only after the report: what breaks the
\* hook's future is the second close().
HangOnlyAfterReport == exitErr \/ exit = "stuck" => Reported

\* One shard's listen() or accept() failing does not end the process: the
\* chain fails only when no shard accepts any more.
FailureWaitsForAllLoops == main = "failed" => \A s \in Shards : ~Accepting(s)

\* A shard whose accept loop failed costs the report of all shards.
FailureLosesReport == Reported => \A s \in Shards : acceptor[s] # "failed"

\* The report does not wait for the handlers, which may go on counting while
\* it is collected; but each shard has told its own to stop by then, so that
\* a handler adds no more than the packets it has in hand.
HandlersToldBeforeReport ==
  main \notin {"setup", "run", "failed"} => \A s \in Shards : interrupted[s]

\* The abstract process of GatedRun: a run that fails ends without its
\* report, and its instances are never destroyed.
Phase ==
  IF main \in {"setup", "run"} THEN "running"
  ELSE IF main \in {"report", "failed"} THEN "over" ELSE "stopping"

Promise == INSTANCE GatedRun WITH
  Instances <- Shards, Operations <- Conns \cup {Acceptor}, Awaited <- {Acceptor},
  phase <- Phase, running <- gate, live <- alive

\* Of its gates the server keeps the promise of GatedRun, in which the run
\* waits for the accept loops alone: no handler starts once they are over,
\* if need be because one of them failed, and no instance is destroyed with
\* anything in its gate, although gates may be closed twice.
ImplementsGatedRun == Promise!Spec

\* Nothing can happen any more but a signal, an event of a listening socket,
\* or the end of a handler.
Standstill ==
  /\ proc = "up"
  /\ ~(ChainMoves \/ TimerWaits \/ CallWaits \/ ExitMoves)
  /\ \A s \in Shards : acceptor[s] \notin {"ready", "error"}

\* A server process, whatever fails in it, comes to rest in three ways only.
\* It listens and nobody has interrupted it; or its run has failed, the hook
\* was called, and a handler goes on although it was told to end; or the
\* second close of a gate has broken the hook's future, and the exit tasks
\* hang behind the report.
HandlerIgnoresStop == \E s \in Shards : Open(s) # {} /\ interrupted[s]
RestsForAReason ==
  Standstill =>
    \/ main = "run" /\ exit = "idle" /\ \E s \in Shards : acceptor[s] = "pending"
    \/ main = "failed" /\ exit = "stop" /\ HandlerIgnoresStop
    \/ exit = "stuck" /\ (main = "done" \/ (main = "stop" /\ HandlerIgnoresStop))

\* A signal that finds every shard listening leads to the report, no matter
\* how long the accepted connections last, if listen() and accept() do not
\* fail.
SignalLeadsToReport ==
  (exit = "stop" /\ \A s \in Shards : listener[s] = "live") ~> Reported

\* "Ensures that all background operations are completed before stopping the
\* server" (tcp_server.cpp:144).
CompletedBeforeStopping == proc # "up" => \A s \in Shards : gate[s] = {}
=============================================================================
