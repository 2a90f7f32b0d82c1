-------------------------- MODULE TcpClientProofs --------------------------
(***************************************************************************)
(* Proofs about TcpClient, for all sets of shards and connections.         *)
(***************************************************************************)
EXTENDS TcpClient, AppMainProofs

-----------------------------------------------------------------------------
(***************************************************************************)
(* The inductive invariant.  DrainedBeforeReport is not inductive: it      *)
(* needs that main() waits for every shard whose gate is not empty.        *)
(***************************************************************************)

\* The calls of the client's chain do not fail.
ChainSucceeds == ~mainErr /\ main # "failed"

\* Operations are inside a gate only while main() waits for that shard's
\* run_tcp, which has then closed the gate.
GatesFilledInRun ==
  \A s \in Shards : gate[s] # {} => main = "run" /\ s \in mainWait /\ ~MainPosted(s) /\ closed[s]

\* Instances are destroyed by the last stage of the chain only.
GoneAtTheEnd ==
  \A s \in Shards : ~alive[s] => main \in {"clear", "done"} /\ ~MainPosted(s)

IInv ==
  /\ TypeOK
  /\ CallsAreAwaited
  /\ ChainSucceeds
  /\ GatesFilledInRun
  /\ GateHoldsActive
  /\ GoneAtTheEnd
  /\ exitErr \/ exit = "stuck" => main \in {"clear", "done"}

LEMMA InitInv == Init => IInv
<1> SUFFICES ASSUME Init PROVE IInv
  OBVIOUS
<1> USE DEF Init, AppInit
<1>1. TypeOK
  BY DEF TypeOK, AppTypeOK, TaskStates, Following, Finished
<1>2. \A s \in Shards : MainPosted(s) /\ ~ExitPosted(s)
  BY MailsDiffer DEF MainPosted, ExitPosted
<1>3. \A s \in Shards : gate[s] = {} /\ Active(s) = {} /\ alive[s]
  BY DEF Active
<1> QED
  BY <1>1, <1>2, <1>3
     DEF IInv, CallsAreAwaited, ChainSucceeds, GatesFilledInRun, GateHoldsActive, GoneAtTheEnd

LEMMA StepInv == IInv /\ [Next]_vars => IInv'
<1> SUFFICES ASSUME IInv, [Next]_vars PROVE IInv'
  OBVIOUS
<1> USE DEF IInv, TypeOK, AppTypeOK, Mails, Following, Finished, Ends, TaskStates, CallsAreAwaited,
            ChainSucceeds, GatesFilledInRun, GateHoldsActive, GoneAtTheEnd, Active,
            mainVars, exitVars, appVars, serviceVars
<1>0. mail \in [Shards -> Mails]
  OBVIOUS
<1>1. CASE MainThen /\ UNCHANGED serviceVars
  BY <1>0, <1>1, PostMain DEF MainThen
<1>2. CASE MainDone /\ UNCHANGED serviceVars
  BY <1>2, KeepMail DEF MainDone
<1>3. CASE StartExit /\ UNCHANGED serviceVars
  BY <1>0, <1>3, PostExit, KeepMail DEF StartExit
<1>4. CASE (ExitStuck \/ ExitDone) /\ UNCHANGED serviceVars
  BY <1>4, KeepMail DEF ExitStuck, ExitDone
<1>5. ASSUME NEW s \in Shards, SetupReporter(s) \/ Collect(s), UNCHANGED serviceVars PROVE IInv'
  BY <1>0, <1>5, DeliverMain DEF SetupReporter, Collect
<1>6. ASSUME NEW s \in Shards, ReporterArmed(s), UNCHANGED serviceVars PROVE IInv'
  BY <1>6, KeepMail, MailsDiffer DEF ReporterArmed, MainPosted
<1>7. ASSUME NEW s \in Shards, Destroy(s), UNCHANGED serviceVars PROVE IInv'
  BY <1>0, <1>7, DeliverMain DEF Destroy
<1>8. ASSUME NEW s \in Shards, ExitMissesInstance(s), UNCHANGED serviceVars PROVE IInv'
  BY <1>0, <1>8, DeliverExit DEF ExitMissesInstance
<1>9. ASSUME NEW s \in Shards, RunTcp(s) PROVE IInv'
  BY <1>0, <1>9, DeliverMain DEF RunTcp
<1>10. ASSUME NEW s \in Shards, StopByMain(s) PROVE IInv'
  BY <1>0, <1>10, DeliverMain DEF StopByMain
<1>11. ASSUME NEW s \in Shards, StopByExit(s) PROVE IInv'
  BY <1>0, <1>11, DeliverExit DEF StopByExit
<1>12. ASSUME NEW s \in Shards, NEW i \in Tasks, Connected(s, i) PROVE IInv'
  BY <1>12, KeepMail DEF Connected
<1>13. ASSUME NEW s \in Shards, NEW i \in Tasks, TaskEnds(s, i) PROVE IInv'
  BY <1>13, KeepMail DEF TaskEnds, Leave
<1>14. CASE UNCHANGED vars
  BY <1>14, KeepMail DEF vars
<1> QED
  BY <1>1, <1>2, <1>3, <1>4, <1>5, <1>6, <1>7, <1>8, <1>9, <1>10, <1>11, <1>12, <1>13, <1>14
     DEF Next, AppStep, AppNext, Signal, Interrupt, ExitAfterMain

LEMMA Inv == Spec => []IInv
  BY InitInv, StepInv, PTL DEF Spec

\* The state of a client process is what its declarations say, and a shard
\* never has more than one call of main() and one of the hook to start.
THEOREM TypeCorrect == Spec => []TypeOK
<1>1. IInv => TypeOK
  BY DEF IInv
<1> QED
  BY <1>1, Inv, PTL

\* The gate of each shard holds the connections in progress, and no other.
THEOREM GateCorrect == Spec => []GateHoldsActive
<1>1. IInv => GateHoldsActive
  BY DEF IInv
<1> QED
  BY <1>1, Inv, PTL

\* No connection runs when the report is collected or an instance destroyed
\* (tcp_client.cpp:40, run_tcp resolves when its gate has drained).
THEOREM ReportIsQuiet == Spec => []DrainedBeforeReport
<1>1. IInv => DrainedBeforeReport
  BY DEF IInv, GatesFilledInRun, GateHoldsActive, DrainedBeforeReport
<1> QED
  BY <1>1, Inv, PTL

\* A signal makes the process hang only when the report was written.
THEOREM StuckIsLate == Spec => []StuckOnlyAfterReport
<1>1. IInv => StuckOnlyAfterReport
  BY DEF IInv, StuckOnlyAfterReport
<1> QED
  BY <1>1, Inv, PTL

-----------------------------------------------------------------------------
(***************************************************************************)
(* When the process comes to rest.  What main() and the hook wait for is a *)
(* call that was posted, a timer or a gate with something in it, and every *)
(* shard of a run is told of the hook.                                     *)
(***************************************************************************)
CallsResolve ==
  \A s \in Shards :
    /\ s \in mainWait /\ ~MainPosted(s) => main = "setup" \/ (main = "run" /\ gate[s] # {} /\ closed[s])
    /\ s \in exitWait => ExitPosted(s)

HookTold ==
  exit # "idle" /\ main \in {"setup", "run"} => \A s \in Shards : ExitPosted(s) \/ interrupted[s]

LEMMA InitCalls == Init => CallsResolve /\ HookTold
<1> SUFFICES ASSUME Init PROVE CallsResolve /\ HookTold
  OBVIOUS
<1> QED
  BY DEF Init, AppInit, CallsResolve, HookTold

LEMMA StepCalls == IInv /\ CallsResolve /\ HookTold /\ [Next]_vars => CallsResolve' /\ HookTold'
<1> SUFFICES ASSUME IInv, CallsResolve, HookTold, [Next]_vars PROVE CallsResolve' /\ HookTold'
  OBVIOUS
<1> USE DEF CallsResolve, HookTold, Following, Finished, mainVars, exitVars, appVars, serviceVars
<1>0. /\ mail \in [Shards -> Mails] /\ mainWait \subseteq Shards
      /\ interrupted \in [Shards -> BOOLEAN]
      /\ gate \in [Shards -> SUBSET Tasks] /\ closed \in [Shards -> BOOLEAN]
  BY DEF IInv, TypeOK, AppTypeOK, Mails
<1>1. CASE MainThen /\ UNCHANGED serviceVars
  <2>1. \A s \in Shards : ~MainPosted(s)
    BY <1>1 DEF MainThen, IInv, CallsAreAwaited
  <2> QED
    BY <1>0, <1>1, <2>1, PostMain DEF MainThen
<1>2. CASE (MainDone \/ ExitStuck \/ ExitDone) /\ UNCHANGED serviceVars
  BY <1>2, KeepMail DEF MainDone, ExitStuck, ExitDone
<1>3. CASE StartExit /\ UNCHANGED serviceVars
  <2>1. \A s \in Shards : ~ExitPosted(s)
    BY <1>3 DEF StartExit, IInv, CallsAreAwaited
  <2>2. CASE main = "done"
    BY <1>3, <2>2, KeepMail DEF StartExit
  <2>3. CASE main # "done"
    BY <1>0, <1>3, <2>1, <2>3, PostExit DEF StartExit
  <2> QED
    BY <2>2, <2>3
<1>4. ASSUME NEW s \in Shards, SetupReporter(s) \/ Collect(s) \/ Destroy(s), UNCHANGED serviceVars
      PROVE  CallsResolve' /\ HookTold'
  BY <1>0, <1>4, DeliverMain DEF SetupReporter, Collect, Destroy
<1>5. ASSUME NEW s \in Shards, ReporterArmed(s), UNCHANGED serviceVars PROVE CallsResolve' /\ HookTold'
  BY <1>5, KeepMail DEF ReporterArmed
<1>6. ASSUME NEW s \in Shards, (ExitMissesInstance(s) /\ UNCHANGED serviceVars) \/ StopByExit(s)
      PROVE  CallsResolve' /\ HookTold'
  <2>1. /\ UNCHANGED <<main, mainWait, exit, gate, closed>> /\ Deliver(s, "exit")
        /\ exitWait' = exitWait \ {s}
    BY <1>6 DEF ExitMissesInstance, StopByExit
  <2>2. main \in {"setup", "run"} => interrupted' = [interrupted EXCEPT ![s] = TRUE]
    BY <1>6 DEF ExitMissesInstance, StopByExit, IInv, GoneAtTheEnd
  <2>3. CallsResolve'
    BY <1>0, <2>1, DeliverExit
  <2>4. HookTold'
    BY <1>0, <2>1, <2>2, DeliverExit
  <2> QED
    BY <2>3, <2>4
<1>7. ASSUME NEW s \in Shards, RunTcp(s) PROVE CallsResolve' /\ HookTold'
  BY <1>0, <1>7, DeliverMain DEF RunTcp
<1>8. ASSUME NEW s \in Shards, StopByMain(s) PROVE CallsResolve' /\ HookTold'
  BY <1>0, <1>8, DeliverMain DEF StopByMain
<1>9. ASSUME NEW s \in Shards, NEW i \in Tasks, Connected(s, i) PROVE CallsResolve' /\ HookTold'
  BY <1>9, KeepMail DEF Connected
<1>10. ASSUME NEW s \in Shards, NEW i \in Tasks, TaskEnds(s, i) PROVE CallsResolve' /\ HookTold'
  BY <1>0, <1>10, KeepMail DEF TaskEnds, Leave
<1>11. CASE UNCHANGED vars
  BY <1>11, KeepMail DEF vars
<1> QED
  BY <1>1, <1>2, <1>3, <1>4, <1>5, <1>6, <1>7, <1>8, <1>9, <1>10, <1>11
     DEF Next, AppStep, AppNext, Signal, Interrupt, ExitAfterMain

LEMMA CallsInv == Spec => [](CallsResolve /\ HookTold)
  BY InitCalls, StepCalls, Inv, PTL DEF Spec

LEMMA RestsHaveReason == IInv /\ CallsResolve /\ HookTold => RestsForAReason
<1> SUFFICES ASSUME IInv, CallsResolve, HookTold, Standstill
             PROVE  \/ WaitsForHandlers /\ (exit = "idle" \/ (exit = "stop" /\ AllTold))
                    \/ main = "done" /\ exit = "stuck"
  BY DEF RestsForAReason
<1>1. \A s \in Shards : mail[s] = <<>> /\ ~MainPosted(s) /\ ~ExitPosted(s)
  BY MailsDiffer DEF Standstill, CallWaits, MainPosted, ExitPosted
<1>2. exitWait = {}
  BY <1>1 DEF CallsResolve, IInv, TypeOK, AppTypeOK
<1>3. mainWait \subseteq Shards /\ main \in {"setup", "run", "report", "stop", "clear", "done"}
      /\ exit \in {"idle", "stop", "stuck"}
  BY DEF IInv, TypeOK, AppTypeOK, ChainSucceeds, Following, Finished
<1>4. CASE main \in {"setup", "report", "stop", "clear"}
  <2>1. mainWait # {}
    BY <1>4 DEF Standstill, ChainMoves, Following
  <2> QED
    BY <1>1, <1>3, <1>4, <2>1 DEF Standstill, TimerWaits, CallsResolve
<1>5. CASE main = "run"
  <2>1. mainWait # {}
    BY <1>5 DEF Standstill, ChainMoves, Following
  <2>2. \A s \in Shards : gate[s] = Open(s)
    BY DEF IInv, GateHoldsActive, Active, Open, Standstill, Connecting
  <2>3. \A s \in Shards : s \in mainWait <=> gate[s] # {}
    BY <1>1, <1>5 DEF CallsResolve, IInv, GatesFilledInRun
  <2>4. WaitsForHandlers
    BY <1>3, <1>5, <2>1, <2>2, <2>3 DEF WaitsForHandlers
  <2>5. exit # "idle" => AllTold
    BY <1>1, <1>5 DEF HookTold, AllTold
  <2>6. exit # "stuck"
    BY <1>5 DEF IInv
  <2> QED
    BY <1>3, <2>4, <2>5, <2>6
<1>6. CASE main = "done"
  BY <1>2, <1>3, <1>6 DEF Standstill, ExitMoves, Finished
<1> QED
  BY <1>3, <1>4, <1>5, <1>6

\* A client process comes to rest in handlers nobody has interrupted, in
\* handlers that ignore their stop, or in its exit tasks once the chain is
\* done (tcp_client.cpp:82-110, the loops of a handler, and 164-188, the
\* at_exit hook and the chain).
THEOREM RestsCorrect == Spec => []RestsForAReason
  BY RestsHaveReason, Inv, CallsInv, PTL

-----------------------------------------------------------------------------
(***************************************************************************)
(* A signal in time.  Its calls are in the mails before those that destroy *)
(* the instances, and stay ahead of them.                                  *)
(***************************************************************************)
HookAhead ==
  /\ exit = "stop" /\ ~exitErr
  /\ \A s \in Shards :
       main \in {"clear", "done"} /\ ExitPosted(s) => alive[s] /\ (MainPosted(s) => HookFirst(s))

LEMMA StepAhead == IInv /\ HookAhead /\ [Next]_vars => HookAhead'
<1> SUFFICES ASSUME IInv, HookAhead, [Next]_vars PROVE HookAhead'
  OBVIOUS
<1> USE DEF HookAhead, Following, Finished, mainVars, exitVars, appVars, serviceVars
<1>0. /\ mail \in [Shards -> Mails] /\ alive \in [Shards -> BOOLEAN] /\ GoneAtTheEnd
  BY DEF IInv, TypeOK, AppTypeOK, Mails
<1>1. CASE MainThen /\ UNCHANGED serviceVars
  <2>1. \A s \in Shards : ~MainPosted(s)
    BY <1>1 DEF MainThen, IInv, CallsAreAwaited
  <2>2. \A s \in Shards : alive[s]
    BY <1>0, <1>1 DEF MainThen, GoneAtTheEnd
  <2> QED
    BY <1>0, <1>1, <2>1, <2>2, MainPosts DEF MainThen
<1>2. CASE MainDone /\ UNCHANGED serviceVars
  BY <1>2, KeepMail, OrderKept DEF MainDone
<1>3. CASE StartExit \/ ExitStuck
  BY <1>3 DEF StartExit, ExitStuck
<1>4. CASE ExitDone
  BY <1>4, KeepMail, OrderKept DEF ExitDone
<1>5. ASSUME NEW s \in Shards, SetupReporter(s) \/ Collect(s) \/ RunTcp(s) \/ StopByMain(s) PROVE HookAhead'
  BY <1>5 DEF SetupReporter, Collect, RunTcp, StopByMain
<1>6. ASSUME NEW s \in Shards, ReporterArmed(s) PROVE HookAhead'
  BY <1>6 DEF ReporterArmed
<1>7. ASSUME NEW s \in Shards, Destroy(s) PROVE HookAhead'
  BY <1>0, <1>7, DeliverMain, MainStarts DEF Destroy
<1>8. ASSUME NEW s \in Shards, ExitMissesInstance(s) PROVE FALSE
  BY <1>0, <1>8, DeliverExit DEF ExitMissesInstance, GoneAtTheEnd
<1>9. ASSUME NEW s \in Shards, StopByExit(s) PROVE HookAhead'
  BY <1>0, <1>9, DeliverExit, HookStarts DEF StopByExit
<1>10. ASSUME NEW s \in Shards, NEW i \in Tasks, Connected(s, i) \/ TaskEnds(s, i) PROVE HookAhead'
  BY <1>10, KeepMail, OrderKept DEF Connected, TaskEnds
<1>11. CASE UNCHANGED vars
  BY <1>11, KeepMail, OrderKept DEF vars
<1> QED
  BY <1>1, <1>2, <1>3, <1>4, <1>5, <1>6, <1>7, <1>8, <1>9, <1>10, <1>11
     DEF Next, AppStep, AppNext, Signal, Interrupt, ExitAfterMain

\* After a signal that comes before sharded::stop destroys the instances the
\* process rests in handlers that were told to end, and nowhere else: what
\* is left to OnlyHandlersBlockExit is that those handlers end.
THEOREM SignalInTimeCorrect == Spec => SignalInTimeRestsInHandlers
<1>1. IInv /\ SignalInTime => HookAhead
  BY DEF IInv, SignalInTime, HookAhead
<1>2. RestsForAReason /\ HookAhead => (Standstill => WaitsForHandlers /\ AllTold)
  BY DEF RestsForAReason, HookAhead
<1> QED
  BY <1>1, <1>2, StepAhead, RestsCorrect, Inv, PTL DEF Spec, SignalInTimeRestsInHandlers

-----------------------------------------------------------------------------
(***************************************************************************)
(* The client implements GatedRun: each step is one of its steps, or       *)
(* leaves its state alone.                                                 *)
(***************************************************************************)
LEMMA PromiseInit == Init => Promise!Init
<1> SUFFICES ASSUME Init PROVE Phase = "running" /\ Running = [s \in Shards |-> {}] /\ alive = [s \in Shards |-> TRUE]
  BY DEF Promise!Init, Phase, Running
<1> QED
  BY DEF Init, AppInit, Phase, Running, Active

\* What leaves the connections, the instances and the phase alone is a
\* stuttering step of the promise.
LEMMA PromiseStutters ==
  ASSUME UNCHANGED <<task, alive>>, Phase' = Phase
  PROVE  UNCHANGED Promise!vars
  BY DEF Promise!vars, Phase, Running, Active

LEMMA PromiseStep == IInv /\ [Next]_vars => [Promise!Next]_Promise!vars
<1> SUFFICES ASSUME IInv, [Next]_vars PROVE Promise!Next \/ UNCHANGED Promise!vars
  OBVIOUS
<1> USE DEF serviceVars, mainVars, exitVars, appVars
<1>1. CASE MainThen /\ UNCHANGED serviceVars
  <2>0. task' = task /\ alive' = alive /\ main \in DOMAIN Following /\ main' = Following[main]
    BY <1>1 DEF MainThen
  <2>1. CASE main = "run"
    <3>1. \A s \in Shards : Active(s) = {}
      BY <1>1, <2>1 DEF MainThen, IInv, GatesFilledInRun, GateHoldsActive
    <3>2. Promise!RunEnds
      BY <2>0, <2>1, <3>1 DEF Promise!RunEnds, Phase, Running, Following, Active
    <3> QED
      BY <3>2 DEF Promise!Next
  <2>2. CASE main = "report"
    BY <2>0, <2>2 DEF Promise!Next, Promise!Stop, Phase, Running, Following, Active
  <2>3. CASE main \in {"setup", "stop"}
    BY <2>0, <2>3, PromiseStutters DEF Following, Phase
  <2> QED
    BY <2>0, <2>1, <2>2, <2>3 DEF Following
<1>2. CASE MainDone /\ UNCHANGED serviceVars
  BY <1>2, PromiseStutters DEF MainDone, Phase
<1>3. CASE (StartExit \/ ExitStuck \/ ExitDone) /\ UNCHANGED serviceVars
  BY <1>3, PromiseStutters DEF StartExit, ExitStuck, ExitDone, Phase
<1>4. ASSUME NEW s \in Shards, SetupReporter(s) \/ ReporterArmed(s) \/ Collect(s) \/ ExitMissesInstance(s),
             UNCHANGED serviceVars
      PROVE  UNCHANGED Promise!vars
  BY <1>4, PromiseStutters DEF SetupReporter, ReporterArmed, Collect, ExitMissesInstance, Phase
<1>5. ASSUME NEW s \in Shards, Destroy(s), UNCHANGED serviceVars PROVE Promise!Next
  <2>1. main = "clear" /\ main' = main /\ task' = task /\ alive' = [alive EXCEPT ![s] = FALSE]
    BY <1>5 DEF Destroy
  <2>2. MainPosted(s)
    BY <1>5, DeliverMain DEF Destroy, IInv, TypeOK, AppTypeOK, Mails
  <2>3. alive[s] = TRUE /\ Active(s) = {}
    BY <2>1, <2>2 DEF IInv, TypeOK, AppTypeOK, GoneAtTheEnd, GatesFilledInRun, GateHoldsActive
  <2>4. Promise!DestroyInstance(s)
    BY <2>1, <2>3 DEF Promise!DestroyInstance, Phase, Running, Active
  <2> QED
    BY <2>4 DEF Promise!Next
<1>6. ASSUME NEW s \in Shards, RunTcp(s) PROVE Promise!Next
  <2>1. /\ main = "run" /\ main' = main /\ alive' = alive
        /\ task' = [task EXCEPT ![s] = [i \in Tasks |-> "connecting"]]
    BY <1>6 DEF RunTcp
  <2>2. alive[s] /\ task \in [Shards -> [Tasks -> TaskStates]]
    BY <2>1 DEF IInv, TypeOK, AppTypeOK, GoneAtTheEnd
  <2>3. Running' = [Running EXCEPT ![s] = @ \cup Tasks]
    BY <2>1, <2>2 DEF Running, Active
  <2>4. Promise!Begin(s)
    BY <2>1, <2>2, <2>3 DEF Promise!Begin, Phase, Running
  <2> QED
    BY <2>4 DEF Promise!Next
<1>7. ASSUME NEW s \in Shards, StopByMain(s) \/ StopByExit(s) PROVE UNCHANGED Promise!vars
  BY <1>7, PromiseStutters DEF StopByMain, StopByExit, Phase
<1>8. ASSUME NEW s \in Shards, NEW i \in Tasks, Connected(s, i) PROVE UNCHANGED Promise!vars
  <2>1. main' = main /\ alive' = alive
    BY <1>8 DEF Connected
  <2>2. \A r \in Shards : Active(r)' = Active(r)
    BY <1>8 DEF Connected, Active, IInv, TypeOK, TaskStates
  <2> QED
    BY <2>1, <2>2 DEF Promise!vars, Phase, Running
<1>9. ASSUME NEW s \in Shards, NEW i \in Tasks, TaskEnds(s, i) PROVE Promise!Next
  <2>1. main' = main /\ alive' = alive
    BY <1>9 DEF TaskEnds
  <2>2. i \in Running[s] /\ Running' = [Running EXCEPT ![s] = @ \ {i}]
    BY <1>9 DEF TaskEnds, Running, Active, IInv, TypeOK, TaskStates
  <2>3. Promise!End(s)
    BY <2>1, <2>2 DEF Promise!End, Phase, Running
  <2> QED
    BY <2>3 DEF Promise!Next
<1>10. CASE UNCHANGED vars
  BY <1>10, PromiseStutters DEF vars, Phase
<1> QED
  BY <1>1, <1>2, <1>3, <1>4, <1>5, <1>6, <1>7, <1>8, <1>9, <1>10
     DEF Next, AppStep, AppNext, Signal, Interrupt, ExitAfterMain

\* tcp_client implements GatedRun: operations begin only before the report,
\* which finds an idle service, and instances go last and idle.
THEOREM ClientKeepsPromise == Spec => ImplementsGatedRun
<1>1. Spec => Promise!Init /\ [][Promise!Next]_Promise!vars
  BY PromiseInit, PromiseStep, Inv, PTL DEF Spec
<1> QED
  BY <1>1 DEF ImplementsGatedRun, Promise!Spec
=============================================================================
