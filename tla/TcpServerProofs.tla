-------------------------- MODULE TcpServerProofs --------------------------
(***************************************************************************)
(* Proofs about TcpServer, for all shards and connections, with and        *)
(* without faults, and with and without the assertion of gate::close().    *)
(***************************************************************************)
EXTENDS TcpServer, AppMainProofs

-----------------------------------------------------------------------------
(***************************************************************************)
(* The inductive invariant.  Its first part: accept loops run only while   *)
(* main() waits for them, gates are empty once a shard is stopped.         *)
(***************************************************************************)
LoopsAreAwaited ==
  \A s \in Shards :
    /\ Accepting(s) => main = "run" /\ s \in mainWait /\ ~MainPosted(s)
    /\ listener[s] = "null" <=> acceptor[s] = "none"
    /\ listener[s] = "live" <=> Accepting(s)

ErrorsFailTheRun ==
  /\ mainErr => main \in {"run", "failed"}
  /\ \A s \in Shards : acceptor[s] = "failed" => mainErr

ClosedByMainLate ==
  \A s \in Shards : closer[s] = "main" => Reported /\ (main = "stop" => ~MainPosted(s))

StoppedGatesEmpty ==
  \A s \in Shards :
    /\ main = "stop" => s \in mainWait \/ gate[s] = {}
    /\ main \in {"clear", "done"} => gate[s] = {}
    /\ ~alive[s] => main \in {"clear", "done"}

HangsLate == (exit = "stuck" => exitErr) /\ (exitErr => Reported)

Core ==
  /\ TypeOK
  /\ CallsAreAwaited
  /\ GateTracksOperations
  /\ LoopsAreAwaited
  /\ ErrorsFailTheRun
  /\ ClosedByMainLate
  /\ StoppedGatesEmpty
  /\ HangsLate

LEMMA InitCore == Init => Core
<1> SUFFICES ASSUME Init PROVE Core
  OBVIOUS
<1> USE DEF Init, AppInit
<1>1. TypeOK
  BY DEF TypeOK, AppTypeOK, Following, Finished
<1>2. \A s \in Shards : MainPosted(s) /\ ~ExitPosted(s)
  BY MailsDiffer DEF MainPosted, ExitPosted
<1>3. GateTracksOperations
  BY DEF GateTracksOperations, Open, Accepting
<1> QED
  BY <1>1, <1>2, <1>3 DEF Core, CallsAreAwaited, LoopsAreAwaited, ErrorsFailTheRun, ClosedByMainLate,
                          StoppedGatesEmpty, HangsLate, Accepting, Reported

LEMMA StepCore == Core /\ [Next]_vars => Core'
<1> SUFFICES ASSUME Core, [Next]_vars PROVE Core'
  OBVIOUS
<1> USE AcceptorAssumption
    DEF Core, TypeOK, AppTypeOK, Mails, Following, Finished, Ends, CallsAreAwaited, GateTracksOperations,
        LoopsAreAwaited, ErrorsFailTheRun, ClosedByMainLate, StoppedGatesEmpty, HangsLate,
        Accepting, Open, Reported, mainVars, exitVars, serviceVars, appVars
<1>0. mail \in [Shards -> Mails]
  OBVIOUS
<1>1. CASE MainThen /\ UNCHANGED serviceVars
  BY <1>0, <1>1, PostMain DEF MainThen
<1>2. CASE (MainDone \/ MainFail) /\ UNCHANGED serviceVars
  BY <1>2, KeepMail DEF MainDone, MainFail
<1>3. CASE StartExit /\ UNCHANGED serviceVars
  BY <1>0, <1>3, PostExit, KeepMail DEF StartExit
<1>4. CASE (ExitStuck \/ ExitDone) /\ UNCHANGED serviceVars
  BY <1>4, KeepMail DEF ExitStuck, ExitDone
<1>5. ASSUME NEW s \in Shards, SetupReporter(s) \/ Collect(s), UNCHANGED serviceVars PROVE Core'
  BY <1>0, <1>5, DeliverMain DEF SetupReporter, Collect
<1>6. ASSUME NEW s \in Shards, ReporterArmed(s), UNCHANGED serviceVars PROVE Core'
  <2>1. /\ UNCHANGED <<main, mainErr, exit, exitWait, exitErr, mail, alive, proc, serviceVars>>
        /\ main = "setup" /\ mainWait' = mainWait \ {s} /\ ~MainPosted(s)
    BY <1>6, MailsDiffer DEF ReporterArmed, MainPosted
  <2> QED
    BY <2>1, KeepMail
<1>7. ASSUME NEW s \in Shards, Destroy(s), UNCHANGED serviceVars PROVE Core'
  BY <1>0, <1>7, DeliverMain DEF Destroy
<1>8. ASSUME NEW s \in Shards, RunTcp(s) PROVE Core'
  BY <1>0, <1>8, DeliverMain DEF RunTcp
<1>9. ASSUME NEW s \in Shards, RunTcpThrows(s) PROVE Core'
  BY <1>0, <1>9, DeliverMain DEF RunTcpThrows
<1>10. ASSUME NEW s \in Shards, AcceptResolves(s) PROVE Core'
  <2>1. /\ UNCHANGED <<appVars, interrupted, listener, task, gate, closed, closer>>
        /\ acceptor[s] = "pending"
        /\ acceptor' = [acceptor EXCEPT ![s] = "ready"] \/ acceptor' = [acceptor EXCEPT ![s] = "error"]
    BY <1>10 DEF AcceptResolves
  <2>2. TypeOK'
    <3>1. acceptor' \in [Shards -> {"none", "pending", "ready", "error", "stopped", "failed"}]
      BY <2>1
    <3> QED
      BY <2>1, <3>1
  <2>3. GateTracksOperations'
    <3>1. \A r \in Shards : gate'[r] = gate[r] /\ Open(r)' = Open(r) /\ (Accepting(r)' <=> Accepting(r))
      BY <2>1
    <3> QED
      <4> HIDE DEF Accepting, Open
      <4> QED
        BY <3>1
  <2>4. LoopsAreAwaited' /\ ErrorsFailTheRun'
    BY <2>1, KeepMail
  <2>5. CallsAreAwaited' /\ ClosedByMainLate' /\ StoppedGatesEmpty' /\ HangsLate'
    BY <2>1, KeepMail
  <2> QED
    BY <2>2, <2>3, <2>4, <2>5
<1>11. ASSUME NEW s \in Shards, AcceptSeesInterrupt(s) PROVE Core'
  BY <1>11, KeepMail DEF AcceptSeesInterrupt, LoopEnds, Leave
<1>12. ASSUME NEW s \in Shards, AcceptThrows(s) PROVE Core'
  BY <1>12, KeepMail DEF AcceptThrows, LoopEnds, Leave
<1>13. ASSUME NEW s \in Shards, AcceptHandles(s) PROVE Core'
  BY <1>13, KeepMail DEF AcceptHandles
<1>14. ASSUME NEW s \in Shards, NEW c \in Conns, HandlerEnds(s, c) PROVE Core'
  <2>1. /\ UNCHANGED <<main, mainErr, exit, exitErr, mail, alive, proc, interrupted, listener, acceptor, closed, closer>>
        /\ task[s][c] = "open" /\ task' = [task EXCEPT ![s][c] = "ended"]
        /\ gate' = [gate EXCEPT ![s] = @ \ {c}]
        /\ exitWait' \subseteq exitWait
    BY <1>14 DEF HandlerEnds, Leave
  <2>2. mainWait' = mainWait \/ (mainWait' = mainWait \ {s} /\ closer[s] = "main" /\ gate'[s] = {})
    BY <1>14, <2>1 DEF HandlerEnds, Drains
  <2>3. c \in gate[s]
    BY <2>1
  <2>4. TypeOK'
    BY <2>1, <2>2
  <2>5. GateTracksOperations'
    BY <2>1
  <2>6. CallsAreAwaited' /\ LoopsAreAwaited' /\ ErrorsFailTheRun' /\ ClosedByMainLate' /\ HangsLate'
    BY <2>1, <2>2, <2>3, KeepMail
  <2>7. StoppedGatesEmpty'
    BY <2>1, <2>2, <2>3
  <2> QED
    BY <2>4, <2>5, <2>6, <2>7
<1>15. ASSUME NEW s \in Shards, Stop(s, "main") PROVE Core'
  BY <1>0, <1>15, DeliverMain DEF Stop, StopCalled, RaiseAndAbort
<1>16. ASSUME NEW s \in Shards, Stop(s, "exit") PROVE Core'
  BY <1>0, <1>16, DeliverExit DEF Stop, StopCalled, RaiseAndAbort
<1>17. ASSUME NEW s \in Shards, StopAgain(s) PROVE Core'
  <2>1. /\ main = "stop" /\ Deliver(s, "main")
        /\ UNCHANGED <<main, mainErr, exit, alive, listener, task, gate, closed>>
        /\ interrupted' = [interrupted EXCEPT ![s] = TRUE]
        /\ proc' \in {proc, "gate_assert"}
    BY <1>17 DEF StopAgain, StopCalled, RaiseAndAbort
  <2>2. acceptor' = acceptor
    BY <1>17, <2>1 DEF StopAgain, RaiseAndAbort
  <2>3. \/ UNCHANGED <<closer, mainWait, exitWait, exitErr>>
        \/ /\ closer' = [closer EXCEPT ![s] = "main"]
           /\ mainWait' = IF gate[s] = {} THEN mainWait \ {s} ELSE mainWait
           /\ exitErr' = (exitErr \/ s \in exitWait)
           /\ exitWait' = exitWait \ {s}
    BY <1>17 DEF StopAgain
  <2>4. TypeOK'
    BY <1>0, <2>1, <2>2, <2>3, DeliverMain
  <2>5. GateTracksOperations' /\ LoopsAreAwaited' /\ ErrorsFailTheRun'
    BY <1>0, <2>1, <2>2, <2>3, DeliverMain
  <2>6. MainPosted(s) /\ ~MainPosted(s)' /\ \A r \in Shards \ {s} : MainPosted(r)' <=> MainPosted(r)
    BY <1>0, <2>1, DeliverMain
  <2>7. CallsAreAwaited'
    BY <1>0, <2>1, <2>3, DeliverMain
  <2>8. ClosedByMainLate'
    BY <2>1, <2>3, <2>6
  <2>9. StoppedGatesEmpty' /\ HangsLate'
    BY <2>1, <2>3
  <2> QED
    BY <2>4, <2>5, <2>7, <2>8, <2>9
<1>18. ASSUME NEW s \in Shards, StopUsesDeadListener(s, "main") PROVE Core'
  BY <1>0, <1>18, DeliverMain DEF StopUsesDeadListener, StopCalled
<1>19. ASSUME NEW s \in Shards, StopUsesDeadListener(s, "exit") PROVE Core'
  BY <1>0, <1>19, DeliverExit DEF StopUsesDeadListener, StopCalled
<1>20. CASE UNCHANGED vars
  BY <1>20, KeepMail DEF vars
<1> HIDE DEF Core
<1> QED
  BY <1>1, <1>2, <1>3, <1>4, <1>5, <1>6, <1>7, <1>8, <1>9, <1>10, <1>11, <1>12, <1>13, <1>14,
     <1>15, <1>16, <1>17, <1>18, <1>19, <1>20
     DEF Next, Call, Accepted, AppStep, AppNext, Signal, Interrupt, ExitAfterMain

-----------------------------------------------------------------------------
(***************************************************************************)
(* Its second part: a shard is stopped first by the hook, whose call       *)
(* closes its gate with the flag, and no loop ends unless it is told to    *)
(* or fails.                                                               *)
(***************************************************************************)
FlagClosesGate ==
  \A s \in Shards :
    /\ closed[s] => interrupted[s]
    /\ interrupted[s] => closed[s] \/ proc = "use_after_free"

HookStopsFirst == \A s \in Shards : closed[s] => exit # "idle" /\ ~ExitPosted(s)

LoopsEndInterrupted ==
  \A s \in Shards :
    \/ main \in {"setup", "failed"}
    \/ main = "run" /\ (mainErr \/ s \in mainWait)
    \/ interrupted[s]

Stopping == FlagClosesGate /\ HookStopsFirst /\ LoopsEndInterrupted

LEMMA InitStopping == Init => Stopping
  BY DEF Init, AppInit, Stopping, FlagClosesGate, HookStopsFirst, LoopsEndInterrupted

\* main() stops no shard before the hook has.
LEMMA MainNeverStopsFirst ==
  ASSUME Core, Stopping, NEW s \in Shards
  PROVE  ~Stop(s, "main")
  BY DEF Stop, StopCalled, Deliver, Stopping, FlagClosesGate, LoopsEndInterrupted

LEMMA StepStopping == Core /\ Stopping /\ [Next]_vars => Stopping'
<1> SUFFICES ASSUME Core, Stopping, [Next]_vars PROVE Stopping'
  OBVIOUS
<1> USE DEF Stopping, FlagClosesGate, HookStopsFirst, LoopsEndInterrupted, mainVars, exitVars, serviceVars, appVars
<1>0. mail \in [Shards -> Mails] /\ main \in DOMAIN Following \cup {"clear"} \cup Finished
  BY DEF Core, TypeOK, AppTypeOK, Mails
<1>1. CASE MainThen /\ UNCHANGED serviceVars
  <2>1. \A s \in Shards : ~MainPosted(s)
    BY <1>1 DEF MainThen, Core, CallsAreAwaited
  <2> QED
    BY <1>0, <1>1, <2>1, MainPosts DEF MainThen, Following
<1>2. CASE (MainDone \/ MainFail) /\ UNCHANGED serviceVars
  BY <1>2, KeepMail DEF MainDone, MainFail
<1>3. CASE StartExit /\ UNCHANGED serviceVars
  BY <1>3, KeepMail DEF StartExit
<1>4. CASE (ExitStuck \/ ExitDone) /\ UNCHANGED serviceVars
  BY <1>4, KeepMail DEF ExitStuck, ExitDone
<1>5. ASSUME NEW s \in Shards, SetupReporter(s) \/ Collect(s) \/ Destroy(s), UNCHANGED serviceVars PROVE Stopping'
  BY <1>0, <1>5, DeliverMain DEF SetupReporter, Collect, Destroy
<1>6. ASSUME NEW s \in Shards, ReporterArmed(s), UNCHANGED serviceVars PROVE Stopping'
  BY <1>6, KeepMail DEF ReporterArmed
<1>7. ASSUME NEW s \in Shards, RunTcp(s) \/ RunTcpThrows(s) PROVE Stopping'
  BY <1>0, <1>7, DeliverMain DEF RunTcp, RunTcpThrows
<1>8. ASSUME NEW s \in Shards, AcceptResolves(s) \/ AcceptHandles(s) PROVE Stopping'
  BY <1>8, KeepMail DEF AcceptResolves, AcceptHandles
<1>9. ASSUME NEW s \in Shards, AcceptSeesInterrupt(s) \/ AcceptThrows(s) PROVE Stopping'
  BY <1>9, KeepMail DEF AcceptSeesInterrupt, AcceptThrows, LoopEnds
<1>10. ASSUME NEW s \in Shards, NEW c \in Conns, HandlerEnds(s, c) PROVE Stopping'
  <2>1. UNCHANGED <<main, mainErr, exit, mail, proc, interrupted, closed>>
    BY <1>10 DEF HandlerEnds
  <2>2. mainWait' = mainWait \/ Reported
    BY <1>10 DEF HandlerEnds, Core, ClosedByMainLate
  <2> QED
    BY <2>1, <2>2, KeepMail DEF Reported
<1>11. ASSUME NEW s \in Shards, Stop(s, "exit") PROVE Stopping'
  <2>1. /\ UNCHANGED <<main, mainErr, mainWait, exit, proc>> /\ exit # "idle"
        /\ interrupted' = [interrupted EXCEPT ![s] = TRUE] /\ closed' = [closed EXCEPT ![s] = TRUE]
    BY <1>0, <1>11, DeliverExit DEF Stop, StopCalled, RaiseAndAbort, Core, CallsAreAwaited
  <2>2. ~ExitPosted(s)' /\ \A r \in Shards \ {s} : ExitPosted(r)' <=> ExitPosted(r)
    BY <1>0, <1>11, HookStarts DEF Stop, StopCalled
  <2> QED
    BY <2>1, <2>2 DEF Core, TypeOK
<1>12. ASSUME NEW s \in Shards, StopAgain(s) PROVE Stopping'
  <2>1. /\ UNCHANGED <<main, mainErr, exit, closed>> /\ main = "stop"
        /\ interrupted' = [interrupted EXCEPT ![s] = TRUE] /\ closed[s]
        /\ proc' = proc \/ proc' = "gate_assert"
        /\ proc = "up"
    BY <1>12 DEF StopAgain, StopCalled, RaiseAndAbort, Deliver
  <2>2. \A r \in Shards : ExitPosted(r)' <=> ExitPosted(r)
    BY <1>0, <1>12, DeliverMain DEF StopAgain, StopCalled
  <2> QED
    BY <2>1, <2>2 DEF Core, TypeOK
<1>13. ASSUME NEW s \in Shards, NEW caller \in {"main", "exit"}, StopUsesDeadListener(s, caller) PROVE Stopping'
  <2>1. /\ UNCHANGED <<main, mainErr, mainWait, exit, closed>>
        /\ interrupted' = [interrupted EXCEPT ![s] = TRUE] /\ proc' = "use_after_free"
    BY <1>13 DEF StopUsesDeadListener
  <2>2. \A r \in Shards : ExitPosted(r)' => ExitPosted(r)
    BY <1>0, <1>13, DeliverMain, DeliverExit DEF StopUsesDeadListener, StopCalled
  <2> QED
    BY <2>1, <2>2 DEF Core, TypeOK
<1>14. CASE UNCHANGED vars
  BY <1>14, KeepMail DEF vars
<1> QED
  BY <1>1, <1>2, <1>3, <1>4, <1>5, <1>6, <1>7, <1>8, <1>9, <1>10, <1>11, <1>12, <1>13, <1>14, MainNeverStopsFirst
     DEF Next, Call, Accepted, AppStep, AppNext, Signal, Interrupt, ExitAfterMain

-----------------------------------------------------------------------------
(***************************************************************************)
(* Its third part, when listen() and accept() do not fail by themselves:   *)
(* accept() fails only for the hook, and either every shard listens before *)
(* the hook's call or every shard meets a closed gate.                     *)
(***************************************************************************)
OnlyStopAborts ==
  ~Faults => \A s \in Shards :
    /\ acceptor[s] # "failed"
    /\ acceptor[s] \in {"error", "stopped"} => interrupted[s]

NoneListens == main = "setup" => \A s \in Shards : listener[s] = "null"

HookReachesAll ==
  main \in {"setup", "run"} /\ exit # "idle" /\ proc = "up" => \A s \in Shards : ExitPosted(s) \/ closed[s]

Early(s) == HookFirst(s) \/ closed[s]

RunBeforeHook == ~mainErr /\ \A s \in Shards : MainPosted(s) => ~Early(s)
HookBeforeRun == \A s \in Shards : listener[s] = "null" /\ (MainPosted(s) => Early(s))

RunOrder == ~Faults /\ main = "run" => RunBeforeHook \/ HookBeforeRun

Ordered ==
  /\ OnlyStopAborts /\ NoneListens /\ HookReachesAll /\ RunOrder
  /\ CrashOnlyAfterReport /\ ReportLostOnlyByEarlySignal

IInv == Core /\ Stopping /\ Ordered

LEMMA InitOrdered == Init => Ordered
  BY DEF Init, AppInit, Ordered, OnlyStopAborts, NoneListens, HookReachesAll, RunOrder,
         CrashOnlyAfterReport, ReportLostOnlyByEarlySignal

\* The hook finds no listener that is gone: its call comes before the flag.
LEMMA HookFindsListener ==
  ASSUME IInv, ~Faults, NEW s \in Shards
  PROVE  ~StopUsesDeadListener(s, "exit")
<1> SUFFICES ASSUME StopUsesDeadListener(s, "exit") PROVE FALSE
  OBVIOUS
<1>1. proc = "up" /\ listener[s] = "dangling" /\ ExitPosted(s)
  BY DeliverExit DEF StopUsesDeadListener, StopCalled, Deliver, IInv, Core, TypeOK, AppTypeOK, Mails
<1>2. acceptor[s] = "stopped"
  BY <1>1 DEF IInv, Core, TypeOK, LoopsAreAwaited, Accepting, Ordered, OnlyStopAborts
<1>3. closed[s]
  BY <1>1, <1>2 DEF IInv, Ordered, OnlyStopAborts, Stopping, FlagClosesGate
<1> QED
  BY <1>1, <1>3 DEF IInv, Stopping, HookStopsFirst

LEMMA NoThrow ==
  ASSUME IInv, ~Faults, NEW s \in Shards
  PROVE  ~AcceptThrows(s)
  BY DEF AcceptThrows, IInv, Ordered, OnlyStopAborts, Stopping, FlagClosesGate

LEMMA StepOrdered == IInv /\ [Next]_vars => Ordered'
<1> SUFFICES ASSUME IInv, [Next]_vars PROVE Ordered'
  OBVIOUS
<1> USE DEF IInv, Ordered, OnlyStopAborts, NoneListens, HookReachesAll, RunOrder, RunBeforeHook, HookBeforeRun, Early,
            CrashOnlyAfterReport, ReportLostOnlyByEarlySignal, Reported,
            mainVars, exitVars, serviceVars, appVars
<1>0. mail \in [Shards -> Mails] /\ main \in DOMAIN Following \cup {"clear"} \cup Finished
  BY DEF Core, TypeOK, AppTypeOK, Mails
<1>1. CASE MainThen /\ UNCHANGED serviceVars
  <2>1. \A s \in Shards : ~MainPosted(s)
    BY <1>1 DEF MainThen, Core, CallsAreAwaited
  <2>2. /\ UNCHANGED <<exit, proc, closed, listener, acceptor, interrupted>>
        /\ proc = "up" /\ ~mainErr /\ mainErr' = mainErr
        /\ main \in DOMAIN Following /\ main' = Following[main]
        /\ \A s \in Shards : (HookFirst(s)' <=> ExitPosted(s)) /\ (ExitPosted(s)' <=> ExitPosted(s))
    BY <1>0, <1>1, <2>1, MainPosts DEF MainThen
  <2>3. RunOrder'
    <3>1. CASE main = "setup" /\ exit = "idle"
      BY <2>2, <3>1 DEF Core, CallsAreAwaited, Stopping, HookStopsFirst
    <3>2. CASE main = "setup" /\ exit # "idle"
      <4>1. \A s \in Shards : listener[s] = "null" /\ (ExitPosted(s) \/ closed[s])
        BY <2>2, <3>2
      <4>2. \A s \in Shards : listener'[s] = "null" /\ Early(s)'
        BY <2>2, <4>1
      <4>3. HookBeforeRun'
        BY <4>2
      <4> QED
        BY <4>3
    <3>3. CASE main # "setup"
      <4>1. main \in {"run", "report", "stop"} /\ main' = Following[main]
        BY <2>2, <3>3 DEF Following
      <4>2. main' # "run"
        BY <4>1 DEF Following
      <4> QED
        BY <4>2
    <3> QED
      BY <3>1, <3>2, <3>3
  <2> QED
    BY <2>2, <2>3 DEF Following
<1>2. CASE (MainDone \/ MainFail) /\ UNCHANGED serviceVars
  BY <1>0, <1>2, KeepMail, OrderKept DEF MainDone, MainFail, Core, ErrorsFailTheRun
<1>3. CASE StartExit /\ UNCHANGED serviceVars
  <2>1. UNCHANGED <<main, mainErr, proc, closed, listener, acceptor, interrupted>>
    BY <1>3 DEF StartExit
  <2>2. CASE main # "done"
    <3>1. Post("exit") /\ \A s \in Shards : ~ExitPosted(s)
      BY <1>3, <2>2 DEF StartExit, Core, CallsAreAwaited
    <3>2. \A s \in Shards : ExitPosted(s)' /\ (HookFirst(s)' <=> HookFirst(s)) /\ (MainPosted(s)' <=> MainPosted(s))
      BY <1>0, <3>1, HookPosts, PostExit
    <3> QED
      BY <2>1, <3>2
  <2>3. CASE main = "done"
    BY <2>1, <2>3
  <2> QED
    BY <2>2, <2>3
<1>4. CASE (ExitStuck \/ ExitDone) /\ UNCHANGED serviceVars
  BY <1>4, KeepMail, OrderKept DEF ExitStuck, ExitDone
<1>5. ASSUME NEW s \in Shards, SetupReporter(s) \/ Collect(s) \/ Destroy(s), UNCHANGED serviceVars PROVE Ordered'
  BY <1>0, <1>5, DeliverMain, MainStarts DEF SetupReporter, Collect, Destroy
<1>6. ASSUME NEW s \in Shards, ReporterArmed(s), UNCHANGED serviceVars PROVE Ordered'
  BY <1>6, KeepMail, OrderKept DEF ReporterArmed
<1>7. ASSUME NEW s \in Shards, RunTcp(s) PROVE Ordered'
  <2>1. /\ UNCHANGED <<main, mainErr, exit, proc, closed, interrupted>> /\ main = "run" /\ ~closed[s]
        /\ listener' = [listener EXCEPT ![s] = "live"] /\ acceptor' = [acceptor EXCEPT ![s] = "pending"]
    BY <1>7 DEF RunTcp
  <2>2. /\ MainPosted(s) /\ ~HookFirst(s) /\ ~MainPosted(s)'
        /\ \A r \in Shards : ExitPosted(r)' <=> ExitPosted(r)
        /\ \A r \in Shards \ {s} : (HookFirst(r)' <=> HookFirst(r)) /\ (MainPosted(r)' <=> MainPosted(r))
    BY <1>0, <1>7, DeliverMain, MainStarts DEF RunTcp
  <2> QED
    BY <2>1, <2>2 DEF Core, TypeOK
<1>8. ASSUME NEW s \in Shards, RunTcpThrows(s) PROVE Ordered'
  <2>1. /\ UNCHANGED <<main, exit, proc, closed, interrupted, listener, acceptor>> /\ main = "run"
        /\ closed[s] \/ Faults
    BY <1>8 DEF RunTcpThrows
  <2>2. /\ MainPosted(s) /\ ~HookFirst(s) /\ ~MainPosted(s)'
        /\ \A r \in Shards : ExitPosted(r)' <=> ExitPosted(r)
        /\ \A r \in Shards \ {s} : (HookFirst(r)' <=> HookFirst(r)) /\ (MainPosted(r)' <=> MainPosted(r))
    BY <1>0, <1>8, DeliverMain, MainStarts DEF RunTcpThrows
  <2> QED
    BY <2>1, <2>2
<1>9. ASSUME NEW s \in Shards, AcceptResolves(s) \/ AcceptHandles(s) PROVE Ordered'
  <2>1. /\ UNCHANGED <<main, mainErr, exit, mail, proc, interrupted, listener, closed>>
        /\ \/ acceptor' = [acceptor EXCEPT ![s] = "ready"]
           \/ acceptor' = [acceptor EXCEPT ![s] = "pending"]
           \/ acceptor' = [acceptor EXCEPT ![s] = "error"] /\ Faults
    BY <1>9 DEF AcceptResolves, AcceptHandles
  <2> QED
    BY <2>1, KeepMail, OrderKept DEF Core, TypeOK
<1>10. ASSUME NEW s \in Shards, AcceptSeesInterrupt(s) \/ AcceptThrows(s) PROVE Ordered'
  <2>1. /\ UNCHANGED <<main, exit, mail, proc, interrupted, closed>>
        /\ Accepting(s)
        /\ listener' = [listener EXCEPT ![s] = "dangling"]
    BY <1>10 DEF AcceptSeesInterrupt, AcceptThrows, LoopEnds, Accepting
  <2>2. ~Faults => interrupted[s] /\ mainErr' = mainErr /\ acceptor' = [acceptor EXCEPT ![s] = "stopped"]
    BY <1>10, NoThrow DEF AcceptSeesInterrupt, LoopEnds
  <2>3. main = "run" /\ listener[s] # "null"
    BY <2>1 DEF Core, LoopsAreAwaited, Accepting
  <2> QED
    BY <2>1, <2>2, <2>3, KeepMail, OrderKept DEF Core, TypeOK
<1>11. ASSUME NEW s \in Shards, NEW c \in Conns, HandlerEnds(s, c) PROVE Ordered'
  BY <1>11, KeepMail, OrderKept DEF HandlerEnds
<1>12. ASSUME NEW s \in Shards, Stop(s, "exit") PROVE Ordered'
  <2>1. /\ UNCHANGED <<main, mainErr, exit, proc, listener>>
        /\ interrupted' = [interrupted EXCEPT ![s] = TRUE] /\ closed' = [closed EXCEPT ![s] = TRUE]
        /\ acceptor' = acceptor \/ acceptor' = [acceptor EXCEPT ![s] = "error"]
    BY <1>12 DEF Stop, StopCalled, RaiseAndAbort
  <2>2. /\ MainPosted(s) => HookFirst(s)
        /\ \A r \in Shards : MainPosted(r)' <=> MainPosted(r)
        /\ \A r \in Shards \ {s} : (HookFirst(r)' <=> HookFirst(r)) /\ (ExitPosted(r)' <=> ExitPosted(r))
    BY <1>0, <1>12, DeliverExit, HookStarts DEF Stop, StopCalled
  <2> QED
    BY <2>1, <2>2 DEF Core, TypeOK
<1>13. ASSUME NEW s \in Shards, StopAgain(s) PROVE Ordered'
  <2>1. /\ main' = main /\ main = "stop"
        /\ interrupted' = [interrupted EXCEPT ![s] = TRUE]
        /\ acceptor' = acceptor \/ acceptor' = [acceptor EXCEPT ![s] = "error"]
    BY <1>13 DEF StopAgain, StopCalled, RaiseAndAbort
  <2> QED
    BY <2>1 DEF Core, TypeOK
<1>14. ASSUME NEW s \in Shards, NEW caller \in {"main", "exit"}, StopUsesDeadListener(s, caller) PROVE Ordered'
  <2>1. /\ main' = main /\ acceptor' = acceptor /\ listener' = listener /\ proc' = "use_after_free"
        /\ interrupted' = [interrupted EXCEPT ![s] = TRUE]
        /\ caller = "main" => main = "stop"
    BY <1>14 DEF StopUsesDeadListener, StopCalled
  <2>2. ~Faults => main = "stop"
    BY <1>14, <2>1, HookFindsListener
  <2>3. Faults \/ main # "run"
    BY <2>2
  <2> QED
    BY <2>1, <2>2 DEF Core, TypeOK
<1>15. CASE UNCHANGED vars
  BY <1>15, KeepMail, OrderKept DEF vars
<1>16. \A s \in Shards : ~Stop(s, "main")
  BY MainNeverStopsFirst
<1> QED
  BY <1>1, <1>2, <1>3, <1>4, <1>5, <1>6, <1>7, <1>8, <1>9, <1>10, <1>11, <1>12, <1>13, <1>14, <1>15, <1>16
     DEF Next, Call, Accepted, AppStep, AppNext, Signal, Interrupt, ExitAfterMain

\* The invariant is one of every behaviour.
LEMMA Inv == Spec => []IInv
<1>1. Init => IInv
  BY InitCore, InitStopping, InitOrdered DEF IInv
<1>2. IInv /\ [Next]_vars => IInv'
  BY StepCore, StepStopping, StepOrdered DEF IInv
<1> QED
  BY <1>1, <1>2, PTL DEF Spec

-----------------------------------------------------------------------------
(***************************************************************************)
(* What the server keeps.                                                  *)
(***************************************************************************)

\* The state of a process is what its declarations say.
THEOREM TypeCorrect == Spec => []TypeOK
<1>1. IInv => TypeOK
  BY DEF IInv, Core
<1> QED
  BY <1>1, Inv, PTL

\* The gate holds the accept loop and the unfinished handlers, and no other.
THEOREM GateCorrect == Spec => []GateTracksOperations
<1>1. IInv => GateTracksOperations
  BY DEF IInv, Core
<1> QED
  BY <1>1, Inv, PTL

\* Without a failing listen() or accept(), a signal costs the report only if
\* no shard listened before it (tcp_server.cpp:25, with_gate on a closed gate).
THEOREM ReportCorrect == Spec => []ReportLostOnlyByEarlySignal
<1>1. IInv => ReportLostOnlyByEarlySignal
  BY DEF IInv, Ordered
<1> QED
  BY <1>1, Inv, PTL

\* Without such a failure, the second close of a gate comes after the report.
THEOREM CrashIsLate == Spec => []CrashOnlyAfterReport
<1>1. IInv => CrashOnlyAfterReport
  BY DEF IInv, Ordered
<1> QED
  BY <1>1, Inv, PTL

\* Faults or not, no operation runs on a destroyed instance.
THEOREM DestroyedIsIdle == Spec => []NoUseAfterDestroy
<1>1. IInv => NoUseAfterDestroy
  BY DEF IInv, Core, StoppedGatesEmpty, NoUseAfterDestroy
<1> QED
  BY <1>1, Inv, PTL

\* A hook's future breaks only when the report was written.
THEOREM HangIsLate == Spec => []HangOnlyAfterReport
<1>1. IInv => HangOnlyAfterReport
  BY DEF IInv, Core, HangsLate, HangOnlyAfterReport
<1> QED
  BY <1>1, Inv, PTL

\* The chain fails when no accept loop runs any more.
THEOREM FailureIsLast == Spec => []FailureWaitsForAllLoops
<1>1. IInv => FailureWaitsForAllLoops
  BY DEF IInv, Core, LoopsAreAwaited, FailureWaitsForAllLoops
<1> QED
  BY <1>1, Inv, PTL

\* One failed accept loop costs the report of every shard.
THEOREM FailureCostsReport == Spec => []FailureLosesReport
<1>1. IInv => FailureLosesReport
  BY DEF IInv, Core, ErrorsFailTheRun, Reported, FailureLosesReport
<1> QED
  BY <1>1, Inv, PTL

\* Whoever collects the report has every shard's handlers told to stop
\* (tcp_server.cpp:195 collects without waiting for them).
THEOREM HandlersAreTold == Spec => []HandlersToldBeforeReport
<1>1. IInv => HandlersToldBeforeReport
  BY DEF IInv, Stopping, LoopsEndInterrupted, HandlersToldBeforeReport
<1> QED
  BY <1>1, Inv, PTL

\* Nothing enters a gate that stop() has closed.
THEOREM GatesDrain == Spec => ClosedGateOnlyDrains
<1>1. IInv /\ [Next]_vars => [\A s \in Shards : closed[s] => gate'[s] \subseteq gate[s]]_vars
  <2> SUFFICES ASSUME IInv, Next, NEW s \in Shards, closed[s] PROVE gate'[s] \subseteq gate[s]
    OBVIOUS
  <2>0. gate \in [Shards -> SUBSET (Conns \cup {Acceptor})]
    BY DEF IInv, Core, TypeOK
  <2>1. ASSUME NEW t \in Shards, RunTcp(t) \/ AcceptHandles(t) PROVE gate'[s] = gate[s]
    BY <2>0, <2>1 DEF RunTcp, AcceptHandles
  <2>2. ASSUME NEW t \in Shards, NEW op, Leave(t, op) PROVE gate'[s] \subseteq gate[s]
    BY <2>0, <2>2 DEF Leave
  <2>3. CASE gate' = gate
    BY <2>3
  <2> QED
    BY <2>1, <2>2, <2>3
       DEF Next, AppStep, Signal, Call, Accepted, serviceVars, RunTcpThrows, AcceptResolves, AcceptSeesInterrupt,
           AcceptThrows, LoopEnds, HandlerEnds, Stop, StopAgain, StopUsesDeadListener, RaiseAndAbort
<1> QED
  BY <1>1, Inv, PTL DEF Spec, ClosedGateOnlyDrains

-----------------------------------------------------------------------------
(***************************************************************************)
(* When the process comes to rest.  While it is up, main() waits for a     *)
(* call that was posted, an accept loop or a gate it has closed; the hook  *)
(* waits for a call or a gate; and main() takes a gate from the hook only  *)
(* by breaking the hook's future.                                          *)
(***************************************************************************)
CallsResolve ==
  proc = "up" => \A s \in Shards :
    /\ s \in mainWait =>
         \/ MainPosted(s) \/ main = "setup"
         \/ main = "run" /\ Accepting(s)
         \/ main = "stop" /\ closer[s] = "main" /\ gate[s] # {}
    /\ s \in exitWait => ExitPosted(s) \/ (closer[s] = "exit" /\ gate[s] # {})
    /\ main = "stop" /\ ~MainPosted(s) => closer[s] = "main"

ClosersWait ==
  \A s \in Shards :
    /\ ExitPosted(s) => s \in exitWait
    /\ closed[s] <=> closer[s] # "none"
    /\ closer[s] = "exit" /\ gate[s] # {} => s \in exitWait
    /\ closer[s] = "main" /\ gate[s] # {} => exitErr

StopAborts == proc = "up" => \A s \in Shards : interrupted[s] => acceptor[s] # "pending"

CallsInv == CallsResolve /\ ClosersWait /\ StopAborts

LEMMA InitCalls == Init => CallsInv
<1> SUFFICES ASSUME Init PROVE CallsInv
  OBVIOUS
<1>1. \A s \in Shards : ~ExitPosted(s)
  BY MailsDiffer DEF Init, AppInit, ExitPosted
<1> QED
  BY <1>1 DEF Init, AppInit, CallsInv, CallsResolve, ClosersWait, StopAborts

\* What an operation that leaves a gate does to those who wait for it.
LEMMA LeavingResolves ==
  ASSUME IInv, CallsInv, proc = "up", NEW s \in Shards, NEW op \in gate[s], Leave(s, op),
         UNCHANGED <<main, exitErr, mail, proc, interrupted, closed, closer>>,
         mainWait' \subseteq mainWait,
         s \in mainWait' => ~(Drains(s, op) /\ closer[s] = "main"),
         op = Acceptor => s \notin mainWait',
         \A r \in Shards : acceptor'[r] = "pending" => acceptor[r] = "pending",
         \A r \in Shards : r # s \/ op # Acceptor => acceptor'[r] = acceptor[r]
  PROVE  CallsInv'
<1> USE DEF CallsInv, CallsResolve, ClosersWait, StopAborts
<1>0. gate \in [Shards -> SUBSET (Conns \cup {Acceptor})]
  BY DEF IInv, Core, TypeOK
<1>1. /\ \A r \in Shards \ {s} : gate'[r] = gate[r]
      /\ gate'[s] = gate[s] \ {op} /\ (gate'[s] = {} <=> gate[s] \subseteq {op})
      /\ exitWait' = IF Drains(s, op) /\ closer[s] = "exit" THEN exitWait \ {s} ELSE exitWait
  BY <1>0 DEF Leave
<1>2. \A r \in Shards : (MainPosted(r)' <=> MainPosted(r)) /\ (ExitPosted(r)' <=> ExitPosted(r))
  BY KeepMail
<1>3. closed[s] /\ gate'[s] = {} => Drains(s, op)
  BY <1>1 DEF Drains
<1>4. Drains(s, op) => closed[s] /\ ~ExitPosted(s) /\ gate'[s] = {}
  BY <1>1 DEF Drains, IInv, Stopping, HookStopsFirst
<1>5. ClosersWait'
  BY <1>1, <1>2, <1>3, <1>4
<1>6. CallsResolve'
  <2>1. \A r \in Shards \ {s} : Accepting(r)' <=> Accepting(r)
    BY DEF Accepting
  <2>2. op # Acceptor => (Accepting(s)' <=> Accepting(s))
    BY DEF Accepting
  <2>3. \A r \in Shards : r \in exitWait' => ExitPosted(r)' \/ (closer'[r] = "exit" /\ gate'[r] # {})
    <3>1. \A r \in Shards \ {s} : r \in exitWait' => ExitPosted(r)' \/ (closer'[r] = "exit" /\ gate'[r] # {})
      BY <1>1, <1>2
    <3>2. ASSUME s \in exitWait' PROVE ExitPosted(s)' \/ (closer'[s] = "exit" /\ gate'[s] # {})
      <4>1. s \in exitWait /\ ~(Drains(s, op) /\ closer[s] = "exit")
        BY <1>1, <3>2
      <4>2. ExitPosted(s) \/ (closer[s] = "exit" /\ closed[s])
        BY <4>1
      <4> QED
        BY <1>2, <1>3, <4>1, <4>2
    <3> QED
      BY <3>1, <3>2
  <2>4. \A r \in Shards \ {s} : r \in mainWait' =>
          \/ MainPosted(r)' \/ main' = "setup" \/ (main' = "run" /\ Accepting(r)')
          \/ main' = "stop" /\ closer'[r] = "main" /\ gate'[r] # {}
    BY <1>1, <1>2, <2>1
  <2>5. s \in mainWait' =>
          \/ MainPosted(s)' \/ main' = "setup" \/ (main' = "run" /\ Accepting(s)')
          \/ main' = "stop" /\ closer'[s] = "main" /\ gate'[s] # {}
    <3>1. SUFFICES ASSUME s \in mainWait'
                   PROVE  \/ MainPosted(s)' \/ main' = "setup" \/ (main' = "run" /\ Accepting(s)')
                          \/ main' = "stop" /\ closer'[s] = "main" /\ gate'[s] # {}
      OBVIOUS
    <3>2. \/ MainPosted(s) \/ main = "setup" \/ (main = "run" /\ Accepting(s))
          \/ main = "stop" /\ closer[s] = "main" /\ closed[s]
      BY <3>1
    <3>3. op # Acceptor /\ ~(Drains(s, op) /\ closer[s] = "main")
      BY <3>1
    <3> QED
      BY <1>2, <1>3, <2>2, <3>2, <3>3
  <2> QED
    BY <1>2, <2>3, <2>4, <2>5
<1>7. StopAborts'
  OBVIOUS
<1> QED
  BY <1>5, <1>6, <1>7

LEMMA StepCalls == IInv /\ CallsInv /\ [Next]_vars => CallsInv'
<1> SUFFICES ASSUME IInv, CallsInv, [Next]_vars PROVE CallsInv'
  OBVIOUS
<1> USE DEF CallsInv, CallsResolve, ClosersWait, StopAborts, mainVars, exitVars, appVars, serviceVars
<1>0. /\ Core /\ Stopping
      /\ mail \in [Shards -> Mails] /\ mainWait \subseteq Shards /\ exitWait \subseteq Shards
      /\ main \in DOMAIN Following \cup {"clear"} \cup Finished
      /\ interrupted \in [Shards -> BOOLEAN] /\ closed \in [Shards -> BOOLEAN]
      /\ closer \in [Shards -> {"none", "main", "exit"}]
      /\ acceptor \in [Shards -> {"none", "pending", "ready", "error", "stopped", "failed"}]
      /\ gate \in [Shards -> SUBSET (Conns \cup {Acceptor})]
      /\ CallsAreAwaited
  BY DEF IInv, Core, TypeOK, AppTypeOK, Mails
<1>1. CASE MainThen /\ UNCHANGED serviceVars
  <2>1. \A s \in Shards : ~MainPosted(s)
    BY <1>0, <1>1 DEF MainThen, CallsAreAwaited
  <2>2. /\ UNCHANGED <<exit, exitErr, exitWait, interrupted, proc, serviceVars>> /\ mainWait' = Shards
        /\ \A s \in Shards : MainPosted(s)' /\ (ExitPosted(s)' <=> ExitPosted(s))
    BY <1>0, <1>1, <2>1, PostMain DEF MainThen
  <2> QED
    BY <2>2
<1>2. CASE (MainFail \/ MainDone \/ ExitStuck \/ ExitDone) /\ UNCHANGED serviceVars
  <2>1. /\ UNCHANGED <<mainWait, exitErr, exitWait, mail, serviceVars>>
        /\ proc = "up" /\ (main' = main \/ (main' \in Finished /\ mainWait = {}))
    BY <1>2 DEF MainFail, MainDone, ExitStuck, ExitDone, Finished
  <2> QED
    BY <2>1, KeepMail DEF Accepting, Finished
<1>3. CASE StartExit /\ UNCHANGED serviceVars
  <2>1. /\ \A s \in Shards : ~ExitPosted(s) /\ ~closed[s]
        /\ UNCHANGED <<mainVars, exitErr, proc, serviceVars>>
    BY <1>0, <1>3 DEF StartExit, CallsAreAwaited, Stopping, HookStopsFirst
  <2>2. CASE main = "done"
    BY <1>3, <2>1, <2>2, KeepMail DEF StartExit
  <2>3. CASE main # "done"
    <3>1. exitWait' = Shards /\ \A s \in Shards : ExitPosted(s)' /\ (MainPosted(s)' <=> MainPosted(s))
      BY <1>0, <1>3, <2>1, <2>3, PostExit DEF StartExit
    <3> QED
      BY <2>1, <3>1 DEF Accepting
  <2> QED
    BY <2>2, <2>3
<1>4. ASSUME NEW s \in Shards, SetupReporter(s) \/ Collect(s) \/ Destroy(s), UNCHANGED serviceVars PROVE CallsInv'
  <2>1. /\ UNCHANGED <<main, exit, exitErr, exitWait, proc, serviceVars>> /\ Deliver(s, "main")
        /\ main = "setup" \/ mainWait' = mainWait \ {s}
        /\ main # "stop"
        /\ mainWait' \subseteq mainWait
    BY <1>4 DEF SetupReporter, Collect, Destroy
  <2> QED
    BY <1>0, <2>1, DeliverMain DEF Accepting
<1>5. ASSUME NEW s \in Shards, ReporterArmed(s), UNCHANGED serviceVars PROVE CallsInv'
  BY <1>5, KeepMail DEF ReporterArmed, Accepting
<1>6. ASSUME NEW s \in Shards, RunTcp(s) PROVE CallsInv'
  <2>1. /\ UNCHANGED <<main, mainWait, exit, exitErr, exitWait, proc, interrupted, closed, closer>>
        /\ Deliver(s, "main") /\ proc = "up" /\ main = "run" /\ ~closed[s]
        /\ gate' = [gate EXCEPT ![s] = @ \cup {Acceptor}]
        /\ acceptor' = [acceptor EXCEPT ![s] = "pending"]
    BY <1>6 DEF RunTcp, Deliver
  <2>2. ~interrupted[s] /\ closer[s] = "none"
    BY <1>0, <2>1 DEF Stopping, FlagClosesGate
  <2>3. Accepting(s)' /\ \A r \in Shards \ {s} : gate'[r] = gate[r] /\ (Accepting(r)' <=> Accepting(r))
    BY <1>0, <2>1 DEF Accepting
  <2>4. /\ \A r \in Shards : ExitPosted(r)' <=> ExitPosted(r)
        /\ \A r \in Shards \ {s} : MainPosted(r)' <=> MainPosted(r)
    BY <1>0, <2>1, DeliverMain
  <2> QED
    BY <1>0, <2>1, <2>2, <2>3, <2>4
<1>7. ASSUME NEW s \in Shards, RunTcpThrows(s) PROVE CallsInv'
  <2>1. /\ UNCHANGED <<main, exit, exitErr, exitWait, proc, serviceVars>> /\ Deliver(s, "main")
        /\ mainWait' = mainWait \ {s} /\ main = "run"
    BY <1>7 DEF RunTcpThrows
  <2> QED
    BY <1>0, <2>1, DeliverMain DEF Accepting
<1>8. ASSUME NEW s \in Shards, AcceptResolves(s) PROVE CallsInv'
  <2>1. /\ UNCHANGED <<appVars, interrupted, gate, closed, closer>> /\ acceptor[s] = "pending"
        /\ \E a \in {"ready", "error"} : acceptor' = [acceptor EXCEPT ![s] = a]
    BY <1>8 DEF AcceptResolves
  <2>2. \A r \in Shards : Accepting(r)' <=> Accepting(r)
    BY <1>0, <2>1 DEF Accepting
  <2> QED
    BY <1>0, <2>1, <2>2, KeepMail
<1>9. ASSUME NEW s \in Shards, AcceptHandles(s) PROVE CallsInv'
  <2>1. /\ UNCHANGED <<appVars, interrupted, closed, closer>>
        /\ acceptor[s] = "ready" /\ ~interrupted[s] /\ ~closed[s]
        /\ acceptor' = [acceptor EXCEPT ![s] = "pending"]
        /\ \E c \in Conns : gate' = [gate EXCEPT ![s] = @ \cup {c}]
    BY <1>9 DEF AcceptHandles
  <2>2. \A r \in Shards : Accepting(r)' <=> Accepting(r)
    BY <1>0, <2>1 DEF Accepting
  <2>3. /\ \A r \in Shards \ {s} : gate'[r] = gate[r] /\ acceptor'[r] = acceptor[r]
        /\ closer[s] = "none"
    BY <1>0, <2>1
  <2> QED
    BY <1>0, <2>1, <2>2, <2>3, KeepMail
<1>10. ASSUME NEW s \in Shards, AcceptSeesInterrupt(s) \/ AcceptThrows(s) PROVE CallsInv'
  <2>1. /\ UNCHANGED <<main, exitErr, mail, proc, interrupted, closed, closer>> /\ proc = "up"
        /\ Leave(s, Acceptor) /\ mainWait' = mainWait \ {s} /\ Accepting(s)
        /\ \E how \in {"stopped", "failed"} : acceptor' = [acceptor EXCEPT ![s] = how]
    BY <1>10 DEF AcceptSeesInterrupt, AcceptThrows, LoopEnds, Accepting
  <2>2. Acceptor \in gate[s]
    BY <1>0, <2>1 DEF Core, GateTracksOperations
  <2>3. /\ \A r \in Shards : acceptor'[r] = "pending" => acceptor[r] = "pending"
        /\ \A r \in Shards \ {s} : acceptor'[r] = acceptor[r]
    BY <1>0, <2>1
  <2> QED
    BY <2>1, <2>2, <2>3, LeavingResolves
<1>11. ASSUME NEW s \in Shards, NEW c \in Conns, HandlerEnds(s, c) PROVE CallsInv'
  <2>1. /\ UNCHANGED <<main, exitErr, mail, proc, interrupted, closed, closer, acceptor>> /\ proc = "up"
        /\ Leave(s, c) /\ c \in Open(s)
        /\ mainWait' = IF Drains(s, c) /\ closer[s] = "main" THEN mainWait \ {s} ELSE mainWait
    BY <1>11 DEF HandlerEnds, Open
  <2>2. c \in gate[s] /\ c # Acceptor
    BY <1>0, <2>1, AcceptorAssumption DEF Core, GateTracksOperations
  <2> QED
    BY <2>1, <2>2, LeavingResolves
<1>12. ASSUME NEW s \in Shards, Stop(s, "exit") PROVE CallsInv'
  <2>1. /\ UNCHANGED <<main, mainWait, exitErr, proc, listener, gate>> /\ Deliver(s, "exit") /\ ~closed[s]
        /\ interrupted' = [interrupted EXCEPT ![s] = TRUE]
        /\ closed' = [closed EXCEPT ![s] = TRUE] /\ closer' = [closer EXCEPT ![s] = "exit"]
        /\ exitWait' = IF gate[s] = {} THEN exitWait \ {s} ELSE exitWait
        /\ acceptor' = IF listener[s] = "live" /\ acceptor[s] = "pending"
                         THEN [acceptor EXCEPT ![s] = "error"] ELSE acceptor
    BY <1>12 DEF Stop, StopCalled, RaiseAndAbort
  <2>2. acceptor'[s] # "pending" /\ \A r \in Shards : acceptor'[r] = "pending" => acceptor[r] = "pending"
    BY <1>0, <2>1 DEF Core, LoopsAreAwaited, Accepting
  <2>3. \A r \in Shards : Accepting(r)' <=> Accepting(r)
    BY <1>0, <2>1 DEF Accepting
  <2>4. /\ ExitPosted(s) /\ ~ExitPosted(s)' /\ \A r \in Shards \ {s} : ExitPosted(r)' <=> ExitPosted(r)
        /\ \A r \in Shards : MainPosted(r)' <=> MainPosted(r)
    BY <1>0, <2>1, DeliverExit
  <2>5. proc = "up" /\ main # "stop"
    BY <1>0, <2>1 DEF Deliver, Stopping, FlagClosesGate, LoopsEndInterrupted
  <2>6. ClosersWait'
    BY <1>0, <2>1, <2>4
  <2>7. CallsResolve'
    BY <1>0, <2>1, <2>3, <2>4, <2>5
  <2>8. StopAborts'
    BY <1>0, <2>1, <2>2
  <2> QED
    BY <2>6, <2>7, <2>8
<1>13. ASSUME NEW s \in Shards, StopAgain(s) PROVE CallsInv'
  <2>1. /\ main' = main /\ main = "stop" /\ gate' = gate /\ closed' = closed /\ closed[s]
        /\ Deliver(s, "main") /\ proc = "up" /\ interrupted' = [interrupted EXCEPT ![s] = TRUE]
    BY <1>13 DEF StopAgain, StopCalled, RaiseAndAbort, Deliver
  <2>2. acceptor' = acceptor /\ \A r \in Shards : ~Accepting(r)
    BY <1>0, <1>13, <2>1 DEF StopAgain, RaiseAndAbort, Core, LoopsAreAwaited, Accepting
  <2>3. /\ MainPosted(s) /\ ~MainPosted(s)' /\ \A r \in Shards \ {s} : MainPosted(r)' <=> MainPosted(r)
        /\ \A r \in Shards : ExitPosted(r)' <=> ExitPosted(r)
    BY <1>0, <2>1, DeliverMain
  <2>4. \A r \in Shards : acceptor'[r] # "pending"
    BY <2>2 DEF Accepting
  <2>5. CASE proc' = "gate_assert" /\ UNCHANGED <<closer, mainWait, exitWait, exitErr>>
    BY <2>1, <2>3, <2>4, <2>5
  <2>6. CASE /\ closer' = [closer EXCEPT ![s] = "main"] /\ proc' = proc
             /\ mainWait' = IF gate[s] = {} THEN mainWait \ {s} ELSE mainWait
             /\ exitErr' = (exitErr \/ s \in exitWait) /\ exitWait' = exitWait \ {s}
    <3>1. ~ExitPosted(s)
      BY <1>0, <2>1 DEF Stopping, HookStopsFirst
    <3>2. gate[s] # {} => exitErr'
      BY <1>0, <2>1, <2>6
    <3>3. ClosersWait'
      BY <1>0, <2>1, <2>3, <2>6, <3>1, <3>2
    <3>4. CallsResolve'
      BY <1>0, <2>1, <2>2, <2>3, <2>6
    <3> QED
      BY <2>4, <3>3, <3>4
  <2> QED
    BY <1>13, <2>5, <2>6 DEF StopAgain
<1>14. ASSUME NEW s \in Shards, NEW caller \in {"main", "exit"}, StopUsesDeadListener(s, caller) PROVE CallsInv'
  <2>1. /\ proc' = "use_after_free" /\ Deliver(s, caller)
        /\ UNCHANGED <<exitWait, exitErr, closed, closer, gate>>
    BY <1>14 DEF StopUsesDeadListener, StopCalled
  <2>2. \A r \in Shards : ExitPosted(r)' => ExitPosted(r)
    BY <1>0, <2>1, DeliverMain, DeliverExit
  <2> QED
    BY <2>1, <2>2
<1>15. CASE UNCHANGED vars
  BY <1>15, KeepMail DEF vars, Accepting
<1>16. \A s \in Shards : ~Stop(s, "main")
  BY <1>0, MainNeverStopsFirst
<1> QED
  BY <1>1, <1>2, <1>3, <1>4, <1>5, <1>6, <1>7, <1>8, <1>9, <1>10, <1>11, <1>12, <1>13, <1>14, <1>15, <1>16
     DEF Next, Call, Accepted, AppStep, AppNext, Signal, Interrupt, ExitAfterMain

LEMMA RestsHaveReason == IInv /\ CallsInv => RestsForAReason
<1> SUFFICES ASSUME IInv, CallsInv, Standstill
             PROVE  \/ main = "run" /\ exit = "idle" /\ \E s \in Shards : acceptor[s] = "pending"
                    \/ main = "failed" /\ exit = "stop" /\ HandlerIgnoresStop
                    \/ exit = "stuck" /\ (main = "done" \/ (main = "stop" /\ HandlerIgnoresStop))
  BY DEF RestsForAReason
<1>1. /\ proc = "up" /\ Core /\ Stopping /\ ClosersWait /\ StopAborts
      /\ mainWait \subseteq Shards /\ exitWait \subseteq Shards
      /\ main \in DOMAIN Following \cup {"clear"} \cup Finished /\ exit \in {"idle", "stop", "stuck"}
  BY DEF Standstill, IInv, CallsInv, Core, TypeOK, AppTypeOK
<1>2. \A s \in Shards : mail[s] = <<>> /\ ~MainPosted(s) /\ ~ExitPosted(s)
  BY MailsDiffer DEF Standstill, CallWaits, MainPosted, ExitPosted
<1>3. /\ \A s \in Shards : s \in mainWait =>
           main = "setup" \/ (main = "run" /\ Accepting(s)) \/ (main = "stop" /\ closer[s] = "main" /\ gate[s] # {})
      /\ \A s \in Shards : s \in exitWait => closer[s] = "exit" /\ gate[s] # {}
      /\ main = "stop" => \A s \in Shards : closer[s] = "main"
  BY <1>1, <1>2 DEF CallsInv, CallsResolve
\* Behind the run, what is left in a closed gate is a handler that was told.
<1>4. ASSUME NEW s \in Shards, closed[s], gate[s] # {}, main # "run" PROVE HandlerIgnoresStop
  <2>1. interrupted[s] /\ ~Accepting(s)
    BY <1>1, <1>4 DEF Stopping, FlagClosesGate, Core, LoopsAreAwaited
  <2>2. Open(s) # {}
    BY <1>1, <1>4, <2>1 DEF Core, GateTracksOperations
  <2> QED
    BY <2>1, <2>2 DEF HandlerIgnoresStop
<1>5. CASE main \in {"setup", "report", "clear"}
  <2>1. PICK s \in Shards : s \in mainWait
    BY <1>1, <1>5 DEF Standstill, ChainMoves, Following
  <2> QED
    BY <1>2, <1>3, <1>5, <2>1 DEF Standstill, TimerWaits
<1>6. CASE main = "run"
  <2>1. PICK s \in Shards : s \in mainWait
    BY <1>1, <1>6 DEF Standstill, ChainMoves, Following
  <2>2. acceptor[s] = "pending"
    BY <1>3, <1>6, <2>1 DEF Standstill, Accepting
  <2>3. ~closed[s]
    BY <1>1, <2>2 DEF StopAborts, Stopping, FlagClosesGate
  <2>4. exit = "idle"
    BY <1>1, <1>2, <1>6, <2>3 DEF IInv, Ordered, HookReachesAll
  <2> QED
    BY <1>6, <2>2, <2>4
<1>7. CASE main = "stop"
  <2>1. PICK s \in Shards : s \in mainWait
    BY <1>1, <1>7 DEF Standstill, ChainMoves, Following
  <2>2. closer[s] = "main" /\ gate[s] # {} /\ closed[s] /\ exitErr /\ exit # "idle"
    BY <1>1, <1>3, <1>7, <2>1 DEF ClosersWait, Stopping, HookStopsFirst
  <2>3. exitWait = {}
    BY <1>1, <1>3, <1>7
  <2>4. exit = "stuck"
    BY <1>1, <2>2, <2>3 DEF Standstill, ExitMoves
  <2> QED
    BY <1>4, <1>7, <2>2, <2>4
<1>8. CASE main = "done"
  <2>1. exitWait = {}
    BY <1>1, <1>3, <1>8 DEF Core, StoppedGatesEmpty
  <2> QED
    BY <1>1, <1>8, <2>1 DEF Standstill, ExitMoves, Finished
<1>9. CASE main = "failed"
  <2>1. exit = "stop" /\ exitWait # {}
    BY <1>1, <1>9 DEF Standstill, ExitMoves, Finished, Core, HangsLate, Reported
  <2>2. PICK s \in Shards : s \in exitWait
    BY <1>1, <2>1
  <2>3. closer[s] = "exit" /\ gate[s] # {} /\ closed[s]
    BY <1>1, <1>3, <2>2 DEF ClosersWait
  <2> QED
    BY <1>4, <1>9, <2>1, <2>3
<1> QED
  BY <1>1, <1>5, <1>6, <1>7, <1>8, <1>9 DEF Following, Finished

\* A server process comes to rest while it listens, uninterrupted; behind a
\* failed run, for a handler that was told to end; or in its exit tasks, for
\* the second close of a gate (tcp_server.cpp:58-66 and 181-205).
THEOREM RestsCorrect == Spec => []RestsForAReason
<1>1. Spec => []CallsInv
  BY InitCalls, StepCalls, Inv, PTL DEF Spec
<1> QED
  BY <1>1, RestsHaveReason, Inv, PTL

\* The hook finds every instance that it has a call for: unlike the client,
\* the server needs no ExitMissesInstance, since a run without a failure is
\* over only when the hook has stopped every shard.
HookFindsInstances ==
  proc = "up" => \A s \in Shards : ~alive[s] => mail[s] \in {<<>>, <<"main">>}

THEOREM HookNeverMisses == Spec => []HookFindsInstances
<1>1. ASSUME IInv, proc = "up", NEW s \in Shards, ~alive[s] PROVE mail[s] \in {<<>>, <<"main">>}
  <2>1. main \in {"clear", "done"} /\ mail[s] \in Mails
    BY <1>1 DEF IInv, Core, StoppedGatesEmpty, TypeOK, AppTypeOK, Mails
  <2>2. closed[s]
    BY <1>1, <2>1 DEF IInv, Stopping, LoopsEndInterrupted, FlagClosesGate
  <2>3. ~ExitPosted(s)
    BY <1>1, <2>2 DEF IInv, Stopping, HookStopsFirst
  <2> QED
    BY <2>1, <2>3 DEF Mails, ExitPosted
<1>2. IInv => HookFindsInstances
  BY <1>1 DEF HookFindsInstances
<1> QED
  BY <1>2, Inv, PTL

-----------------------------------------------------------------------------
(***************************************************************************)
(* The server implements GatedRun with what is inside its gates, faults    *)
(* and second closes included.                                             *)
(***************************************************************************)
LEMMA PromiseInit == Init => Promise!Init
  BY DEF Init, AppInit, Promise!Init, Phase

LEMMA PromiseStutters ==
  ASSUME UNCHANGED <<gate, alive>>, Phase' = Phase
  PROVE  UNCHANGED Promise!vars
  BY DEF Promise!vars, Phase

\* What leaves the gate is an operation of the promise that ends.
LEMMA LeavingEnds ==
  ASSUME Core, NEW s \in Shards, NEW op \in gate[s], Leave(s, op), UNCHANGED <<main, alive>>
  PROVE  Promise!Next
<1>1. Promise!End(s)
  BY DEF Promise!End, Leave, Phase
<1> QED
  BY <1>1 DEF Promise!Next

LEMMA PromiseStep == IInv /\ [Next]_vars => [Promise!Next]_Promise!vars
<1> SUFFICES ASSUME IInv, [Next]_vars PROVE Promise!Next \/ UNCHANGED Promise!vars
  OBVIOUS
<1> USE DEF serviceVars, mainVars, exitVars, appVars
<1>0. /\ Core
      /\ gate \in [Shards -> SUBSET (Conns \cup {Acceptor})]
      /\ alive \in [Shards -> BOOLEAN] /\ mail \in [Shards -> Mails]
      /\ main \in DOMAIN Following \cup {"clear"} \cup Finished
  BY DEF IInv, Core, TypeOK, AppTypeOK, Mails
<1>1. CASE (MainThen \/ MainFail) /\ main = "run" /\ UNCHANGED serviceVars
  <2>1. gate' = gate /\ alive' = alive /\ mainWait = {} /\ main' \in {"report", "failed"}
    BY <1>1 DEF MainThen, MainFail, Following
  <2>2. \A s \in Shards : gate[s] \cap {Acceptor} = {}
    <3>1. \A s \in Shards : gate[s] = Open(s)
      BY <1>0, <2>1 DEF Core, LoopsAreAwaited, GateTracksOperations
    <3> QED
      BY <3>1, AcceptorAssumption DEF Open
  <2>3. Promise!RunEnds
    BY <1>1, <2>1, <2>2 DEF Promise!RunEnds, Phase
  <2> QED
    BY <2>3 DEF Promise!Next
<1>2. CASE MainThen /\ main = "report" /\ UNCHANGED serviceVars
  BY <1>2 DEF MainThen, Following, Promise!Next, Promise!Stop, Phase
<1>3. CASE MainThen /\ main \notin {"run", "report"} /\ UNCHANGED serviceVars
  BY <1>3, PromiseStutters DEF MainThen, Following, Phase
<1>4. CASE MainFail /\ main # "run"
  BY <1>0, <1>4 DEF MainFail, Core, ErrorsFailTheRun, Following
<1>5. CASE (MainDone \/ StartExit \/ ExitStuck \/ ExitDone) /\ UNCHANGED serviceVars
  BY <1>5, PromiseStutters DEF MainDone, StartExit, ExitStuck, ExitDone, Phase
<1>6. ASSUME NEW s \in Shards, SetupReporter(s) \/ ReporterArmed(s) \/ Collect(s), UNCHANGED serviceVars
      PROVE  UNCHANGED Promise!vars
  BY <1>6, PromiseStutters DEF SetupReporter, ReporterArmed, Collect, Phase
<1>7. ASSUME NEW s \in Shards, Destroy(s), UNCHANGED serviceVars
      PROVE  Promise!Next \/ UNCHANGED Promise!vars
  <2>1. main = "clear" /\ main' = main /\ gate' = gate /\ alive' = [alive EXCEPT ![s] = FALSE]
    BY <1>7 DEF Destroy
  <2>2. gate[s] = {}
    BY <1>0, <2>1 DEF Core, StoppedGatesEmpty
  <2>3. CASE alive[s]
    <3>1. Promise!DestroyInstance(s)
      BY <2>1, <2>2, <2>3 DEF Promise!DestroyInstance, Phase
    <3> QED
      BY <3>1 DEF Promise!Next
  <2>4. CASE ~alive[s]
    <3>1. alive' = alive
      BY <1>0, <2>1, <2>4
    <3> QED
      BY <2>1, <3>1, PromiseStutters DEF Phase
  <2> QED
    BY <2>3, <2>4
<1>8. ASSUME NEW s \in Shards, RunTcp(s) PROVE Promise!Next
  <2>1. main = "run" /\ main' = main /\ alive' = alive /\ gate' = [gate EXCEPT ![s] = @ \cup {Acceptor}]
    BY <1>8 DEF RunTcp
  <2>2. alive[s]
    BY <1>0, <2>1 DEF Core, StoppedGatesEmpty
  <2>3. Promise!Begin(s)
    BY <2>1, <2>2 DEF Promise!Begin, Phase
  <2> QED
    BY <2>3 DEF Promise!Next
<1>9. ASSUME NEW s \in Shards, AcceptHandles(s) PROVE Promise!Next
  <2>1. /\ main' = main /\ alive' = alive /\ Accepting(s)
        /\ \E c \in Conns : gate' = [gate EXCEPT ![s] = @ \cup {c}]
    BY <1>9 DEF AcceptHandles, Accepting
  <2>2. main = "run" /\ alive[s]
    BY <1>0, <2>1 DEF Core, LoopsAreAwaited, StoppedGatesEmpty
  <2>3. Promise!Begin(s)
    BY <2>1, <2>2 DEF Promise!Begin, Phase
  <2> QED
    BY <2>3 DEF Promise!Next
<1>10. ASSUME NEW s \in Shards, AcceptSeesInterrupt(s) \/ AcceptThrows(s) PROVE Promise!Next
  <2>1. UNCHANGED <<main, alive>> /\ Leave(s, Acceptor) /\ Accepting(s)
    BY <1>10 DEF AcceptSeesInterrupt, AcceptThrows, LoopEnds, Accepting
  <2>2. Acceptor \in gate[s]
    BY <1>0, <2>1 DEF Core, GateTracksOperations
  <2> QED
    BY <1>0, <2>1, <2>2, LeavingEnds
<1>11. ASSUME NEW s \in Shards, NEW c \in Conns, HandlerEnds(s, c) PROVE Promise!Next
  <2>1. UNCHANGED <<main, alive>> /\ Leave(s, c) /\ c \in Open(s)
    BY <1>11 DEF HandlerEnds, Open
  <2>2. c \in gate[s]
    BY <1>0, <2>1 DEF Core, GateTracksOperations
  <2> QED
    BY <1>0, <2>1, <2>2, LeavingEnds
<1>12. ASSUME NEW s \in Shards, RunTcpThrows(s) \/ AcceptResolves(s) \/ StopAgain(s) PROVE UNCHANGED Promise!vars
  BY <1>12, PromiseStutters DEF RunTcpThrows, AcceptResolves, StopAgain, RaiseAndAbort, Phase
<1>13. ASSUME NEW s \in Shards, NEW caller \in {"main", "exit"}, Stop(s, caller) \/ StopUsesDeadListener(s, caller)
       PROVE  UNCHANGED Promise!vars
  BY <1>13, PromiseStutters DEF Stop, StopUsesDeadListener, RaiseAndAbort, Phase
<1>14. CASE UNCHANGED vars
  BY <1>14, PromiseStutters DEF vars, Phase
<1> QED
  BY <1>1, <1>2, <1>3, <1>4, <1>5, <1>6, <1>7, <1>8, <1>9, <1>10, <1>11, <1>12, <1>13, <1>14
     DEF Next, Call, Accepted, AppStep, AppNext, Signal, Interrupt, ExitAfterMain

\* tcp_server implements GatedRun, faults or not: a connection is handled
\* only during the run, which waits for the accept loops of all shards, and
\* nothing is left in a gate whose instance is destroyed, although the gate
\* may be closed twice (tcp_server.cpp:23-66, run_tcp and stop()).
THEOREM ServerKeepsPromise == Spec => ImplementsGatedRun
<1>1. Spec => Promise!Init /\ [][Promise!Next]_Promise!vars
  BY PromiseInit, PromiseStep, Inv, PTL DEF Spec
<1> QED
  BY <1>1 DEF ImplementsGatedRun, Promise!Spec
=============================================================================
