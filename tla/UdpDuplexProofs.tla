-------------------------- MODULE UdpDuplexProofs --------------------------
(***************************************************************************)
(* Proofs about UdpDuplex, for all numbers of shards and connections, all  *)
(* offsets, and whatever ports other programs hold.                        *)
(***************************************************************************)
EXTENDS UdpDuplex, AppMainProofs, DuplexPortsProofs

-----------------------------------------------------------------------------
(***************************************************************************)
(* The inductive invariant: the gate holds the connections whose port was  *)
(* bound and that still have a loop, and is not empty only while main()    *)
(* waits for run_udp of its shard.                                         *)
(***************************************************************************)
ChainSucceeds == ~mainErr /\ main # "failed"

GatesFilledInRun ==
  \A s \in Shards : gate[s] # {} => main = "run" /\ s \in mainWait /\ ~MainPosted(s)

GateHoldsConnections ==
  \A s \in Shards, i \in Tasks :
    i \in gate[s] <=> Receiving(s, i) \/ (Sending(s, i) /\ ~Orphan(s, i))

StartedTogether ==
  \A s \in Shards, i \in Tasks : writer[s][i] = "none" <=> reader[s][i] = "none"

\* run_udp is called once, on a shard whose connections are not started.
StartsOnce ==
  \A s \in Shards :
    (main = "setup" \/ (main = "run" /\ MainPosted(s))) => \A i \in Tasks : reader[s][i] = "none"

GoneAtTheEnd ==
  \A s \in Shards : ~alive[s] => main \in {"clear", "done"} /\ ~MainPosted(s)

IInv ==
  /\ TypeOK
  /\ CallsAreAwaited
  /\ ChainSucceeds
  /\ GatesFilledInRun
  /\ GateHoldsConnections
  /\ StartedTogether
  /\ StartsOnce
  /\ GoneAtTheEnd

LEMMA InitInv == Init => IInv
<1> SUFFICES ASSUME Init PROVE IInv
  OBVIOUS
<1> USE DEF Init, AppInit
<1>1. TypeOK
  BY DEF TypeOK, AppTypeOK, Following, Finished
<1>2. \A s \in Shards : MainPosted(s) /\ ~ExitPosted(s)
  BY MailsDiffer DEF MainPosted, ExitPosted
<1>3. GateHoldsConnections /\ StartedTogether /\ StartsOnce
  BY DEF GateHoldsConnections, StartedTogether, StartsOnce, Receiving, Sending
<1> QED
  BY <1>1, <1>2, <1>3 DEF IInv, CallsAreAwaited, ChainSucceeds, GatesFilledInRun, GoneAtTheEnd

\* One loop of one connection is put in its last state.
LEMMA OneEnds ==
  ASSUME NEW S, "ended" \in S, NEW f \in [Shards -> [Tasks -> S]], NEW s \in Shards, NEW i \in Tasks
  PROVE  /\ [f EXCEPT ![s][i] = "ended"] \in [Shards -> [Tasks -> S]]
         /\ \A r \in Shards, k \in Tasks :
              [f EXCEPT ![s][i] = "ended"][r][k] = IF r = s /\ k = i THEN "ended" ELSE f[r][k]
  OBVIOUS

\* A connection that is over is taken from the gate of its shard alone.
LEMMA GateShrinks ==
  ASSUME TypeOK, NEW s \in Shards, NEW i \in Tasks,
         gate' = gate \/ gate' = [gate EXCEPT ![s] = @ \ {i}],
         mainWait' = mainWait \/ (mainWait' = mainWait \ {s} /\ gate'[s] = {})
  PROVE  /\ gate' \in [Shards -> SUBSET Tasks]
         /\ mainWait' \subseteq Shards
         /\ \A r \in Shards : /\ gate'[r] # {} => gate[r] # {}
                              /\ gate'[r] # {} /\ r \in mainWait => r \in mainWait'
<1>1. gate \in [Shards -> SUBSET Tasks] /\ mainWait \subseteq Shards
  BY DEF TypeOK, AppTypeOK
<1>2. gate' \in [Shards -> SUBSET Tasks] /\ \A r \in Shards : gate'[r] \subseteq gate[r]
  BY <1>1
<1> QED
  BY <1>1, <1>2

LEMMA LoopEndsInv ==
  ASSUME IInv, NEW s \in Shards, NEW i \in Tasks, WriterEnds(s, i) \/ ReaderEnds(s, i)
  PROVE  IInv'
<1>1. /\ UNCHANGED <<main, mainErr, exit, exitWait, exitErr, mail, alive, proc, interrupted, closed>>
      /\ writer[s][i] # "none" /\ reader[s][i] # "none"
      /\ \/ writer' = [writer EXCEPT ![s][i] = "ended"] /\ reader' = reader
         \/ reader' = [reader EXCEPT ![s][i] = "ended"] /\ writer' = writer
  BY DEF WriterEnds, ReaderEnds, IInv, TypeOK, StartedTogether, exitVars
<1>2. /\ gate' = gate \/ gate' = [gate EXCEPT ![s] = @ \ {i}]
      /\ mainWait' = mainWait \/ (mainWait' = mainWait \ {s} /\ gate'[s] = {})
      /\ mainWait' # mainWait => gate[s] # {}
  BY DEF WriterEnds, ReaderEnds, Leave, IInv, TypeOK
<1>3. /\ gate' \in [Shards -> SUBSET Tasks]
      /\ mainWait' \subseteq Shards
      /\ \A r \in Shards : /\ gate'[r] # {} => gate[r] # {}
                           /\ gate'[r] # {} /\ r \in mainWait => r \in mainWait'
  BY <1>2, GateShrinks DEF IInv
<1>4. AppTypeOK'
  BY <1>1, <1>3 DEF IInv, TypeOK, AppTypeOK
<1>5. TypeOK'
  <2>1. /\ writer' \in [Shards -> [Tasks -> {"none", "sending", "ended"}]]
        /\ reader' \in [Shards -> [Tasks -> {"none", "receiving", "ended", "unbound", "failed"}]]
    <3>1. CASE writer' = [writer EXCEPT ![s][i] = "ended"] /\ reader' = reader
      BY <3>1, OneEnds DEF IInv, TypeOK
    <3>2. CASE reader' = [reader EXCEPT ![s][i] = "ended"] /\ writer' = writer
      BY <3>2, OneEnds DEF IInv, TypeOK
    <3> QED
      BY <1>1, <3>1, <3>2
  <2>2. interrupted' \in [Shards -> BOOLEAN] /\ closed' \in [Shards -> BOOLEAN]
    BY <1>1 DEF IInv, TypeOK
  <2> QED
    BY <2>1, <2>2, <1>3, <1>4 DEF TypeOK
<1>6. StartedTogether'
  <2>1. CASE writer' = [writer EXCEPT ![s][i] = "ended"] /\ reader' = reader
    BY <1>1, <2>1, OneEnds DEF IInv, TypeOK, StartedTogether
  <2>2. CASE reader' = [reader EXCEPT ![s][i] = "ended"] /\ writer' = writer
    BY <1>1, <2>2, OneEnds DEF IInv, TypeOK, StartedTogether
  <2> QED
    BY <1>1, <2>1, <2>2
<1>7. GateHoldsConnections'
  <2>1. CASE WriterEnds(s, i)
    BY <2>1, <1>1 DEF WriterEnds, Leave, IInv, TypeOK, GateHoldsConnections, Sending, Receiving, Orphan
  <2>2. CASE ReaderEnds(s, i)
    BY <2>2, <1>1 DEF ReaderEnds, Leave, IInv, TypeOK, GateHoldsConnections, Sending, Receiving, Orphan
  <2> QED
    BY <2>1, <2>2
<1>8. \A r \in Shards : (MainPosted(r)' <=> MainPosted(r)) /\ (ExitPosted(r)' <=> ExitPosted(r))
  BY <1>1, KeepMail
<1>9. GatesFilledInRun'
  <2>1. main' = main
    BY <1>1
  <2> QED
    BY <2>1, <1>3, <1>8 DEF IInv, GatesFilledInRun
<1>10. StartsOnce'
  <2>1. \A r \in Shards, k \in Tasks : reader[r][k] = "none" => reader'[r][k] = "none"
    <3>1. CASE reader' = reader
      BY <3>1
    <3>2. CASE reader' = [reader EXCEPT ![s][i] = "ended"]
      BY <1>1, <3>2, OneEnds DEF IInv, TypeOK
    <3> QED
      BY <1>1, <3>1, <3>2
  <2>2. main' = main
    BY <1>1
  <2> QED
    BY <2>1, <2>2, <1>8 DEF IInv, StartsOnce
<1>11. CallsAreAwaited'
  BY <1>1, <1>2, <1>8 DEF IInv, CallsAreAwaited, GatesFilledInRun
<1> QED
  BY <1>1, <1>5, <1>6, <1>7, <1>8, <1>9, <1>10, <1>11 DEF IInv, ChainSucceeds, GoneAtTheEnd

LEMMA StepInv == IInv /\ [Next]_vars => IInv'
<1> SUFFICES ASSUME IInv, [Next]_vars PROVE IInv'
  OBVIOUS
<1> USE DEF IInv, TypeOK, AppTypeOK, Mails, Following, Finished, Ends, CallsAreAwaited,
            ChainSucceeds, GatesFilledInRun, GateHoldsConnections, StartedTogether, StartsOnce, GoneAtTheEnd,
            Sending, Receiving, Orphan, mainVars, exitVars, serviceVars
<1>0. mail \in [Shards -> Mails]
  OBVIOUS
<1>1. CASE MainThen /\ UNCHANGED serviceVars
  BY <1>0, <1>1, PostMain DEF MainThen
<1>2. CASE MainDone /\ UNCHANGED serviceVars
  BY <1>2, KeepMail DEF MainDone
<1>3. CASE StartExit /\ UNCHANGED serviceVars
  BY <1>0, <1>3, PostExit, KeepMail DEF StartExit
<1>4. CASE (ExitStuck \/ ExitDone) /\ UNCHANGED serviceVars
  BY <1>4, KeepMail DEF ExitStuck, ExitDone
<1>5. ASSUME NEW s \in Shards, SetupReporter(s) \/ Collect(s), UNCHANGED serviceVars PROVE IInv'
  <2>1. CASE SetupReporter(s)
    BY <1>0, <1>5, <2>1, DeliverMain DEF SetupReporter
  <2>2. CASE Collect(s)
    <3>1. /\ mail' \in [Shards -> Mails]
          /\ \A r \in Shards : (ExitPosted(r)' <=> ExitPosted(r)) /\ (MainPosted(r)' <=> MainPosted(r) /\ r # s)
      BY <1>0, <2>2, DeliverMain DEF Collect
    <3> QED
      BY <1>5, <2>2, <3>1 DEF Collect
  <2> QED
    BY <1>5, <2>1, <2>2
<1>6. ASSUME NEW s \in Shards, ReporterArmed(s), UNCHANGED serviceVars PROVE IInv'
  <2>1. ~MainPosted(s)
    BY <1>6, MailsDiffer DEF ReporterArmed, MainPosted
  <2>2. \A r \in Shards : (MainPosted(r)' <=> MainPosted(r)) /\ (ExitPosted(r)' <=> ExitPosted(r))
    BY <1>6, KeepMail DEF ReporterArmed
  <2> QED
    BY <1>6, <2>1, <2>2 DEF ReporterArmed
<1>7. ASSUME NEW s \in Shards, Destroy(s), UNCHANGED serviceVars PROVE IInv'
  <2>1. TypeOK'
    BY <1>0, <1>7, DeliverMain DEF Destroy
  <2> QED
    BY <1>0, <1>7, <2>1, DeliverMain DEF Destroy
<1>8. ASSUME NEW s \in Shards, ExitMissesInstance(s), UNCHANGED serviceVars PROVE IInv'
  BY <1>0, <1>8, DeliverExit DEF ExitMissesInstance
<1>9. ASSUME NEW s \in Shards, RunUdp(s) PROVE IInv'
  <2>1. PICK taken \in SUBSET Others, mute \in Failing, deaf \in Failing :
               StartConnections(s, PortHeld(s, taken), mute, deaf)
    BY <1>9 DEF RunUdp
  <2>2. PICK held \in SUBSET Tasks, silent \in SUBSET Tasks, broken \in SUBSET Tasks :
               StartConnections(s, held, silent, broken)
    BY <2>1 DEF PortHeld, Failing
  <2>3. /\ mail' \in [Shards -> Mails]
        /\ \A r \in Shards : (MainPosted(r)' <=> MainPosted(r) /\ r # s) /\ (ExitPosted(r)' <=> ExitPosted(r))
    BY <1>0, <1>9, DeliverMain DEF RunUdp
  <2>4. /\ main = "run" /\ MainPosted(s) /\ UNCHANGED <<main, mainErr, exitVars, alive, proc, interrupted>>
        /\ mainWait' = IF gate'[s] = {} THEN mainWait \ {s} ELSE mainWait
    BY <1>9, DeliverMain DEF RunUdp
  <2>5. /\ gate' \in [Shards -> SUBSET Tasks] /\ closed' \in [Shards -> BOOLEAN]
        /\ \A r \in Shards : r # s => gate'[r] = gate[r]
    BY <2>2 DEF StartConnections
  <2>6. /\ writer' \in [Shards -> [Tasks -> {"none", "sending", "ended"}]]
        /\ reader' \in [Shards -> [Tasks -> {"none", "receiving", "ended", "unbound", "failed"}]]
        /\ \A r \in Shards : r # s => writer'[r] = writer[r] /\ reader'[r] = reader[r]
    BY <2>2 DEF StartConnections
  <2>7. TypeOK'
    BY <2>3, <2>4, <2>5, <2>6
  <2>8. GateHoldsConnections' /\ StartedTogether'
    BY <2>2, <2>4, <2>5, <2>6 DEF StartConnections
  <2>9. GatesFilledInRun' /\ StartsOnce'
    BY <2>3, <2>4, <2>5, <2>6
  <2>10. CallsAreAwaited'
    BY <2>3, <2>4, <2>5
  <2> QED
    BY <2>4, <2>7, <2>8, <2>9, <2>10
<1>10. ASSUME NEW s \in Shards, StopByMain(s) PROVE IInv'
  <2>1. /\ mail' \in [Shards -> Mails]
        /\ \A r \in Shards : (MainPosted(r)' <=> MainPosted(r) /\ r # s) /\ (ExitPosted(r)' <=> ExitPosted(r))
    BY <1>0, <1>10, DeliverMain DEF StopByMain
  <2>2. TypeOK'
    BY <1>10, <2>1 DEF StopByMain
  <2> QED
    BY <1>0, <1>10, <2>1, <2>2, DeliverMain DEF StopByMain
<1>11. ASSUME NEW s \in Shards, StopByExit(s) PROVE IInv'
  <2>1. /\ mail' \in [Shards -> Mails]
        /\ \A r \in Shards : (MainPosted(r)' <=> MainPosted(r)) /\ (ExitPosted(r)' <=> ExitPosted(r) /\ r # s)
    BY <1>0, <1>11, DeliverExit DEF StopByExit
  <2>2. TypeOK'
    BY <1>11, <2>1 DEF StopByExit
  <2> QED
    BY <1>0, <1>11, <2>1, <2>2, DeliverExit DEF StopByExit
<1>12. ASSUME NEW s \in Shards, NEW i \in Tasks, WriterEnds(s, i) \/ ReaderEnds(s, i) PROVE IInv'
  BY <1>12, LoopEndsInv
<1>13. ASSUME NEW s \in Shards, NEW i \in Tasks, LoopUsesDeadService(s, i) PROVE IInv'
  BY <1>13, KeepMail DEF LoopUsesDeadService
<1>14. CASE UNCHANGED vars
  BY <1>14, KeepMail DEF vars
<1> QED
  BY <1>1, <1>2, <1>3, <1>4, <1>5, <1>6, <1>7, <1>8, <1>9, <1>10, <1>11, <1>12, <1>13, <1>14
     DEF Next, Call, AppStep, AppNext, Signal, Interrupt, ExitAfterMain

LEMMA Inv == Spec => []IInv
  BY InitInv, StepInv, PTL DEF Spec

\* The state of a process is what its declarations say.
THEOREM TypeCorrect == Spec => []TypeOK
<1>1. IInv => TypeOK
  BY DEF IInv
<1> QED
  BY <1>1, Inv, PTL

\* When the report is collected, and later, only writing loops of connections
\* without a reading channel use their instances (udp_duplex.cpp:101 throws
\* past them).
THEOREM OrphansCorrect == Spec => []OnlyOrphansOutliveRun
<1>1. IInv => OnlyOrphansOutliveRun
  BY DEF IInv, GatesFilledInRun, GateHoldsConnections, OnlyOrphansOutliveRun
<1> QED
  BY <1>1, Inv, PTL

-----------------------------------------------------------------------------
(***************************************************************************)
(* Lost ports, and loops on destroyed instances.                           *)
(***************************************************************************)

\* The connections whose port is lost are told apart when their shard runs
\* run_udp; no other step changes which they are.
LEMMA PortsAreLostInRun ==
  ASSUME IInv, [Next]_vars, NEW s \in Shards, NEW i \in Tasks
  PROVE  \/ RunUdp(s) /\ reader[s][i] = "none"
         \/ (PortLost(s, i)' <=> PortLost(s, i))
<1> USE DEF PortLost
<1>1. ASSUME NEW t \in Shards, RunUdp(t)
      PROVE  (t = s /\ reader[s][i] = "none") \/ reader'[s][i] = reader[s][i]
  <2>1. main = "run" /\ MainPosted(t)
    BY <1>1, DeliverMain DEF RunUdp, IInv, TypeOK, AppTypeOK, Mails
  <2>2. t = s => reader[s][i] = "none"
    BY <2>1 DEF IInv, StartsOnce
  <2>3. t # s => reader'[s][i] = reader[s][i]
    BY <1>1 DEF RunUdp, StartConnections, IInv, TypeOK
  <2> QED
    BY <2>2, <2>3
<1>2. ASSUME NEW t \in Shards, NEW k \in Tasks, WriterEnds(t, k) \/ ReaderEnds(t, k)
      PROVE  reader'[s][i] = "unbound" <=> reader[s][i] = "unbound"
  <2>1. CASE WriterEnds(t, k)
    BY <2>1 DEF WriterEnds
  <2>2. CASE ReaderEnds(t, k)
    BY <2>2 DEF ReaderEnds, IInv, TypeOK
  <2> QED
    BY <1>2, <2>1, <2>2
<1>3. CASE \E t \in Shards : RunUdp(t)
  BY <1>1, <1>3
<1>4. CASE \E t \in Shards, k \in Tasks : WriterEnds(t, k) \/ ReaderEnds(t, k)
  BY <1>2, <1>4
<1>5. CASE reader' = reader
  BY <1>5
<1> QED
  BY <1>3, <1>4, <1>5
     DEF Next, Call, AppStep, Signal, serviceVars, vars, StopByMain, StopByExit, LoopUsesDeadService

\* A loop uses a destroyed instance only when an orphan is left on it, and
\* after the report has been collected (udp_duplex.cpp:85-99).
THEOREM DeadServiceCorrect == Spec => []DeadServiceNeedsOrphan
<1>1. Init => DeadServiceNeedsOrphan
  BY DEF Init, AppInit, DeadServiceNeedsOrphan
<1>2. IInv /\ DeadServiceNeedsOrphan /\ [Next]_vars => DeadServiceNeedsOrphan'
  <2> SUFFICES ASSUME IInv, DeadServiceNeedsOrphan, [Next]_vars, proc' = "use_after_free"
               PROVE  Reported' /\ \E s \in Shards, i \in Tasks : (Orphan(s, i) /\ ~alive[s])'
    BY DEF DeadServiceNeedsOrphan
  <2>1. CASE proc = "use_after_free"
    <3>1. UNCHANGED vars
      BY <2>1 DEF Next, Call, AppStep, AppNext, Signal, Interrupt, ExitAfterMain, MainThen, MainDone, StartExit,
        ExitStuck, ExitDone, SetupReporter, ReporterArmed, Collect, Destroy, ExitMissesInstance, Deliver,
        RunUdp, StopByMain, StopByExit, WriterEnds, ReaderEnds, LoopUsesDeadService
    <3> QED
      BY <2>1, <3>1 DEF DeadServiceNeedsOrphan, vars, Reported, Orphan, Sending
  <2>2. CASE proc # "use_after_free"
    <3>1. PICK s \in Shards, i \in Tasks : LoopUsesDeadService(s, i)
      BY <2>2 DEF vars, Next, Call, AppStep, AppNext, Signal, Interrupt, ExitAfterMain, MainThen, MainDone, StartExit,
        ExitStuck, ExitDone, SetupReporter, ReporterArmed, Collect, Destroy, ExitMissesInstance,
        RunUdp, StopByMain, StopByExit, WriterEnds, ReaderEnds
    <3>2. /\ main \in {"clear", "done"} /\ main' = main
          /\ UNCHANGED <<writer, reader, alive>> /\ ~alive[s]
      BY <3>1 DEF LoopUsesDeadService, mainVars, serviceVars, IInv, GoneAtTheEnd
    <3>3. Orphan(s, i)
      BY <3>1, <3>2 DEF LoopUsesDeadService, IInv, GatesFilledInRun, GateHoldsConnections, Sending, Receiving
    <3> QED
      BY <3>2, <3>3 DEF Reported, Orphan, Sending
  <2> QED
    BY <2>1, <2>2
<1> QED
  BY <1>1, <1>2, Inv, PTL DEF Spec

\* A port is lost to what is no reading loop of this process, or to a wrap of
\* the port numbers, whatever else may fail.
THEOREM PortsCorrect == Spec => []PortsLostToOthersOrWrap
<1>1. Init => PortsLostToOthersOrWrap
  BY DEF Init, PortsLostToOthersOrWrap, PortLost
<1>2. IInv /\ PortsLostToOthersOrWrap /\ [Next]_vars => PortsLostToOthersOrWrap'
  <2> SUFFICES ASSUME IInv, PortsLostToOthersOrWrap, [Next]_vars,
                      NEW s \in Shards, NEW i \in Tasks, PortLost(s, i)', MyPort(s, i) \notin Others
               PROVE  \E t \in Shards, j \in Tasks :
                        Index(s, i) - Index(t, j) >= PortT \/ Index(t, j) - Index(s, i) >= PortT
    BY DEF PortsLostToOthersOrWrap
  <2>1. CASE PortLost(s, i)
    BY <2>1 DEF PortsLostToOthersOrWrap
  <2>2. CASE RunUdp(s) /\ reader[s][i] = "none"
    <3>1. PICK taken \in SUBSET Others, mute \in Failing, deaf \in Failing :
                 StartConnections(s, PortHeld(s, taken), mute, deaf)
      BY <2>2 DEF RunUdp
    <3>2. i \in PortHeld(s, taken)
      BY <3>1 DEF StartConnections, PortLost, IInv, TypeOK
    <3>3. PICK t \in Shards, j \in Tasks : reader[t][j] = "receiving" /\ MyPort(t, j) = MyPort(s, i)
      BY <3>2 DEF PortHeld, Bound
    <3>4. ~(t = s /\ j = i)
      BY <2>2, <3>3
    <3> QED
      BY <3>3, <3>4, SharedPortsAreFar, ShardsAreNumbered
  <2> QED
    BY <2>1, <2>2, PortsAreLostInRun
<1> QED
  BY <1>1, <1>2, Inv, PTL DEF Spec

\* Where nothing but a port makes a channel fail, every orphan has lost its
\* port.
FailuresNeedFaults == ~Faults => \A s \in Shards, i \in Tasks : reader[s][i] # "failed"

LEMMA FaultsInv == Spec => []FailuresNeedFaults
<1>1. Init => FailuresNeedFaults
  BY DEF Init, FailuresNeedFaults
<1>2. IInv /\ FailuresNeedFaults /\ [Next]_vars => FailuresNeedFaults'
  <2> SUFFICES ASSUME IInv, ~Faults, FailuresNeedFaults, [Next]_vars,
                      NEW s \in Shards, NEW i \in Tasks
               PROVE  reader'[s][i] # "failed"
    BY DEF FailuresNeedFaults
  <2>0. reader \in [Shards -> [Tasks -> {"none", "receiving", "ended", "unbound", "failed"}]] /\ reader[s][i] # "failed"
    BY DEF IInv, TypeOK, FailuresNeedFaults
  <2>1. ASSUME NEW t \in Shards, RunUdp(t) PROVE reader'[s][i] # "failed"
    <3>1. PICK held : StartConnections(t, held, {}, {})
      BY <2>1 DEF RunUdp, Failing
    <3> QED
      BY <2>0, <3>1 DEF StartConnections
  <2>2. ASSUME NEW t \in Shards, NEW k \in Tasks, ReaderEnds(t, k) PROVE reader'[s][i] # "failed"
    BY <2>0, <2>2 DEF ReaderEnds
  <2>3. CASE reader' = reader
    BY <2>0, <2>3
  <2> QED
    BY <2>1, <2>2, <2>3 DEF Next, Call, AppStep, Signal, serviceVars, vars, StopByMain, StopByExit,
                            LoopUsesDeadService, WriterEnds
<1> QED
  BY <1>1, <1>2, Inv, PTL DEF Spec

\* Two processes of as many shards and connections, whose offsets leave room
\* for each other's ports, never run a loop on a destroyed instance, if no
\* other program and no sending channel has one of these ports, and no
\* channel fails but for its port.
THEOREM PeersCoexist ==
  ASSUME Smp * Connections <= Distance, Distance + Smp * Connections <= PortT, Others = OtherPorts, ~Faults
  PROVE  Spec => [](proc # "use_after_free")
<1>1. PortsLostToOthersOrWrap => \A s \in Shards, i \in Tasks : ~PortLost(s, i)
  <2> SUFFICES ASSUME NEW s \in Shards, NEW i \in Tasks,
                      NEW t \in Shards, NEW j \in Tasks,
                      \/ MyPort(s, i) \in Others
                      \/ Index(s, i) - Index(t, j) >= PortT \/ Index(t, j) - Index(s, i) >= PortT
               PROVE  FALSE
    BY DEF PortsLostToOthersOrWrap
  <2>1. MyPort(s, i) \notin Others
    BY ProcessesApart, ShardsAreNumbered
  <2> DEFINE n == Smp * Connections
  <2>2. Index(s, i) \in 0 .. n - 1 /\ Index(t, j) \in 0 .. n - 1
    BY IndexRange, ShardsAreNumbered
  <2>3. n \in Int /\ n <= PortT /\ PortT \in Nat
    BY PortsAssumption DEF Distance
  <2> QED
    <3> HIDE DEF n
    <3> QED
      BY <2>1, <2>2, <2>3
<1>2. PortsLostToOthersOrWrap /\ FailuresNeedFaults /\ DeadServiceNeedsOrphan => proc # "use_after_free"
  BY <1>1 DEF DeadServiceNeedsOrphan, FailuresNeedFaults, Orphan, PortLost
<1> QED
  BY <1>2, PortsCorrect, FaultsInv, DeadServiceCorrect, PTL

-----------------------------------------------------------------------------
(***************************************************************************)
(* The promise of GatedRun, kept by the connections inside the gates.      *)
(***************************************************************************)
LEMMA PromiseInit == Init => Promise!Init
  BY DEF Init, AppInit, Promise!Init, Phase

LEMMA PromiseStutters ==
  ASSUME UNCHANGED <<gate, alive>>, Phase' = Phase
  PROVE  UNCHANGED Promise!vars
  BY DEF Promise!vars, Phase

\* A loop's end is a stutter, or the end of its connection.
LEMMA LoopEndsPromise ==
  ASSUME IInv, NEW s \in Shards, NEW i \in Tasks, WriterEnds(s, i) \/ ReaderEnds(s, i)
  PROVE  [Promise!Next]_Promise!vars
<1>1. main' = main /\ alive' = alive /\ (gate' = gate \/ Leave(s, i))
  BY DEF WriterEnds, ReaderEnds
<1>2. CASE gate' = gate
  BY <1>1, <1>2, PromiseStutters DEF Phase
<1>3. CASE i \in gate[s] /\ gate' = [gate EXCEPT ![s] = @ \ {i}]
  BY <1>1, <1>3 DEF Promise!Next, Promise!End, Phase
<1>4. CASE i \notin gate[s] /\ gate' = [gate EXCEPT ![s] = @ \ {i}]
  <2>1. gate' = gate
    BY <1>4 DEF IInv, TypeOK
  <2> QED
    BY <2>1, <1>2
<1> QED
  BY <1>1, <1>2, <1>3, <1>4 DEF Leave

LEMMA PromiseStep == IInv /\ [Next]_vars => [Promise!Next]_Promise!vars
<1> SUFFICES ASSUME IInv, [Next]_vars PROVE Promise!Next \/ UNCHANGED Promise!vars
  OBVIOUS
<1> USE DEF serviceVars, mainVars, exitVars, appVars
<1>1. CASE MainThen /\ UNCHANGED serviceVars
  <2>0. gate' = gate /\ alive' = alive /\ main \in DOMAIN Following /\ main' = Following[main]
    BY <1>1 DEF MainThen
  <2>1. CASE main = "run"
    <3>1. \A s \in Shards : gate[s] = {}
      BY <1>1, <2>1 DEF MainThen, IInv, GatesFilledInRun
    <3>2. Promise!RunEnds
      BY <2>0, <2>1, <3>1 DEF Promise!RunEnds, Phase, Following
    <3> QED
      BY <3>2 DEF Promise!Next
  <2>2. CASE main = "report"
    BY <2>0, <2>2 DEF Promise!Next, Promise!Stop, Phase, Following
  <2>3. CASE main \in {"setup", "stop"}
    BY <2>0, <2>3, PromiseStutters DEF Following, Phase
  <2> QED
    BY <2>0, <2>1, <2>2, <2>3 DEF Following
<1>2. CASE MainDone /\ UNCHANGED serviceVars
  BY <1>2, PromiseStutters DEF MainDone, Phase
<1>3. CASE (StartExit \/ ExitStuck \/ ExitDone) /\ UNCHANGED serviceVars
  BY <1>3, PromiseStutters DEF StartExit, ExitStuck, ExitDone, Phase
<1>4. ASSUME NEW s \in Shards, SetupReporter(s) \/ ReporterArmed(s) \/ Collect(s) \/ ExitMissesInstance(s),
             UNCHANGED serviceVars
      PROVE  UNCHANGED Promise!vars
  BY <1>4, PromiseStutters DEF SetupReporter, ReporterArmed, Collect, ExitMissesInstance, Phase
<1>5. ASSUME NEW s \in Shards, Destroy(s), UNCHANGED serviceVars PROVE Promise!Next
  <2>1. main = "clear" /\ main' = main /\ gate' = gate /\ alive' = [alive EXCEPT ![s] = FALSE]
    BY <1>5 DEF Destroy
  <2>2. MainPosted(s)
    BY <1>5, DeliverMain DEF Destroy, IInv, TypeOK, AppTypeOK, Mails
  <2>3. alive[s] = TRUE /\ gate[s] = {}
    BY <2>1, <2>2 DEF IInv, TypeOK, AppTypeOK, GoneAtTheEnd, GatesFilledInRun
  <2>4. Promise!DestroyInstance(s)
    BY <2>1, <2>3 DEF Promise!DestroyInstance, Phase
  <2> QED
    BY <2>4 DEF Promise!Next
<1>6. ASSUME NEW s \in Shards, RunUdp(s) PROVE Promise!Next
  <2>1. PICK lost : gate' = [gate EXCEPT ![s] = IF interrupted[s] THEN {} ELSE Tasks \ lost]
    BY <1>6 DEF RunUdp, StartConnections
  <2>2. main = "run" /\ main' = main /\ alive' = alive /\ MainPosted(s)
    BY <1>6, DeliverMain DEF RunUdp, IInv, TypeOK, AppTypeOK, Mails
  <2>3. alive[s]
    BY <2>2 DEF IInv, TypeOK, AppTypeOK, GoneAtTheEnd
  <2>4. gate[s] = {}
    BY <2>2 DEF IInv, TypeOK, GatesFilledInRun
  <2>5. \E ops \in SUBSET Tasks : gate' = [gate EXCEPT ![s] = @ \cup ops]
    <3> DEFINE ops == IF interrupted[s] THEN {} ELSE Tasks \ lost
    <3>1. ops \in SUBSET Tasks /\ gate' = [gate EXCEPT ![s] = @ \cup ops]
      BY <2>1, <2>4
    <3> QED
      BY <3>1
  <2>6. Promise!Begin(s)
    BY <2>2, <2>3, <2>5 DEF Promise!Begin, Phase
  <2> QED
    BY <2>6 DEF Promise!Next
<1>7. ASSUME NEW s \in Shards, StopByMain(s) \/ StopByExit(s) PROVE UNCHANGED Promise!vars
  BY <1>7, PromiseStutters DEF StopByMain, StopByExit, Phase
<1>8. ASSUME NEW s \in Shards, NEW i \in Tasks, WriterEnds(s, i) \/ ReaderEnds(s, i)
      PROVE  [Promise!Next]_Promise!vars
  BY <1>8, LoopEndsPromise
<1>9. ASSUME NEW s \in Shards, NEW i \in Tasks, LoopUsesDeadService(s, i) PROVE UNCHANGED Promise!vars
  BY <1>9, PromiseStutters DEF LoopUsesDeadService, Phase
<1>10. CASE UNCHANGED vars
  BY <1>10, PromiseStutters DEF vars, Phase
<1> QED
  BY <1>1, <1>2, <1>3, <1>4, <1>5, <1>6, <1>7, <1>8, <1>9, <1>10
     DEF Next, Call, AppStep, AppNext, Signal, Interrupt, ExitAfterMain

\* udp_duplex implements GatedRun with what is inside its gates: connections
\* begin only before the report, which finds the gates empty.
THEOREM DuplexKeepsPromise == Spec => ImplementsGatedRun
<1>1. Spec => Promise!Init /\ [][Promise!Next]_Promise!vars
  BY PromiseInit, PromiseStep, Inv, PTL DEF Spec
<1> QED
  BY <1>1 DEF ImplementsGatedRun, Promise!Spec
=============================================================================
