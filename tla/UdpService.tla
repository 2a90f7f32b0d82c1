----------------------------- MODULE UdpService -----------------------------
(***************************************************************************)
(* What the processes of server.cpp and client.cpp have in common: one     *)
(* throughput_service per shard with one loop over a datagram channel, a   *)
(* MeasurementDevice that the loop counts in and a timer that ticks it.    *)
(* There is no gate: run_udp resolves when its loop is over.  The loop of  *)
(* the server receives and the loop of the client sends; what differs is   *)
(* whether the channel must answer, which UdpServer and UdpClient say.     *)
(***************************************************************************)
EXTENDS AppMain, Measurement

CONSTANTS
  Sizes,    \* the sizes of datagrams: PACKET_SIZE in the client, any in the server
  Faults,   \* whether the channel may fail (a port in use, an error of the socket)
  MaxTicks  \* bound: the ticks of one timer

ASSUME SizesAssumption == Sizes \subseteq Nat
ASSUME FaultsAssumption == Faults \in BOOLEAN
ASSUME MaxTicksAssumption == MaxTicks \in Nat

VARIABLES
  interrupted,  \* per shard, interrupted_
  loop,         \* per shard, where its loop is
  armed,        \* per shard, the timer is armed
  device,       \* per shard, measurements
  report,       \* per shard, the copy of the rows that the report was given
  fresh         \* history: per shard, the traffic since the last tick

serviceVars == <<interrupted, loop, armed, device, report, fresh>>
vars == <<main, mainWait, mainErr, exit, exitWait, exitErr, mail, alive, proc,
          interrupted, loop, armed, device, report, fresh>>

NotCollected == "none"

Init ==
  /\ AppInit
  /\ interrupted = [s \in Shards |-> FALSE]
  /\ loop = [s \in Shards |-> "none"]
  /\ armed = [s \in Shards |-> FALSE]
  /\ device = [s \in Shards |-> NewDevice]
  /\ report = [s \in Shards |-> NotCollected]
  /\ fresh = [s \in Shards |-> [bytes |-> 0, packets |-> 0]]

ControlTypeOK ==
  /\ AppTypeOK
  /\ interrupted \in [Shards -> BOOLEAN]
  /\ loop \in [Shards -> {"none", "check", "waiting", "ended", "failed"}]
  /\ armed \in [Shards -> BOOLEAN]

MeasureTypeOK ==
  /\ device \in [Shards -> Device]
  /\ \A s \in Shards : Len(device[s].rows) <= MaxTicks
  /\ DOMAIN report = Shards
  /\ \A s \in Shards : report[s] = NotCollected \/ report[s] \in Seq(Row)
  /\ fresh \in [Shards -> [bytes : 0 .. SizeT, packets : 0 .. SizeT]]

TypeOK == ControlTypeOK /\ MeasureTypeOK

-----------------------------------------------------------------------------
(* The timer. *)

\* setup_reporter: the timer is armed, and the call resolves at once.
SetupTimer(s) ==
  /\ main = "setup"
  /\ Deliver(s, "main")
  /\ armed' = [armed EXCEPT ![s] = TRUE]
  /\ mainWait' = mainWait \ {s}
  /\ UNCHANGED <<main, mainErr, exitVars, alive, proc, interrupted, loop, device, report, fresh>>

\* The timer fires, once a second until its service is destroyed.
TimerFires(s) ==
  /\ proc = "up"
  /\ armed[s]
  /\ Len(device[s].rows) < MaxTicks
  /\ device' = [device EXCEPT ![s] = Tick(@)]
  /\ fresh' = [fresh EXCEPT ![s] = [bytes |-> 0, packets |-> 0]]
  /\ UNCHANGED <<appVars, interrupted, loop, armed, report>>

-----------------------------------------------------------------------------
(* The loop. *)

\* Variant: run_udp leaves its loop in the background.
RunUdpDetached(s) ==
  /\ main = "run"
  /\ Deliver(s, "main")
  /\ loop' = [loop EXCEPT ![s] = "check"]
  /\ mainWait' = mainWait \ {s}
  /\ UNCHANGED <<main, mainErr, exitVars, alive, proc, interrupted, armed, device, report, fresh>>

\* run_udp: the channel is made and the loop starts.
RunUdp(s) ==
  /\ main = "run"
  /\ Deliver(s, "main")
  /\ loop' = [loop EXCEPT ![s] = "check"]
  /\ UNCHANGED <<mainVars, exitVars, alive, proc, interrupted, armed, device, report, fresh>>

\* run_udp throws when the channel cannot be made: a port in use, say.
RunUdpThrows(s) ==
  /\ Faults
  /\ main = "run"
  /\ Deliver(s, "main")
  /\ loop' = [loop EXCEPT ![s] = "failed"]
  /\ mainErr' = TRUE
  /\ mainWait' = mainWait \ {s}
  /\ UNCHANGED <<main, exitVars, alive, proc, interrupted, armed, device, report, fresh>>

\* The body of the loop begins: it ends an interrupted loop, and run_udp.
LoopEnds(s) ==
  /\ proc = "up"
  /\ loop[s] = "check" /\ interrupted[s]
  /\ loop' = [loop EXCEPT ![s] = "ended"]
  /\ mainWait' = mainWait \ {s}
  /\ UNCHANGED <<main, mainErr, exitVars, mail, alive, proc, interrupted, armed, device, report, fresh>>

\* Otherwise it calls the channel, and waits for the answer.
LoopCalls(s) ==
  /\ proc = "up"
  /\ loop[s] = "check" /\ ~interrupted[s]
  /\ loop' = [loop EXCEPT ![s] = "waiting"]
  /\ UNCHANGED <<appVars, interrupted, armed, device, report, fresh>>

\* Variant: only an interrupted loop resolves the call of run_udp.
LoopFailsUnresolved(s) ==
  /\ proc = "up"
  /\ Faults
  /\ loop[s] = "waiting"
  /\ loop' = [loop EXCEPT ![s] = "failed"]
  /\ UNCHANGED <<appVars, interrupted, armed, device, report, fresh>>

\* The channel fails, and run_udp with it.
LoopFails(s) ==
  /\ proc = "up"
  /\ Faults
  /\ loop[s] = "waiting"
  /\ loop' = [loop EXCEPT ![s] = "failed"]
  /\ mainErr' = TRUE
  /\ mainWait' = mainWait \ {s}
  /\ UNCHANGED <<main, exitVars, mail, alive, proc, interrupted, armed, device, report, fresh>>

\* The traffic since the last tick, up to what a size_t cannot hold.
Upto(n) == IF n > SizeT THEN SizeT ELSE n

\* A datagram of n bytes has gone through the channel.
Counted(s, n) ==
  /\ proc = "up"
  /\ loop[s] = "waiting"
  /\ loop' = [loop EXCEPT ![s] = "check"]
  /\ device' = [device EXCEPT ![s] = AddBytes(AddPackets(@, 1), n)]
  /\ fresh' = [fresh EXCEPT ![s] = [bytes |-> Upto(@.bytes + n), packets |-> Upto(@.packets + 1)]]
  /\ UNCHANGED <<appVars, interrupted, armed, report>>

\* receive() or send() resolves.
Answered(s) == \E n \in Sizes : Counted(s, n)

-----------------------------------------------------------------------------
(* The end. *)

StopByMain(s) ==
  /\ main = "stop"
  /\ Deliver(s, "main")
  /\ interrupted' = [interrupted EXCEPT ![s] = TRUE]
  /\ mainWait' = mainWait \ {s}
  /\ UNCHANGED <<main, mainErr, exitVars, alive, proc, loop, armed, device, report, fresh>>

\* Variant: stop() does not set the flag.
StopByExitForgets(s) ==
  /\ alive[s]
  /\ Deliver(s, "exit")
  /\ exitWait' = exitWait \ {s}
  /\ UNCHANGED <<mainVars, exit, exitErr, alive, proc, serviceVars>>

StopByExit(s) ==
  /\ alive[s]
  /\ Deliver(s, "exit")
  /\ interrupted' = [interrupted EXCEPT ![s] = TRUE]
  /\ exitWait' = exitWait \ {s}
  /\ UNCHANGED <<mainVars, exit, exitErr, alive, proc, loop, armed, device, report, fresh>>

\* write_throughput_report is given a copy of the rows of shard s.
CollectRows(s) ==
  /\ Collect(s)
  /\ report' = [report EXCEPT ![s] = device[s].rows]
  /\ UNCHANGED <<interrupted, loop, armed, device, fresh>>

\* The service is destroyed, and its timer with it.
DestroyService(s) ==
  /\ Destroy(s)
  /\ armed' = [armed EXCEPT ![s] = FALSE]
  /\ UNCHANGED <<interrupted, loop, device, report, fresh>>

AppStep ==
  /\ MainThen \/ MainFail \/ MainDone \/ ExitAfterMain \/ ExitStuck \/ ExitDone
       \/ \E s \in Shards : ExitMissesInstance(s)
  /\ UNCHANGED serviceVars

Signal == Interrupt /\ UNCHANGED serviceVars

Call(s) ==
  \/ SetupTimer(s) \/ RunUdp(s) \/ RunUdpThrows(s) \/ CollectRows(s)
  \/ StopByMain(s) \/ StopByExit(s) \/ DestroyService(s)

Next ==
  \/ AppStep \/ Signal
  \/ \E s \in Shards :
       Call(s) \/ TimerFires(s) \/ LoopEnds(s) \/ LoopCalls(s) \/ LoopFails(s) \/ Answered(s)

Spec == Init /\ [][Next]_vars

\* The reactors run what is ready; neither a signal nor an answer is ready.
Fairness ==
  /\ WF_vars(AppStep)
  /\ \A s \in Shards : WF_vars(Call(s)) /\ WF_vars(TimerFires(s)) /\ WF_vars(LoopEnds(s) \/ LoopCalls(s))

-----------------------------------------------------------------------------
Looping(s) == loop[s] \in {"check", "waiting"}

\* The chain goes on, to the report or to its failure, only when no loop of
\* any shard is still counting in its service: a failing shard waits for
\* the others, and no continuation meets a destroyed service (run_udp
\* returning the future of repeat).
LoopsOverAfterRun == main \notin {"setup", "run"} => \A s \in Shards : ~Looping(s)

\* The abstract process of GatedRun: a run that fails ends without its
\* report, and its instances are never destroyed.
Phase ==
  IF main \in {"setup", "run"} THEN "running"
  ELSE IF main \in {"report", "failed"} THEN "over" ELSE "stopping"
Running == [s \in Shards |-> IF Looping(s) THEN {"loop"} ELSE {}]

Promise == INSTANCE GatedRun WITH
  Instances <- Shards, Operations <- {"loop"}, Awaited <- {"loop"},
  phase <- Phase, running <- Running, live <- alive

\* Both UDP programs keep the promise of GatedRun: no loop begins after the
\* run, every loop of every shard is over when it ends, if need be because
\* the channel of one shard failed, and instances go last and idle.
ImplementsGatedRun == Promise!Spec

\* Nothing can happen any more but a signal, a tick, or an answer.
Standstill ==
  /\ proc = "up"
  /\ ~(ChainMoves \/ CallWaits \/ ExitMoves)
  /\ \A s \in Shards : loop[s] # "check"

\* A UDP process comes to rest in one way only: a loop of the run waits for
\* an answer of its channel, interrupted or not.  Its exit tasks never hang,
\* because no run is over without a failure or a call of the hook on every
\* shard, and either comes before an instance is destroyed.
RestsOnlyInCalls == Standstill => main = "run" /\ \E s \in Shards : loop[s] = "waiting"

\* A tick states the traffic since the tick before, whatever the counters
\* have wrapped to, as long as the number of bits of that traffic is one a
\* size_t can hold (common.hpp, unsigned differences).
RowsStateTheirInterval ==
  [][\A s \in Shards :
       Len(device'[s].rows) > Len(device[s].rows) =>
         LET row == device'[s].rows[Len(device'[s].rows)]
         IN  /\ fresh[s].packets < SizeT => row.pps = fresh[s].packets
             /\ BitsPerByte * fresh[s].bytes < SizeT => row.bits = BitsPerByte * fresh[s].bytes]_vars

\* What the report lacks is the traffic of one interval at most, on each
\* shard: a row that was made after the rows were collected may have some,
\* every later row is empty.
ReportLacksOneInterval ==
  \A s \in Shards : report[s] # NotCollected =>
    LET rows == device[s].rows
        seen == Len(report[s])
    IN  /\ seen <= Len(rows) /\ report[s] = SubSeq(rows, 1, seen)
        /\ \A k \in seen + 2 .. Len(rows) : rows[k] = [bits |-> 0, pps |-> 0]
        /\ Len(rows) > seen => fresh[s].packets = 0
=============================================================================
