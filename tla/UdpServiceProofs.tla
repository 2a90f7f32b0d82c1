-------------------------- MODULE UdpServiceProofs --------------------------
(***************************************************************************)
(* Proofs about UdpService, for all sets of shards, all datagram sizes and *)
(* all widths of a counter.  Fairness plays no part in them, so they hold  *)
(* of UdpServer and of UdpClient.                                          *)
(***************************************************************************)
EXTENDS UdpService, AppMainProofs

-----------------------------------------------------------------------------
(* Unsigned arithmetic. *)

LEMMA WrapIsWord == ASSUME NEW n \in Nat PROVE Wrap(n) \in Word
  BY SizeTAssumption DEF SizeTAssumption, Wrap, Word

LEMMA WrapOnce ==
  ASSUME NEW n \in Nat, n < 2 * SizeT
  PROVE  Wrap(n) = IF n < SizeT THEN n ELSE n - SizeT
  BY SizeTAssumption DEF SizeTAssumption, Wrap

LEMMA MinusIsWord == ASSUME NEW m \in Word, NEW n \in Word PROVE Minus(m, n) \in Word
  BY SizeTAssumption DEF SizeTAssumption, Minus, Word

\* A difference of counters grows by what is added to the first, as long as
\* it is a number that a counter can hold.
LEMMA MinusGrows ==
  ASSUME NEW m \in Word, NEW n \in Word, NEW k \in Nat, Minus(m, n) + k < SizeT
  PROVE  Minus(Wrap(m + k), n) = Minus(m, n) + k
<1>1. SizeT \in Nat /\ m \in Nat /\ n \in Nat /\ m < SizeT /\ n < SizeT
  BY SizeTAssumption DEF SizeTAssumption, Word
<1>2. Minus(m, n) = IF m >= n THEN m - n ELSE (m + SizeT) - n
  BY DEF Minus
<1>3. m + k < 2 * SizeT
  BY <1>1, <1>2
<1>4. Wrap(m + k) = IF m + k < SizeT THEN m + k ELSE (m + k) - SizeT
  BY <1>1, <1>3, WrapOnce
<1>5. Minus(Wrap(m + k), n) = IF Wrap(m + k) >= n THEN Wrap(m + k) - n ELSE (Wrap(m + k) + SizeT) - n
  BY DEF Minus
<1> HIDE DEF Wrap
<1> QED
  BY <1>1, <1>2, <1>4, <1>5

\* Bits that a size_t can hold come from bytes that it can hold.
LEMMA BitsBoundBytes ==
  ASSUME NEW n \in Nat, BitsPerByte * n < SizeT
  PROVE  n < SizeT
<1>1. BitsPerByte \in Nat /\ BitsPerByte >= 1 /\ SizeT \in Nat
  BY BitsPerByteAssumption, SizeTAssumption DEF BitsPerByteAssumption, SizeTAssumption
<1>2. BitsPerByte * n >= n
  BY <1>1
<1>3. BitsPerByte * n \in Nat
  BY <1>1
<1> QED
  BY <1>1, <1>2, <1>3

-----------------------------------------------------------------------------
(* The member functions of a device. *)

LEMMA CountOnDevice ==
  ASSUME NEW d \in Device, NEW n \in Nat
  PROVE  LET e == AddBytes(AddPackets(d, 1), n)
         IN  /\ e \in Device
             /\ e.rows = d.rows /\ e.lastBytes = d.lastBytes /\ e.lastPackets = d.lastPackets
             /\ e.bytes = Wrap(d.bytes + n) /\ e.packets = Wrap(d.packets + 1)
<1>1. d.bytes \in Nat /\ d.packets \in Nat
  BY SizeTAssumption DEF SizeTAssumption, Device, Word
<1>2. Wrap(d.bytes + n) \in Word /\ Wrap(d.packets + 1) \in Word
  BY <1>1, WrapIsWord
<1> HIDE DEF Wrap
<1> QED
  BY <1>2 DEF AddBytes, AddPackets, Device

NewRow(d) ==
  [bits |-> Wrap(BitsPerByte * Minus(d.bytes, d.lastBytes)), pps |-> Minus(d.packets, d.lastPackets)]

LEMMA TickOnDevice ==
  ASSUME NEW d \in Device
  PROVE  /\ Tick(d) \in Device
         /\ NewRow(d) \in Row
         /\ Tick(d).rows = Append(d.rows, NewRow(d))
         /\ Tick(d).bytes = d.bytes /\ Tick(d).lastBytes = d.bytes
         /\ Tick(d).packets = d.packets /\ Tick(d).lastPackets = d.packets
<1>1. Minus(d.bytes, d.lastBytes) \in Word /\ Minus(d.packets, d.lastPackets) \in Word
  BY MinusIsWord DEF Device
<1>2. BitsPerByte * Minus(d.bytes, d.lastBytes) \in Nat
  BY <1>1, BitsPerByteAssumption, SizeTAssumption DEF BitsPerByteAssumption, SizeTAssumption, Word
<1>3. NewRow(d) \in Row
  BY <1>1, <1>2, WrapIsWord DEF NewRow, Row
<1>4. Tick(d) = [d EXCEPT !.lastBytes = d.bytes, !.lastPackets = d.packets, !.rows = Append(@, NewRow(d))]
  BY DEF Tick, NewRow
<1>5. d.rows \in Seq(Row) /\ Append(d.rows, NewRow(d)) \in Seq(Row)
  BY <1>3 DEF Device
<1> HIDE DEF NewRow
<1> QED
  BY <1>3, <1>4, <1>5 DEF Device

-----------------------------------------------------------------------------
(***************************************************************************)
(* The inductive invariant.  A loop runs only while main() waits for the   *)
(* run_udp of its shard; the counters are ahead of their last values by    *)
(* the traffic since the last tick, as far as a size_t can tell; and rows  *)
(* that are not in the report were made when no loop was left.             *)
(***************************************************************************)
LoopsAwaited == \A s \in Shards : Looping(s) => main = "run" /\ s \in mainWait /\ ~MainPosted(s)

\* A failed call keeps the chain from its report, and an instance goes with
\* the last call of the chain to its shard.
ErrorsFailTheRun == mainErr => main \in {"run", "failed"}
GoneAtTheEnd == \A s \in Shards : ~alive[s] => main \in {"clear", "done"} /\ ~MainPosted(s)

CountsSinceTick(s) ==
  /\ fresh[s].packets < SizeT => Minus(device[s].packets, device[s].lastPackets) = fresh[s].packets
  /\ fresh[s].bytes < SizeT => Minus(device[s].bytes, device[s].lastBytes) = fresh[s].bytes

LateRows(s) ==
  report[s] # NotCollected =>
    LET rows == device[s].rows
        seen == Len(report[s])
    IN  /\ main \notin {"setup", "run"}
        /\ seen <= Len(rows) /\ \A k \in 1 .. seen : rows[k] = report[s][k]
        /\ \A k \in seen + 2 .. Len(rows) : rows[k] = [bits |-> 0, pps |-> 0]
        /\ Len(rows) > seen => fresh[s].packets = 0 /\ fresh[s].bytes = 0

IInv ==
  /\ TypeOK
  /\ CallsAreAwaited
  /\ LoopsAwaited
  /\ ErrorsFailTheRun
  /\ GoneAtTheEnd
  /\ \A s \in Shards : CountsSinceTick(s)
  /\ \A s \in Shards : LateRows(s)

LEMMA InitInv == Init => IInv
<1> SUFFICES ASSUME Init PROVE IInv
  OBVIOUS
<1> USE DEF Init, AppInit
<1>1. NewDevice \in Device /\ NewDevice.rows = <<>>
  BY SizeTAssumption DEF SizeTAssumption, NewDevice, Device, Word
<1>2. ControlTypeOK
  BY DEF ControlTypeOK, AppTypeOK, Following, Finished
<1>2a. MeasureTypeOK
  <2>1. Len(NewDevice.rows) <= MaxTicks
    BY <1>1, MaxTicksAssumption DEF MaxTicksAssumption
  <2>2. fresh \in [Shards -> [bytes : 0 .. SizeT, packets : 0 .. SizeT]]
    BY SizeTAssumption DEF SizeTAssumption
  <2>3. device = [s \in Shards |-> NewDevice] /\ report = [s \in Shards |-> NotCollected]
    OBVIOUS
  <2> QED
    BY <1>1, <2>1, <2>2, <2>3 DEF MeasureTypeOK
<1>3. \A s \in Shards : MainPosted(s) /\ ~ExitPosted(s)
  BY MailsDiffer DEF MainPosted, ExitPosted
<1>4. \A s \in Shards : CountsSinceTick(s)
  <2>1. Minus(0, 0) = 0
    BY DEF Minus
  <2>2. /\ NewDevice.bytes = 0 /\ NewDevice.lastBytes = 0
        /\ NewDevice.packets = 0 /\ NewDevice.lastPackets = 0
    BY DEF NewDevice
  <2> QED
    BY <2>1, <2>2 DEF CountsSinceTick
<1> QED
  BY <1>2, <1>2a, <1>3, <1>4 DEF IInv, TypeOK, CallsAreAwaited, LoopsAwaited, Looping, LateRows,
                                 ErrorsFailTheRun, GoneAtTheEnd

-----------------------------------------------------------------------------
(* Steps that leave the measurements alone. *)

ControlInv == ControlTypeOK /\ CallsAreAwaited /\ LoopsAwaited /\ ErrorsFailTheRun /\ GoneAtTheEnd

MeasureKept == UNCHANGED <<device, report, fresh>>

LEMMA KeepMeasure ==
  ASSUME IInv, ControlInv', MeasureKept, main \notin {"setup", "run"} => main' \notin {"setup", "run"}
  PROVE  IInv'
<1>1. MeasureTypeOK'
  BY DEF IInv, TypeOK, MeasureTypeOK, MeasureKept
<1>2. \A s \in Shards : CountsSinceTick(s)' /\ LateRows(s)'
  BY DEF IInv, MeasureKept, CountsSinceTick, LateRows
<1> QED
  BY <1>1, <1>2 DEF IInv, TypeOK, ControlInv

LEMMA StepInv == IInv /\ [Next]_vars => IInv'
<1> SUFFICES ASSUME IInv, [Next]_vars PROVE IInv'
  OBVIOUS
<1> USE DEF ControlInv, MeasureKept, Mails, Following, Finished, Ends, CallsAreAwaited, LoopsAwaited, Looping,
            ErrorsFailTheRun, GoneAtTheEnd, mainVars, exitVars, appVars, serviceVars
<1>0. /\ ControlTypeOK /\ mail \in [Shards -> Mails]
      /\ CallsAreAwaited /\ LoopsAwaited /\ ErrorsFailTheRun /\ GoneAtTheEnd
      /\ \A s \in Shards : CountsSinceTick(s) /\ LateRows(s)
  BY DEF IInv, TypeOK, ControlTypeOK, AppTypeOK
<1> USE DEF ControlTypeOK, AppTypeOK
<1>2. CASE MainThen /\ UNCHANGED serviceVars
  <2>1. ControlInv'
    BY <1>0, <1>2, PostMain DEF MainThen
  <2> QED
    BY KeepMeasure, <1>2, <2>1 DEF MainThen
<1>3. CASE (MainFail \/ MainDone \/ ExitStuck \/ ExitDone) /\ UNCHANGED serviceVars
  <2>1. ControlInv'
    BY <1>0, <1>3, KeepMail DEF MainFail, MainDone, ExitStuck, ExitDone
  <2> QED
    BY KeepMeasure, <1>3, <2>1 DEF MainFail, MainDone, ExitStuck, ExitDone
<1>4. CASE StartExit /\ UNCHANGED serviceVars
  <2>1. ControlInv'
    BY <1>0, <1>4, PostExit, KeepMail DEF StartExit
  <2> QED
    BY KeepMeasure, <1>4, <2>1 DEF StartExit
<1>5. ASSUME NEW s \in Shards, (ExitMissesInstance(s) /\ UNCHANGED serviceVars) \/ StopByExit(s) PROVE IInv'
  <2>1. ControlInv'
    <3>1. CASE ExitMissesInstance(s) /\ UNCHANGED serviceVars
      BY <1>0, <3>1, DeliverExit DEF ExitMissesInstance
    <3>2. CASE StopByExit(s)
      BY <1>0, <3>2, DeliverExit DEF StopByExit
    <3> QED
      BY <1>5, <3>1, <3>2
  <2> QED
    BY KeepMeasure, <1>5, <2>1 DEF ExitMissesInstance, StopByExit
<1>6. ASSUME NEW s \in Shards,
             SetupTimer(s) \/ RunUdp(s) \/ RunUdpThrows(s) \/ StopByMain(s) \/ DestroyService(s)
      PROVE  IInv'
  <2>1. ControlInv'
    <3>0. CASE SetupTimer(s)
      BY <1>0, <3>0, DeliverMain DEF SetupTimer
    <3>1. CASE RunUdp(s)
      BY <1>0, <3>1, DeliverMain DEF RunUdp
    <3>2. CASE RunUdpThrows(s)
      BY <1>0, <3>2, DeliverMain DEF RunUdpThrows
    <3>3. CASE StopByMain(s)
      BY <1>0, <3>3, DeliverMain DEF StopByMain
    <3>4. CASE DestroyService(s)
      BY <1>0, <3>4, DeliverMain DEF DestroyService, Destroy
    <3> QED
      BY <1>6, <3>0, <3>1, <3>2, <3>3, <3>4
  <2> QED
    BY KeepMeasure, <1>6, <2>1 DEF SetupTimer, RunUdp, RunUdpThrows, StopByMain, DestroyService, Destroy
<1>7. ASSUME NEW s \in Shards, LoopEnds(s) \/ LoopCalls(s) \/ LoopFails(s) PROVE IInv'
  <2>1. ControlInv'
    BY <1>0, <1>7, KeepMail DEF LoopEnds, LoopCalls, LoopFails
  <2> QED
    BY KeepMeasure, <1>7, <2>1 DEF LoopEnds, LoopCalls, LoopFails
<1>8. ASSUME NEW s \in Shards, CollectRows(s) PROVE IInv'
  <2>1. ControlInv'
    BY <1>0, <1>8, DeliverMain DEF CollectRows, Collect
  <2>2. /\ main = "report" /\ main' = main /\ device' = device /\ fresh' = fresh
        /\ report' = [report EXCEPT ![s] = device[s].rows]
    BY <1>8 DEF CollectRows, Collect
  <2>3. MeasureTypeOK /\ device[s].rows \in Seq(Row)
    BY DEF IInv, TypeOK, MeasureTypeOK, Device
  <2>4. MeasureTypeOK'
    BY <2>2, <2>3 DEF MeasureTypeOK
  <2>5. \A r \in Shards : CountsSinceTick(r)'
    BY <1>0, <2>2 DEF CountsSinceTick
  <2>6. LateRows(s)'
    <3>1. report'[s] = device[s].rows /\ Len(device[s].rows) \in Nat
      BY <2>2, <2>3 DEF MeasureTypeOK
    <3> QED
      BY <2>2, <3>1 DEF LateRows
  <2>7. \A r \in Shards \ {s} : LateRows(r)'
    BY <1>0, <2>2, <2>3 DEF LateRows, MeasureTypeOK
  <2> QED
    BY <2>1, <2>4, <2>5, <2>6, <2>7 DEF IInv, TypeOK
<1>9. ASSUME NEW s \in Shards, TimerFires(s) PROVE IInv'
  <2>1. ControlInv'
    BY <1>0, <1>9, KeepMail DEF TimerFires
  <2> DEFINE d == device[s]
  <2>2. /\ main' = main /\ report' = report
        /\ device' = [device EXCEPT ![s] = Tick(d)]
        /\ fresh' = [fresh EXCEPT ![s] = [bytes |-> 0, packets |-> 0]]
        /\ Len(d.rows) < MaxTicks
    BY <1>9 DEF TimerFires
  <2>3. MeasureTypeOK /\ d \in Device /\ d.rows \in Seq(Row)
    BY DEF IInv, TypeOK, MeasureTypeOK, Device
  <2>4. /\ Tick(d) \in Device /\ NewRow(d) \in Row
        /\ Tick(d).rows = Append(d.rows, NewRow(d))
        /\ Tick(d).bytes = d.bytes /\ Tick(d).lastBytes = d.bytes
        /\ Tick(d).packets = d.packets /\ Tick(d).lastPackets = d.packets
    BY <2>3, TickOnDevice
  <2> HIDE DEF d
  <2>5. device'[s] = Tick(d) /\ fresh'[s] = [bytes |-> 0, packets |-> 0]
    BY <2>2, <2>3 DEF MeasureTypeOK
  <2>6. \A r \in Shards \ {s} : device'[r] = device[r] /\ fresh'[r] = fresh[r]
    BY <2>2, <2>3 DEF MeasureTypeOK
  <2>7. Len(Tick(d).rows) = Len(d.rows) + 1
    BY <2>3, <2>4
  <2>8. MeasureTypeOK'
    <3>1. device' \in [Shards -> Device]
      BY <2>2, <2>3, <2>4 DEF MeasureTypeOK
    <3>2. Len(Tick(d).rows) <= MaxTicks
      BY <2>2, <2>3, <2>7, MaxTicksAssumption DEF MaxTicksAssumption
    <3>3. fresh' \in [Shards -> [bytes : 0 .. SizeT, packets : 0 .. SizeT]]
      BY <2>2, <2>3, SizeTAssumption DEF MeasureTypeOK, SizeTAssumption
    <3> QED
      BY <2>2, <2>3, <2>5, <2>6, <3>1, <3>2, <3>3 DEF MeasureTypeOK
  <2>9. CountsSinceTick(s)'
    <3>1. d.bytes \in Nat /\ d.packets \in Nat
      BY <2>3, SizeTAssumption DEF Device, Word, SizeTAssumption
    <3>2. Minus(d.bytes, d.bytes) = 0 /\ Minus(d.packets, d.packets) = 0
      BY <3>1 DEF Minus
    <3> QED
      BY <2>4, <2>5, <3>2 DEF CountsSinceTick
  <2>10. LateRows(s)'
    <3>1. SUFFICES ASSUME report[s] # NotCollected PROVE LateRows(s)'
      BY <2>2 DEF LateRows
    <3> DEFINE rows == d.rows
               seen == Len(report[s])
    <3>2. /\ main \notin {"setup", "run"} /\ seen <= Len(rows)
          /\ \A k \in 1 .. seen : rows[k] = report[s][k]
          /\ \A k \in seen + 2 .. Len(rows) : rows[k] = [bits |-> 0, pps |-> 0]
          /\ Len(rows) > seen => fresh[s].packets = 0 /\ fresh[s].bytes = 0
      BY <1>0, <3>1 DEF LateRows, d
    <3>3. seen \in Nat /\ Len(rows) \in Nat
      BY <2>3, <3>1 DEF MeasureTypeOK
    <3>4. Len(rows) > seen => NewRow(d) = [bits |-> 0, pps |-> 0]
      <4>1. SUFFICES ASSUME Len(rows) > seen PROVE NewRow(d) = [bits |-> 0, pps |-> 0]
        OBVIOUS
      <4>2. fresh[s].packets < SizeT /\ fresh[s].bytes < SizeT
        BY <3>2, <4>1, SizeTAssumption DEF SizeTAssumption
      <4>3. Minus(d.bytes, d.lastBytes) = 0 /\ Minus(d.packets, d.lastPackets) = 0
        BY <1>0, <3>2, <4>1, <4>2 DEF CountsSinceTick, d
      <4>4. Wrap(BitsPerByte * 0) = 0
        BY BitsPerByteAssumption, SizeTAssumption, WrapOnce DEF BitsPerByteAssumption, SizeTAssumption
      <4> QED
        BY <4>3, <4>4 DEF NewRow
    <3>5. /\ \A k \in 1 .. Len(rows) : Append(rows, NewRow(d))[k] = rows[k]
          /\ Append(rows, NewRow(d))[Len(rows) + 1] = NewRow(d)
      BY <2>3, <2>4
    <3> HIDE DEF rows
    <3> DEFINE new == Tick(d).rows
    <3>6. \A k \in 1 .. seen : new[k] = report[s][k]
      BY <2>4, <3>2, <3>3, <3>5 DEF rows
    <3>7. \A k \in seen + 2 .. Len(new) : new[k] = [bits |-> 0, pps |-> 0]
      <4>1. SUFFICES ASSUME NEW k \in seen + 2 .. Len(new) PROVE new[k] = [bits |-> 0, pps |-> 0]
        OBVIOUS
      <4>2. Len(new) = Len(rows) + 1 /\ new = Append(rows, NewRow(d))
        BY <2>4, <2>7 DEF rows
      <4>3. CASE k <= Len(rows)
        BY <3>2, <3>3, <3>5, <4>2, <4>3
      <4>4. CASE k = Len(rows) + 1
        BY <3>3, <3>4, <3>5, <4>2, <4>4
      <4> QED
        BY <3>3, <4>2, <4>3, <4>4
    <3>8. seen <= Len(new)
      BY <2>7, <3>2, <3>3 DEF rows
    <3> HIDE DEF new
    <3> QED
      BY <2>2, <2>5, <3>2, <3>6, <3>7, <3>8 DEF LateRows, new
  <2>11. \A r \in Shards \ {s} : CountsSinceTick(r)' /\ LateRows(r)'
    BY <1>0, <2>2, <2>6 DEF CountsSinceTick, LateRows
  <2> QED
    BY <2>1, <2>8, <2>9, <2>10, <2>11 DEF IInv, TypeOK
<1>10. ASSUME NEW s \in Shards, NEW n \in Sizes, Counted(s, n) PROVE IInv'
  <2>1. ControlInv'
    BY <1>0, <1>10, KeepMail DEF Counted
  <2> DEFINE d == device[s]
             e == AddBytes(AddPackets(d, 1), n)
             f == fresh[s]
  <2>2. /\ main' = main /\ report' = report /\ loop[s] = "waiting"
        /\ device' = [device EXCEPT ![s] = e]
        /\ fresh' = [fresh EXCEPT ![s] = [bytes |-> Upto(f.bytes + n), packets |-> Upto(f.packets + 1)]]
    BY <1>10 DEF Counted
  <2>3. MeasureTypeOK /\ d \in Device /\ f \in [bytes : 0 .. SizeT, packets : 0 .. SizeT] /\ n \in Nat
    BY SizesAssumption DEF IInv, TypeOK, MeasureTypeOK, SizesAssumption
  <2>4. /\ e \in Device
        /\ e.rows = d.rows /\ e.lastBytes = d.lastBytes /\ e.lastPackets = d.lastPackets
        /\ e.bytes = Wrap(d.bytes + n) /\ e.packets = Wrap(d.packets + 1)
    BY <2>3, CountOnDevice
  <2>5. main = "run"
    BY <1>0, <2>2
  <2>6. CountsSinceTick(s)
    BY <1>0
  <2> HIDE DEF d, e, f
  <2>7. device'[s] = e /\ fresh'[s] = [bytes |-> Upto(f.bytes + n), packets |-> Upto(f.packets + 1)]
    BY <2>2, <2>3 DEF MeasureTypeOK
  <2>8. \A r \in Shards \ {s} : device'[r] = device[r] /\ fresh'[r] = fresh[r]
    BY <2>2, <2>3 DEF MeasureTypeOK
  <2>9. MeasureTypeOK'
    <3>1. device' \in [Shards -> Device]
      BY <2>2, <2>3, <2>4 DEF MeasureTypeOK
    <3>2. Upto(f.bytes + n) \in 0 .. SizeT /\ Upto(f.packets + 1) \in 0 .. SizeT
      BY <2>3, SizeTAssumption DEF SizeTAssumption, Upto
    <3>3. fresh' \in [Shards -> [bytes : 0 .. SizeT, packets : 0 .. SizeT]]
      BY <2>2, <2>3, <3>2 DEF MeasureTypeOK
    <3> QED
      BY <2>2, <2>3, <2>4, <2>7, <2>8, <3>1, <3>3 DEF MeasureTypeOK, d
  <2>10. CountsSinceTick(s)'
    <3>1. /\ d.bytes \in Word /\ d.lastBytes \in Word /\ d.packets \in Word /\ d.lastPackets \in Word
          /\ f.bytes \in Nat /\ f.packets \in Nat /\ SizeT \in Nat
      BY <2>3, SizeTAssumption DEF SizeTAssumption, Device
    <3>2. Upto(f.packets + 1) < SizeT => Minus(e.packets, e.lastPackets) = Upto(f.packets + 1)
      <4>1. SUFFICES ASSUME Upto(f.packets + 1) < SizeT PROVE Minus(e.packets, e.lastPackets) = Upto(f.packets + 1)
        OBVIOUS
      <4>2. Upto(f.packets + 1) = f.packets + 1 /\ f.packets + 1 < SizeT /\ f.packets < SizeT
        BY <3>1, <4>1 DEF Upto
      <4>3. Minus(d.packets, d.lastPackets) = f.packets
        BY <2>6, <4>2 DEF CountsSinceTick, d, f
      <4> QED
        BY <2>4, <3>1, <4>2, <4>3, MinusGrows
    <3>3. Upto(f.bytes + n) < SizeT => Minus(e.bytes, e.lastBytes) = Upto(f.bytes + n)
      <4>1. SUFFICES ASSUME Upto(f.bytes + n) < SizeT PROVE Minus(e.bytes, e.lastBytes) = Upto(f.bytes + n)
        OBVIOUS
      <4>2. Upto(f.bytes + n) = f.bytes + n /\ f.bytes + n < SizeT /\ f.bytes < SizeT
        BY <2>3, <3>1, <4>1 DEF Upto
      <4>3. Minus(d.bytes, d.lastBytes) = f.bytes
        BY <2>6, <4>2 DEF CountsSinceTick, d, f
      <4> QED
        BY <2>3, <2>4, <3>1, <4>2, <4>3, MinusGrows
    <3> QED
      BY <2>7, <3>2, <3>3 DEF CountsSinceTick
  <2>11. LateRows(s)'
    BY <1>0, <2>2, <2>5 DEF LateRows
  <2>12. \A r \in Shards \ {s} : CountsSinceTick(r)' /\ LateRows(r)'
    BY <1>0, <2>2, <2>8 DEF CountsSinceTick, LateRows
  <2> QED
    BY <2>1, <2>9, <2>10, <2>11, <2>12 DEF IInv, TypeOK
<1>11. CASE UNCHANGED vars
  <2>1. ControlInv'
    BY <1>0, <1>11, KeepMail DEF vars
  <2> QED
    BY KeepMeasure, <1>11, <2>1 DEF vars
<1> QED
  BY <1>2, <1>3, <1>4, <1>5, <1>6, <1>7, <1>8, <1>9, <1>10, <1>11
     DEF Next, AppStep, Signal, Interrupt, ExitAfterMain, Call, Answered

LEMMA Inv == Spec => []IInv
  BY InitInv, StepInv, PTL DEF Spec

-----------------------------------------------------------------------------
\* The state of a UDP process is what its declarations say: no counter
\* leaves the range of a size_t, and no row does.
THEOREM TypeCorrect == Spec => []TypeOK
<1>1. IInv => TypeOK
  BY DEF IInv
<1> QED
  BY <1>1, Inv, PTL

\* The chain of main() goes on when the loops of all shards are over, even
\* if some of them fail (server.cpp:98, client.cpp:104).
THEOREM LoopsCorrect == Spec => []LoopsOverAfterRun
<1>1. IInv => LoopsOverAfterRun
  BY DEF IInv, LoopsAwaited, LoopsOverAfterRun
<1> QED
  BY <1>1, Inv, PTL

LEMMA OnlyTicksAddRows ==
  ASSUME IInv, [Next]_vars, NEW s \in Shards, Len(device'[s].rows) > Len(device[s].rows)
  PROVE  TimerFires(s)
<1>0. MeasureTypeOK /\ Len(device[s].rows) \in Nat
  BY DEF IInv, TypeOK, MeasureTypeOK, Device
<1>1. CASE device' = device
  BY <1>0, <1>1
<1>2. ASSUME NEW r \in Shards, TimerFires(r) PROVE TimerFires(s)
  <2>1. r # s => device'[s] = device[s]
    BY <1>0, <1>2 DEF TimerFires, MeasureTypeOK
  <2> QED
    BY <1>0, <1>2, <2>1
<1>3. ASSUME NEW r \in Shards, NEW n \in Sizes, Counted(r, n) PROVE FALSE
  <2>1. n \in Nat /\ device[r] \in Device
    BY <1>0, SizesAssumption DEF SizesAssumption, MeasureTypeOK
  <2>2. device'[s].rows = device[s].rows
    <3>1. AddBytes(AddPackets(device[r], 1), n).rows = device[r].rows
      BY <2>1, CountOnDevice
    <3> QED
      BY <1>0, <1>3, <3>1 DEF Counted, MeasureTypeOK
  <2> QED
    BY <1>0, <2>2
<1>4. device' = device \/ (\E r \in Shards : TimerFires(r) \/ \E n \in Sizes : Counted(r, n))
  BY DEF Next, AppStep, Signal, Call, Answered, SetupTimer, RunUdp, RunUdpThrows, CollectRows, StopByMain,
         StopByExit, DestroyService, LoopEnds, LoopCalls, LoopFails, serviceVars, vars
<1> QED
  BY <1>1, <1>2, <1>3, <1>4

\* A row states the traffic of its interval, however often the counters
\* have wrapped (common.hpp:32-37).
THEOREM RowsCorrect == Spec => RowsStateTheirInterval
<1> DEFINE RowStates(s) ==
      Len(device'[s].rows) > Len(device[s].rows) =>
         LET row == device'[s].rows[Len(device'[s].rows)]
         IN  /\ fresh[s].packets < SizeT => row.pps = fresh[s].packets
             /\ BitsPerByte * fresh[s].bytes < SizeT => row.bits = BitsPerByte * fresh[s].bytes
<1>1. ASSUME IInv, [Next]_vars, NEW s \in Shards PROVE RowStates(s)
  <2>1. SUFFICES ASSUME Len(device'[s].rows) > Len(device[s].rows) PROVE RowStates(s)
    OBVIOUS
  <2> DEFINE d == device[s]
             row == device'[s].rows[Len(device'[s].rows)]
  <2>2. device' = [device EXCEPT ![s] = Tick(d)]
    BY <1>1, <2>1, OnlyTicksAddRows DEF TimerFires
  <2>3. d \in Device /\ device'[s] = Tick(d) /\ d.rows \in Seq(Row)
    BY <1>1, <2>2 DEF IInv, TypeOK, MeasureTypeOK, Device
  <2>4. Tick(d).rows = Append(d.rows, NewRow(d)) /\ NewRow(d) \in Row
    BY <2>3, TickOnDevice
  <2>5. row = NewRow(d)
    BY <2>3, <2>4
  <2>6. /\ fresh[s].bytes \in Nat /\ SizeT \in Nat /\ BitsPerByte \in Nat
    BY <1>1, SizeTAssumption, BitsPerByteAssumption
       DEF SizeTAssumption, BitsPerByteAssumption, IInv, TypeOK, MeasureTypeOK
  <2>7. fresh[s].packets < SizeT => row.pps = fresh[s].packets
    BY <1>1, <2>5 DEF IInv, CountsSinceTick, NewRow
  <2>8. ASSUME BitsPerByte * fresh[s].bytes < SizeT PROVE row.bits = BitsPerByte * fresh[s].bytes
    <3>1. fresh[s].bytes < SizeT
      BY <2>6, <2>8, BitsBoundBytes
    <3>2. Minus(d.bytes, d.lastBytes) = fresh[s].bytes
      BY <1>1, <3>1 DEF IInv, CountsSinceTick
    <3>3. Wrap(BitsPerByte * fresh[s].bytes) = BitsPerByte * fresh[s].bytes
      BY <2>6, <2>8, WrapOnce
    <3> QED
      BY <2>5, <3>2, <3>3 DEF NewRow
  <2> QED
    BY <2>7, <2>8
<1>2. IInv /\ [Next]_vars => \A s \in Shards : RowStates(s)
  BY <1>1
<1> QED
  BY <1>2, Inv, PTL DEF Spec, RowsStateTheirInterval

\* The report of a shard lacks the traffic of one interval at most
\* (server.cpp:79, client.cpp:78, which copy the history).
THEOREM ReportCorrect == Spec => []ReportLacksOneInterval
<1>1. ASSUME IInv, NEW s \in Shards, report[s] # NotCollected
      PROVE  report[s] = SubSeq(device[s].rows, 1, Len(report[s]))
  <2> DEFINE rows == device[s].rows
             seen == Len(report[s])
             part == SubSeq(rows, 1, seen)
  <2>1. rows \in Seq(Row) /\ report[s] \in Seq(Row) /\ seen \in Nat /\ Len(rows) \in Nat
    BY <1>1 DEF IInv, TypeOK, MeasureTypeOK, Device
  <2>2. seen <= Len(rows) /\ \A k \in 1 .. seen : rows[k] = report[s][k]
    BY <1>1 DEF IInv, LateRows
  <2>3. part \in Seq(Row) /\ Len(part) = seen /\ \A k \in 1 .. seen : part[k] = rows[k]
    BY <2>1, <2>2
  <2> HIDE DEF rows, part
  <2> QED
    BY <2>1, <2>2, <2>3, SeqEqual DEF part, rows
<1>2. IInv => ReportLacksOneInterval
  BY <1>1 DEF IInv, LateRows, ReportLacksOneInterval
<1> QED
  BY <1>2, Inv, PTL

-----------------------------------------------------------------------------
(***************************************************************************)
(* When a process comes to rest.  A run is over without a failure only if  *)
(* the hook was called on every shard, so that its calls never meet a      *)
(* destroyed service; and what main() and the hook wait for is a call that *)
(* was posted, or a loop.                                                  *)
(***************************************************************************)
CallsResolve ==
  \A s \in Shards :
    /\ s \in mainWait => MainPosted(s) \/ (main = "run" /\ Looping(s))
    /\ s \in exitWait => ExitPosted(s)

LoopsEndInterrupted ==
  \A s \in Shards :
    \/ main \in {"setup", "failed"}
    \/ main = "run" /\ (mainErr \/ s \in mainWait)
    \/ interrupted[s]

HookStopsFirst == \A s \in Shards : interrupted[s] => exit # "idle" /\ ~ExitPosted(s)

NeverHangs == exit # "stuck" /\ ~exitErr

CallsInv == CallsResolve /\ LoopsEndInterrupted /\ HookStopsFirst /\ NeverHangs

LEMMA InitCalls == Init => CallsInv
  BY DEF Init, AppInit, CallsInv, CallsResolve, LoopsEndInterrupted, HookStopsFirst, NeverHangs, MainPosted

LEMMA StepCalls == IInv /\ CallsInv /\ [Next]_vars => CallsInv'
<1> SUFFICES ASSUME IInv, CallsInv, [Next]_vars PROVE CallsInv'
  OBVIOUS
<1> USE DEF CallsInv, CallsResolve, LoopsEndInterrupted, HookStopsFirst, NeverHangs, Looping,
            mainVars, exitVars, appVars, serviceVars
<1>0. /\ mail \in [Shards -> Mails] /\ mainWait \subseteq Shards
      /\ main \in DOMAIN Following \cup {"clear"} \cup Finished
      /\ interrupted \in [Shards -> BOOLEAN]
      /\ loop \in [Shards -> {"none", "check", "waiting", "ended", "failed"}]
      /\ CallsAreAwaited
  BY DEF IInv, TypeOK, ControlTypeOK, AppTypeOK, Mails
<1>1. CASE MainThen /\ UNCHANGED serviceVars
  <2>1. \A s \in Shards : ~MainPosted(s)
    BY <1>0, <1>1 DEF MainThen, CallsAreAwaited
  <2>2. /\ UNCHANGED <<exit, exitErr, exitWait, interrupted>>
        /\ \A s \in Shards : MainPosted(s)' /\ (ExitPosted(s)' <=> ExitPosted(s))
    BY <1>0, <1>1, <2>1, PostMain DEF MainThen
  <2>3. LoopsEndInterrupted'
    BY <1>1 DEF MainThen, Following
  <2> QED
    BY <2>2, <2>3
<1>2. CASE (MainFail \/ MainDone \/ ExitStuck \/ ExitDone) /\ UNCHANGED serviceVars
  BY <1>2, KeepMail DEF MainFail, MainDone, ExitStuck, ExitDone
<1>3. CASE StartExit /\ UNCHANGED serviceVars
  <2>1. \A s \in Shards : ~ExitPosted(s) /\ ~interrupted[s]
    BY <1>0, <1>3 DEF StartExit, CallsAreAwaited
  <2>2. CASE main = "done"
    BY <1>3, <2>1, <2>2, KeepMail DEF StartExit
  <2>3. CASE main # "done"
    BY <1>0, <1>3, <2>1, <2>3, PostExit DEF StartExit
  <2> QED
    BY <2>2, <2>3
<1>4. ASSUME NEW s \in Shards, ExitMissesInstance(s) PROVE FALSE
  <2>1. ExitPosted(s) /\ main \in {"clear", "done"}
    BY <1>0, <1>4, DeliverExit DEF ExitMissesInstance, IInv, GoneAtTheEnd
  <2> QED
    BY <2>1
<1>5. ASSUME NEW s \in Shards, StopByExit(s) PROVE CallsInv'
  <2>1. exit # "idle"
    BY <1>0, <1>5, DeliverExit DEF StopByExit, CallsAreAwaited
  <2>2. /\ UNCHANGED <<main, mainWait, mainErr, exit, exitErr, loop>>
        /\ exitWait' = exitWait \ {s} /\ interrupted' = [interrupted EXCEPT ![s] = TRUE]
        /\ Deliver(s, "exit")
    BY <1>5 DEF StopByExit
  <2> QED
    BY <1>0, <2>1, <2>2, DeliverExit
<1>6. ASSUME NEW s \in Shards, SetupTimer(s) \/ RunUdpThrows(s) \/ CollectRows(s) \/ DestroyService(s)
      PROVE  CallsInv'
  <2>1. /\ UNCHANGED <<main, exit, exitErr, exitWait, interrupted>> /\ Deliver(s, "main")
        /\ mainWait' = mainWait \ {s} /\ (mainErr' = mainErr \/ mainErr')
        /\ main = "run" => mainErr'
        /\ loop' = loop \/ loop' = [loop EXCEPT ![s] = "failed"]
    BY <1>6 DEF SetupTimer, RunUdpThrows, CollectRows, Collect, DestroyService, Destroy
  <2>2. CallsResolve' /\ HookStopsFirst' /\ NeverHangs'
    BY <1>0, <2>1, DeliverMain
  <2>3. LoopsEndInterrupted'
    BY <2>1
  <2> QED
    BY <2>2, <2>3
<1>7. ASSUME NEW s \in Shards, RunUdp(s) PROVE CallsInv'
  BY <1>0, <1>7, DeliverMain DEF RunUdp
<1>8. ASSUME NEW s \in Shards, StopByMain(s) PROVE CallsInv'
  <2>1. interrupted[s]
    BY <1>8 DEF StopByMain
  <2>2. /\ UNCHANGED <<main, mainErr, exit, exitErr, exitWait, loop, interrupted>>
        /\ mainWait' = mainWait \ {s} /\ main = "stop" /\ Deliver(s, "main")
    BY <1>0, <1>8, <2>1 DEF StopByMain
  <2> QED
    BY <1>0, <2>2, DeliverMain
<1>9. ASSUME NEW s \in Shards, LoopEnds(s) \/ LoopFails(s) PROVE CallsInv'
  <2>1. /\ UNCHANGED <<main, exit, exitErr, exitWait, interrupted, mail>>
        /\ mainWait' = mainWait \ {s} /\ (mainErr' = mainErr \/ mainErr') /\ (mainErr' \/ interrupted[s])
        /\ \E l \in {"ended", "failed"} : loop' = [loop EXCEPT ![s] = l]
    BY <1>9 DEF LoopEnds, LoopFails
  <2> QED
    BY <1>0, <2>1, KeepMail
<1>10. ASSUME NEW s \in Shards, LoopCalls(s) \/ Answered(s) PROVE CallsInv'
  <2>1. /\ UNCHANGED <<appVars, interrupted>>
        /\ \E l \in {"check", "waiting"} : loop' = [loop EXCEPT ![s] = l]
    BY <1>10 DEF LoopCalls, Answered, Counted
  <2> QED
    BY <1>0, <2>1, KeepMail
<1>11. ASSUME NEW s \in Shards, TimerFires(s) PROVE CallsInv'
  BY <1>11, KeepMail DEF TimerFires
<1>12. CASE UNCHANGED vars
  BY <1>12, KeepMail DEF vars
<1> QED
  BY <1>1, <1>2, <1>3, <1>4, <1>5, <1>6, <1>7, <1>8, <1>9, <1>10, <1>11, <1>12
     DEF Next, AppStep, Signal, Interrupt, ExitAfterMain, Call

LEMMA RestsHaveReason == IInv /\ CallsInv => RestsOnlyInCalls
<1> SUFFICES ASSUME IInv, CallsInv, Standstill
             PROVE  main = "run" /\ \E s \in Shards : loop[s] = "waiting"
  BY DEF RestsOnlyInCalls
<1> USE DEF CallsInv, CallsResolve, NeverHangs
<1>1. \A s \in Shards : ~MainPosted(s) /\ ~ExitPosted(s)
  BY MailsDiffer DEF Standstill, CallWaits, MainPosted, ExitPosted
<1>2. /\ mainWait \subseteq Shards /\ exitWait \subseteq Shards
      /\ main \in DOMAIN Following \cup {"clear"} \cup Finished /\ exit \in {"idle", "stop", "stuck"}
  BY DEF IInv, TypeOK, ControlTypeOK, AppTypeOK
<1>3. main \notin Finished
  BY <1>1, <1>2 DEF Standstill, ExitMoves
<1>4. PICK s \in Shards : s \in mainWait
  BY <1>2, <1>3 DEF Standstill, ChainMoves
<1>5. main = "run" /\ Looping(s)
  BY <1>1, <1>4
<1> QED
  BY <1>5 DEF Standstill, Looping

\* A UDP process comes to rest only while its run waits for the channel: the
\* hook never meets a destroyed service, and no exit task hangs
\* (server.cpp:93-104, client.cpp:95-110, the at_exit hook and the chain).
THEOREM RestsCorrect == Spec => []RestsOnlyInCalls
<1>1. Spec => []CallsInv
  BY InitCalls, StepCalls, Inv, PTL DEF Spec
<1> QED
  BY <1>1, RestsHaveReason, Inv, PTL

-----------------------------------------------------------------------------
(***************************************************************************)
(* Both programs implement GatedRun, the loop of a shard being its only    *)
(* operation.                                                              *)
(***************************************************************************)
LEMMA PromiseInit == Init => Promise!Init
<1> SUFFICES ASSUME Init
             PROVE  Phase = "running" /\ Running = [s \in Shards |-> {}] /\ alive = [s \in Shards |-> TRUE]
  BY DEF Promise!Init
<1> QED
  BY DEF Init, AppInit, Phase, Running, Looping

LEMMA PromiseStutters ==
  ASSUME Phase' = Phase, alive' = alive, \A s \in Shards : Looping(s)' <=> Looping(s)
  PROVE  UNCHANGED Promise!vars
<1>1. Running' = Running
  BY DEF Running
<1> QED
  BY <1>1 DEF Promise!vars

\* Steps that leave the loops alone and stay in their stage of the chain.
LEMMA StageStutters ==
  ASSUME main' = main \/ (main \in {"setup", "stop", "clear"} /\ main' = IF main = "clear" THEN "done" ELSE Following[main]),
         alive' = alive, loop' = loop
  PROVE  UNCHANGED Promise!vars
<1>1. Phase' = Phase
  BY DEF Phase, Following
<1>2. \A s \in Shards : Looping(s)' <=> Looping(s)
  BY DEF Looping
<1> QED
  BY <1>1, <1>2, PromiseStutters

LEMMA PromiseStep == IInv /\ [Next]_vars => [Promise!Next]_Promise!vars
<1> SUFFICES ASSUME IInv, [Next]_vars PROVE Promise!Next \/ UNCHANGED Promise!vars
  OBVIOUS
<1> USE DEF serviceVars, mainVars, exitVars, appVars
<1>0. /\ loop \in [Shards -> {"none", "check", "waiting", "ended", "failed"}]
      /\ alive \in [Shards -> BOOLEAN] /\ mail \in [Shards -> Mails]
      /\ main \in DOMAIN Following \cup {"clear"} \cup Finished
  BY DEF IInv, TypeOK, ControlTypeOK, AppTypeOK, Mails
<1>1. CASE (MainThen \/ MainFail) /\ main = "run" /\ UNCHANGED serviceVars
  <2>1. loop' = loop /\ alive' = alive /\ mainWait = {} /\ main' \in {"report", "failed"}
    BY <1>1 DEF MainThen, MainFail, Following
  <2>2. \A s \in Shards : Running[s] = {}
    BY <2>1 DEF IInv, LoopsAwaited, Running
  <2>3. Running' = Running
    BY <2>1 DEF Running, Looping
  <2>4. Promise!RunEnds
    BY <1>1, <2>1, <2>2, <2>3 DEF Promise!RunEnds, Phase
  <2> QED
    BY <2>4 DEF Promise!Next
<1>2. CASE MainThen /\ main = "report" /\ UNCHANGED serviceVars
  <2>1. loop' = loop /\ alive' = alive /\ main' = "stop"
    BY <1>2 DEF MainThen, Following
  <2>2. Running' = Running
    BY <2>1 DEF Running, Looping
  <2>3. Promise!Stop
    BY <1>2, <2>1, <2>2 DEF Promise!Stop, Phase
  <2> QED
    BY <2>3 DEF Promise!Next
<1>3. CASE MainThen /\ main \notin {"run", "report"} /\ UNCHANGED serviceVars
  BY <1>3, StageStutters DEF MainThen, Following
<1>4. CASE MainFail /\ main # "run"
  BY <1>4 DEF MainFail, IInv, ErrorsFailTheRun, Following
<1>5. CASE (MainDone \/ StartExit \/ ExitStuck \/ ExitDone \/ \E s \in Shards : ExitMissesInstance(s)) /\ UNCHANGED serviceVars
  BY <1>5, StageStutters DEF MainDone, StartExit, ExitStuck, ExitDone, ExitMissesInstance
<1>6. ASSUME NEW s \in Shards, SetupTimer(s) \/ CollectRows(s) \/ StopByMain(s) \/ StopByExit(s) \/ TimerFires(s)
      PROVE  UNCHANGED Promise!vars
  BY <1>6, StageStutters DEF SetupTimer, CollectRows, Collect, StopByMain, StopByExit, TimerFires
<1>7. ASSUME NEW s \in Shards, RunUdp(s) PROVE Promise!Next
  <2>1. main = "run" /\ main' = main /\ alive' = alive /\ loop' = [loop EXCEPT ![s] = "check"]
    BY <1>7 DEF RunUdp
  <2>2. alive[s]
    BY <2>1 DEF IInv, GoneAtTheEnd
  <2>3. Running' = [Running EXCEPT ![s] = @ \cup {"loop"}]
    BY <1>0, <2>1 DEF Running, Looping
  <2>4. Promise!Begin(s)
    BY <2>1, <2>2, <2>3 DEF Promise!Begin, Phase
  <2> QED
    BY <2>4 DEF Promise!Next
<1>8. ASSUME NEW s \in Shards, RunUdpThrows(s) PROVE UNCHANGED Promise!vars
  <2>1. main' = main /\ alive' = alive /\ loop' = [loop EXCEPT ![s] = "failed"]
    BY <1>8 DEF RunUdpThrows
  <2>2. ~Looping(s)
    BY <1>0, <1>8, DeliverMain DEF RunUdpThrows, IInv, LoopsAwaited
  <2>3. \A r \in Shards : Looping(r)' <=> Looping(r)
    BY <1>0, <2>1, <2>2 DEF Looping
  <2> QED
    BY <2>1, <2>3, PromiseStutters DEF Phase
<1>9. ASSUME NEW s \in Shards, LoopCalls(s) \/ Answered(s) PROVE UNCHANGED Promise!vars
  <2>1. /\ main' = main /\ alive' = alive /\ Looping(s)
        /\ \E l \in {"check", "waiting"} : loop' = [loop EXCEPT ![s] = l]
    BY <1>9 DEF LoopCalls, Answered, Counted, Looping
  <2>2. \A r \in Shards : Looping(r)' <=> Looping(r)
    BY <1>0, <2>1 DEF Looping
  <2> QED
    BY <2>1, <2>2, PromiseStutters DEF Phase
<1>10. ASSUME NEW s \in Shards, LoopEnds(s) \/ LoopFails(s) PROVE Promise!Next
  <2>1. /\ main' = main /\ alive' = alive /\ Looping(s)
        /\ \E l \in {"ended", "failed"} : loop' = [loop EXCEPT ![s] = l]
    BY <1>10 DEF LoopEnds, LoopFails, Looping
  <2>2. "loop" \in Running[s] /\ Running' = [Running EXCEPT ![s] = @ \ {"loop"}]
    BY <1>0, <2>1 DEF Running, Looping
  <2>3. Promise!End(s)
    BY <2>1, <2>2 DEF Promise!End, Phase
  <2> QED
    BY <2>3 DEF Promise!Next
<1>11. ASSUME NEW s \in Shards, DestroyService(s) PROVE Promise!Next
  <2>1. main = "clear" /\ main' = main /\ loop' = loop /\ alive' = [alive EXCEPT ![s] = FALSE]
    BY <1>11 DEF DestroyService, Destroy
  <2>2. MainPosted(s)
    BY <1>0, <1>11, DeliverMain DEF DestroyService, Destroy
  <2>3. alive[s] /\ Running[s] = {} /\ Running' = Running
    BY <2>1, <2>2 DEF IInv, GoneAtTheEnd, LoopsAwaited, Running, Looping
  <2>4. Promise!DestroyInstance(s)
    BY <2>1, <2>3 DEF Promise!DestroyInstance, Phase
  <2> QED
    BY <2>4 DEF Promise!Next
<1>12. CASE UNCHANGED vars
  BY <1>12, StageStutters DEF vars
<1> QED
  BY <1>1, <1>2, <1>3, <1>4, <1>5, <1>6, <1>7, <1>8, <1>9, <1>10, <1>11, <1>12
     DEF Next, AppStep, Signal, Interrupt, ExitAfterMain, Call

\* The server and the client implement GatedRun: no loop begins after the run
\* and all are over when it ends, with the report or in a failure, and the
\* services go last (server.cpp:95-106, client.cpp:99-112).
THEOREM UdpKeepsPromise == Spec => ImplementsGatedRun
<1>1. Spec => Promise!Init /\ [][Promise!Next]_Promise!vars
  BY PromiseInit, PromiseStep, Inv, PTL DEF Spec
<1> QED
  BY <1>1 DEF ImplementsGatedRun, Promise!Spec
=============================================================================
