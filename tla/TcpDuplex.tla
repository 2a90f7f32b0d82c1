----------------------------- MODULE TcpDuplex -----------------------------
(***************************************************************************)
(* A connection of tcp_client and tcp_server, whose handle_connection is   *)
(* the same at both ends: a loop that writes packets and a loop that reads *)
(* them, side by side, each looking at interrupted_ between two packets.   *)
(* The handler resolves when both loops have.                              *)
(***************************************************************************)
EXTENDS TcpStream

VARIABLES
  interrupted,  \* per end, interrupted_ of its shard
  writer,       \* per end, the loop over output.write
  reader        \* per end, the loop over input.read_exactly

vars == <<obuf, pend, wire, rbuf, fin, reset, gap, interrupted, writer, reader>>

Init ==
  /\ StreamInit
  /\ interrupted = [e \in Ends |-> FALSE]
  /\ writer = [e \in Ends |-> "idle"]
  /\ reader = [e \in Ends |-> "idle"]

TypeOK ==
  /\ StreamTypeOK
  /\ interrupted \in [Ends -> BOOLEAN]
  /\ writer \in [Ends -> {"idle", "writing", "closing", "closed", "failed"}]
  /\ reader \in [Ends -> {"idle", "reading", "done", "failed"}]

\* Both loops are over, and with them the descriptor.
Ended(e) == writer[e] \in {"closed", "failed"} /\ reader[e] \in {"done", "failed"}

-----------------------------------------------------------------------------
(* The writing loop. *)

WriterTo(e, from, to) == writer[e] = from /\ writer' = [writer EXCEPT ![e] = to]

Write(e) ==
  /\ ~interrupted[e]
  /\ WriterTo(e, "idle", "writing")
  /\ Buffer(e)
  /\ UNCHANGED <<interrupted, reader>>

\* Variant: an interrupted loop does not count its last packet.
WrittenUnlessInterrupted(e) ==
  /\ Sent(e)
  /\ WriterTo(e, "writing", "idle")
  /\ IF interrupted[e] THEN UNCHANGED streamVars ELSE CountWritten(e)
  /\ UNCHANGED <<interrupted, reader>>

\* write() resolves: the packet is counted.
Written(e) ==
  /\ Sent(e)
  /\ WriterTo(e, "writing", "idle")
  /\ CountWritten(e)
  /\ UNCHANGED <<interrupted, reader>>

\* Variant: the loop may close without having been interrupted.
CloseOutputAnytime(e) ==
  /\ WriterTo(e, "idle", "closing")
  /\ FlushBuffer(e)
  /\ UNCHANGED <<interrupted, reader>>

\* Variant: close() does not flush.
CloseOutputUnflushed(e) ==
  /\ interrupted[e]
  /\ WriterTo(e, "idle", "closing")
  /\ UNCHANGED <<streamVars, interrupted, reader>>

CloseOutput(e) ==
  /\ interrupted[e]
  /\ WriterTo(e, "idle", "closing")
  /\ FlushBuffer(e)
  /\ UNCHANGED <<interrupted, reader>>

\* Variant: close() does not shut the connection.
OutputLeftOpen(e) ==
  /\ Sent(e)
  /\ WriterTo(e, "closing", "closed")
  /\ UNCHANGED <<streamVars, interrupted, reader>>

OutputClosed(e) ==
  /\ Sent(e)
  /\ WriterTo(e, "closing", "closed")
  /\ Shut(e)
  /\ UNCHANGED <<interrupted, reader>>

\* write() or close() resolves with an exception: the loop is over.
WriterFails(e) ==
  /\ Broken(e)
  /\ WriterTo(e, "writing", "failed") \/ WriterTo(e, "closing", "failed")
  /\ UNCHANGED <<streamVars, interrupted, reader>>

-----------------------------------------------------------------------------
(* The reading loop. *)

ReaderTo(e, from, to) == reader[e] = from /\ reader' = [reader EXCEPT ![e] = to]

Read(e) ==
  /\ ReaderTo(e, "idle", IF interrupted[e] THEN "done" ELSE "reading")
  /\ UNCHANGED <<streamVars, interrupted, writer>>

Receive(e) ==
  /\ reader[e] = "reading"
  /\ Fill(e)
  /\ UNCHANGED <<interrupted, writer, reader>>

\* Variant: an empty read does not end the loop.
ReadResolvesForever(e) ==
  /\ Readable(e)
  /\ ReaderTo(e, "reading", "idle")
  /\ CountRead(e)
  /\ UNCHANGED <<interrupted, writer>>

\* read_exactly() resolves: its bytes are counted, none mean the end.
ReadResolves(e) ==
  /\ Readable(e)
  /\ ReaderTo(e, "reading", IF Packet(e) > 0 THEN "idle" ELSE "done")
  /\ CountRead(e)
  /\ UNCHANGED <<interrupted, writer>>

ReaderFails(e) ==
  /\ reset /\ EndSeen(e)
  /\ rbuf[e] < DataSize[e]
  /\ ReaderTo(e, "reading", "failed")
  /\ UNCHANGED <<streamVars, interrupted, writer>>

-----------------------------------------------------------------------------
WriterStep(e) == Write(e) \/ Written(e) \/ CloseOutput(e) \/ OutputClosed(e) \/ WriterFails(e)
ReaderStep(e) == Read(e) \/ ReadResolves(e) \/ ReaderFails(e)

\* The kernels move the bytes, and reset what arrives at a closed end.
NetworkSends(e)    == Push(e) /\ UNCHANGED <<interrupted, writer, reader>>
NetworkDelivers(e) == Receive(e)
NetworkResets(e)   == Ended(e) /\ ResetBy(e) /\ UNCHANGED <<interrupted, writer, reader>>

\* stop() of the shard that holds end e.
Interrupt(e) ==
  /\ ~interrupted[e]
  /\ interrupted' = [interrupted EXCEPT ![e] = TRUE]
  /\ UNCHANGED <<streamVars, writer, reader>>

Network(e) == NetworkSends(e) \/ NetworkDelivers(e) \/ NetworkResets(e)

Next == \E e \in Ends : WriterStep(e) \/ ReaderStep(e) \/ Network(e) \/ Interrupt(e)

Spec == Init /\ [][Next]_vars

\* Both reactors run what is ready, and the network moves what can move.
Fairness ==
  \A e \in Ends :
    /\ WF_vars(WriterStep(e)) /\ WF_vars(ReaderStep(e))
    /\ WF_vars(NetworkSends(e)) /\ WF_vars(NetworkDelivers(e)) /\ WF_vars(NetworkResets(e))

FairSpec == Spec /\ Fairness

-----------------------------------------------------------------------------
\* Bytes of a packet that is buffered or sent before it is counted.
Uncounted(e) == IF writer[e] \in {"writing", "failed"} THEN DataSize[e] ELSE 0

\* On an intact connection, the bytes one end has counted as written and the
\* other has not counted as read are exactly those still held somewhere on
\* the way: the two reports differ by what is in flight, and by nothing else.
CountsMatchBytesInFlight ==
  ~reset => \A e \in Ends :
    gap[e] + Uncounted(e) = obuf[e] + pend[e] + wire[e] + rbuf[Peer(e)]

\* No reader counts a byte that its peer has not written: its count never
\* exceeds the writer's by more than the packet being written, of which a
\* part may have arrived before it is counted, or before its put() fails,
\* whatever is lost to a reset.
ReadersNeverAhead == \A e \in Ends : gap[e] + Uncounted(e) >= 0

\* A reader that ends on an end of stream, uninterrupted and unreset, has
\* counted all that its peer has: output.close() flushes before it shuts.
EndOfStreamIsComplete ==
  \A e \in Ends : (reader[e] = "done" /\ ~interrupted[e] /\ ~reset) => gap[Peer(e)] = 0

\* On an unreset connection a read of less than a packet is the last one: it
\* takes all that the peer has counted.  So a short read, which the code
\* counts as a packet, makes the packets of the reader's report too many by
\* one at most, whatever the two sizes are.
ShortReadIsLast ==
  [][\A e \in Ends :
       LET read == gap[Peer(e)] - gap'[Peer(e)]
       IN  (read \in 1 .. DataSize[e] - 1 /\ ~reset') => gap'[Peer(e)] = 0]_vars

\* A connection nobody interrupts is never reset and none of its loops
\* ends: the handlers stop for stop() alone.
StopsOnlyWhenInterrupted ==
  (\A e \in Ends : ~interrupted[e]) =>
    /\ ~reset
    /\ \A e \in Ends : writer[e] \in {"idle", "writing"} /\ reader[e] \in {"idle", "reading"}

\* Who can move, stop() apart: the guards of the steps above.
WriterMoves(e)  == writer[e] = "idle" \/ (writer[e] \in {"writing", "closing"} /\ (Sent(e) \/ Broken(e)))
ReaderMoves(e)  == reader[e] = "idle" \/ (reader[e] = "reading" /\ Readable(e))
NetworkMoves(e) ==
  \/ ~reset /\ pend[e] > 0 /\ wire[e] < WireSize
  \/ reader[e] = "reading" /\ rbuf[e] < DataSize[e] /\ wire[Peer(e)] > 0
  \/ Ended(e) /\ ~reset /\ wire[Peer(e)] > 0

Standstill == \A e \in Ends : ~WriterMoves(e) /\ ~ReaderMoves(e) /\ ~NetworkMoves(e)

\* Both ends wait for room to write, and neither reads any more.
Jammed ==
  \A e \in Ends :
    /\ interrupted[e] /\ reader[e] = "done"
    /\ writer[e] \in {"writing", "closing"} /\ pend[e] > 0 /\ wire[e] = WireSize

\* While a handler runs, nothing but stop() can happen if, and only if, both
\* ends have been stopped while both directions are full: this is the only
\* deadlock of the connection, and it is one.
StandstillIsJam == (Standstill /\ \E e \in Ends : ~Ended(e)) <=> Jammed

\* When one end is interrupted, both handlers end, or the other end is
\* interrupted as well: the peer's reads let the last writes through, and
\* its writes are refused once this end is gone.
OneSidedStopEndsBoth ==
  \A e \in Ends : interrupted[e] ~> (interrupted[Peer(e)] \/ \A d \in Ends : Ended(d))

\* "Interrupt gate to know when we need to stop working"
\* (tcp_client.cpp:116): a handler whose shard is interrupted ends.
InterruptEndsHandler == \A e \in Ends : interrupted[e] ~> Ended(e)
=============================================================================
