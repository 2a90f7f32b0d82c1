------------------------- MODULE TcpPingPongProofs -------------------------
(***************************************************************************)
(* Proofs about TcpPingPong, for all packet sizes and all buffers.         *)
(***************************************************************************)
EXTENDS TcpPingPong, TLAPS

\* The client reads only between two writes.
ClientAlternates == reader["client"] = "reading" => writer["client"] = "idle"

\* Nothing is being put unless a loop waits for it, or waited until it
\* failed, and a loop fails only on a reset connection.
PutsAreAwaited ==
  \A e \in Ends :
    /\ pend[e] > 0 => writer[e] \in {"writing", "closing", "failed"}
    /\ writer[e] = "failed" => reset

\* A side is shut exactly when its loop is over.  The server's has nothing
\* in its buffer then, and whoever is shut has sent what was put.
ShutIsOver ==
  /\ writer["server"] \in {"closing", "closed"} => obuf["server"] = 0
  /\ \A e \in Ends : ~reset => (fin[e] <=> writer[e] = "closed") /\ (fin[e] => pend[e] = 0)

\* A loop that ended by reading nothing has left nothing behind.
EndedReadersHaveAll ==
  \A e \in Ends :
    (reader[e] = "done" /\ ~interrupted[e] /\ ~reset) =>
      fin[Peer(e)] /\ wire[Peer(e)] = 0 /\ rbuf[e] = 0

IInv ==
  /\ TypeOK
  /\ ClientAlternates
  /\ PutsAreAwaited
  /\ ShutIsOver
  /\ EndedReadersHaveAll
  /\ CountsMatchBytesInFlight

USE SizesAssumption DEF SizesAssumption, Ends, Peer

LEMMA InitInv == Init => IInv
<1> SUFFICES ASSUME Init PROVE IInv
  OBVIOUS
<1> USE DEF Init, StreamInit, Zero
<1>1. TypeOK
  <2>1. 0 \in 0..BufferSize /\ 0 \in 0..WireSize /\ 0 \in 0..(BufferSize + WireSize) /\ 0 \in Int
    OBVIOUS
  <2>2. StreamTypeOK
    BY <2>1 DEF StreamTypeOK
  <2> QED
    BY <2>2 DEF TypeOK
<1>2. ClientAlternates /\ PutsAreAwaited /\ ShutIsOver /\ EndedReadersHaveAll
  BY DEF ClientAlternates, PutsAreAwaited, ShutIsOver, EndedReadersHaveAll
<1>3. CountsMatchBytesInFlight
  BY DEF CountsMatchBytesInFlight, Uncounted
<1> QED
  BY <1>1, <1>2, <1>3 DEF IInv

LEMMA ServerStepInv == IInv /\ (WriterStep("server") \/ ReaderStep("server")) => IInv'
<1> SUFFICES ASSUME IInv, WriterStep("server") \/ ReaderStep("server") PROVE IInv'
  OBVIOUS
<1> USE DEF IInv, TypeOK, StreamTypeOK, ClientAlternates, PutsAreAwaited, ShutIsOver, EndedReadersHaveAll,
            CountsMatchBytesInFlight, Uncounted, WriterTo, ReaderTo, streamVars
<1>1. CASE Write("server")
  BY <1>1 DEF Write, Buffer
<1>2. CASE Written("server")
  <2> USE <1>2 DEF Written, Sent, CountWritten
  <2>1. TypeOK' /\ ClientAlternates' /\ PutsAreAwaited' /\ ShutIsOver' /\ EndedReadersHaveAll'
    OBVIOUS
  <2>2. \A d \in Ends : gap'[d] + Uncounted(d)' = gap[d] + Uncounted(d)
    OBVIOUS
  <2>3. CountsMatchBytesInFlight'
    BY <2>2
  <2> QED
    BY <2>1, <2>3
<1>3. CASE CloseOutput("server")
  BY <1>3 DEF CloseOutput, FlushBuffer
<1>4. CASE OutputClosed("server")
  BY <1>4 DEF OutputClosed, Sent, Shut
<1>5. CASE WriterFails("server")
  BY <1>5 DEF WriterFails, Broken
<1>6. CASE Read("server")
  BY <1>6 DEF Read
<1>7. CASE ReadResolves("server")
  <2> USE <1>7 DEF ReadResolves, CountRead
  <2>1. Packet("server") \in 0..rbuf["server"] /\ (Packet("server") = 0 => rbuf["server"] = 0 /\ EndSeen("server"))
    BY DEF Packet, Readable
  <2>2. TypeOK' /\ ClientAlternates' /\ PutsAreAwaited' /\ ShutIsOver'
    BY <2>1
  <2>3. EndedReadersHaveAll'
    BY <2>1 DEF EndSeen
  <2>4. CountsMatchBytesInFlight'
    BY <2>1
  <2> QED
    BY <2>2, <2>3, <2>4
<1>8. CASE ReaderFails("server")
  BY <1>8 DEF ReaderFails, EndSeen
<1> QED
  BY <1>1, <1>2, <1>3, <1>4, <1>5, <1>6, <1>7, <1>8 DEF WriterStep, ReaderStep

LEMMA ClientStepInv == IInv /\ PingPongClient => IInv'
<1> SUFFICES ASSUME IInv, PingPongClient PROVE IInv'
  OBVIOUS
<1> USE DEF IInv, TypeOK, StreamTypeOK, ClientAlternates, PutsAreAwaited, ShutIsOver, EndedReadersHaveAll,
            CountsMatchBytesInFlight, Uncounted, Alternate, WriterTo, streamVars
<1>1. CASE PingClose
  <2> USE <1>1 DEF PingClose, FlushBuffer
  <2>1. TypeOK'
    OBVIOUS
  <2>2. ClientAlternates' /\ PutsAreAwaited' /\ ShutIsOver' /\ EndedReadersHaveAll'
    OBVIOUS
  <2>3. CountsMatchBytesInFlight'
    OBVIOUS
  <2> QED
    BY <2>1, <2>2, <2>3
<1>2. CASE Ping
  <2> USE <1>2 DEF Ping, Write, Buffer
  <2>1. TypeOK'
    OBVIOUS
  <2>2. ClientAlternates' /\ PutsAreAwaited' /\ ShutIsOver' /\ EndedReadersHaveAll'
    OBVIOUS
  <2>3. CountsMatchBytesInFlight'
    OBVIOUS
  <2> QED
    BY <2>1, <2>2, <2>3
<1>3. CASE PingWritten
  <2>1. /\ UNCHANGED <<obuf, pend, wire, rbuf, reset, interrupted>>
        /\ writer["client"] = "writing" /\ pend["client"] = 0
        /\ gap' = [gap EXCEPT !["client"] = @ + DataSize["client"]]
    BY <1>3 DEF PingWritten, Sent
  <2>2. \/ writer' = [writer EXCEPT !["client"] = "closed"] /\ reader' = [reader EXCEPT !["client"] = "done"]
           /\ fin' = [fin EXCEPT !["client"] = TRUE] /\ interrupted["client"]
        \/ writer' = [writer EXCEPT !["client"] = "idle"] /\ reader' = [reader EXCEPT !["client"] = "reading"]
           /\ fin' = fin
    BY <1>3 DEF PingWritten
  <2>3. TypeOK'
    <3>1. gap["client"] + DataSize["client"] \in Int
      OBVIOUS
    <3>2. gap' \in [Ends -> Int]
      BY <2>1, <3>1
    <3>3. fin' \in [Ends -> BOOLEAN]
      <4>1. fin' = [fin EXCEPT !["client"] = TRUE] \/ fin' = fin
        BY <2>2
      <4> QED
        BY <4>1
    <3>4. /\ writer' \in [Ends -> {"idle", "writing", "closing", "closed", "failed"}]
          /\ reader' \in [Ends -> {"idle", "reading", "done", "failed"}]
      BY <2>2
    <3> QED
      BY <2>1, <3>2, <3>3, <3>4
  <2>4. ClientAlternates' /\ PutsAreAwaited' /\ ShutIsOver' /\ EndedReadersHaveAll'
    BY <2>1, <2>2
  <2>5. \A d \in Ends : gap'[d] + Uncounted(d)' = gap[d] + Uncounted(d)
    BY <2>1, <2>2
  <2>6. CountsMatchBytesInFlight'
    BY <2>1, <2>5
  <2> QED
    BY <2>3, <2>4, <2>6
<1>4. CASE OutputClosed("client")
  BY <1>4 DEF OutputClosed, Sent, Shut
<1>5. CASE PingWriteFails
  BY <1>5 DEF PingWriteFails, Broken
<1>6. CASE PongRead
  <2> USE <1>6 DEF PongRead, CountRead
  <2>1. Packet("client") \in 1..rbuf["client"]
    BY DEF Packet
  <2>2. TypeOK' /\ ClientAlternates' /\ PutsAreAwaited' /\ ShutIsOver' /\ EndedReadersHaveAll'
    BY <2>1
  <2>3. CountsMatchBytesInFlight'
    BY <2>1
  <2> QED
    BY <2>2, <2>3
<1>7. CASE PongEnds
  <2> USE <1>7 DEF PongEnds, Shut, EndSeen, Packet
  <2>1. TypeOK' /\ ClientAlternates' /\ PutsAreAwaited' /\ ShutIsOver'
    OBVIOUS
  <2>2. EndedReadersHaveAll'
    OBVIOUS
  <2>3. CountsMatchBytesInFlight'
    OBVIOUS
  <2> QED
    BY <2>1, <2>2, <2>3
<1> QED
  BY <1>1, <1>2, <1>3, <1>4, <1>5, <1>6, <1>7 DEF PingPongClient

\* The kernel moves bytes, and takes no more than it has room for.
LEMMA PushMoves ==
  ASSUME StreamTypeOK, NEW e \in Ends, Push(e)
  PROVE  /\ pend' \in [Ends -> 0..BufferSize] /\ wire' \in [Ends -> 0..WireSize]
         /\ \A d \in Ends : pend'[d] + wire'[d] = pend[d] + wire[d] /\ pend'[d] <= pend[d]
<1> DEFINE n == IF pend[e] <= WireSize - wire[e] THEN pend[e] ELSE WireSize - wire[e]
<1>1. pend' = [pend EXCEPT ![e] = @ - n] /\ wire' = [wire EXCEPT ![e] = @ + n]
  BY DEF Push
<1>2. /\ pend \in [Ends -> 0..BufferSize] /\ wire \in [Ends -> 0..WireSize]
      /\ n \in Nat /\ n <= pend[e] /\ n <= WireSize - wire[e]
  BY DEF StreamTypeOK
<1> HIDE DEF n
<1>3. pend[e] - n \in 0..BufferSize /\ wire[e] + n \in 0..WireSize
  BY <1>2
<1> QED
  BY <1>1, <1>2, <1>3

LEMMA NetworkInv == ASSUME IInv, NEW e \in Ends, Network(e) \/ Interrupt(e) PROVE IInv'
<1> USE DEF IInv, TypeOK, StreamTypeOK, ClientAlternates, PutsAreAwaited, ShutIsOver, EndedReadersHaveAll,
            CountsMatchBytesInFlight, Uncounted, streamVars
<1>1. CASE Receive(e)
  BY <1>1 DEF Receive, Fill
<1>2. CASE NetworkSends(e)
  <2>1. /\ UNCHANGED <<obuf, rbuf, fin, reset, gap, interrupted, writer, reader>>
        /\ pend' \in [Ends -> 0..BufferSize] /\ wire' \in [Ends -> 0..WireSize]
        /\ \A d \in Ends : pend'[d] + wire'[d] = pend[d] + wire[d] /\ pend'[d] <= pend[d]
    BY <1>2, PushMoves DEF NetworkSends, Push
  <2>2. TypeOK' /\ ClientAlternates' /\ PutsAreAwaited' /\ ShutIsOver'
    BY <2>1
  <2>3. EndedReadersHaveAll'
    BY <2>1
  <2>4. CountsMatchBytesInFlight'
    BY <2>1
  <2> QED
    BY <2>2, <2>3, <2>4
<1>3. CASE NetworkResets(e)
  BY <1>3 DEF NetworkResets, ResetBy
<1>4. CASE Interrupt(e)
  BY <1>4 DEF Interrupt
<1> QED
  BY <1>1, <1>2, <1>3, <1>4 DEF Network, NetworkDelivers

\* The invariant is one of every behaviour.
LEMMA Inv == PingPongSpec => []IInv
<1>1. IInv /\ [PingPongNext]_vars => IInv'
  <2>1. IInv /\ UNCHANGED vars => IInv'
    BY DEF vars, IInv, TypeOK, StreamTypeOK, ClientAlternates, PutsAreAwaited, ShutIsOver, EndedReadersHaveAll,
           CountsMatchBytesInFlight, Uncounted
  <2> QED
    BY <2>1, ServerStepInv, ClientStepInv, NetworkInv DEF PingPongNext
<1> QED
  BY <1>1, InitInv, PTL DEF PingPongSpec

\* Buffers never exceed their sizes, and the loops are where their code is.
THEOREM TypeCorrect == PingPongSpec => []TypeOK
<1>1. IInv => TypeOK
  BY DEF IInv
<1> QED
  BY <1>1, Inv, PTL

\* The counts of an intact ping-pong connection differ by the bytes in
\* flight, as those of any other.
THEOREM CountsCorrect == PingPongSpec => []CountsMatchBytesInFlight
<1>1. IInv => CountsMatchBytesInFlight
  BY DEF IInv
<1> QED
  BY <1>1, Inv, PTL

\* A server's handler drops nothing it has counted: its loop closes the
\* stream it leaves (tcp_server_pingpong.cpp, handle_connection).
THEOREM OnlyClientDropsCorrect == PingPongSpec => []OnlyClientDrops
<1>1. IInv => OnlyClientDrops
  BY DEF IInv, ShutIsOver, OnlyClientDrops, Dropped
<1> QED
  BY <1>1, Inv, PTL

\* At the end of an intact stream the reader's count is short by what the
\* writer dropped with its buffer, and by nothing else.
THEOREM EndOfStreamCorrect == PingPongSpec => []EndOfStreamLacksOnlyDropped
<1>1. IInv => EndOfStreamLacksOnlyDropped
  <2> SUFFICES ASSUME IInv, NEW e \in Ends, reader[e] = "done", ~interrupted[e], ~reset
               PROVE  gap[Peer(e)] = Dropped(Peer(e))
    BY DEF EndOfStreamLacksOnlyDropped
  <2>1. fin[Peer(e)] /\ wire[Peer(e)] = 0 /\ rbuf[e] = 0
    BY DEF IInv, EndedReadersHaveAll
  <2>2. writer[Peer(e)] = "closed" /\ pend[Peer(e)] = 0
    BY <2>1 DEF IInv, ShutIsOver
  <2>3. /\ Peer(Peer(e)) = e /\ Uncounted(Peer(e)) = 0
        /\ gap[Peer(e)] \in Int /\ obuf[Peer(e)] \in Int /\ Dropped(Peer(e)) = obuf[Peer(e)]
    BY <2>2 DEF IInv, TypeOK, StreamTypeOK, Uncounted, Dropped
  <2> QED
    BY <2>1, <2>2, <2>3 DEF IInv, CountsMatchBytesInFlight
<1> QED
  BY <1>1, Inv, PTL

-----------------------------------------------------------------------------
(***************************************************************************)
(* The deadlock of finding 4, and why there is no other.                   *)
(***************************************************************************)

\* The client is one loop: what its two halves may be at one time.
ClientIsOneLoop ==
  \/ writer["client"] \in {"idle", "writing"} /\ reader["client"] = "idle"
  \/ writer["client"] = "idle" /\ reader["client"] = "reading"
  \/ writer["client"] \in {"closing", "closed"} /\ reader["client"] = "done"
  \/ writer["client"] = "failed" /\ reader["client"] = "failed"

\* A reader fails on a reset connection only, and only an end whose handler
\* is over resets it.
ResetsHaveCause ==
  /\ reset => \E e \in Ends : Ended(e)
  /\ \A e \in Ends : reader[e] = "failed" => reset

Causes == ClientIsOneLoop /\ ResetsHaveCause

LEMMA CausesInv == PingPongSpec => []Causes
<1>1. Init => Causes
  BY DEF Init, StreamInit, Causes, ClientIsOneLoop, ResetsHaveCause
<1>2. ASSUME IInv, Causes, [PingPongNext]_vars PROVE Causes'
  <2> USE <1>2 DEF IInv, TypeOK, Causes, ClientIsOneLoop, ResetsHaveCause, Ended, WriterTo, ReaderTo, streamVars
  <2>1. CASE WriterStep("server")
    <3>1. /\ reader' = reader /\ reset' = reset
          /\ \E to : writer' = [writer EXCEPT !["server"] = to]
          /\ writer["server"] \in {"idle", "writing", "closing"}
      BY <2>1 DEF WriterStep, Write, Written, CloseOutput, OutputClosed, WriterFails,
                  Buffer, CountWritten, FlushBuffer, Shut
    <3> QED
      BY <3>1
  <2>2. CASE ReaderStep("server")
    <3>1. /\ writer' = writer /\ reset' = reset
          /\ \/ \E to \in {"idle", "reading", "done"} : reader' = [reader EXCEPT !["server"] = to]
             \/ reset /\ reader' = [reader EXCEPT !["server"] = "failed"]
          /\ reader["server"] \in {"idle", "reading"}
      BY <2>2 DEF ReaderStep, Read, ReadResolves, ReaderFails, CountRead
    <3> QED
      BY <3>1
  <2>3. CASE PingPongClient
    <3> USE DEF Alternate
    <3>1. CASE PingClose \/ Ping
      BY <3>1 DEF PingClose, Ping, Write, Buffer, FlushBuffer
    <3>2. CASE PingWritten
      BY <3>2 DEF PingWritten
    <3>3. CASE OutputClosed("client")
      BY <3>3 DEF OutputClosed, Shut
    <3>4. CASE PingWriteFails
      BY <3>4 DEF PingWriteFails, Broken
    <3>5. CASE PongRead
      BY <3>5 DEF PongRead, CountRead
    <3>6. CASE PongEnds
      BY <3>6 DEF PongEnds, Shut
    <3> QED
      BY <2>3, <3>1, <3>2, <3>3, <3>4, <3>5, <3>6 DEF PingPongClient
  <2>4. ASSUME NEW e \in Ends, Network(e) PROVE Causes'
    BY <2>4 DEF Network, NetworkSends, NetworkDelivers, NetworkResets, Push, Receive, Fill, ResetBy
  <2>5. ASSUME NEW e \in Ends, Interrupt(e) PROVE Causes'
    BY <2>5 DEF Interrupt
  <2>6. CASE UNCHANGED vars
    BY <2>6 DEF vars
  <2> QED
    BY <2>1, <2>2, <2>3, <2>4, <2>5, <2>6 DEF PingPongNext
<1>3. IInv /\ Causes /\ [PingPongNext]_vars => Causes'
  BY <1>2
<1> QED
  BY <1>1, <1>3, Inv, PTL DEF PingPongSpec

\* A connection on which nothing moves and some handler runs is jammed.
LEMMA StandstillJams ==
  ASSUME IInv, Causes, PingPongStandstill, NEW d \in Ends, ~Ended(d)
  PROVE  PingPongJammed
<1> USE DEF IInv, TypeOK, StreamTypeOK, Causes
<1>1. ASSUME NEW e \in Ends
      PROVE  /\ writer[e] \in {"writing", "closing"} => pend[e] > 0 /\ ~reset
             /\ reader[e] = "reading" => wire[Peer(e)] = 0 /\ ~fin[Peer(e)] /\ ~reset
  <2>1. writer[e] \in {"writing", "closing"} => ~Sent(e) /\ ~Broken(e)
    BY DEF PingPongStandstill, ClientMoves, WriterMoves
  <2>2. reader[e] = "reading" => ~Readable(e)
    BY DEF PingPongStandstill, ClientMoves, ReaderMoves
  <2>3. reader[e] = "reading" => wire[Peer(e)] = 0
    BY <2>2 DEF PingPongStandstill, NetworkMoves, Readable
  <2> QED
    BY <2>1, <2>2, <2>3 DEF Sent, Broken, Readable, EndSeen
<1>2. /\ writer["server"] # "idle" /\ reader["server"] # "idle"
      /\ ~(writer["client"] = "idle" /\ reader["client"] = "idle")
  BY DEF PingPongStandstill, ClientMoves, WriterMoves, ReaderMoves
<1>3. ~reset
  BY <1>1, <1>2 DEF Ended, ClientIsOneLoop
<1>4. \A e \in Ends : pend[e] > 0 => wire[e] = WireSize
  BY <1>3 DEF PingPongStandstill, NetworkMoves
<1>5. \A e \in Ends : writer[e] # "failed" /\ reader[e] # "failed"
  BY <1>3 DEF PutsAreAwaited, ResetsHaveCause
<1>6. \A e \in Ends : reader[e] = "reading" => writer[Peer(e)] = "idle"
  <2> SUFFICES ASSUME NEW e \in Ends, reader[e] = "reading", writer[Peer(e)] # "idle" PROVE FALSE
    OBVIOUS
  <2>1. wire[Peer(e)] = 0 /\ writer[Peer(e)] # "closed"
    BY <1>1, <1>3 DEF ShutIsOver
  <2>2. pend[Peer(e)] > 0 /\ wire[Peer(e)] = WireSize
    BY <1>1, <1>4, <1>5, <2>1
  <2> QED
    BY <2>1, <2>2
<1>7. reader["client"] # "reading"
  BY <1>2, <1>6
<1>8. writer["client"] # "idle"
  BY <1>2, <1>7 DEF ClientIsOneLoop
<1>9. reader["server"] = "done"
  BY <1>2, <1>5, <1>6, <1>8
<1>10. /\ writer["server"] \in {"writing", "closing", "closed"}
       /\ writer["client"] \in {"writing", "closing", "closed"}
       /\ writer["client"] = "closed" => reader["client"] = "done"
  BY <1>2, <1>5, <1>8 DEF ClientIsOneLoop
<1>11. \A e \in Ends : writer[e] \in {"writing", "closing"}
  <2>1. writer[d] \in {"writing", "closing"}
    BY <1>9, <1>10 DEF Ended
  <2>2. wire[d] > 0
    BY <1>1, <1>4, <2>1
  <2>3. ~Ended(Peer(d))
    BY <1>3, <2>2 DEF PingPongStandstill, NetworkMoves
  <2> QED
    BY <1>9, <1>10, <2>1, <2>3 DEF Ended
<1>12. interrupted["server"]
  BY <1>3, <1>9, <1>11 DEF EndedReadersHaveAll, ShutIsOver
<1> QED
  BY <1>1, <1>4, <1>9, <1>11, <1>12 DEF PingPongJammed

\* Nothing moves on a jammed connection.
LEMMA JamsStand ==
  ASSUME IInv, Causes, PingPongJammed
  PROVE  PingPongStandstill /\ ~reset /\ \A e \in Ends : ~Ended(e)
<1>1. \A e \in Ends : ~Ended(e)
  BY DEF PingPongJammed, Ended
<1>2. ~reset
  BY <1>1 DEF Causes, ResetsHaveCause
<1>3. reader["client"] # "reading"
  BY DEF PingPongJammed, Causes, ClientIsOneLoop
<1>4. ~ClientMoves
  BY <1>2, <1>3 DEF PingPongJammed, ClientMoves, Sent, Broken, IInv, TypeOK, StreamTypeOK
<1>5. ~WriterMoves("server") /\ ~ReaderMoves("server")
  BY <1>2 DEF PingPongJammed, WriterMoves, ReaderMoves, Sent, Broken, IInv, TypeOK, StreamTypeOK
<1>6. \A e \in Ends : ~NetworkMoves(e)
  BY <1>1, <1>2, <1>3 DEF PingPongJammed, NetworkMoves, IInv, TypeOK, StreamTypeOK
<1> QED
  BY <1>1, <1>2, <1>4, <1>5, <1>6 DEF PingPongStandstill

\* The handlers of a ping-pong connection stand still before their end
\* exactly if the server was stopped while both directions were full
\* (tcp_server_pingpong.cpp:156-172, tcp_client_pingpong.cpp:94).
THEOREM OnlyDeadlock == PingPongSpec => []PingPongStandstillIsJam
<1>1. IInv /\ Causes => PingPongStandstillIsJam
  BY StandstillJams, JamsStand DEF PingPongStandstillIsJam, Ends
<1> QED
  BY <1>1, Inv, CausesInv, PTL

\* The jam is for ever: stopping the client as well does not end it.
THEOREM JamIsForever == PingPongSpec => [](PingPongJammed => []PingPongJammed)
<1>1. ASSUME IInv, Causes, PingPongJammed, [PingPongNext]_vars PROVE PingPongJammed'
  <2>1. PingPongStandstill /\ \A e \in Ends : ~Ended(e)
    BY <1>1, JamsStand
  <2>2. ~PingPongClient
    BY <1>1, <2>1 DEF PingPongJammed, PingPongStandstill, ClientMoves, PingPongClient, PingClose, Ping, PingWritten,
                      OutputClosed, PingWriteFails, PongRead, PongEnds, Write, WriterTo, Readable
  <2>3. ~WriterStep("server")
    BY <2>1 DEF PingPongStandstill, WriterMoves, WriterStep, Write, Written, CloseOutput, OutputClosed, WriterFails, WriterTo
  <2>4. ~ReaderStep("server")
    BY <2>1 DEF PingPongStandstill, ReaderMoves, ReaderStep, Read, ReadResolves, ReaderFails, ReaderTo, Readable
  <2>5. ASSUME NEW e \in Ends, Network(e) PROVE FALSE
    BY <2>1, <2>5 DEF PingPongStandstill, NetworkMoves, Network, NetworkSends, NetworkDelivers, NetworkResets,
                      Push, Receive, Fill, ResetBy
  <2>6. ASSUME NEW e \in Ends, Interrupt(e) PROVE PingPongJammed'
    BY <1>1, <2>6 DEF Interrupt, PingPongJammed, streamVars, IInv, TypeOK
  <2>7. CASE UNCHANGED vars
    BY <1>1, <2>7 DEF PingPongJammed, vars
  <2> QED
    BY <1>1, <2>2, <2>3, <2>4, <2>5, <2>6, <2>7 DEF PingPongNext
<1>2. IInv /\ Causes /\ PingPongJammed /\ [PingPongNext]_vars => PingPongJammed'
  BY <1>1
<1> QED
  BY <1>2, Inv, CausesInv, PTL DEF PingPongSpec

\* As long as the server is not interrupted, something can move until both
\* handlers are over, although the client never flushes its packets.
THEOREM ClientStopNeverJams ==
  PingPongSpec => [](~interrupted["server"] => ~PingPongStandstill \/ \A e \in Ends : Ended(e))
<1>1. PingPongStandstillIsJam => (~interrupted["server"] => ~PingPongStandstill \/ \A e \in Ends : Ended(e))
  BY DEF PingPongStandstillIsJam, PingPongJammed
<1> QED
  BY <1>1, OnlyDeadlock, PTL
=============================================================================
