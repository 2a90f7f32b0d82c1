-------------------------- MODULE TcpDuplexProofs --------------------------
(***************************************************************************)
(* Proofs about TcpDuplex, for all packet sizes and all buffers.           *)
(***************************************************************************)
EXTENDS TcpDuplex, TLAPS

\* Nothing is being put unless a loop waits for it, or waited until it
\* failed, and a loop fails only on a reset connection.
PutsAreAwaited ==
  \A e \in Ends :
    /\ pend[e] > 0 => writer[e] \in {"writing", "closing", "failed"}
    /\ writer[e] = "failed" => reset

\* A side is shut exactly when its loop has closed it, flushed and sent.
ShutIsFlushed ==
  \A e \in Ends :
    /\ writer[e] \in {"closing", "closed"} => obuf[e] = 0
    /\ ~reset => (fin[e] <=> writer[e] = "closed")
    /\ ~reset /\ fin[e] => pend[e] = 0

\* A loop that ended by reading nothing has left nothing behind.
EndedReadersHaveAll ==
  \A e \in Ends :
    (reader[e] = "done" /\ ~interrupted[e] /\ ~reset) =>
      fin[Peer(e)] /\ wire[Peer(e)] = 0 /\ rbuf[e] = 0

\* Even a reset makes no byte out of nothing: what is held on the way, and
\* what the reader has counted, the writer counts.
BytesAreWritten ==
  \A e \in Ends : gap[e] + Uncounted(e) >= obuf[e] + pend[e] + wire[e] + rbuf[Peer(e)]

IInv ==
  /\ TypeOK
  /\ PutsAreAwaited
  /\ ShutIsFlushed
  /\ EndedReadersHaveAll
  /\ CountsMatchBytesInFlight
  /\ BytesAreWritten

USE SizesAssumption DEF SizesAssumption, Ends, Peer

LEMMA InitInv == Init => IInv
<1> SUFFICES ASSUME Init PROVE IInv
  OBVIOUS
<1> USE DEF Init, StreamInit, Zero
<1>1. TypeOK
  <2>1. BufferSize \in Nat /\ WireSize \in Nat
    OBVIOUS
  <2>2. 0 \in 0..BufferSize /\ 0 \in 0..WireSize /\ 0 \in 0..(BufferSize + WireSize) /\ 0 \in Int
    BY <2>1
  <2>3. /\ obuf \in [Ends -> 0..BufferSize] /\ pend \in [Ends -> 0..BufferSize]
        /\ wire \in [Ends -> 0..WireSize] /\ rbuf \in [Ends -> 0..(BufferSize + WireSize)]
        /\ gap \in [Ends -> Int]
    BY <2>2
  <2>4. fin \in [Ends -> BOOLEAN] /\ reset \in BOOLEAN /\ interrupted \in [Ends -> BOOLEAN]
    OBVIOUS
  <2>5. /\ writer \in [Ends -> {"idle", "writing", "closing", "closed", "failed"}]
        /\ reader \in [Ends -> {"idle", "reading", "done", "failed"}]
    OBVIOUS
  <2> QED
    BY <2>3, <2>4, <2>5 DEF TypeOK, StreamTypeOK
<1>2. PutsAreAwaited
  BY DEF PutsAreAwaited
<1>3. ShutIsFlushed
  BY DEF ShutIsFlushed
<1>4. EndedReadersHaveAll
  BY DEF EndedReadersHaveAll
<1>5. CountsMatchBytesInFlight
  BY DEF CountsMatchBytesInFlight, Uncounted
<1>6. BytesAreWritten
  BY DEF BytesAreWritten, Uncounted
<1> QED
  BY <1>1, <1>2, <1>3, <1>4, <1>5, <1>6 DEF IInv

\* Every step of the loops and of the network preserves the invariant.
LEMMA StepInv == IInv /\ [Next]_vars => IInv'
<1> SUFFICES ASSUME IInv, [Next]_vars PROVE IInv'
  OBVIOUS
<1> USE DEF IInv, TypeOK, StreamTypeOK, PutsAreAwaited, ShutIsFlushed, EndedReadersHaveAll,
            CountsMatchBytesInFlight, BytesAreWritten, Uncounted, WriterTo, ReaderTo, streamVars
<1>1. ASSUME NEW e \in Ends, Write(e) PROVE IInv'
  BY <1>1 DEF Write, Buffer
<1>2. ASSUME NEW e \in Ends, Written(e) PROVE IInv'
  <2> USE <1>2 DEF Written, Sent, CountWritten
  <2>1. TypeOK'
    OBVIOUS
  <2>2. PutsAreAwaited' /\ ShutIsFlushed' /\ EndedReadersHaveAll'
    OBVIOUS
  <2>3. \A d \in Ends : gap'[d] + Uncounted(d)' = gap[d] + Uncounted(d)
    OBVIOUS
  <2>4. CountsMatchBytesInFlight' /\ BytesAreWritten'
    BY <2>3
  <2> QED
    BY <2>1, <2>2, <2>4
<1>3. ASSUME NEW e \in Ends, CloseOutput(e) PROVE IInv'
  <2> USE <1>3 DEF CloseOutput, FlushBuffer
  <2>1. TypeOK' /\ PutsAreAwaited'
    OBVIOUS
  <2>2. ShutIsFlushed' /\ EndedReadersHaveAll'
    OBVIOUS
  <2>3. CountsMatchBytesInFlight' /\ BytesAreWritten'
    OBVIOUS
  <2> QED
    BY <2>1, <2>2, <2>3
<1>4. ASSUME NEW e \in Ends, OutputClosed(e) PROVE IInv'
  <2> USE <1>4 DEF OutputClosed, Sent, Shut
  <2>1. TypeOK' /\ PutsAreAwaited'
    OBVIOUS
  <2>2. ShutIsFlushed' /\ EndedReadersHaveAll'
    OBVIOUS
  <2>3. CountsMatchBytesInFlight' /\ BytesAreWritten'
    OBVIOUS
  <2> QED
    BY <2>1, <2>2, <2>3
<1>5. ASSUME NEW e \in Ends, WriterFails(e) PROVE IInv'
  BY <1>5 DEF WriterFails, Broken
<1>6. ASSUME NEW e \in Ends, Read(e) PROVE IInv'
  BY <1>6 DEF Read
<1>7. ASSUME NEW e \in Ends, Receive(e) PROVE IInv'
  BY <1>7 DEF Receive, Fill
<1>8. ASSUME NEW e \in Ends, ReadResolves(e) PROVE IInv'
  <2> USE <1>8 DEF ReadResolves, CountRead
  <2>1. Packet(e) \in 0..rbuf[e] /\ (Packet(e) = 0 => rbuf[e] = 0 /\ EndSeen(e))
    BY DEF Packet, Readable
  <2>2. TypeOK'
    BY <2>1
  <2>3. PutsAreAwaited' /\ ShutIsFlushed'
    BY <2>1
  <2>4. EndedReadersHaveAll'
    BY <2>1 DEF EndSeen
  <2>5. \A d \in Ends : gap'[d] - rbuf'[Peer(d)] = gap[d] - rbuf[Peer(d)]
    <3> SUFFICES ASSUME NEW d \in Ends PROVE gap'[d] - rbuf'[Peer(d)] = gap[d] - rbuf[Peer(d)]
      OBVIOUS
    <3>1. gap[d] \in Int /\ rbuf[Peer(d)] \in Int /\ Packet(e) \in Int
      BY <2>1
    <3>2. CASE d = Peer(e)
      <4>1. gap'[d] = gap[d] - Packet(e) /\ rbuf'[Peer(d)] = rbuf[Peer(d)] - Packet(e)
        BY <3>2
      <4> QED
        BY <4>1, <3>1
    <3>3. CASE d = e
      BY <3>3
    <3> QED
      BY <3>2, <3>3
  <2>6. \A d \in Ends : Uncounted(d)' = Uncounted(d) /\ Uncounted(d) \in Int
    OBVIOUS
  <2>7. CountsMatchBytesInFlight'
    BY <2>2, <2>5, <2>6
  <2>8. BytesAreWritten'
    BY <2>2, <2>5, <2>6
  <2> QED
    BY <2>2, <2>3, <2>4, <2>7, <2>8
<1>9. ASSUME NEW e \in Ends, ReaderFails(e) PROVE IInv'
  BY <1>9 DEF ReaderFails, EndSeen
<1>10. ASSUME NEW e \in Ends, NetworkSends(e) PROVE IInv'
  <2> USE <1>10 DEF NetworkSends, Push
  <2>1. PICK n \in Nat :
          /\ n <= pend[e] /\ n <= WireSize - wire[e]
          /\ pend' = [pend EXCEPT ![e] = @ - n]
          /\ wire' = [wire EXCEPT ![e] = @ + n]
    <3> DEFINE m == IF pend[e] <= WireSize - wire[e] THEN pend[e] ELSE WireSize - wire[e]
    <3>1. m \in Nat /\ m <= pend[e] /\ m <= WireSize - wire[e]
      OBVIOUS
    <3>2. pend' = [pend EXCEPT ![e] = @ - m] /\ wire' = [wire EXCEPT ![e] = @ + m]
      OBVIOUS
    <3> QED
      BY <3>1, <3>2
  <2>2. TypeOK'
    BY <2>1
  <2>3. PutsAreAwaited' /\ ShutIsFlushed'
    BY <2>1
  <2>4. EndedReadersHaveAll'
    BY <2>1
  <2>5. \A d \in Ends : pend'[d] + wire'[d] = pend[d] + wire[d]
    BY <2>1
  <2>6. \A d \in Ends : gap'[d] = gap[d] /\ Uncounted(d)' = Uncounted(d) /\ Uncounted(d) \in Int
    OBVIOUS
  <2>7. \A d \in Ends : obuf'[d] = obuf[d] /\ rbuf'[Peer(d)] = rbuf[Peer(d)]
    OBVIOUS
  <2>8. CountsMatchBytesInFlight'
    BY <2>2, <2>5, <2>6, <2>7
  <2>9. BytesAreWritten'
    BY <2>2, <2>5, <2>6, <2>7
  <2> QED
    BY <2>2, <2>3, <2>4, <2>8, <2>9
<1>11. ASSUME NEW e \in Ends, NetworkResets(e) PROVE IInv'
  BY <1>11 DEF NetworkResets, ResetBy
<1>12. ASSUME NEW e \in Ends, Interrupt(e) PROVE IInv'
  BY <1>12 DEF Interrupt
<1>13. CASE UNCHANGED vars
  BY <1>13 DEF vars
<1> QED
  BY <1>1, <1>2, <1>3, <1>4, <1>5, <1>6, <1>7, <1>8, <1>9, <1>10, <1>11, <1>12, <1>13
     DEF Next, WriterStep, ReaderStep, Network, NetworkDelivers

\* The invariant is one of every behaviour.
LEMMA Inv == Spec => []IInv
  BY InitInv, StepInv, PTL DEF Spec

\* Buffers never exceed their sizes, and the loops are where their code is.
THEOREM TypeCorrect == Spec => []TypeOK
<1>1. IInv => TypeOK
  BY DEF IInv
<1> QED
  BY <1>1, Inv, PTL

\* On an intact connection the counts of the two ends differ by the bytes in
\* flight (tcp_client.cpp and tcp_server.cpp, handle_connection).
THEOREM CountsCorrect == Spec => []CountsMatchBytesInFlight
<1>1. IInv => CountsMatchBytesInFlight
  BY DEF IInv
<1> QED
  BY <1>1, Inv, PTL

\* No end reports more bytes read than the other wrote, but for the packet
\* whose write() has not resolved or never will.
THEOREM ReadersCorrect == Spec => []ReadersNeverAhead
<1>1. IInv => ReadersNeverAhead
  BY DEF IInv, TypeOK, StreamTypeOK, BytesAreWritten, ReadersNeverAhead, Uncounted
<1> QED
  BY <1>1, Inv, PTL

\* A reader that meets the end of an intact stream has counted every byte its
\* peer counted: interrupting one end loses nothing of what that end sent.
THEOREM EndOfStreamCorrect == Spec => []EndOfStreamIsComplete
<1>1. IInv => EndOfStreamIsComplete
  <2> SUFFICES ASSUME IInv, NEW e \in Ends, reader[e] = "done", ~interrupted[e], ~reset
               PROVE  gap[Peer(e)] = 0
    BY DEF EndOfStreamIsComplete
  <2>1. fin[Peer(e)] /\ wire[Peer(e)] = 0 /\ rbuf[e] = 0
    BY DEF IInv, EndedReadersHaveAll
  <2>2. writer[Peer(e)] = "closed" /\ obuf[Peer(e)] = 0 /\ ~(pend[Peer(e)] > 0)
    BY <2>1 DEF IInv, ShutIsFlushed, TypeOK, StreamTypeOK
  <2>3. pend[Peer(e)] = 0 /\ Peer(Peer(e)) = e /\ Uncounted(Peer(e)) = 0 /\ gap[Peer(e)] \in Int
    BY <2>2 DEF IInv, TypeOK, StreamTypeOK, Uncounted
  <2> QED
    BY <2>1, <2>2, <2>3 DEF IInv, CountsMatchBytesInFlight
<1> QED
  BY <1>1, Inv, PTL

-----------------------------------------------------------------------------
(***************************************************************************)
(* Steps of a reader, and the connection nobody interrupts.                *)
(***************************************************************************)

\* At the end of an unreset stream, what a reader holds is all that its
\* peer has counted and it has not.
LEMMA LastBytes ==
  ASSUME IInv, NEW e \in Ends, ~reset, EndSeen(e)
  PROVE  gap[Peer(e)] = rbuf[e]
<1>1. fin[Peer(e)] /\ wire[Peer(e)] = 0
  BY DEF EndSeen
<1>2. writer[Peer(e)] = "closed" /\ obuf[Peer(e)] = 0 /\ pend[Peer(e)] = 0
  BY <1>1 DEF IInv, ShutIsFlushed
<1>3. Peer(Peer(e)) = e /\ Uncounted(Peer(e)) = 0 /\ gap[Peer(e)] \in Int /\ rbuf[e] \in Int
  BY <1>2 DEF IInv, TypeOK, StreamTypeOK, Uncounted
<1> QED
  BY <1>1, <1>2, <1>3 DEF IInv, CountsMatchBytesInFlight

\* A short read on an unreset connection leaves nothing uncounted
\* (tcp_client.cpp:106 counts it as a packet): it is the last one.
THEOREM ShortReadCorrect == Spec => ShortReadIsLast
<1>1. ASSUME IInv, [Next]_vars, NEW e \in Ends, gap[Peer(e)] - gap'[Peer(e)] \in 1 .. DataSize[e] - 1, ~reset'
      PROVE  gap'[Peer(e)] = 0
  <2> USE DEF IInv, TypeOK, StreamTypeOK
  <2>1. ASSUME NEW d \in Ends, Written(d) PROVE gap[Peer(e)] - gap'[Peer(e)] <= 0
    BY <1>1, <2>1 DEF Written, CountWritten
  <2>2. ASSUME NEW d \in Ends, ReadResolves(d) PROVE gap'[Peer(e)] = 0
    <3>1. d = e
      BY <1>1, <2>2 DEF ReadResolves, CountRead
    <3>2. gap'[Peer(e)] = gap[Peer(e)] - Packet(e) /\ ~reset
      BY <1>1, <2>2, <3>1 DEF ReadResolves, CountRead
    <3>3. Packet(e) = rbuf[e] /\ EndSeen(e)
      BY <1>1, <2>2, <3>1, <3>2 DEF ReadResolves, Readable, Packet
    <3> QED
      BY <1>1, <3>2, <3>3, LastBytes
  <2>3. CASE UNCHANGED gap
    BY <1>1, <2>3
  <2> QED
    BY <1>1, <2>1, <2>2, <2>3
       DEF Next, WriterStep, ReaderStep, Network, NetworkSends, NetworkDelivers, NetworkResets, Interrupt, vars,
           Write, CloseOutput, OutputClosed, WriterFails, Read, ReaderFails, Receive,
           Buffer, FlushBuffer, Shut, Fill, Push, ResetBy, streamVars
<1>2. IInv /\ [Next]_vars =>
        [\A e \in Ends :
           LET read == gap[Peer(e)] - gap'[Peer(e)]
           IN  (read \in 1 .. DataSize[e] - 1 /\ ~reset') => gap'[Peer(e)] = 0]_vars
  BY <1>1
<1> QED
  BY <1>2, Inv, PTL DEF Spec, ShortReadIsLast

\* No loop ends, and nothing is reset, without a stop() of one of the ends.
THEOREM StopsCorrect == Spec => []StopsOnlyWhenInterrupted
<1>1. Init => StopsOnlyWhenInterrupted
  BY DEF Init, StreamInit, StopsOnlyWhenInterrupted
<1>2. ASSUME IInv, StopsOnlyWhenInterrupted, [Next]_vars PROVE StopsOnlyWhenInterrupted'
  <2> SUFFICES ASSUME \A e \in Ends : ~interrupted'[e]
               PROVE  /\ ~reset'
                      /\ \A e \in Ends : writer'[e] \in {"idle", "writing"} /\ reader'[e] \in {"idle", "reading"}
    BY DEF StopsOnlyWhenInterrupted
  <2> USE DEF IInv, TypeOK, WriterTo, ReaderTo, streamVars
  <2>1. interrupted' = interrupted \/ \E e \in Ends : Interrupt(e)
    BY <1>2 DEF Next, WriterStep, ReaderStep, Network, NetworkSends, NetworkDelivers, NetworkResets, vars,
                Write, Written, CloseOutput, OutputClosed, WriterFails, Read, ReadResolves, ReaderFails, Receive
  <2>2. \A e \in Ends : ~interrupted[e] /\ ~Interrupt(e)
    BY <1>2, <2>1 DEF Interrupt
  <2>3. /\ ~reset
        /\ \A e \in Ends : writer[e] \in {"idle", "writing"} /\ reader[e] \in {"idle", "reading"}
    BY <1>2, <2>2 DEF StopsOnlyWhenInterrupted
  <2>4. \A e \in Ends : ~fin[e]
    BY <1>2, <2>3 DEF ShutIsFlushed
  <2>5. ASSUME NEW e \in Ends, WriterStep(e)
        PROVE  /\ reset' = reset /\ reader' = reader
               /\ \A d \in Ends : writer'[d] \in {"idle", "writing"}
    BY <1>2, <2>2, <2>3, <2>5
       DEF WriterStep, Write, Written, CloseOutput, OutputClosed, WriterFails, Buffer, CountWritten, Broken
  <2>6. ASSUME NEW e \in Ends, ReaderStep(e)
        PROVE  /\ reset' = reset /\ writer' = writer
               /\ \A d \in Ends : reader'[d] \in {"idle", "reading"}
    <3>1. ~EndSeen(e)
      BY <2>3, <2>4 DEF EndSeen
    <3>2. Readable(e) => Packet(e) > 0
      BY <1>2, <3>1 DEF StreamTypeOK, Readable, Packet
    <3> QED
      BY <1>2, <2>2, <2>3, <2>6, <3>1, <3>2 DEF ReaderStep, Read, ReadResolves, ReaderFails, CountRead
  <2>7. ASSUME NEW e \in Ends, Network(e) PROVE reset' = reset /\ writer' = writer /\ reader' = reader
    BY <2>3, <2>7 DEF Network, NetworkSends, NetworkDelivers, NetworkResets, Push, Receive, Fill, Ended
  <2>8. CASE UNCHANGED vars
    BY <2>3, <2>8 DEF vars
  <2> QED
    BY <1>2, <2>2, <2>3, <2>5, <2>6, <2>7, <2>8 DEF Next
<1>3. IInv /\ StopsOnlyWhenInterrupted /\ [Next]_vars => StopsOnlyWhenInterrupted'
  BY <1>2
<1> QED
  BY <1>1, <1>3, Inv, PTL DEF Spec

-----------------------------------------------------------------------------
(***************************************************************************)
(* The deadlock of finding 2, and why there is no other.                   *)
(***************************************************************************)

\* A reader fails on a reset connection only, and only an end whose handler
\* is over resets it.
ResetsHaveCause ==
  /\ reset => \E e \in Ends : Ended(e)
  /\ \A e \in Ends : reader[e] = "failed" => reset

LEMMA ResetsCaused == Spec => []ResetsHaveCause
<1>1. Init => ResetsHaveCause
  BY DEF Init, StreamInit, ResetsHaveCause
<1>2. ASSUME IInv, ResetsHaveCause, [Next]_vars PROVE ResetsHaveCause'
  <2> USE <1>2 DEF IInv, TypeOK, ResetsHaveCause, Ended, WriterTo, ReaderTo, streamVars
  <2>1. ASSUME NEW e \in Ends, WriterStep(e) PROVE ResetsHaveCause'
    <3>1. /\ reader' = reader /\ reset' = reset
          /\ \E to : writer' = [writer EXCEPT ![e] = to]
          /\ writer[e] \in {"idle", "writing", "closing"}
      BY <2>1 DEF WriterStep, Write, Written, CloseOutput, OutputClosed, WriterFails,
                  Buffer, CountWritten, FlushBuffer, Shut
    <3> QED
      BY <3>1
  <2>2. ASSUME NEW e \in Ends, ReaderStep(e) PROVE ResetsHaveCause'
    <3>1. /\ writer' = writer /\ reset' = reset
          /\ \/ \E to \in {"idle", "reading", "done"} : reader' = [reader EXCEPT ![e] = to]
             \/ reset /\ reader' = [reader EXCEPT ![e] = "failed"]
          /\ reader[e] \in {"idle", "reading"}
      BY <2>2 DEF ReaderStep, Read, ReadResolves, ReaderFails, CountRead
    <3> QED
      BY <3>1
  <2>3. ASSUME NEW e \in Ends, Network(e) PROVE ResetsHaveCause'
    BY <2>3 DEF Network, NetworkSends, NetworkDelivers, NetworkResets, Push, Receive, Fill, ResetBy
  <2>4. ASSUME NEW e \in Ends, Interrupt(e) PROVE ResetsHaveCause'
    BY <2>4 DEF Interrupt
  <2>5. CASE UNCHANGED vars
    BY <2>5 DEF vars
  <2> QED
    BY <2>1, <2>2, <2>3, <2>4, <2>5 DEF Next
<1>3. IInv /\ ResetsHaveCause /\ [Next]_vars => ResetsHaveCause'
  BY <1>2
<1> QED
  BY <1>1, <1>3, Inv, PTL DEF Spec

\* A connection on which nothing moves and some handler runs is jammed.
LEMMA StandstillJams ==
  ASSUME IInv, ResetsHaveCause, Standstill, NEW d \in Ends, ~Ended(d)
  PROVE  Jammed
<1> USE DEF IInv, TypeOK, StreamTypeOK
<1>1. ASSUME NEW e \in Ends
      PROVE  /\ writer[e] \in {"writing", "closing"} => pend[e] > 0 /\ ~reset
             /\ writer[e] \in {"writing", "closing", "closed", "failed"}
             /\ reader[e] \in {"reading", "done", "failed"}
             /\ reader[e] = "reading" => wire[Peer(e)] = 0 /\ ~fin[Peer(e)] /\ ~reset
  <2>1. ~WriterMoves(e) /\ ~ReaderMoves(e) /\ ~NetworkMoves(e)
    BY DEF Standstill
  <2>2. writer[e] \in {"writing", "closing"} => pend[e] > 0 /\ ~reset
    BY <2>1 DEF WriterMoves, Sent, Broken
  <2>3. reader[e] = "reading" => rbuf[e] < DataSize[e] /\ ~EndSeen(e)
    BY <2>1 DEF ReaderMoves, Readable
  <2>4. reader[e] = "reading" => wire[Peer(e)] = 0
    BY <2>1, <2>3 DEF NetworkMoves
  <2> QED
    BY <2>1, <2>2, <2>3, <2>4 DEF WriterMoves, ReaderMoves, EndSeen
<1>2. ~reset
  BY <1>1 DEF Ended
<1>3. \A e \in Ends : pend[e] > 0 => wire[e] = WireSize
  BY <1>2 DEF Standstill, NetworkMoves
<1>4. \A e \in Ends : writer[e] \in {"writing", "closing", "closed"} /\ reader[e] \in {"reading", "done"}
  BY <1>1, <1>2 DEF PutsAreAwaited, ResetsHaveCause
<1>5. \A e \in Ends : reader[e] = "done"
  <2> SUFFICES ASSUME NEW e \in Ends, reader[e] = "reading" PROVE FALSE
    BY <1>4
  <2>1. wire[Peer(e)] = 0 /\ writer[Peer(e)] # "closed"
    BY <1>1, <1>2 DEF ShutIsFlushed
  <2>2. pend[Peer(e)] > 0 /\ wire[Peer(e)] = WireSize
    BY <1>1, <1>3, <1>4, <2>1
  <2> QED
    BY <2>1, <2>2
<1>6. \A e \in Ends : writer[e] \in {"writing", "closing"}
  <2>1. writer[d] \in {"writing", "closing"}
    BY <1>4, <1>5 DEF Ended
  <2>2. wire[d] > 0
    BY <1>1, <1>3, <2>1
  <2>3. ~Ended(Peer(d))
    BY <1>2, <2>2 DEF Standstill, NetworkMoves
  <2> QED
    BY <1>4, <1>5, <2>1, <2>3 DEF Ended
<1>7. \A e \in Ends : interrupted[e]
  BY <1>2, <1>5, <1>6 DEF EndedReadersHaveAll, ShutIsFlushed
<1> QED
  BY <1>1, <1>3, <1>5, <1>6, <1>7 DEF Jammed

\* Nothing moves on a jammed connection.
LEMMA JamsStand ==
  ASSUME IInv, ResetsHaveCause, Jammed
  PROVE  Standstill /\ \A e \in Ends : ~Ended(e)
<1>1. \A e \in Ends : ~Ended(e)
  BY DEF Jammed, Ended
<1>2. ~reset
  BY <1>1 DEF ResetsHaveCause
<1> QED
  BY <1>1, <1>2 DEF Jammed, Standstill, WriterMoves, ReaderMoves, NetworkMoves, Sent, Broken, IInv, TypeOK, StreamTypeOK

\* The handlers of a connection stand still before their end exactly if both
\* were stopped while both directions were full (tcp_client.cpp:100-116).
THEOREM OnlyDeadlock == Spec => []StandstillIsJam
<1>1. IInv /\ ResetsHaveCause => StandstillIsJam
  BY StandstillJams, JamsStand DEF StandstillIsJam, Ends
<1> QED
  BY <1>1, Inv, ResetsCaused, PTL

\* A jam is for ever: not even another stop() ends the handlers.
THEOREM JamIsForever == Spec => [](Jammed => []Jammed)
<1>1. ASSUME IInv, ResetsHaveCause, Jammed, [Next]_vars PROVE Jammed'
  <2>1. Standstill /\ \A e \in Ends : interrupted[e] /\ ~Ended(e)
    BY <1>1, JamsStand DEF Jammed
  <2>2. ASSUME NEW e \in Ends, WriterStep(e) PROVE FALSE
    BY <2>1, <2>2 DEF Standstill, WriterMoves, WriterStep, Write, Written, CloseOutput, OutputClosed, WriterFails, WriterTo
  <2>3. ASSUME NEW e \in Ends, ReaderStep(e) PROVE FALSE
    BY <2>1, <2>3 DEF Standstill, ReaderMoves, ReaderStep, Read, ReadResolves, ReaderFails, ReaderTo, Readable
  <2>4. ASSUME NEW e \in Ends, Network(e) PROVE FALSE
    BY <2>1, <2>4 DEF Standstill, NetworkMoves, Network, NetworkSends, NetworkDelivers, NetworkResets,
                      Push, Receive, Fill, ResetBy
  <2>5. ASSUME NEW e \in Ends, Interrupt(e) PROVE FALSE
    BY <2>1, <2>5 DEF Interrupt
  <2>6. CASE UNCHANGED vars
    BY <1>1, <2>6 DEF Jammed, vars
  <2> QED
    BY <1>1, <2>2, <2>3, <2>4, <2>5, <2>6 DEF Next
<1>2. IInv /\ ResetsHaveCause /\ Jammed /\ [Next]_vars => Jammed'
  BY <1>1
<1> QED
  BY <1>2, Inv, ResetsCaused, PTL DEF Spec

\* As long as one end at least is not interrupted, something can move until
\* both handlers are over: interrupting one end jams nothing.
THEOREM OneStopNeverJams ==
  Spec => [](~(\A e \in Ends : interrupted[e]) => ~Standstill \/ \A e \in Ends : Ended(e))
<1>1. StandstillIsJam => (~(\A e \in Ends : interrupted[e]) => ~Standstill \/ \A e \in Ends : Ended(e))
  BY DEF StandstillIsJam, Jammed
<1> QED
  BY <1>1, OnlyDeadlock, PTL
=============================================================================
