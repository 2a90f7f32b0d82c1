----------------------------- MODULE TcpStream -----------------------------
(***************************************************************************)
(* One TCP connection as the handlers of src/app see it through Seastar:   *)
(* at each end an output_stream, which buffers, and an input_stream, over  *)
(* a socket whose kernel buffers are finite.  Bytes are counted, never     *)
(* told apart.  Everything here is outside src/: it is modelled from how   *)
(* handle_connection uses it.                                              *)
(***************************************************************************)
EXTENDS Integers

Ends == {"client", "server"}
Peer(e) == IF e = "client" THEN "server" ELSE "client"

CONSTANTS
  DataSize,    \* per end, DATA_SIZE of the process
  BufferSize,  \* the buffer of an output_stream
  WireSize     \* what the two kernels hold of one direction

ASSUME SizesAssumption ==
  /\ BufferSize \in Nat \ {0} /\ WireSize \in Nat \ {0}
  /\ DataSize \in [Ends -> 1..BufferSize]

VARIABLES
  obuf,   \* per end, bytes in the buffer of its output_stream
  pend,   \* per end, bytes of the put() in progress not yet sent
  wire,   \* per end, bytes it sent and its peer has not taken
  rbuf,   \* per end, bytes in the buffer of its input_stream
  fin,    \* per end, whether its side of the connection is shut
  reset,  \* the connection was reset
  gap     \* per end, bytes it has counted as written minus bytes its peer
          \* has counted as read

streamVars == <<obuf, pend, wire, rbuf, fin, reset, gap>>

Zero == [e \in Ends |-> 0]

StreamInit ==
  /\ obuf = Zero /\ pend = Zero /\ wire = Zero /\ rbuf = Zero /\ gap = Zero
  /\ fin = [e \in Ends |-> FALSE]
  /\ reset = FALSE

StreamTypeOK ==
  /\ obuf \in [Ends -> 0..BufferSize]
  /\ pend \in [Ends -> 0..BufferSize]
  /\ wire \in [Ends -> 0..WireSize]
  /\ rbuf \in [Ends -> 0..(BufferSize + WireSize)]
  /\ fin \in [Ends -> BOOLEAN]
  /\ reset \in BOOLEAN
  /\ gap \in [Ends -> Int]

-----------------------------------------------------------------------------
(* output_stream *)

\* write(): the packet goes to the buffer; a full buffer is put(), and the
\* rest of the packet starts the next one.
Buffer(e) ==
  LET total == obuf[e] + DataSize[e] IN
  /\ obuf' = [obuf EXCEPT ![e] = IF total <= BufferSize THEN total ELSE total - BufferSize]
  /\ pend' = [pend EXCEPT ![e] = IF total <= BufferSize THEN 0 ELSE BufferSize]
  /\ UNCHANGED <<wire, rbuf, fin, reset, gap>>

\* close() flushes first.
FlushBuffer(e) ==
  /\ obuf' = [obuf EXCEPT ![e] = 0]
  /\ pend' = [pend EXCEPT ![e] = obuf[e]]
  /\ UNCHANGED <<wire, rbuf, fin, reset, gap>>

\* Variant: the kernel takes it all.
PushPastRoom(e) ==
  /\ ~reset
  /\ pend[e] > 0 /\ wire[e] < WireSize
  /\ pend' = [pend EXCEPT ![e] = 0]
  /\ wire' = [wire EXCEPT ![e] = @ + pend[e]]
  /\ UNCHANGED <<obuf, rbuf, fin, reset, gap>>

\* The kernel takes as much of a put() as it has room for.
Push(e) ==
  /\ ~reset
  /\ pend[e] > 0 /\ wire[e] < WireSize
  /\ LET n == IF pend[e] <= WireSize - wire[e] THEN pend[e] ELSE WireSize - wire[e] IN
       /\ pend' = [pend EXCEPT ![e] = @ - n]
       /\ wire' = [wire EXCEPT ![e] = @ + n]
  /\ UNCHANGED <<obuf, rbuf, fin, reset, gap>>

Sent(e)   == pend[e] = 0
Broken(e) == reset /\ pend[e] > 0

-----------------------------------------------------------------------------
(* input_stream *)

\* read_exactly() takes what the kernel has until it has a packet.
Fill(e) ==
  /\ rbuf[e] < DataSize[e]
  /\ wire[Peer(e)] > 0
  /\ rbuf' = [rbuf EXCEPT ![e] = @ + wire[Peer(e)]]
  /\ wire' = [wire EXCEPT ![Peer(e)] = 0]
  /\ UNCHANGED <<obuf, pend, fin, reset, gap>>

\* What read_exactly() resolves with: a packet, or what is left at the end
\* of the stream.  A reset may look like the end of the stream.
Packet(e)   == IF rbuf[e] < DataSize[e] THEN rbuf[e] ELSE DataSize[e]
EndSeen(e)  == wire[Peer(e)] = 0 /\ (fin[Peer(e)] \/ reset)
Readable(e) == rbuf[e] >= DataSize[e] \/ EndSeen(e)

\* Variant: the reader counts DATA_SIZE, whatever it has read.
CountPacketRead(e) ==
  /\ rbuf' = [rbuf EXCEPT ![e] = @ - Packet(e)]
  /\ gap' = [gap EXCEPT ![Peer(e)] = @ - IF Packet(e) > 0 THEN DataSize[e] ELSE 0]
  /\ UNCHANGED <<obuf, pend, wire, fin, reset>>

\* The reader counts the bytes of a packet.
CountRead(e) ==
  /\ rbuf' = [rbuf EXCEPT ![e] = @ - Packet(e)]
  /\ gap' = [gap EXCEPT ![Peer(e)] = @ - Packet(e)]
  /\ UNCHANGED <<obuf, pend, wire, fin, reset>>

\* The writer counts a packet.
CountWritten(e) ==
  /\ gap' = [gap EXCEPT ![e] = @ + DataSize[e]]
  /\ UNCHANGED <<obuf, pend, wire, rbuf, fin, reset>>

\* shutdown(SHUT_WR), or close() of the descriptor.
Shut(e) ==
  /\ fin' = [fin EXCEPT ![e] = TRUE]
  /\ UNCHANGED <<obuf, pend, wire, rbuf, reset, gap>>

\* Data meets a closed descriptor of e: the connection is reset.  What is on
\* its way to e is lost, and any part of what e sent may be.
ResetBy(e) ==
  /\ ~reset
  /\ wire[Peer(e)] > 0
  /\ reset' = TRUE
  /\ \E k \in 0..wire[e] : wire' = [wire EXCEPT ![e] = k, ![Peer(e)] = 0]
  /\ UNCHANGED <<obuf, pend, rbuf, fin, gap>>
=============================================================================
