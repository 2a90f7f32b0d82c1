---------------------------- MODULE TcpPingPong ----------------------------
(***************************************************************************)
(* A connection of tcp_client_pingpong and tcp_server_pingpong.  The       *)
(* server runs the two loops of TcpDuplex (the overload of                 *)
(* handle_connection that answers a packet is never called).  The client   *)
(* runs one loop, which writes a packet and then waits for one, and does   *)
(* not flush in between.  Its writer and reader are the two halves of that *)
(* loop: it is before a write when both are "idle".                        *)
(***************************************************************************)
EXTENDS TcpDuplex

Alternate(w, r) ==
  /\ writer' = [writer EXCEPT !["client"] = w]
  /\ reader' = [reader EXCEPT !["client"] = r]

\* Variant: the loop drops its buffer when it is interrupted.
PingCloseDiscards ==
  /\ interrupted["client"]
  /\ writer["client"] = "idle" /\ reader["client"] = "idle"
  /\ Alternate("closing", "done")
  /\ obuf' = [obuf EXCEPT !["client"] = 0]
  /\ UNCHANGED <<pend, wire, rbuf, fin, reset, gap, interrupted>>

\* The head of the loop, in its two branches.
PingClose ==
  /\ interrupted["client"]
  /\ writer["client"] = "idle" /\ reader["client"] = "idle"
  /\ Alternate("closing", "done")
  /\ FlushBuffer("client")
  /\ UNCHANGED interrupted

Ping == reader["client"] = "idle" /\ Write("client")

\* Variant: the flag is looked at before the packet is counted.
PingWrittenUncounted ==
  /\ writer["client"] = "writing"
  /\ Sent("client")
  /\ IF interrupted["client"]
       THEN /\ Alternate("closed", "done")
            /\ fin' = [fin EXCEPT !["client"] = TRUE]
            /\ UNCHANGED gap
       ELSE /\ Alternate("idle", "reading")
            /\ gap' = [gap EXCEPT !["client"] = @ + DataSize["client"]]
            /\ UNCHANGED fin
  /\ UNCHANGED <<obuf, pend, wire, rbuf, reset, interrupted>>

\* write() resolves: the packet is counted, and the loop waits for one, or
\* ends as it is interrupted.  Then both streams go, and the descriptor with
\* them, and what the output buffer held is never sent.
PingWritten ==
  /\ writer["client"] = "writing"
  /\ Sent("client")
  /\ gap' = [gap EXCEPT !["client"] = @ + DataSize["client"]]
  /\ IF interrupted["client"]
       THEN Alternate("closed", "done") /\ fin' = [fin EXCEPT !["client"] = TRUE]
       ELSE Alternate("idle", "reading") /\ UNCHANGED fin
  /\ UNCHANGED <<obuf, pend, wire, rbuf, reset, interrupted>>

PingWriteFails ==
  /\ Broken("client")
  /\ writer["client"] \in {"writing", "closing"}
  /\ Alternate("failed", "failed")
  /\ UNCHANGED <<streamVars, interrupted>>

\* read_exactly() resolves with a packet, and the loop goes on.
PongRead ==
  /\ reader["client"] = "reading"
  /\ Readable("client") /\ Packet("client") > 0
  /\ Alternate("idle", "idle")
  /\ CountRead("client")
  /\ UNCHANGED interrupted

\* It resolves with nothing, or fails: the loop ends without a close().
PongEnds ==
  /\ reader["client"] = "reading"
  /\ EndSeen("client")
  /\ \/ Packet("client") = 0 /\ Alternate("closed", "done")
     \/ reset /\ rbuf["client"] < DataSize["client"] /\ Alternate("failed", "failed")
  /\ Shut("client")
  /\ UNCHANGED interrupted

PingPongClient ==
  PingClose \/ Ping \/ PingWritten \/ OutputClosed("client") \/ PingWriteFails \/ PongRead \/ PongEnds

PingPongNext ==
  \/ PingPongClient
  \/ WriterStep("server") \/ ReaderStep("server")
  \/ \E e \in Ends : Network(e) \/ Interrupt(e)

PingPongSpec == Init /\ [][PingPongNext]_vars

PingPongFairness ==
  /\ WF_vars(PingPongClient)
  /\ WF_vars(WriterStep("server")) /\ WF_vars(ReaderStep("server"))
  /\ \A e \in Ends :
       WF_vars(NetworkSends(e)) /\ WF_vars(NetworkDelivers(e)) /\ WF_vars(NetworkResets(e))

PingPongFairSpec == PingPongSpec /\ PingPongFairness

-----------------------------------------------------------------------------
\* What an end has counted as written and will never send: its stream was
\* destroyed with bytes in the buffer.
Dropped(e) == IF writer[e] = "closed" THEN obuf[e] ELSE 0

\* On an unreset connection whose stream a server has read to its end, the
\* server's count is short of the client's by what the client dropped and
\* by nothing else.
EndOfStreamLacksOnlyDropped ==
  \A e \in Ends :
    (reader[e] = "done" /\ ~interrupted[e] /\ ~reset) => gap[Peer(e)] = Dropped(Peer(e))

\* A handler that ends through the head of its loop, where it is closed, has
\* dropped nothing; one interrupted between its write and its read, or that
\* met the end of the stream, drops what it has not sent.
OnlyClientDrops == Dropped("server") = 0

\* Who can move, stop() apart: the client is one loop, the server has two.
ClientMoves ==
  \/ writer["client"] = "idle" /\ reader["client"] = "idle"
  \/ writer["client"] \in {"writing", "closing"} /\ (Sent("client") \/ Broken("client"))
  \/ reader["client"] = "reading" /\ Readable("client")

PingPongStandstill ==
  /\ ~ClientMoves /\ ~WriterMoves("server") /\ ~ReaderMoves("server")
  /\ \A e \in Ends : ~NetworkMoves(e)

\* Both ends wait for room to write; the server reads no more, the client
\* not before its write is over.
PingPongJammed ==
  /\ interrupted["server"] /\ reader["server"] = "done"
  /\ \A e \in Ends : writer[e] \in {"writing", "closing"} /\ pend[e] > 0 /\ wire[e] = WireSize

\* While a handler runs, nothing but stop() can happen if, and only if, the
\* server has been stopped while both directions are full.  In particular
\* the client's packets that wait in its buffer stop nothing for good.
PingPongStandstillIsJam ==
  (PingPongStandstill /\ \E e \in Ends : ~Ended(e)) <=> PingPongJammed

\* When the client alone is interrupted, both handlers end: the server keeps
\* reading and writing until the client's close() has come through.
ClientStopEndsBoth ==
  interrupted["client"] ~> (interrupted["server"] \/ \A e \in Ends : Ended(e))

\* "Interrupt gate to know when we need to stop working"
\* (tcp_server_pingpong.cpp:172): when the server alone is interrupted, both
\* handlers end.
ServerStopEndsBoth ==
  interrupted["server"] ~> (interrupted["client"] \/ \A e \in Ends : Ended(e))

\* "Disable Nagle's algorithm to ensure that packets are sent immediately"
\* (tcp_client_pingpong.cpp:77): a client that waits for an answer has sent
\* its packet.
PingIsSentBeforeWait == reader["client"] = "reading" => obuf["client"] = 0
=============================================================================
