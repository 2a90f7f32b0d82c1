# A verification of the Seastar network benchmarks

The repository holds small benchmark programs written with
[Seastar](https://seastar.io/): UDP and TCP clients and servers that push
packets at each other, count them per core, and write the counts to CSV files.
This directory models them in TLA+, checks the models with TLC and proves the
main results with TLAPS.

## 1. Inventory

| Part | Source | State it keeps | Operations |
|---|---|---|---|
| process lifecycle | `main()` of every program | the stage of the future chain, the exit tasks, the shard instances | `start`, `setup_reporter`, `run_*`, report, `service->stop()`, the `at_exit` hook |
| TCP client service | `tcp_client.cpp`, `tcp_client_pingpong.cpp` | `interrupted_`, `gate_`, one background task per connection | `run_tcp`, `stop` |
| TCP server service | `tcp_server.cpp`, `tcp_server_pingpong.cpp` | `interrupted_`, `listener_`, `gate_`, accept loop, one task per connection | `run_tcp`, `stop` |
| duplex handler | `handle_connection` of `tcp_client`, `tcp_server`, `tcp_server_pingpong` | a writing and a reading loop, an `output_stream`, an `input_stream` | write, read, close |
| ping-pong handler | `handle_connection` of `tcp_client_pingpong` | one loop over both streams | write, read, close |
| measurement | `common.hpp` | byte and packet counters, last values, history | `add_bytes`, `add_packets`, `tick`, `get_history` |
| report | `write_throughput_report`, `dump_measurements` | a CSV file | collect from all shards, write |
| UDP server, client | `server.cpp`, `client.cpp` | `interrupted_`, one loop per shard | `run_udp`, `stop` |
| UDP duplex | `udp_duplex.cpp` | as the TCP client, two loops per connection, ports from shard and connection | `run_udp`, `stop` |
| scripts, plots, installation | `*.sh`, `plot/` | none | out of scope |

How they interact. A reactor thread per shard runs its own
`throughput_service`; nothing is shared between shards, and within a shard only
one continuation runs at a time. Shards interact by calls posted to each other
(`invoke_on_all`, `map`), which start in order. Inside a shard, `stop()` talks
to the loops through `interrupted_`, through the gate, and, in the server,
through `abort_accept()`. The two programs interact through TCP only.

What is hard. A signal may come at any time, and the at-exit hook then runs
`stop()` beside the chain of `main()`, which runs it again. An object's
continuation may run after the object. A loop that waits for its peer does not
see `interrupted_`. Streams buffer, writes resolve before their bytes are sent,
a close may flush or not, a reset loses what is on its way. Nothing in the code
has a timeout, and nothing is persisted.

What makes the parts correct:

* lifecycle: a signal leads to a report and a clean exit; no continuation runs
  on a destroyed instance;
* client: the report is taken when every connection has ended;
* server: the gate knows all background work, a closed gate admits none, one
  signal is enough;
* handlers: what one end counts as written the other counts as read, but for
  what is in flight; a handler ends when its shard is interrupted (which
  findings 2 and 4 show to need a peer that still reads);
* measurement: a row states the traffic of its interval, and a report lacks the
  traffic of one interval at most;
* UDP: the report waits for the loops of all shards, and only a `receive()` that
  gets no datagram keeps an interrupted server from it;
* UDP duplex: connections have ports of their own, also against the other
  process, and nothing of a connection outlives `run_udp`.

## 2. Modules

```
AppMain  <-- TcpClient                        <-- MCTcpClient, TcpClientProofs
         <-- TcpServer                        <-- MCTcpServer, TcpServerProofs
AppMain, DuplexPorts <-- UdpDuplex            <-- MCUdpDuplex, UdpDuplexProofs
DuplexPorts                                   <-- DuplexPortsProofs
AppMain, Measurement <-- UdpService           <-- UdpServer, UdpClient, UdpServiceProofs
                                   UdpServer  <-- MCUdpServer, UdpClient <-- MCUdpClient
GatedRun: implemented by TcpClient, TcpServer, UdpService and UdpDuplex
AppMain  <-- AppMainProofs, the lemmas of the four proofs about processes
TcpStream <-- TcpDuplex                       <-- MCTcpDuplex, TcpDuplexProofs
                  ^-- TcpPingPong             <-- MCTcpPingPong, TcpPingPongProofs
```

**AppMain** is the life of a process. `main` names the stage of the chain the
program waits for: `setup` (`setup_reporter` everywhere), `run` (`run_tcp`),
`report`, `stop` and `clear` (the two phases of `sharded::stop`), `done` or
`failed`. `mainWait` is the set of shards whose call of that stage has not
resolved. `mail[s]` is the queue of calls posted to shard `s`: `"main"` for the
chain's and `"exit"` for the hook's. The order in that queue matters: it is why
the hook's `stop()` never meets a destroyed instance unless the signal comes
during the last stage. `exit`, `exitWait` and `exitErr` are the exit tasks of
the reactor, which first run the hook and then wait for the chain. Everything
Seastar does here (`sharded`, exit tasks) is external to the repository and
modelled from how the programs use it. `service->start()` has resolved in the
initial state. `ChainMoves`, `TimerWaits`, `CallWaits` and `ExitMoves` say, in
state predicates, when a step of this part can be taken. With the guards of its
own steps every program states from them when it stands still, and how that may
be; that these predicates are the guards (`ENABLED` of the program's own steps)
was checked with TLC on the instances below.

**TcpClient** adds the client's service. `run_tcp` puts every connection into
the gate, closes the gate and returns its future; a connection is `connecting`,
`open` and `ended`, and may end at any time, because its handler's future is
discarded whichever way it resolves. It need not end: a handler waits for its
peer without a timeout, also when its shard has been interrupted, so nothing
here counts on the end of one.

**GatedRun** is what every process promises, whatever its service looks like:
operations begin during the run only, those the run waits for (`Awaited`) are
over on every shard when it ends, with a report or in a failure, and an instance
is destroyed after the report with nothing running on it. The four programs
differ in what runs and what is awaited: the connections of a client, all
awaited; the handlers and the accept loop of a server, of which the loop is
awaited; the one loop of a UDP server or client; the gated connections of
`udp_duplex`.

**TcpServer** adds the server's service: the accept loop (`acceptor`), the
pointer `listener_`, which dangles after `run_tcp`, handlers in the gate, and
`stop()` in the three forms it can take: `Stop` closes the gate, `StopAgain`
closes a closed gate (this second call is always the chain's: accept loops end
without an error only when the hook has run on their shard, so the hook comes
first), `StopUsesDeadListener` is one outcome of the call through the dangling
pointer (the other outcome, no effect, is in the first two). `AcceptHandles` is
the branch that starts a handler and the `accept()` of the next iteration in one
step. `seastar::repeat` may let a `stop()` in between, which then aborts an
`accept()` that has not been called: Seastar's contract that `abort_accept()`
makes later calls fail too gives the same outcome as a `stop()` after the step,
and `SignalLeadsToReport` rests on it.
`GateAsserts` says whether the build keeps the assertion in `gate::close()`;
without it the second future replaces the first, which breaks if the gate has
not drained. `Faults` lets `listen()` and `accept()` fail.

**TcpStream** is a TCP connection as a handler sees it. Per end, `obuf` is the
buffer of the `output_stream`, `pend` the bytes of a `put()` the kernel has not
taken, `wire` what is between the two kernels, `rbuf` the buffer of the
`input_stream`. `write()` resolves at once unless the buffer overflows. A
descriptor is closed when both streams of an end are gone; data that meets a
closed descriptor resets the connection, and the reset may lose any suffix of
what is on its way. `gap[e]` is what end `e` has counted as written minus what
its peer has counted as read: it stands for `add_bytes` at both ends without
counters that grow for ever. All of it is external, as is the choice of finite
sizes. Packets fit the output buffer (`SizesAssumption`); the default packet has
64 bytes, the buffer 8192.

**TcpDuplex** is `handle_connection` at both ends: `writer` and `reader` are its
two loops. **TcpPingPong** replaces the client's handler by the alternating
loop of `tcp_client_pingpong`. The server of the ping-pong pair runs the duplex
handler: its other overload, which would answer packets, is never called. So a
"pong" need not be an answer to a "ping", and nothing here claims it is.

**Measurement** is `MeasurementDevice`: a device is a record of two counters,
their values at the last tick, and the rows; `AddBytes`, `AddPackets` and `Tick`
are its member functions. `SizeT` is the number of values of a `size_t`, so
counters wrap, and so do the bits of a row (`bytes * 8` is computed in a
`size_t`). The division by 10^9, the time and the shard id of a row are left out.

**UdpService** is what `server.cpp` and `client.cpp` have in common, which is all
but the direction: on top of `AppMain`, a loop per shard (`check` at the top of
its body, `waiting` for `receive()` or `send()`, `ended`, `failed`), a timer that
ticks the device until the service is destroyed, and the copy of the rows that
the report is given. `setup_reporter` does not sleep here, so it is one step.
There is no gate; `run_udp` resolves when its loop is over. `Faults` lets the
making of the channel and its calls fail. `fresh` is a history variable: the
traffic since the last tick, counted without wrapping up to `SizeT`, which the
properties of the rows are stated with. **UdpServer** and **UdpClient** add the
fairness: nothing makes a datagram come, but `send()` resolves in the end. No
peer is modelled, as UDP gives neither program any knowledge of the other.

**DuplexPorts** is the arithmetic of `udp_duplex`'s ports, in a `uint16_t` of
`PortT` values. **UdpDuplex** is its process. A connection has a `writer` and a
`reader`; `handle_connection` starts the writer, then binds the port, and
throws when it cannot: because the port is held (`unbound`), or for another
reason (`failed`). The connection is then out of the gate, its writing loop is
not; it is an orphan (`Orphan`). That loop refers to its instance, so one
outcome of an iteration after the instance is gone is `LoopUsesDeadService`.
When the sending channel cannot be made either, no loop starts. `Faults` lets
channels fail for reasons other than their port. A port is held when a
connection of this process has bound it, or by something else: `Others` are the
ports that other programs, the other process, or the sending channels of either
(which the kernel gives a port of its choice) may hold, any of them at any time.
What is counted is left out; an iteration, from the answer of a channel to its
next call, is no state change here, so a loop's only step is its end.

Definitions whose comment says "Variant" are plausible mistakes in the
definition that follows. Nothing uses them; replacing the definition by its
variant must break a property (`PROJECT.json`, "mutants").

## 3. What is checked

| Run | Instance | States | Shows |
|---|---|---|---|
| `TcpClient.cfg` | 2 shards x 2 connections | 608 | types; the client implements `GatedRun`, so the report is taken from an idle service; it comes to rest in three ways: in handlers nobody has interrupted, in handlers that go on although every shard was told to end (findings 2 and 4), or in exit tasks that a late signal has broken (`RestsForAReason`); after a signal before instances are destroyed, in handlers that were told to end and nowhere else (`SignalInTimeRestsInHandlers`); only such handlers keep that signal from leading to a clean exit (`OnlyHandlersBlockExit`) |
| `TcpServer.cfg` | 2 shards x 2 connections, assertion kept | 2443 | types; the gate tracks accept loop and handlers; a closed gate only drains; a signal loses the report only before any shard listens; the double close crashes the process after the report only; a signal that finds all shards listening leads to the report |
| `TcpServerFaults.cfg` | same, no assertion, `listen`/`accept` may fail | 9889 | the server implements `GatedRun`: its accept loops are over on all shards when the run ends, in a failure too, and no instance dies with work in its gate; a failure costs the report; handlers that may still count while the report is collected have been told to stop; the three ways in which a server comes to rest (`RestsForAReason`) |
| `TcpServerDrain.cfg` | assertion kept | violation | the server can end with handlers running (finding) |
| `TcpDuplex.cfg` | packets 3/2, buffer 3, wire 2 | 83798 | types; a reader counts nothing its writer did not write; counts differ by the bytes in flight; an end of stream is complete; a read is short only when it is the last; nothing stops or resets without `stop()`; a handler is held up for good if and only if both ends were stopped over full buffers (`StandstillIsJam`); interrupting one end ends both |
| `TcpDuplexBothStop.cfg` | packets 2/2, buffer 3, wire 2 | violation | interrupting both ends can deadlock both (finding) |
| `TcpPingPong.cfg` | packets 2/2, buffer 3, wire 2 | 22069 | counts differ by the bytes in flight; a reader that meets the end of the stream misses what its peer dropped; a handler is held up for good if and only if the server was stopped over full buffers (`PingPongStandstillIsJam`); interrupting the client ends both |
| `TcpPingPongNagle.cfg` | same | violation | the client waits with its packet unsent (finding) |
| `TcpPingPongServerStop.cfg` | same | violation | interrupting the server alone can deadlock both (finding) |
| `UdpServer.cfg` | 2 shards, 1-bit counters, 2 ticks, failing channels | 73843 | types; the server implements `GatedRun`: the chain goes on when all loops are over, failures included; rows state their interval; the report lacks one interval at most; only an unanswered `receive()` keeps a signalled server from its end |
| `UdpClient.cfg` | same, 1 tick | 13302 | the process rests only with a call of a channel pending in its run (`RestsOnlyInCalls`); a signal during the benchmark ends it, with the report unless a channel failed |
| `UdpDuplex.cfg` | 2 shards x 2 connections, 3 ports, 1 of them perhaps held, failing channels | 29388 | types; only writing loops of connections without a reading channel outlive `run_udp`; a destroyed instance is used only where one is left on it, after the report; a port is lost to others or to a wrap only; only an unanswered `receive()` keeps a signalled process from its end; of its gated connections it implements `GatedRun` |

Bounds. Two shards are the fewest on which calls of one shard overtake those of
another; two connections are the fewest for which a gate drains in steps and a
resolved `accept()` races a `stop()` with a handler already inside. There are
no other bounds in those models: they are finite. In the UDP models `MaxTicks`
bounds the ticks of a timer: two rows are enough to have one that the report
misses and a later one; a counter of one bit wraps with every second datagram, so
that it wraps within and between intervals. The width, the ticks and the sizes
are arbitrary in the proofs. In `UdpDuplex` four
connections share three ports, so that the last wraps to the port of the first
and meets it or not depending on the order of the shards, and one port may be
held by others; the proofs are for any numbers. In the connection, packets of
3 and 2 are cut and merged, a packet of 2 and a buffer of 3 make packets straddle
the buffer, a `put()` of 3 exceeds a wire of 2 so that writers block, and both
directions fill up. Nothing else is bounded. `CHECK_DEADLOCK FALSE` is in every
configuration because every one of these systems ends: the process exits, or
both handlers resolve.

Fairness. Reactors run what is ready, so every step of a chain, an exit task or
a loop that stays enabled is taken (weak fairness on `AppStep`, on the calls of
each shard, on each loop), and the network moves bytes that can move and
delivers resets. No fairness is given to signals, to clients that connect, to
datagrams, or to the end of a handler of a server or a client. The UDP client's `send()`
resolves in the end: the kernel takes or refuses a datagram; for the same
reason an interrupted writing loop of `UdpDuplex` ends, and no fairness is given
to its reading loops. In `TcpClient` a `connect()` resolves in the end, one way
or the other, as the kernel gives up after some time. That an interrupted
handler of a client ends is the condition of `OnlyHandlersBlockExit`, not an
assumption: `OneSidedStopEndsBoth` and `ClientStopEndsBoth` show that it does
when the server is not interrupted, `TcpDuplexBothStop.cfg` and
`TcpPingPongServerStop.cfg` that it may not when the server is.

### Findings

1. `tcp_server.cpp:65`, run `tcp_server_drain`. `stop()` closes the gate, and
   every interrupted instance is stopped twice, by the hook and by
   `service->stop()`. The second close trips an assertion of Seastar, after the
   report but possibly with handlers still running, although the gate is there
   to have "all background operations completed before stopping the server".
2. `tcp_client.cpp:100`, run `tcp_duplex_both_stop`. If both programs are
   interrupted while both write into full buffers, both readers stop and
   neither write resolves: the handlers, and the client's report, never end.
   The window needs both socket buffers nearly full. This is the only deadlock
   of the connection, and nothing at its two ends resolves it (`OnlyDeadlock`,
   `JamIsForever`). It is the second of the client's resting states. In a build
   with the assertion of the gate the server's second `close()` ends its process
   (finding 1), whose closed sockets free the client.
3. `tcp_client_pingpong.cpp:94`, run `tcp_pingpong_nagle`. `TCP_NODELAY` is set
   "to ensure that packets are sent immediately", but the packet waits in the
   `output_stream`, which nothing flushes, while the client waits for an
   answer.
4. `tcp_server_pingpong.cpp:156`, run `tcp_pingpong_server_stop`. When only the
   server is interrupted and both directions are full, its reader stops, its
   last write or its close waits for the client to read, and the client, which
   reads only after its write, waits for the server to read. Neither handler
   ends. The window again needs both socket buffers nearly full; in a build with
   the assertion of the gate the second `close()` ends the process all the same
   (finding 1). It is the only deadlock here too, and a stop of the client does
   not end it: in particular the unsent packet of finding 3 holds up nothing,
   since the server's own packets wake the client.

## 4. What is proved

Each module of proofs is about one program. An invariant of a run is seldom
inductive; what had to be added to it, and why, is the substance of a proof.

**All processes.** `AppMainProofs` has lemmas about the queues of calls, which
say all that the other proofs need of them: what posting and starting a call does
to the two callers' calls, and that it keeps their order (`OrderKept`,
`MainPosts`, `HookStarts`). The four theorems `ClientKeepsPromise`,
`ServerKeepsPromise`, `UdpKeepsPromise` and `DuplexKeepsPromise` are the
refinements of `GatedRun`, for all shards and connections: each step of a program
is a step of `GatedRun` or leaves its state alone. A second kind of result says
when a process comes to rest. It is the part of "everything ends" that needs no
fairness: no state but those named is one from which only the outside world goes
on. Its invariants say what each waiting future waits for (`CallsResolve` in
each module): `main()` and the hook wait for a call that was posted, a timer, or
a gate or loop with something in it.

`TcpClientProofs`, for every set of shards and connections (`ShardsAssumption`
is not even needed): `TypeCorrect`, `GateCorrect`, `ReportIsQuiet`,
`StuckIsLate`, and `ClientKeepsPromise`.
`DrainedBeforeReport` is not inductive. Its strengthening says that an operation
is in a gate only while the chain waits for that shard's `run_tcp`, with the
gate already closed (`GatesFilledInRun`); that a posted call is awaited
(`CallsAreAwaited`), which needs that the mail of a shard never has two calls of
the chain (part of `TypeOK`); that no call of this chain fails; and that
instances are destroyed at the end only (`GoneAtTheEnd`). `RestsCorrect` adds
that every shard of a run is told of the hook (`HookTold`), and
`SignalInTimeCorrect` that calls the hook has posted before the instances are
destroyed stay ahead of the calls that destroy them (`HookAhead`): after such a
signal the process comes to rest in handlers that were told to end and nowhere
else, which is the safety half of `OnlyHandlersBlockExit`. Neither says that
those handlers end; `OneStopNeverJams` and `ClientStopNeverJams` say where they
cannot be stuck.

`UdpServiceProofs`, for all shards, datagram sizes, ticks and counter widths, and
for both programs, as fairness plays no part: `TypeCorrect`, `LoopsCorrect`,
`RowsCorrect`, `ReportCorrect`, `UdpKeepsPromise` and `RestsCorrect`. A loop runs only while the chain waits for its
shard (`LoopsAwaited`). A counter is ahead of its last value, in unsigned
arithmetic, by exactly the traffic since the tick as long as that is a number a
counter can hold (`CountsSinceTick`, from the lemma `MinusGrows`). Once a
report is collected no loop is left, so the first later tick takes what is
uncounted and the others find nothing (`LateRows`). For `RestsCorrect`, a run is
over without a failure only when the hook was called on every shard
(`LoopsEndInterrupted`), so unlike the client's the hook never meets a destroyed
service and the exit tasks never hang (`NeverHangs`).

`TcpDuplexProofs`, for every packet size, buffer and wire that satisfy
`SizesAssumption`: `TypeCorrect`, `CountsCorrect`, `ReadersCorrect` and
`EndOfStreamCorrect`. The invariant adds to the counting equation that bytes
being put are awaited by a loop (or else a next write would overwrite them),
that a side is shut exactly when its loop closed it, flushed and sent, and that
a reader that ended by reading nothing left nothing behind. `BytesAreWritten` is
the inequality that survives a reset.

The same module proves `ShortReadCorrect`, as a property of steps (the lemma
`LastBytes`: less than a packet can be all a reader gets only when its peer is
shut and nothing is on its way), and `StopsCorrect`, from an invariant of its
own: until the first `stop()` no side is shut, so nothing can be reset.
Finding 2 is made exact by three more. `OnlyDeadlock`: while a handler runs, the
connection stands still if and only if both ends were stopped, no one reads, and
both wait to write to a full wire; it needs that a reset has a cause
(`ResetsHaveCause`: a handler that is over). `JamIsForever`: no step leaves that
state. `OneStopNeverJams`: with one end not stopped there is no standstill
before both handlers are over. What fairness adds to that is
`OneSidedStopEndsBoth`, which the run checks.

`TcpPingPongProofs`, for the same sizes: `TypeCorrect`, `CountsCorrect`,
`OnlyClientDropsCorrect` and `EndOfStreamCorrect`. The invariant differs from
that of the duplex handler in that the client's side may be shut with bytes in
its buffer; the server's may not (`ShutIsOver`). `OnlyDeadlock`, `JamIsForever`
and `ClientStopNeverJams` make finding 4 exact in the same way; their invariant
adds that the client is one loop, so that its two halves never wait at once
(`ClientIsOneLoop`).

`TcpServerProofs`, for all shards and connections, with and without faults, with
and without the assertion: `TypeCorrect`, `GateCorrect`, `ReportCorrect`,
`CrashIsLate`, `DestroyedIsIdle`, `HangIsLate`, `FailureIsLast`,
`FailureCostsReport`, `HandlersAreTold`, `GatesDrain`, `ServerKeepsPromise`,
`RestsCorrect` and `HookNeverMisses`. The inductive invariant has three parts.
`Core` says that accept loops run only while the chain waits for them, that the
chain closes a gate after the report only, and that past `stop` gates are empty.
`Stopping` says that a shard is stopped first by the hook: the flag and the
closed gate go together, and an accept loop ends only when it is told to or
fails, so that the chain reaches `stop` only when every shard has been told
(`MainNeverStopsFirst`); without this a second `close()` could be the hook's.
`Ordered` holds when `listen()` and `accept()` do not fail by themselves:
`accept()` then fails for the hook only, and as the two calls are posted to all
shards in one order, either every shard listens before it is stopped or every
shard meets a closed gate (`RunOrder`). `RestsCorrect` adds who waits for each
closed gate, and that the chain takes a gate with work in it from the hook only by breaking
the hook's future (`ClosersWait`); `HookNeverMisses` is why `TcpServer` has no
step in which the hook meets a destroyed instance.

`DuplexPortsProofs`: connections are numbered without gaps or repetitions, equal
remainders of numbers less than a range apart are equal numbers, and so
`ProcessesApart`: if both distances of the offsets round the range of a port are
at least the number of connections, no port of one process is one of the other's.
`UdpDuplexProofs`, for any numbers and any `Others`: `TypeCorrect`,
`OrphansCorrect`, `DeadServiceCorrect`, `PortsCorrect` and `DuplexKeepsPromise`,
from an invariant that says which connections are in a gate
(`GateHoldsConnections`) and when a gate may be filled; and, from both modules,
`PeersCoexist`: two processes with such offsets never run a loop on a destroyed
instance, if no other program and no sending channel has one of their ports, and
if no channel fails for another reason than its port (`FaultsInv`).

Every invariant and action property of a passing run is a theorem, and so are
the refinements and `SignalInTimeRestsInHandlers`. Some theorems state a property that
no run lists any more, because a property the run does list implies it
(`DrainedBeforeReport`, `NoUseAfterDestroy`, `LoopsOverAfterRun` and
`FailureWaitsForAllLoops` are parts of `ImplementsGatedRun`) or because it is a part of
the inductive invariant or follows from it at once (`GateHoldsActive`, `StuckOnlyAfterReport`,
`HangOnlyAfterReport`, `OnlyClientDrops`). Only model-checked are the liveness properties:
`OnlyHandlersBlockExit`, `SignalLeadsToReport`, `OneSidedStopEndsBoth`,
`ClientStopEndsBoth`, `SignalEndsClient` and both `OnlyIdleReceiveBlocksExit`,
which are beyond the proof system used, as is `ENABLED`: that the predicates of
`Standstill` are the guards of the steps they stand for is checked by TLC and by
reading. What the proofs assume of the constants
is what the modules do: `SizesAssumption`, `PortsAssumption`,
`ShardsAreNumbered`, `FaultsAssumption`, `AcceptorAssumption`,
`SwitchesAssumption`, the assumptions
of `Measurement` and `UdpService`, and that packets fit the output buffer.

## 5. Not modelled

* The file of a report: `dump_measurements` opens it, drops the rows without a
  word when it cannot, and writes them; both processes of a UDP duplex benchmark
  write the same two names. The models end a report with its collection. (The
  plot reads `client_report.csv` and `server_report.csv`, which only the plain
  UDP programs write.)
* The overload of `handle_connection` at `tcp_server_pingpong.cpp:93`, which
  nothing calls.
* The counters in the TCP and UDP duplex programs: the models keep the
  difference of the two ends' bytes, or nothing. Two counters per device and two
  devices per shard would add no interaction to what `UdpService` has.
* `service->start()`, options and their parsing, printing, the time and shard id
  of a row, its division by 10^9.
* Scripts, plotting and installation, which have no state of the programs; DPDK
  and the kernel, but for what a connection and a port do.

## 6. Plan

What a later development could add:

* theorems about `GatedRun` itself, which the four programs then have by
  refinement;
* when a `udp_duplex` process comes to rest, which only `OnlyIdleReceiveBlocksExit`
  says now, and only of a signalled process;
* an abstract byte channel that `TcpDuplex` and `TcpPingPong` implement, from
  which the counting properties follow;
* the server's service composed with the handler of one connection, so that the
  end of `run_tcp`, the last packets of a handler and the row they go to are in
  one model;
* two UDP duplex processes with their datagrams, in which the second one
  interrupted waits for ever.
