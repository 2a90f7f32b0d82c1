---------------------------- MODULE Measurement ----------------------------
(***************************************************************************)
(* The MeasurementDevice of common.hpp: two counters of type size_t, their *)
(* values at the last tick, and one row per tick.  A device is a record;   *)
(* its member functions are operators on it.  The time and the shard of a  *)
(* row are left out, and so is the scaling of bits to gigabits.            *)
(***************************************************************************)
EXTENDS Naturals, Sequences

CONSTANTS
  SizeT,       \* the number of values of a size_t
  BitsPerByte  \* the factor of the conversion, 8 in the code

ASSUME SizeTAssumption == SizeT \in Nat \ {0}
ASSUME BitsPerByteAssumption == BitsPerByte \in Nat \ {0}

Word == 0 .. SizeT - 1

\* Unsigned arithmetic wraps.
Wrap(n) == n % SizeT
Minus(m, n) == IF m >= n THEN m - n ELSE (m + SizeT) - n

Row == [bits : Word, pps : Word]

Device == [bytes : Word, packets : Word, lastBytes : Word, lastPackets : Word, rows : Seq(Row)]

NewDevice == [bytes |-> 0, packets |-> 0, lastBytes |-> 0, lastPackets |-> 0, rows |-> <<>>]

AddBytes(d, n) == [d EXCEPT !.bytes = Wrap(@ + n)]

AddPackets(d, n) == [d EXCEPT !.packets = Wrap(@ + n)]

\* Variant: a counter that is behind its last value is taken for reset.
TickClamped(d) ==
  LET bytes == IF d.bytes >= d.lastBytes THEN d.bytes - d.lastBytes ELSE 0
      pps   == IF d.packets >= d.lastPackets THEN d.packets - d.lastPackets ELSE 0
  IN  [d EXCEPT !.lastBytes = d.bytes, !.lastPackets = d.packets,
                !.rows = Append(@, [bits |-> Wrap(BitsPerByte * bytes), pps |-> pps])]

\* tick: a row for what was counted since the last one.
Tick(d) ==
  LET bytes == Minus(d.bytes, d.lastBytes)
      pps   == Minus(d.packets, d.lastPackets)
  IN  [d EXCEPT !.lastBytes = d.bytes, !.lastPackets = d.packets,
                !.rows = Append(@, [bits |-> Wrap(BitsPerByte * bytes), pps |-> pps])]
=============================================================================
