SPECIFICATION FairSpec
CONSTANTS
  DataSize <- OtherPackets
  BufferSize = 3
  WireSize = 2
INVARIANT TypeOK
INVARIANT ReadersNeverAhead
INVARIANT StopsOnlyWhenInterrupted
INVARIANT CountsMatchBytesInFlight
INVARIANT EndOfStreamIsComplete
INVARIANT StandstillIsJam
PROPERTY ShortReadIsLast
PROPERTY OneSidedStopEndsBoth
CHECK_DEADLOCK FALSE
