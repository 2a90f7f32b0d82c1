SPECIFICATION PingPongFairSpec
CONSTANTS
  DataSize <- EqualPackets
  BufferSize = 3
  WireSize = 2
INVARIANT CountsMatchBytesInFlight
INVARIANT EndOfStreamLacksOnlyDropped
INVARIANT PingPongStandstillIsJam
PROPERTY ClientStopEndsBoth
CHECK_DEADLOCK FALSE
