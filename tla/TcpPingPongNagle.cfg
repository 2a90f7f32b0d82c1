SPECIFICATION PingPongSpec
CONSTANTS
  DataSize <- EqualPackets
  BufferSize = 3
  WireSize = 2
INVARIANT PingIsSentBeforeWait
CHECK_DEADLOCK FALSE
