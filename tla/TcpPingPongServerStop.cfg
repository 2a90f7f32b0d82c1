SPECIFICATION PingPongFairSpec
CONSTANTS
  DataSize <- EqualPackets
  BufferSize = 3
  WireSize = 2
PROPERTY ServerStopEndsBoth
CHECK_DEADLOCK FALSE
