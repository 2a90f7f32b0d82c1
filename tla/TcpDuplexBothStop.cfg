SPECIFICATION FairSpec
CONSTANTS
  DataSize <- EqualPackets
  BufferSize = 3
  WireSize = 2
PROPERTY InterruptEndsHandler
CHECK_DEADLOCK FALSE
