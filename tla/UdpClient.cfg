SPECIFICATION FairSpec
CONSTANTS
  Shards = {s1, s2}
  SizeT = 2
  BitsPerByte = 1
  Sizes = {1}
  Faults = TRUE
  MaxTicks = 1
INVARIANT RestsOnlyInCalls
PROPERTY SignalEndsClient
CHECK_DEADLOCK FALSE
