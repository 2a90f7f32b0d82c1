SPECIFICATION FairSpec
CONSTANTS
  Shards = {s1, s2}
  SizeT = 2
  BitsPerByte = 1
  Sizes = {1}
  Faults = TRUE
  MaxTicks = 2
INVARIANT TypeOK
INVARIANT ReportLacksOneInterval
PROPERTY OnlyIdleReceiveBlocksExit
PROPERTY RowsStateTheirInterval
PROPERTY ImplementsGatedRun
CHECK_DEADLOCK FALSE
