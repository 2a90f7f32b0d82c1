SPECIFICATION FairSpec
CONSTANTS
  Shards <- TwoShards
  Smp = 2
  Connections = 2
  PortT = 3
  StartPort = 1
  MyOffset = 1
  OtherOffset = 2
  Others = {1}
  Faults = TRUE
INVARIANT TypeOK
INVARIANT OnlyOrphansOutliveRun
INVARIANT DeadServiceNeedsOrphan
INVARIANT PortsLostToOthersOrWrap
PROPERTY OnlyIdleReceiveBlocksExit
PROPERTY ImplementsGatedRun
CHECK_DEADLOCK FALSE
