SPECIFICATION FairSpec
CONSTANTS
  Shards = {s1, s2}
  Tasks = {t1, t2}
INVARIANT TypeOK
INVARIANT RestsForAReason
PROPERTY ImplementsGatedRun
PROPERTY SignalInTimeRestsInHandlers
PROPERTY OnlyHandlersBlockExit
CHECK_DEADLOCK FALSE
