SPECIFICATION FairSpec
CONSTANTS
  Shards = {s1, s2}
  Conns = {c1, c2}
  Acceptor = acceptLoop
  GateAsserts = TRUE
  Faults = FALSE
INVARIANT TypeOK
INVARIANT GateTracksOperations
INVARIANT ReportLostOnlyByEarlySignal
INVARIANT CrashOnlyAfterReport
PROPERTY ClosedGateOnlyDrains
PROPERTY SignalLeadsToReport
CHECK_DEADLOCK FALSE
