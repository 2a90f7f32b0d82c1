SPECIFICATION Spec
CONSTANTS
  Shards = {s1, s2}
  Conns = {c1, c2}
  Acceptor = acceptLoop
  GateAsserts = FALSE
  Faults = TRUE
INVARIANT FailureLosesReport
INVARIANT HandlersToldBeforeReport
INVARIANT RestsForAReason
PROPERTY ImplementsGatedRun
CHECK_DEADLOCK FALSE
