SPECIFICATION Spec
CONSTANTS
  Shards = {s1, s2}
  Conns = {c1, c2}
  Acceptor = acceptLoop
  GateAsserts = TRUE
  Faults = FALSE
INVARIANT CompletedBeforeStopping
CHECK_DEADLOCK FALSE
