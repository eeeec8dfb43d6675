SPECIFICATION WorkerFairSpec
CONSTANTS
  j1 = j1
  j2 = j2
  w1 = w1
  w2 = w2
  r1 = r1
  r2 = r2
  Jobs = {j1}
  JobSpec <- Transient1
  Policy <- StubPolicy
  Workers = {w1, w2}
  Recoverers = {r1}
  RecoveryBatch = 2
  HeartbeatReliable = FALSE
  Cancellable = {j1}
  Interruptible = {}
  MaxAborts = 0
INVARIANTS
  OneTerminalEvent
  TerminalStatusBacked
PROPERTIES
  EventuallyFinalized
CHECK_DEADLOCK FALSE
