SPECIFICATION FairSpec
CONSTANTS
  j1 = j1
  j2 = j2
  w1 = w1
  w2 = w2
  r1 = r1
  r2 = r2
  Jobs = {j1, j2}
  JobSpec <- TransientAndSleep
  Policy <- StubPolicy
  Workers = {w1}
  Recoverers = {r1}
  RecoveryBatch = 2
  HeartbeatReliable = TRUE
  Cancellable = {}
  Interruptible = {j2}
  MaxAborts = 1
PROPERTIES
  EventuallyFinalized
  EventuallyDrained
CHECK_DEADLOCK FALSE
