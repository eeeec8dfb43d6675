SPECIFICATION Spec
CONSTANTS
  j1 = j1
  j2 = j2
  w1 = w1
  w2 = w2
  r1 = r1
  r2 = r2
  Jobs = {j1}
  JobSpec <- Success0
  Policy <- StubPolicy
  Workers = {w1, w2}
  Recoverers = {r1}
  RecoveryBatch = 2
  HeartbeatReliable = TRUE
  Cancellable = {}
  Interruptible = {}
  MaxAborts = 2
SYMMETRY Symmetry
INVARIANTS
  ExhaustedIsDeadLettered
CHECK_DEADLOCK FALSE
