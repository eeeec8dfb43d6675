SPECIFICATION Spec
CONSTANTS
  j1 = j1
  j2 = j2
  j3 = j3
  w1 = w1
  Jobs = {j1, j2, j3}
  JobSpec <- ThreeLiveJobs
  Policy <- RunOfTen
  Workers = {w1}
  Recoverers = {}
  RecoveryBatch = 1
  HeartbeatReliable = TRUE
  Cancellable = {}
  Interruptible = {}
  MaxAborts = 0
PROPERTIES
  RunBudgetBlocksDispatch
CHECK_DEADLOCK FALSE
