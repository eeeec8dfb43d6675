SPECIFICATION ISpec
CONSTANTS
  j1 = j1
  j2 = j2
  w1 = w1
  w2 = w2
  r1 = r1
  Jobs = {j1, j2}
  JobSpec <- TransientAndBlocked
  Policy <- TightPolicy
  Workers = {w1, w2}
  Recoverers = {r1}
  RecoveryBatch = 2
  HeartbeatReliable = TRUE
  Cancellable = {}
  Interruptible = {}
  MaxAborts = 1
  MaxInspections = 1
SYMMETRY Symmetry
INVARIANTS
  BudgetBoundsRetries
  DeadLetterIsFinal
  EmptyQueueMeansDone
CHECK_DEADLOCK FALSE
