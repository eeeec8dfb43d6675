SPECIFICATION SFairSpec
CONSTANTS
  j1 = j1
  w1 = w1
  r1 = r1
  a = a
  b = b
  c = c
  Jobs = {j1}
  JobSpec <- Success1
  Policy <- StubPolicy
  Workers = {w1}
  Recoverers = {r1}
  RecoveryBatch = 1
  HeartbeatReliable = TRUE
  Cancellable = {j1}
  Interruptible = {}
  MaxAborts = 1
  Callers = {a, b, c}
  KeyOf <- OneKey
  PayloadOf <- Payloads
INVARIANTS
  RowCreatedOnce
  SubmissionHonoured
PROPERTIES
  EventuallyHonoured
CHECK_DEADLOCK FALSE
