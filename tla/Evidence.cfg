SPECIFICATION Spec
CONSTANTS
  Runs = {a, b}
  Readers = {v}
  Auditors = {u}
  Release = rel
  LikeRelease = {a}
  None = none
  Overlap = FALSE
  MaxCrashes = 1
INVARIANTS TypeOK VerifiedIsOneRun WriterNeverRejected ReturnedIsDurable
CHECK_DEADLOCK FALSE
