SPECIFICATION Spec
CONSTANTS
  s1 = s1
  s2 = s2
  s3 = s3
  j1 = j1
  j2 = j2
  j3 = j3
  j4 = j4
  j5 = j5
  c1 = c1
  c2 = c2
  w1 = w1
  w2 = w2
  w3 = w3
  Jobs = {s1, s2, s3, j1, j2, j3, j4, j5, c1, c2}
  SmokeJobs = {s1, s2, s3}
  CaseIds = {c1, c2}
  Calls <- SomeCalls
  ModeOf <- ModesOfJobs
  Plans <- SomePlans
  JobSpec <- BatchSpec
  Policy <- StubPolicy
  Workers = {w1, w2, w3}
  HeartbeatReliable = FALSE
  PoolOf <- Pools
  MaxRaises = 1
INVARIANTS
  DrainedAtReport
  RejectedForCause
  CertifiedShowsFailures
  CertifiedIsSound
  LinkMatchesArtifact
  PassMeansUsable
PROPERTIES
  ExclusiveCaseFiles
  CommandEnds
CHECK_DEADLOCK FALSE
