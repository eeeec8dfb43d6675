-------------------------- MODULE ReliabilityProof --------------------------
(***************************************************************************)
(* run_reliability_proof: a command that submits a batch with injected     *)
(* failures, processes it like a smoke run, and demands evidence of every  *)
(* kind of failure in the report.                                          *)
(***************************************************************************)
EXTENDS Smoke

CONSTANTS
  ModeOf,  \* the failure injected into each job, "none" for no failure
  Plans    \* how the command may be called, and the jobs of each call

VARIABLES
  plan,    \* how it was called
  replays  \* idempotency_replay_count

proofVars == <<plan, replays>>

ReliabilityJobs == plan.jobs

-----------------------------------------------------------------------------
(* The batch *)

\* FailureMode without cancellation, which no plan contains
FailureModes == {"none", "transient", "permanent", "duplicate_submission", "timeout"}

\* FailurePlan.reliability_proof: the modes take turns over the failing jobs, which
\* are the first of the batch.  Which of them gets which mode is a seeded shuffle,
\* here any order of submission.
PlannedModes(timeouts) ==
  <<"transient", "permanent", "duplicate_submission">>
    \o (IF timeouts THEN <<"timeout">> ELSE <<>>)

PlannedMode(timeouts, position) ==
  PlannedModes(timeouts)[(position % Len(PlannedModes(timeouts))) + 1]

\* int(jobs * failure_rate) of floats, the rate in percent: what should be a whole
\* number may come out just below it (50 jobs at 0.58 are 28 failures).
PossibleFailureCounts(jobs, failure_rate) ==
  LET percents == Cardinality(jobs) * failure_rate IN
  {percents \div 100, (percents - 1) \div 100} \cap Nat

\* The stub runner treats "permanent_error" as it does "policy_error".
payload_for_failure(mode) ==
  CASE mode = "transient" -> "transient_error"
    [] mode = "permanent" -> "policy_error"
    [] mode = "timeout" -> "sleep"
    [] OTHER -> "success"

ReliabilitySubmission(mode) ==
  [job_type |-> "stub",
   mode |-> payload_for_failure(mode),
   max_retries |-> IF mode = "transient" THEN 1 ELSE 0,
   budget_cents |-> NoBudget]

\* A call: its options, as many jobs as it asks for, and a mode for each of them.
PlanHolds(p) ==
  /\ p.jobs \subseteq DOMAIN ModeOf /\ IsFiniteSet(p.jobs) /\ p.jobs # {}
  /\ p.failure_rate \in 0 .. 100
  /\ p.include_timeouts \in BOOLEAN /\ p.repeat_idempotency_submissions \in BOOLEAN
  /\ p.failure_count \in PossibleFailureCounts(p.jobs, p.failure_rate)
  /\ \A mode \in FailureModes \ {"none"} :
       Cardinality({j \in p.jobs : ModeOf[j] = mode}) =
         Cardinality({n \in 0 .. (p.failure_count - 1) :
                        PlannedMode(p.include_timeouts, n) = mode})

ASSUME BatchAssumption ==
  /\ DOMAIN ModeOf \subseteq Jobs
  /\ \A j \in DOMAIN ModeOf :
       /\ ModeOf[j] \in FailureModes
       /\ JobSpec[j] = ReliabilitySubmission(ModeOf[j])
  /\ \A p \in Plans : PlanHolds(p)

\* The failing jobs are the first of the batch, in any order.
BatchOrders ==
  {s \in Orderings(ReliabilityJobs) :
     \A n \in DOMAIN s : ModeOf[s[n]] = "none" <=> n > plan.failure_count}

-----------------------------------------------------------------------------
(* _submit_reliability_batch *)

CreateReliabilityJob ==
  /\ command = "reliability"
  /\ Create(Head(todo),
            IF /\ plan.repeat_idempotency_submissions
               /\ ModeOf[Head(todo)] = "duplicate_submission"
            THEN "replay" ELSE "publish")
  /\ UNCHANGED proofVars

\* create_job with the same idempotency key finds the row and returns it.
ReplaySubmission ==
  /\ phase = "replay"
  /\ status[Head(todo)] # "absent"
  /\ replays' = replays + 1
  /\ phase' = "publish"
  /\ UNCHANGED <<storeVars, queueVars, workerVars, command, todo, processed, report,
                 raises, plan>>

-----------------------------------------------------------------------------
(* validate_reliability_proof *)

\* Mutant: a replay need not be shown.
valid_without_replay ==
  /\ report.submitted = Cardinality(ReliabilityJobs)
  /\ report.terminal = Cardinality(ReliabilityJobs)
  /\ report.duplicates = 0
  /\ plan.failure_rate > 0 => report.retries > 0
  /\ plan.include_timeouts => report.timed_out > 0
  /\ report.checked = report.completed

ReliabilityReportValid ==
  /\ report.submitted = Cardinality(ReliabilityJobs)
  /\ report.terminal = Cardinality(ReliabilityJobs)
  /\ report.duplicates = 0
  /\ plan.failure_rate > 0 => report.retries > 0
  /\ plan.include_timeouts => report.timed_out > 0
  /\ plan.repeat_idempotency_submissions => replays > 0
  /\ report.checked = report.completed

validate_reliability_proof ==
  /\ command = "reliability"
  /\ Validate(ReliabilityReportValid)
  /\ UNCHANGED proofVars

=============================================================================
