---------------------------- MODULE BudgetPolicy ----------------------------
(***************************************************************************)
(* The checks a worker makes before it dispatches or retries a job.  A     *)
(* policy is a record [mode, run_budget_cents, per_job_budget_cents,       *)
(* retry_budget]; a budget that is None is NoBudget (budgets are amounts,   *)
(* never negative).                                                        *)
(***************************************************************************)
EXTENDS Integers

NoBudget == -1

BudgetPolicies ==
  [mode : {"stub", "live"},
   run_budget_cents : Int, per_job_budget_cents : Int, retry_budget : Nat]

\* BudgetPolicy.stub(): nothing may be spent, two retries.
StubPolicy ==
  [mode |-> "stub", run_budget_cents |-> 0, per_job_budget_cents |-> 0,
   retry_budget |-> 2]

\* BudgetPolicy.live(...) with its default of two retries.
LivePolicy(run_budget_cents, per_job_budget_cents) ==
  [mode |-> "live", run_budget_cents |-> run_budget_cents,
   per_job_budget_cents |-> per_job_budget_cents, retry_budget |-> 2]

\* No exception is raised for a job of this type and budget.
validate_dispatch(policy, live, budget_cents) ==
  \/ policy.mode = "stub" /\ ~live
  \/ /\ policy.mode = "live"
     /\ NoBudget \notin {policy.run_budget_cents,
                         policy.per_job_budget_cents, budget_cents}
     /\ budget_cents <= policy.per_job_budget_cents
     /\ budget_cents <= policy.run_budget_cents

\* Mutant: the next attempt's own number is left out of the projection.
validate_retry_late(policy, next_attempt_number) ==
  next_attempt_number - 2 <= policy.retry_budget

\* No exception is raised for this attempt number.
validate_retry(policy, next_attempt_number) ==
  next_attempt_number - 1 <= policy.retry_budget

=============================================================================
