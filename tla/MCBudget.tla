------------------------------ MODULE MCBudget ------------------------------
(***************************************************************************)
(* Three live jobs of one run, any two of which use up its budget, and a   *)
(* pool whose live policy a caller of Worker(budget_policy=...) gives; the *)
(* commands of the repository run with the stub policy.                    *)
(***************************************************************************)
EXTENDS RuntimeGrid, FiniteSetsExt, TLC

CONSTANTS j1, j2, j3, w1

\* Each job is within the budget of a job and that of the run
ThreeLiveJobs ==
  [j \in {j1, j2, j3} |->
     [job_type |-> "live", mode |-> "success", max_retries |-> 0,
      budget_cents |-> 6]]

RunOfTen == LivePolicy(10, 10)

LiveDispatched ==
  {j \in Jobs : /\ JobSpec[j].job_type = "live"
                /\ \E n \in DOMAIN events[j] : events[j][n].type = "running"}

\* What the live jobs that were dispatched may have cost, each counted once.
RunBudgetUsed ==
  LET budget(j) == JobSpec[j].budget_cents
  IN  MapThenSumSet(budget, LiveDispatched)

\* docs/spec.md: "Cost budget overrun blocks additional live LLM job dispatch for
\* the run": when the budgets of the live jobs dispatched so far exceed the run's,
\* no other live job is dispatched.
RunBudgetBlocksDispatch ==
  [][RunBudgetUsed > Policy.run_budget_cents =>
       LiveDispatched' \subseteq LiveDispatched]_vars

=============================================================================
