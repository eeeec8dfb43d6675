----------------------------- MODULE MCOperator -----------------------------
(* An operator inspects a pool that dispatches one job and blocks another. *)
EXTENDS Inspection, TLC

CONSTANTS j1, j2, w1, w2, r1

Symmetry == Permutations(Workers)

\* A live pool that allows no retries: it dispatches the first job and blocks the
\* second, whose budget is within the run's and beyond that of a job
TransientAndBlocked ==
  j1 :> [job_type |-> "stub", mode |-> "transient_error", max_retries |-> 1,
         budget_cents |-> 5] @@
  j2 :> [job_type |-> "live", mode |-> "success", max_retries |-> 0,
         budget_cents |-> 20]

TightPolicy == [LivePolicy(50, 10) EXCEPT !.retry_budget = 0]

=============================================================================
