------------------------------- MODULE MCGrid -------------------------------
(* Small instances of the runtime: one job, or two that share the pool. *)
EXTENDS RuntimeGrid, TLC

CONSTANTS j1, j2, w1, w2, r1, r2

Symmetry == Permutations(Workers) \cup Permutations(Recoverers)

Job(type, mode, retries) ==
  [job_type |-> type, mode |-> mode, max_retries |-> retries,
   budget_cents |-> NoBudget]

\* One job, submitted in different ways
Transient1 == j1 :> Job("stub", "transient_error", 1)
Success0   == j1 :> Job("stub", "success", 0)
Success1   == j1 :> Job("stub", "success", 1)
Blocked0   == j1 :> Job("live", "success", 0)

\* A job that workers and recovery retry, and one that is interrupted or
\* dead-lettered
TransientAndSleep == Transient1 @@ j2 :> Job("stub", "sleep", 0)

=============================================================================
