---------------------------- MODULE MCSubmission ----------------------------
(* Three callers share a key, two of them with one payload. *)
EXTENDS Submitters, TLC

CONSTANTS j1, w1, r1, a, b, c

OneKey == [x \in Callers |-> j1]

Payloads == a :> "p" @@ b :> "p" @@ c :> "q"

Success1 == j1 :> [job_type |-> "stub", mode |-> "success", max_retries |-> 1,
                   budget_cents |-> NoBudget]

=============================================================================
