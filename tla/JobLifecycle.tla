---------------------------- MODULE JobLifecycle ----------------------------
(***************************************************************************)
(* What the runtime promises a client, with no worker, queue or database   *)
(* in sight: once the runtime owes a job an outcome it goes on owing it    *)
(* until one outcome is decided, and the decision is never revised.        *)
(***************************************************************************)
CONSTANTS
  Jobs,
  Outcomes,   \* the terminal statuses
  Guarded     \* jobs the promise holds for

VARIABLES
  outcome,    \* the decided outcome of each job, or "none"
  owed        \* jobs some message still asks a worker to look at

lifecycleVars == <<outcome, owed>>

LInit ==
  /\ outcome = [j \in Jobs |-> "none"]
  /\ owed = {}

\* A job is handed to the runtime, or a late duplicate of it shows up.
Accept(j) ==
  /\ owed' = owed \cup {j}
  /\ UNCHANGED outcome

Decide(j, o) ==
  /\ outcome[j] = "none"
  /\ outcome' = [outcome EXCEPT ![j] = o]
  /\ UNCHANGED owed

\* The last message of a job goes: only once the job is decided.
Release(j) ==
  /\ outcome[j] # "none" \/ j \notin Guarded
  /\ owed' = owed \ {j}
  /\ UNCHANGED outcome

LNext ==
  \E j \in Jobs :
    \/ Accept(j)
    \/ \E o \in Outcomes : Decide(j, o)
    \/ Release(j)

LSpec == LInit /\ [][LNext]_lifecycleVars

=============================================================================
