----------------------------- MODULE JobDomain -----------------------------
(***************************************************************************)
(* domain/jobs.py: the jobs and the fields of a JobSubmission that decide  *)
(* what happens to one.  They are written once, when the row is created.   *)
(* A job_type "live" stands for every type whose name starts with "live."; *)
(* mode is payload["mode"], which only the stub runner reads.              *)
(***************************************************************************)
EXTENDS Integers

CONSTANTS
  Jobs,      \* the jobs that may be submitted
  JobSpec    \* what is submitted for each of them

JobSpecs == [job_type : {"stub", "eval_lab_case", "gdev_webhook_eval", "live"},
             mode : {"success", "transient_error", "policy_error", "sleep"},
             max_retries : Nat,
             budget_cents : Int]

ASSUME JobSpecAssumption == JobSpec \in [Jobs -> JobSpecs]

MaxRetries(j) == JobSpec[j].max_retries

=============================================================================
