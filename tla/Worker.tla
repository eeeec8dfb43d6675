------------------------------- MODULE Worker -------------------------------
(***************************************************************************)
(* worker/loop.py: a pool of workers, each leasing one message at a time.  *)
(* process_one is cut at every await after which another process can have  *)
(* changed the database, the queue or the artifact directory:              *)
(*                                                                         *)
(*   idle -> leased -> running -> record -> ack -> idle     (success)      *)
(*                        |-> publish -> ack                (retry)        *)
(*                        |-> ack                           (other ends)   *)
(*              |-> noop_ack -> idle                        (terminal job) *)
(*              |-> blocked_ack -> blocked_commit -> idle   (over budget)  *)
(*                                                                         *)
(* An exception the loop does not handle and the death of the process both *)
(* end process_one where it stands: its open transaction is rolled back    *)
(* and its message stays pending.                                          *)
(***************************************************************************)
EXTENDS JobStore, JobQueue, BudgetPolicy

CONSTANTS
  Workers,           \* worker ids
  Policy,            \* the budget policy of the pool
  HeartbeatReliable  \* a running worker renews its lease in time

VARIABLES
  wpc,               \* where each worker is in process_one
  wentry,            \* the entry it holds, 0 when idle
  artifacts,         \* files under the artifact root
  cancelRequested    \* jobs whose cancellation event is set

workerVars == <<wpc, wentry, artifacts, cancelRequested>>

-----------------------------------------------------------------------------
ASSUME PolicyAssumption == Policy \in BudgetPolicies

ASSUME HeartbeatAssumption == HeartbeatReliable \in BOOLEAN

DispatchAllowed(j) ==
  validate_dispatch(Policy, JobSpec[j].job_type = "live", JobSpec[j].budget_cents)

WorkerPcs == {"idle", "leased", "noop_ack", "blocked_ack", "blocked_commit",
              "running", "record", "publish", "ack"}

\* The transaction of process_one is open and holds the job's row.
RowHolderPcs == {"noop_ack", "blocked_ack", "blocked_commit"}

\* The heartbeat task exists: from record_running to the end of process_one.
HeartbeatPcs == {"running", "record", "publish", "ack"}

\* A file attempt-<attempt>.json of a job; `by' is the execution whose bytes
\* it holds (worker id and creation time are part of the content).
Artifact == [job : Jobs, attempt : Nat, by : Nat]

WorkerInit ==
  /\ wpc = [w \in Workers |-> "idle"]
  /\ wentry = [w \in Workers |-> 0]
  /\ artifacts = {}
  /\ cancelRequested = {}

JobOf(w) == stream[wentry[w]].job
AttemptOf(w) == stream[wentry[w]].attempt

\* How a runner under run_with_timeout can end.
RunnerOutcomes(j) ==
  CASE JobSpec[j].job_type = "eval_lab_case" -> {"completed", "policy"}
    [] JobSpec[j].job_type = "gdev_webhook_eval" ->
         {"completed", "policy", "timed_out"}
    [] OTHER ->
         CASE JobSpec[j].mode = "success" -> {"completed"}
           [] JobSpec[j].mode = "transient_error" -> {"transient"}
           [] JobSpec[j].mode = "policy_error" -> {"policy"}
           [] JobSpec[j].mode = "sleep" ->
                {"completed", "timed_out"} \cup
                (IF j \in cancelRequested THEN {"cancelled"} ELSE {})

-----------------------------------------------------------------------------
GoTo(w, pc) == wpc' = [wpc EXCEPT ![w] = pc] /\ UNCHANGED wentry

Return(w) ==
  /\ wpc' = [wpc EXCEPT ![w] = "idle"]
  /\ wentry' = [wentry EXCEPT ![w] = 0]

\* write_bytes replaces whatever another execution of the attempt wrote.
write_stub_job_artifact(j, attempt, by) ==
  artifacts' = {f \in artifacts : ~(f.job = j /\ f.attempt = attempt)}
                 \cup {[job |-> j, attempt |-> attempt, by |-> by]}

-----------------------------------------------------------------------------
(* process_one and _process_message *)

\* Mutant: an idle worker also takes over entries that look stale.
Lease_claims_stale(w) ==
  /\ wpc[w] = "idle"
  /\ wpc' = [wpc EXCEPT ![w] = "leased"]
  /\ \/ /\ lease_jobs
        /\ wentry' = [wentry EXCEPT ![w] = delivered + 1]
     \/ \E i \in stale : /\ renew_pending_lease(i)
                         /\ wentry' = [wentry EXCEPT ![w] = i]
  /\ UNCHANGED <<storeVars, artifacts, cancelRequested>>

Lease(w) ==
  /\ wpc[w] = "idle"
  /\ lease_jobs
  /\ wpc' = [wpc EXCEPT ![w] = "leased"]
  /\ wentry' = [wentry EXCEPT ![w] = delivered + 1]
  /\ UNCHANGED <<storeVars, artifacts, cancelRequested>>

\* The job is missing or terminal: the message is acknowledged and dropped,
\* before the transaction that read the row ends.  (No row is held when the
\* job is missing, a case EntriesHaveRows of RuntimeGrid shows not to arise.)
LoadTerminal(w) ==
  /\ wpc[w] = "leased"
  /\ RowFree(JobOf(w))
  /\ status[JobOf(w)] \in TERMINAL_STATUSES \cup {"absent"}
  /\ locked' = locked \cup {JobOf(w)}
  /\ GoTo(w, "noop_ack")
  /\ UNCHANGED <<status, finalization, conflicts, events, queueVars,
                 artifacts, cancelRequested>>

AckTerminal(w) ==
  /\ wpc[w] = "noop_ack"
  /\ acknowledge(wentry[w])
  /\ locked' = locked \ {JobOf(w)}
  /\ Return(w)
  /\ UNCHANGED <<status, finalization, conflicts, events, artifacts,
                 cancelRequested>>

\* Budget check failed: record_budget_blocked is executed, not committed.
LoadBlocked(w) ==
  /\ wpc[w] = "leased"
  /\ RowFree(JobOf(w))
  /\ status[JobOf(w)] \notin TERMINAL_STATUSES \cup {"absent"}
  /\ ~DispatchAllowed(JobOf(w))
  /\ locked' = locked \cup {JobOf(w)}
  /\ GoTo(w, "blocked_ack")
  /\ UNCHANGED <<status, finalization, conflicts, events, queueVars,
                 artifacts, cancelRequested>>

\* The message is acknowledged while that transaction is still open.
AckBlocked(w) ==
  /\ wpc[w] = "blocked_ack"
  /\ acknowledge(wentry[w])
  /\ GoTo(w, "blocked_commit")
  /\ UNCHANGED <<storeVars, artifacts, cancelRequested>>

CommitBlocked(w) ==
  /\ wpc[w] = "blocked_commit"
  /\ finalize_job(JobOf(w), "failed", "budget_blocked", AttemptOf(w), wentry[w])
  /\ locked' = locked \ {JobOf(w)}
  /\ Return(w)
  /\ UNCHANGED <<queueVars, artifacts, cancelRequested>>

\* Mutant: the message is acknowledged when the execution starts.
record_running_acks(w) ==
  /\ wpc[w] = "leased"
  /\ RowFree(JobOf(w))
  /\ status[JobOf(w)] \notin TERMINAL_STATUSES \cup {"absent"}
  /\ DispatchAllowed(JobOf(w))
  /\ record_state_event(JobOf(w), "running", "running", AttemptOf(w), wentry[w])
  /\ acknowledge(wentry[w])
  /\ GoTo(w, "running")
  /\ UNCHANGED <<locked, artifacts, cancelRequested>>

record_running(w) ==
  /\ wpc[w] = "leased"
  /\ RowFree(JobOf(w))
  /\ status[JobOf(w)] \notin TERMINAL_STATUSES \cup {"absent"}
  /\ DispatchAllowed(JobOf(w))
  /\ record_state_event(JobOf(w), "running", "running", AttemptOf(w), wentry[w])
  /\ GoTo(w, "running")
  /\ UNCHANGED <<locked, queueVars, artifacts, cancelRequested>>

\* Mutant: the artifact is left for later.
RunnerReturns_unwritten(w) ==
  /\ wpc[w] = "running"
  /\ "completed" \in RunnerOutcomes(JobOf(w))
  /\ GoTo(w, "record")
  /\ UNCHANGED <<storeVars, queueVars, artifacts, cancelRequested>>

\* The runner returned: the artifact is written before anything is recorded.
RunnerReturns(w) ==
  /\ wpc[w] = "running"
  /\ "completed" \in RunnerOutcomes(JobOf(w))
  /\ write_stub_job_artifact(JobOf(w), AttemptOf(w), wentry[w])
  /\ GoTo(w, "record")
  /\ UNCHANGED <<storeVars, queueVars, cancelRequested>>

record_completed(w) ==
  /\ wpc[w] = "record"
  /\ RowFree(JobOf(w))
  /\ finalize_job(JobOf(w), "completed", "completed", AttemptOf(w), wentry[w])
  /\ GoTo(w, "ack")
  /\ UNCHANGED <<locked, queueVars, artifacts, cancelRequested>>

\* The handlers below end an execution with a finalization and go on to ack.
FinalizeAs(w, outcome, newStatus, type) ==
  /\ wpc[w] = "running"
  /\ outcome \in RunnerOutcomes(JobOf(w))
  /\ RowFree(JobOf(w))
  /\ finalize_job(JobOf(w), newStatus, type, AttemptOf(w), wentry[w])
  /\ GoTo(w, "ack")
  /\ UNCHANGED <<locked, queueVars, artifacts, cancelRequested>>

handle_policy_error(w) == FinalizeAs(w, "policy", "failed", "failed")

handle_timeout(w) == FinalizeAs(w, "timed_out", "timed_out", "timed_out")

handle_cancellation(w) == FinalizeAs(w, "cancelled", "cancelled", "cancelled")

\* Mutant: one retry too many.
record_retry_scheduled_late(w) ==
  /\ wpc[w] = "running"
  /\ "transient" \in RunnerOutcomes(JobOf(w))
  /\ RowFree(JobOf(w))
  /\ AttemptOf(w) <= MaxRetries(JobOf(w)) + 1
  /\ validate_retry(Policy, AttemptOf(w) + 1)
  /\ record_state_event(JobOf(w), "queued", "retry_scheduled",
                        AttemptOf(w), wentry[w])
  /\ GoTo(w, "publish")
  /\ UNCHANGED <<locked, queueVars, artifacts, cancelRequested>>

\* Mutant: the retry is recorded, and its message is never published.
record_retry_scheduled_unpublished(w) ==
  /\ wpc[w] = "running"
  /\ "transient" \in RunnerOutcomes(JobOf(w))
  /\ RowFree(JobOf(w))
  /\ AttemptOf(w) <= MaxRetries(JobOf(w))
  /\ validate_retry(Policy, AttemptOf(w) + 1)
  /\ record_state_event(JobOf(w), "queued", "retry_scheduled",
                        AttemptOf(w), wentry[w])
  /\ GoTo(w, "ack")
  /\ UNCHANGED <<locked, queueVars, artifacts, cancelRequested>>

\* _handle_transient_error, three ways: retry, over the retry budget, exhausted
record_retry_scheduled(w) ==
  /\ wpc[w] = "running"
  /\ "transient" \in RunnerOutcomes(JobOf(w))
  /\ RowFree(JobOf(w))
  /\ AttemptOf(w) <= MaxRetries(JobOf(w))
  /\ validate_retry(Policy, AttemptOf(w) + 1)
  /\ record_state_event(JobOf(w), "queued", "retry_scheduled",
                        AttemptOf(w), wentry[w])
  /\ GoTo(w, "publish")
  /\ UNCHANGED <<locked, queueVars, artifacts, cancelRequested>>

PublishRetry(w) ==
  /\ wpc[w] = "publish"
  /\ publish_job(JobOf(w), AttemptOf(w) + 1)
  /\ GoTo(w, "ack")
  /\ UNCHANGED <<storeVars, artifacts, cancelRequested>>

RetryOverBudget(w) ==
  /\ wpc[w] = "running"
  /\ AttemptOf(w) <= MaxRetries(JobOf(w))
  /\ ~validate_retry(Policy, AttemptOf(w) + 1)
  /\ FinalizeAs(w, "transient", "failed", "budget_blocked")

RetriesExhausted(w) ==
  /\ wpc[w] = "running"
  /\ AttemptOf(w) > MaxRetries(JobOf(w))
  /\ FinalizeAs(w, "transient", "failed", "failed")

AckProcessed(w) ==
  /\ wpc[w] = "ack"
  /\ acknowledge(wentry[w])
  /\ Return(w)
  /\ UNCHANGED <<storeVars, artifacts, cancelRequested>>

-----------------------------------------------------------------------------
(* The heartbeat task, and the ways a step can fail *)

RenewLease(w) ==
  /\ wpc[w] \in HeartbeatPcs
  /\ wentry[w] \in stale
  /\ renew_pending_lease(wentry[w])
  /\ UNCHANGED <<storeVars, workerVars>>

\* An entry comes to look abandoned.  Nothing renews it before record_running;
\* afterwards the heartbeat does, unless Redis errors (which it swallows), a
\* blocked event loop or its configuration keep it from doing so in time.
LeaseExpires(i) ==
  /\ lease_expires(i)
  /\ HeartbeatReliable =>
       ~\E w \in Workers : wentry[w] = i /\ wpc[w] \in HeartbeatPcs
  /\ UNCHANGED <<storeVars, workerVars>>

\* process_one raises or dies; an open transaction is rolled back.
Abort(w) ==
  /\ wpc[w] # "idle"
  /\ locked' = IF wpc[w] \in RowHolderPcs THEN locked \ {JobOf(w)} ELSE locked
  /\ Return(w)
  /\ UNCHANGED <<status, finalization, conflicts, events, queueVars,
                 artifacts, cancelRequested>>

WorkerStep(w) ==
  \/ Lease(w)
  \/ LoadTerminal(w) \/ AckTerminal(w)
  \/ LoadBlocked(w) \/ AckBlocked(w) \/ CommitBlocked(w)
  \/ record_running(w)
  \/ RunnerReturns(w) \/ record_completed(w)
  \/ handle_policy_error(w) \/ handle_timeout(w) \/ handle_cancellation(w)
  \/ record_retry_scheduled(w) \/ PublishRetry(w)
  \/ RetryOverBudget(w) \/ RetriesExhausted(w)
  \/ AckProcessed(w)

WorkerTypeOK ==
  /\ wpc \in [Workers -> WorkerPcs]
  /\ wentry \in [Workers -> Nat]
  /\ artifacts \subseteq Artifact
  /\ cancelRequested \subseteq Jobs
  /\ \A w \in Workers :
       IF wpc[w] = "idle" THEN wentry[w] = 0 ELSE wentry[w] \in 1 .. delivered

=============================================================================
