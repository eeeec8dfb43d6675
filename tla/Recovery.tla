------------------------------ MODULE Recovery ------------------------------
(***************************************************************************)
(* worker/recovery.py: passes that settle stale leases.  A pass lists the  *)
(* stale entries once and then, in id order, plans each one in a           *)
(* transaction and applies the plan to the queue:                          *)
(*                                                                         *)
(*   idle -> plan -> publish -> ack -> plan ... -> idle    (requeue)       *)
(*             |---> dlq -> ack                            (exhausted)     *)
(*             |---> ack                                   (terminal)      *)
(*                                                                         *)
(* Two operators may run passes at the same time, and by the time an entry *)
(* is planned its listing may be out of date.                              *)
(***************************************************************************)
EXTENDS JobStore, JobQueue

CONSTANTS
  Recoverers,      \* recovery_worker_ids
  RecoveryBatch    \* the count given to find_stale_leases

VARIABLES
  rpc,             \* where each pass is
  rtodo            \* the listed entries it has not settled yet

recoveryVars == <<rpc, rtodo>>

ASSUME RecoveryBatchAssumption == RecoveryBatch \in Nat \ {0}

-----------------------------------------------------------------------------
RecoveryPcs == {"idle", "plan", "publish", "dlq", "ack"}

RecoveryInit ==
  /\ rpc = [r \in Recoverers |-> "idle"]
  /\ rtodo = [r \in Recoverers |-> {}]

\* The entry of the list the loop is at.
AtLease(r, i) == i \in rtodo[r] /\ \A k \in rtodo[r] : i <= k

Proceed(r, pc) == rpc' = [rpc EXCEPT ![r] = pc] /\ UNCHANGED rtodo

ListStaleLeases(r) ==
  /\ rpc[r] = "idle"
  /\ stale # {}
  /\ rpc' = [rpc EXCEPT ![r] = "plan"]
  /\ rtodo' = [rtodo EXCEPT ![r] = find_stale_leases(RecoveryBatch)]
  /\ UNCHANGED <<storeVars, queueVars>>

-----------------------------------------------------------------------------
(* _plan_recovery_action: one transaction on the job of the listed entry *)

\* Mutant: entries of terminal jobs are skipped instead of acknowledged.
PlanAcknowledge_skips(r, i) ==
  /\ rpc[r] = "plan" /\ AtLease(r, i)
  /\ RowFree(stream[i].job)
  /\ status[stream[i].job] \in TERMINAL_STATUSES \cup {"absent"}
  /\ rtodo' = [rtodo EXCEPT ![r] = @ \ {i}]
  /\ rpc' = [rpc EXCEPT ![r] = IF rtodo[r] = {i} THEN "idle" ELSE "plan"]
  /\ UNCHANGED <<storeVars, queueVars>>

\* Mutant: a queued job is taken for one whose retry has been published.
PlanAcknowledge_queued(r, i) ==
  LET j == stream[i].job IN
  /\ rpc[r] = "plan" /\ AtLease(r, i)
  /\ RowFree(j)
  /\ status[j] \in TERMINAL_STATUSES \cup {"absent", "queued"}
  /\ Proceed(r, "ack")
  /\ UNCHANGED <<storeVars, queueVars>>

PlanAcknowledge(r, i) ==
  LET j == stream[i].job IN
  /\ rpc[r] = "plan" /\ AtLease(r, i)
  /\ RowFree(j)
  /\ status[j] \in TERMINAL_STATUSES \cup {"absent"}
  /\ Proceed(r, "ack")
  /\ UNCHANGED <<storeVars, queueVars>>

\* Mutant: the recovery is recorded, and the next attempt is not published.
PlanRequeue_unpublished(r, i) ==
  LET j == stream[i].job IN
  /\ rpc[r] = "plan" /\ AtLease(r, i)
  /\ RowFree(j)
  /\ status[j] \notin TERMINAL_STATUSES \cup {"absent"}
  /\ stream[i].attempt <= MaxRetries(j)
  /\ record_state_event(j, "queued", "stale_lease_recovered",
                        stream[i].attempt, i)
  /\ Proceed(r, "ack")
  /\ UNCHANGED <<locked, queueVars>>

PlanRequeue(r, i) ==
  LET j == stream[i].job IN
  /\ rpc[r] = "plan" /\ AtLease(r, i)
  /\ RowFree(j)
  /\ status[j] \notin TERMINAL_STATUSES \cup {"absent"}
  /\ stream[i].attempt <= MaxRetries(j)
  /\ record_state_event(j, "queued", "stale_lease_recovered",
                        stream[i].attempt, i)
  /\ Proceed(r, "publish")
  /\ UNCHANGED <<locked, queueVars>>

\* Mutant: the dead letter is written without failing the job first.
PlanDeadLetter_unrecorded(r, i) ==
  LET j == stream[i].job IN
  /\ rpc[r] = "plan" /\ AtLease(r, i)
  /\ RowFree(j)
  /\ status[j] \notin TERMINAL_STATUSES \cup {"absent"}
  /\ stream[i].attempt > MaxRetries(j)
  /\ Proceed(r, "dlq")
  /\ UNCHANGED <<storeVars, queueVars>>

PlanDeadLetter(r, i) ==
  LET j == stream[i].job IN
  /\ rpc[r] = "plan" /\ AtLease(r, i)
  /\ RowFree(j)
  /\ status[j] \notin TERMINAL_STATUSES \cup {"absent"}
  /\ stream[i].attempt > MaxRetries(j)
  /\ finalize_job(j, "failed", "failed", stream[i].attempt, i)
  /\ Proceed(r, "dlq")
  /\ UNCHANGED <<locked, queueVars>>

(* The commands that apply the plan *)

PublishRequeued(r, i) ==
  /\ rpc[r] = "publish" /\ AtLease(r, i)
  /\ publish_job(stream[i].job, stream[i].attempt + 1)
  /\ Proceed(r, "ack")
  /\ UNCHANGED storeVars

MoveToDeadLetter(r, i) ==
  /\ rpc[r] = "dlq" /\ AtLease(r, i)
  /\ append_dead_letter(i)
  /\ Proceed(r, "ack")
  /\ UNCHANGED storeVars

acknowledge_lease(r, i) ==
  /\ rpc[r] = "ack" /\ AtLease(r, i)
  /\ acknowledge(i)
  /\ rtodo' = [rtodo EXCEPT ![r] = @ \ {i}]
  /\ rpc' = [rpc EXCEPT ![r] = IF rtodo[r] = {i} THEN "idle" ELSE "plan"]
  /\ UNCHANGED storeVars

\* The pass raises or dies between two of its steps.
AbortPass(r) ==
  /\ rpc[r] # "idle"
  /\ rpc' = [rpc EXCEPT ![r] = "idle"]
  /\ rtodo' = [rtodo EXCEPT ![r] = {}]
  /\ UNCHANGED <<storeVars, queueVars>>

RecoveryStep(r) ==
  \/ ListStaleLeases(r)
  \/ \E i \in rtodo[r] :
       \/ PlanAcknowledge(r, i) \/ PlanRequeue(r, i) \/ PlanDeadLetter(r, i)
       \/ PublishRequeued(r, i) \/ MoveToDeadLetter(r, i)
       \/ acknowledge_lease(r, i)

RecoveryTypeOK ==
  /\ rpc \in [Recoverers -> RecoveryPcs]
  /\ rtodo \in [Recoverers -> SUBSET (1 .. delivered)]

=============================================================================
