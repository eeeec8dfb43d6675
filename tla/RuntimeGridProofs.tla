-------------------------- MODULE RuntimeGridProofs --------------------------
(***************************************************************************)
(* Machine-checked proofs about RuntimeGrid, for every set of jobs,        *)
(* workers and recoverers, every submission, policy and bound on aborts.   *)
(***************************************************************************)
EXTENDS RuntimeGrid, TLAPS

-----------------------------------------------------------------------------
(* What the statements and commands preserve *)

\* An appended event keeps job_events well typed.
LEMMA AppendEventType ==
  ASSUME events \in [Jobs -> Seq(Event)], NEW j \in Jobs,
         NEW type \in EventTypes, NEW attempt \in Nat, NEW by \in Nat,
         AppendEvent(j, type, attempt, by)
  PROVE  events' \in [Jobs -> Seq(Event)]
<1> DEFINE e == [type |-> type, attempt |-> attempt, by |-> by]
<1>1. e \in Event
  BY DEF Event
<1>2. Append(events[j], e) \in Seq(Event)
  BY <1>1
<1>3. events' = [events EXCEPT ![j] = Append(events[j], e)]
  BY DEF AppendEvent
<1> HIDE DEF e
<1> QED
  BY <1>2, <1>3

\* Each of the three transactions keeps the tables well typed.
LEMMA CreateType ==
  ASSUME StoreTypeOK, NEW j \in Jobs, create_job(j), locked' \subseteq Jobs
  PROVE  StoreTypeOK'
<1>1. events' \in [Jobs -> Seq(Event)]
  BY AppendEventType DEF StoreTypeOK, create_job, EventTypes
<1> QED
  BY <1>1 DEF StoreTypeOK, create_job, Statuses

\* _record_state_event keeps the tables well typed.
LEMMA RecordStateType ==
  ASSUME StoreTypeOK, NEW j \in Jobs, NEW newStatus \in Statuses,
         NEW type \in EventTypes, NEW attempt \in Nat, NEW by \in Nat,
         record_state_event(j, newStatus, type, attempt, by),
         locked' \subseteq Jobs
  PROVE  StoreTypeOK'
<1>1. events' \in [Jobs -> Seq(Event)]
  BY AppendEventType DEF StoreTypeOK, record_state_event
<1> QED
  BY <1>1 DEF StoreTypeOK, record_state_event

\* finalize_job keeps the tables well typed, conflict or not.
LEMMA FinalizeType ==
  ASSUME StoreTypeOK, NEW j \in Jobs, NEW newStatus \in TERMINAL_STATUSES,
         NEW type \in TerminalEventTypes, NEW attempt \in Nat, NEW by \in Nat,
         finalize_job(j, newStatus, type, attempt, by),
         locked' \subseteq Jobs
  PROVE  StoreTypeOK'
<1>1. CASE Finalized(j)
  <2>1. /\ conflicts' = [conflicts EXCEPT ![j] = @ + 1]
        /\ UNCHANGED <<status, finalization, events>>
    BY <1>1 DEF finalize_job
  <2>2. conflicts' \in [Jobs -> Nat]
    BY <2>1 DEF StoreTypeOK
  <2> QED
    BY <2>1, <2>2 DEF StoreTypeOK
<1>2. CASE ~Finalized(j)
  <2>1. events' \in [Jobs -> Seq(Event)]
    BY <1>2, AppendEventType DEF StoreTypeOK, finalize_job, EventTypes
  <2>2. [status |-> newStatus, event_type |-> type] \in Finalization
    BY DEF Finalization
  <2> QED
    BY <1>2, <2>1, <2>2 DEF StoreTypeOK, finalize_job, Statuses
<1> QED
  BY <1>1, <1>2

\* XADD keeps the stream well typed.
LEMMA PublishType ==
  ASSUME QueueTypeOK, NEW j \in Jobs, NEW attempt \in Nat, publish_job(j, attempt)
  PROVE  QueueTypeOK'
<1> DEFINE m == [job |-> j, attempt |-> attempt]
<1>1. m \in QueueJobMessage
  BY DEF QueueJobMessage
<1>2. stream' = Append(stream, m)
  BY DEF publish_job
<1> HIDE DEF m
<1>3. stream' \in Seq(QueueJobMessage) /\ Len(stream') = Len(stream) + 1
  BY <1>1, <1>2 DEF QueueTypeOK
<1> QED
  BY <1>3 DEF QueueTypeOK, publish_job

\* XREADGROUP keeps cursor and pending list in step.
LEMMA LeaseType ==
  ASSUME QueueTypeOK, lease_jobs
  PROVE  QueueTypeOK' /\ delivered' = delivered + 1
  BY DEF QueueTypeOK, lease_jobs

\* XACK keeps the stale entries within the pending ones.
LEMMA AcknowledgeType ==
  ASSUME QueueTypeOK, NEW i, acknowledge(i)
  PROVE  QueueTypeOK' /\ delivered' = delivered
  BY DEF QueueTypeOK, acknowledge

\* A dead letter carries the job and the attempt of a message.
LEMMA DeadLetterType ==
  ASSUME QueueTypeOK, NEW i \in Entries, append_dead_letter(i)
  PROVE  QueueTypeOK'
<1> DEFINE m == [job |-> stream[i].job, attempt |-> stream[i].attempt]
<1>1. m \in QueueJobMessage
  <2>1. stream[i] \in QueueJobMessage
    BY DEF QueueTypeOK, Entries
  <2> QED
    BY <2>1 DEF QueueJobMessage
<1>2. dlq' = Append(dlq, m)
  BY DEF append_dead_letter
<1> HIDE DEF m
<1>3. dlq' \in Seq(QueueJobMessage)
  BY <1>1, <1>2 DEF QueueTypeOK
<1> QED
  BY <1>3 DEF QueueTypeOK, append_dead_letter

\* A busy worker and a recovery pass hold entries of the stream.
LEMMA EntryFields ==
  ASSUME QueueTypeOK, NEW i \in 1 .. delivered
  PROVE  /\ i \in Entries
         /\ stream[i].job \in Jobs
         /\ stream[i].attempt \in Nat
<1>1. i \in Entries /\ stream[i] \in QueueJobMessage
  BY DEF QueueTypeOK, Entries
<1> QED
  BY <1>1 DEF QueueJobMessage

\* The entry a busy worker holds names a job and an attempt.
LEMMA HeldEntry ==
  ASSUME TypeOK, NEW w \in Workers, wpc[w] # "idle"
  PROVE  /\ wentry[w] \in 1 .. delivered
         /\ wentry[w] \in Entries
         /\ JobOf(w) \in Jobs
         /\ AttemptOf(w) \in Nat
<1>1. wentry[w] \in 1 .. delivered
  BY DEF TypeOK, WorkerTypeOK
<1> QED
  BY <1>1, EntryFields DEF TypeOK, JobOf, AttemptOf

\* Nothing is lost of a component's type when another component moves.
LEMMA StoreStutterType ==
  ASSUME StoreTypeOK, UNCHANGED <<status, finalization, conflicts, events>>,
         locked' \subseteq Jobs
  PROVE  StoreTypeOK'
  BY DEF StoreTypeOK

\* The queue's type does not depend on anything else.
LEMMA QueueStutterType ==
  ASSUME QueueTypeOK, UNCHANGED queueVars
  PROVE  QueueTypeOK'
  BY DEF QueueTypeOK, queueVars

\* Workers keep their type while the cursor of the group moves on.
LEMMA WorkerStutterType ==
  ASSUME WorkerTypeOK, QueueTypeOK, QueueTypeOK', delivered' >= delivered,
         UNCHANGED <<wpc, wentry, artifacts>>, cancelRequested' \subseteq Jobs
  PROVE  WorkerTypeOK'
  BY DEF WorkerTypeOK, QueueTypeOK

\* Recovery passes keep their type while the cursor of the group moves on.
LEMMA RecoveryStutterType ==
  ASSUME RecoveryTypeOK, QueueTypeOK, QueueTypeOK', delivered' >= delivered,
         UNCHANGED recoveryVars
  PROVE  RecoveryTypeOK'
<1>1. 1 .. delivered \subseteq 1 .. delivered'
  BY DEF QueueTypeOK
<1> QED
  BY <1>1 DEF RecoveryTypeOK, recoveryVars

\* A worker that goes on within process_one keeps its entry.
LEMMA GoToType ==
  ASSUME WorkerTypeOK, QueueTypeOK, QueueTypeOK', delivered' >= delivered,
         NEW w \in Workers, wpc[w] # "idle", NEW pc \in WorkerPcs \ {"idle"},
         GoTo(w, pc), artifacts' \subseteq Artifact, UNCHANGED cancelRequested
  PROVE  WorkerTypeOK'
  BY DEF WorkerTypeOK, QueueTypeOK, GoTo

\* A worker that leaves process_one drops its entry.
LEMMA ReturnType ==
  ASSUME WorkerTypeOK, QueueTypeOK, QueueTypeOK', delivered' >= delivered,
         NEW w \in Workers, Return(w), UNCHANGED <<artifacts, cancelRequested>>
  PROVE  WorkerTypeOK'
  BY DEF WorkerTypeOK, QueueTypeOK, Return, WorkerPcs

-----------------------------------------------------------------------------
(* Type correctness *)

\* Empty tables, an empty stream and idle processes are well typed.
LEMMA InitTypeOK == Init => TypeOK
  BY MaxAbortsAssumption
  DEF Init, TypeOK, StoreInit, QueueInit, WorkerInit, RecoveryInit,
      StoreTypeOK, QueueTypeOK, WorkerTypeOK, RecoveryTypeOK, Statuses,
      Finalization, NotFinalized, WorkerPcs, RecoveryPcs

\* submit_batch and both cancellations preserve the types.
LEMMA ClientTypeOK ==
  ASSUME TypeOK, NEW j \in Jobs, ClientStep(j)
  PROVE  TypeOK'
<1> DEFINE Clients ==
      /\ submission \in [Jobs -> {"new", "created", "published", "abandoned"}]
      /\ cancellation \in [Jobs -> {"none", "read", "done"}]
      /\ aborts \in 0 .. MaxAborts
<1>a. /\ StoreTypeOK /\ QueueTypeOK /\ WorkerTypeOK /\ RecoveryTypeOK
      /\ Clients /\ locked \subseteq Jobs /\ cancelRequested \subseteq Jobs
      /\ delivered \in Nat
  BY DEF TypeOK, StoreTypeOK, WorkerTypeOK, QueueTypeOK
<1>b. Clients'
  BY <1>a, MaxAbortsAssumption
  DEF ClientStep, SubmitJob, PublishSubmitted, AbandonSubmission,
      ReadQueuedJob, cancel_queued_job, request_cancel, clientVars
<1>c. StoreTypeOK'
  <2>1. CASE SubmitJob(j)
    BY <1>a, <2>1, CreateType DEF SubmitJob
  <2>2. CASE cancel_queued_job(j)
    <3>1. /\ "cancelled" \in TERMINAL_STATUSES
          /\ "cancelled" \in TerminalEventTypes
          /\ 0 \in Nat
      BY DEF TERMINAL_STATUSES, TerminalEventTypes
    <3> QED
      BY <1>a, <2>2, <3>1, FinalizeType DEF cancel_queued_job
  <2>3. CASE \/ PublishSubmitted(j) \/ AbandonSubmission(j)
             \/ ReadQueuedJob(j) \/ request_cancel(j)
    BY <1>a, <2>3, StoreStutterType
    DEF PublishSubmitted, AbandonSubmission, ReadQueuedJob, request_cancel,
        storeVars
  <2> QED
    BY <2>1, <2>2, <2>3 DEF ClientStep
<1>d. QueueTypeOK' /\ delivered' = delivered
  <2>1. CASE PublishSubmitted(j)
    BY <1>a, <2>1, PublishType DEF PublishSubmitted, publish_job
  <2>2. CASE ~PublishSubmitted(j)
    <3>1. UNCHANGED queueVars
      BY <2>2
      DEF ClientStep, SubmitJob, AbandonSubmission, ReadQueuedJob,
          cancel_queued_job, request_cancel
    <3> QED
      BY <1>a, <3>1, QueueStutterType DEF queueVars
  <2> QED
    BY <2>1, <2>2
<1>e. WorkerTypeOK'
  <2>1. UNCHANGED <<wpc, wentry, artifacts>> /\ cancelRequested' \subseteq Jobs
    BY <1>a, CancellableAssumption
    DEF ClientStep, SubmitJob, PublishSubmitted, AbandonSubmission,
        ReadQueuedJob, cancel_queued_job, request_cancel, workerVars
  <2> QED
    BY <1>a, <1>d, <2>1, WorkerStutterType
<1>f. RecoveryTypeOK'
  <2>1. UNCHANGED recoveryVars
    BY DEF ClientStep, SubmitJob, PublishSubmitted, AbandonSubmission,
           ReadQueuedJob, cancel_queued_job, request_cancel
  <2> QED
    BY <1>a, <1>d, <2>1, RecoveryStutterType
<1> QED
  BY <1>b, <1>c, <1>d, <1>e, <1>f DEF TypeOK

\* Every step of process_one preserves the types.
LEMMA WorkerStepTypeOK ==
  ASSUME TypeOK, NEW w \in Workers, WorkerStep(w)
  PROVE  /\ StoreTypeOK' /\ QueueTypeOK' /\ WorkerTypeOK'
         /\ delivered' >= delivered
<1>a. /\ StoreTypeOK /\ QueueTypeOK /\ WorkerTypeOK
      /\ locked \subseteq Jobs /\ artifacts \subseteq Artifact
      /\ delivered \in Nat
  BY DEF TypeOK, StoreTypeOK, QueueTypeOK, WorkerTypeOK
<1>b. /\ TERMINAL_STATUSES = {"completed", "failed", "timed_out", "cancelled"}
      /\ TERMINAL_STATUSES \subseteq TerminalEventTypes
      /\ "budget_blocked" \in TerminalEventTypes
      /\ {"queued", "running"} \subseteq Statuses
      /\ {"running", "retry_scheduled"} \subseteq EventTypes
  BY DEF TERMINAL_STATUSES, TerminalEventTypes, Statuses, EventTypes,
         RetryEventTypes
<1>c. wpc[w] # "idle" => /\ JobOf(w) \in Jobs /\ AttemptOf(w) \in Nat
                         /\ wentry[w] \in Nat
  BY HeldEntry
<1>1. CASE Lease(w)
  <2>1. StoreTypeOK'
    BY <1>a, <1>1, StoreStutterType DEF Lease, storeVars
  <2>2. QueueTypeOK' /\ delivered' = delivered + 1
    BY <1>a, <1>1, LeaseType DEF Lease
  <2>3. WorkerTypeOK'
    BY <1>a, <1>1, <2>2 DEF WorkerTypeOK, Lease, WorkerPcs
  <2> QED
    BY <1>a, <2>1, <2>2, <2>3
<1>2. CASE LoadTerminal(w)
  <2>1. StoreTypeOK'
    BY <1>a, <1>c, <1>2, StoreStutterType DEF LoadTerminal, storeVars
  <2>2. QueueTypeOK' /\ delivered' = delivered
    BY <1>a, <1>2, QueueStutterType DEF LoadTerminal, queueVars
  <2>3. WorkerTypeOK'
    BY <1>a, <1>2, <2>2, GoToType DEF LoadTerminal, WorkerPcs
  <2> QED
    BY <1>a, <2>1, <2>2, <2>3
<1>3. CASE AckTerminal(w)
  <2>1. StoreTypeOK'
    BY <1>a, <1>3, StoreStutterType DEF AckTerminal, storeVars
  <2>2. QueueTypeOK' /\ delivered' = delivered
    BY <1>a, <1>3, AcknowledgeType DEF AckTerminal
  <2>3. WorkerTypeOK'
    BY <1>a, <1>3, <2>2, ReturnType DEF AckTerminal
  <2> QED
    BY <1>a, <2>1, <2>2, <2>3
<1>4. CASE LoadBlocked(w)
  <2>1. StoreTypeOK'
    BY <1>a, <1>c, <1>4, StoreStutterType DEF LoadBlocked, storeVars
  <2>2. QueueTypeOK' /\ delivered' = delivered
    BY <1>a, <1>4, QueueStutterType DEF LoadBlocked, queueVars
  <2>3. WorkerTypeOK'
    BY <1>a, <1>4, <2>2, GoToType DEF LoadBlocked, WorkerPcs
  <2> QED
    BY <1>a, <2>1, <2>2, <2>3
<1>5. CASE AckBlocked(w)
  <2>1. StoreTypeOK'
    BY <1>a, <1>5, StoreStutterType DEF AckBlocked, storeVars
  <2>2. QueueTypeOK' /\ delivered' = delivered
    BY <1>a, <1>5, AcknowledgeType DEF AckBlocked
  <2>3. WorkerTypeOK'
    BY <1>a, <1>5, <2>2, GoToType DEF AckBlocked, WorkerPcs
  <2> QED
    BY <1>a, <2>1, <2>2, <2>3
<1>6. CASE CommitBlocked(w)
  <2>1. StoreTypeOK'
    BY <1>a, <1>b, <1>c, <1>6, FinalizeType DEF CommitBlocked
  <2>2. QueueTypeOK' /\ delivered' = delivered
    BY <1>a, <1>6, QueueStutterType DEF CommitBlocked, queueVars
  <2>3. WorkerTypeOK'
    BY <1>a, <1>6, <2>2, ReturnType DEF CommitBlocked
  <2> QED
    BY <1>a, <2>1, <2>2, <2>3
<1>7. CASE record_running(w)
  <2>1. StoreTypeOK'
    BY <1>a, <1>b, <1>c, <1>7, RecordStateType DEF record_running
  <2>2. QueueTypeOK' /\ delivered' = delivered
    BY <1>a, <1>7, QueueStutterType DEF record_running, queueVars
  <2>3. WorkerTypeOK'
    BY <1>a, <1>7, <2>2, GoToType DEF record_running, WorkerPcs
  <2> QED
    BY <1>a, <2>1, <2>2, <2>3
<1>8. CASE RunnerReturns(w)
  <2>1. StoreTypeOK'
    BY <1>a, <1>8, StoreStutterType DEF RunnerReturns, storeVars
  <2>2. QueueTypeOK' /\ delivered' = delivered
    BY <1>a, <1>8, QueueStutterType DEF RunnerReturns, queueVars
  <2>3. artifacts' \subseteq Artifact
    BY <1>a, <1>c, <1>8 DEF RunnerReturns, write_stub_job_artifact, Artifact
  <2>4. WorkerTypeOK'
    BY <1>a, <1>8, <2>2, <2>3, GoToType DEF RunnerReturns, WorkerPcs
  <2> QED
    BY <1>a, <2>1, <2>2, <2>4
<1>9. CASE record_completed(w)
  <2>1. StoreTypeOK'
    BY <1>a, <1>b, <1>c, <1>9, FinalizeType DEF record_completed
  <2>2. QueueTypeOK' /\ delivered' = delivered
    BY <1>a, <1>9, QueueStutterType DEF record_completed, queueVars
  <2>3. WorkerTypeOK'
    BY <1>a, <1>9, <2>2, GoToType DEF record_completed, WorkerPcs
  <2> QED
    BY <1>a, <2>1, <2>2, <2>3
<1>10. CASE record_retry_scheduled(w)
  <2>1. StoreTypeOK'
    BY <1>a, <1>b, <1>c, <1>10, RecordStateType DEF record_retry_scheduled
  <2>2. QueueTypeOK' /\ delivered' = delivered
    BY <1>a, <1>10, QueueStutterType DEF record_retry_scheduled, queueVars
  <2>3. WorkerTypeOK'
    BY <1>a, <1>10, <2>2, GoToType DEF record_retry_scheduled, WorkerPcs
  <2> QED
    BY <1>a, <2>1, <2>2, <2>3
<1>11. CASE PublishRetry(w)
  <2>1. StoreTypeOK'
    BY <1>a, <1>11, StoreStutterType DEF PublishRetry, storeVars
  <2>2. QueueTypeOK' /\ delivered' = delivered
    BY <1>a, <1>c, <1>11, PublishType DEF PublishRetry, publish_job
  <2>3. WorkerTypeOK'
    BY <1>a, <1>11, <2>2, GoToType DEF PublishRetry, WorkerPcs
  <2> QED
    BY <1>a, <2>1, <2>2, <2>3
<1>12. CASE AckProcessed(w)
  <2>1. StoreTypeOK'
    BY <1>a, <1>12, StoreStutterType DEF AckProcessed, storeVars
  <2>2. QueueTypeOK' /\ delivered' = delivered
    BY <1>a, <1>12, AcknowledgeType DEF AckProcessed
  <2>3. WorkerTypeOK'
    BY <1>a, <1>12, <2>2, ReturnType DEF AckProcessed
  <2> QED
    BY <1>a, <2>1, <2>2, <2>3
<1>13. ASSUME NEW outcome, NEW st \in TERMINAL_STATUSES,
             NEW type \in TerminalEventTypes, FinalizeAs(w, outcome, st, type)
      PROVE  StoreTypeOK' /\ QueueTypeOK' /\ WorkerTypeOK' /\ delivered' >= delivered
  <2>1. StoreTypeOK'
    BY <1>a, <1>b, <1>c, <1>13, FinalizeType DEF FinalizeAs
  <2>2. QueueTypeOK' /\ delivered' = delivered
    BY <1>a, <1>13, QueueStutterType DEF FinalizeAs, queueVars
  <2>3. WorkerTypeOK'
    BY <1>a, <1>13, <2>2, GoToType DEF FinalizeAs, WorkerPcs
  <2> QED
    BY <1>a, <2>1, <2>2, <2>3
<1> QED
  BY <1>b, <1>1, <1>2, <1>3, <1>4, <1>5, <1>6, <1>7, <1>8, <1>9, <1>10, <1>11, <1>12, <1>13
  DEF WorkerStep, handle_policy_error, handle_timeout, handle_cancellation,
      RetryOverBudget, RetriesExhausted

\* Every step of recover_stale_leases preserves the types.
LEMMA RecoveryStepTypeOK ==
  ASSUME TypeOK, NEW r \in Recoverers, RecoveryStep(r)
  PROVE  /\ StoreTypeOK' /\ QueueTypeOK' /\ RecoveryTypeOK'
         /\ delivered' = delivered
<1>a. /\ StoreTypeOK /\ QueueTypeOK /\ RecoveryTypeOK
      /\ locked \subseteq Jobs
      /\ stale \subseteq 1 .. delivered
  BY DEF TypeOK, StoreTypeOK, QueueTypeOK
<1>b. /\ "failed" \in TERMINAL_STATUSES /\ "failed" \in TerminalEventTypes
      /\ "queued" \in Statuses /\ "stale_lease_recovered" \in EventTypes
  BY DEF TERMINAL_STATUSES, TerminalEventTypes, Statuses, EventTypes,
         RetryEventTypes
<1>c. ASSUME NEW pc \in RecoveryPcs, Proceed(r, pc), delivered' = delivered
      PROVE  RecoveryTypeOK'
  BY <1>a, <1>c DEF RecoveryTypeOK, Proceed
<1>d. {"plan", "publish", "dlq", "ack", "idle"} = RecoveryPcs
  BY DEF RecoveryPcs
<1>1. CASE ListStaleLeases(r)
  <2>1. StoreTypeOK'
    BY <1>a, <1>1, StoreStutterType DEF ListStaleLeases, storeVars
  <2>2. QueueTypeOK' /\ delivered' = delivered
    BY <1>a, <1>1, QueueStutterType DEF ListStaleLeases, queueVars
  <2>3. find_stale_leases(RecoveryBatch) \subseteq 1 .. delivered
    BY <1>a DEF find_stale_leases
  <2>4. RecoveryTypeOK'
    BY <1>a, <1>d, <1>1, <2>2, <2>3 DEF ListStaleLeases, RecoveryTypeOK
  <2> QED
    BY <2>1, <2>2, <2>4
<1>2. ASSUME NEW i \in rtodo[r],
             \/ PlanAcknowledge(r, i) \/ PlanRequeue(r, i) \/ PlanDeadLetter(r, i)
             \/ PublishRequeued(r, i) \/ MoveToDeadLetter(r, i)
             \/ acknowledge_lease(r, i)
      PROVE  StoreTypeOK' /\ QueueTypeOK' /\ RecoveryTypeOK' /\ delivered' = delivered
  <2>a. /\ i \in 1 .. delivered /\ i \in Nat
        /\ i \in Entries /\ stream[i].job \in Jobs /\ stream[i].attempt \in Nat
    <3>1. i \in 1 .. delivered
      BY <1>a DEF RecoveryTypeOK
    <3> QED
      BY <1>a, <3>1, EntryFields
  <2>1. CASE PlanAcknowledge(r, i)
    <3>1. StoreTypeOK'
      BY <1>a, <2>1, StoreStutterType DEF PlanAcknowledge, storeVars
    <3>2. QueueTypeOK' /\ delivered' = delivered
      BY <1>a, <2>1, QueueStutterType DEF PlanAcknowledge, queueVars
    <3> QED
      BY <1>c, <1>d, <2>1, <3>1, <3>2 DEF PlanAcknowledge
  <2>2. CASE PlanRequeue(r, i)
    <3>1. StoreTypeOK'
      BY <1>a, <1>b, <2>a, <2>2, RecordStateType DEF PlanRequeue
    <3>2. QueueTypeOK' /\ delivered' = delivered
      BY <1>a, <2>2, QueueStutterType DEF PlanRequeue, queueVars
    <3> QED
      BY <1>c, <1>d, <2>2, <3>1, <3>2 DEF PlanRequeue
  <2>3. CASE PlanDeadLetter(r, i)
    <3>1. StoreTypeOK'
      BY <1>a, <1>b, <2>a, <2>3, FinalizeType DEF PlanDeadLetter
    <3>2. QueueTypeOK' /\ delivered' = delivered
      BY <1>a, <2>3, QueueStutterType DEF PlanDeadLetter, queueVars
    <3> QED
      BY <1>c, <1>d, <2>3, <3>1, <3>2 DEF PlanDeadLetter
  <2>4. CASE PublishRequeued(r, i)
    <3>1. StoreTypeOK'
      BY <1>a, <2>4, StoreStutterType DEF PublishRequeued, storeVars
    <3>2. QueueTypeOK' /\ delivered' = delivered
      BY <1>a, <2>a, <2>4, PublishType DEF PublishRequeued, publish_job
    <3> QED
      BY <1>c, <1>d, <2>4, <3>1, <3>2 DEF PublishRequeued
  <2>5. CASE MoveToDeadLetter(r, i)
    <3>1. StoreTypeOK'
      BY <1>a, <2>5, StoreStutterType DEF MoveToDeadLetter, storeVars
    <3>2. QueueTypeOK' /\ delivered' = delivered
      BY <1>a, <2>a, <2>5, DeadLetterType DEF MoveToDeadLetter, append_dead_letter
    <3> QED
      BY <1>c, <1>d, <2>5, <3>1, <3>2 DEF MoveToDeadLetter
  <2>6. CASE acknowledge_lease(r, i)
    <3>1. StoreTypeOK'
      BY <1>a, <2>6, StoreStutterType DEF acknowledge_lease, storeVars
    <3>2. QueueTypeOK' /\ delivered' = delivered
      BY <1>a, <2>6, AcknowledgeType DEF acknowledge_lease
    <3>3. RecoveryTypeOK'
      BY <1>a, <1>d, <2>6, <3>2 DEF acknowledge_lease, RecoveryTypeOK
    <3> QED
      BY <3>1, <3>2, <3>3
  <2> QED
    BY <1>2, <2>1, <2>2, <2>3, <2>4, <2>5, <2>6
<1> QED
  BY <1>1, <1>2 DEF RecoveryStep

\* TypeOK is inductive on its own.
LEMMA NextTypeOK == TypeOK /\ [Next]_vars => TypeOK'
<1> SUFFICES ASSUME TypeOK, [Next]_vars PROVE TypeOK'
  OBVIOUS
<1> DEFINE Clients ==
      /\ submission \in [Jobs -> {"new", "created", "published", "abandoned"}]
      /\ cancellation \in [Jobs -> {"none", "read", "done"}]
      /\ aborts \in 0 .. MaxAborts
<1>a. /\ StoreTypeOK /\ QueueTypeOK /\ WorkerTypeOK /\ RecoveryTypeOK /\ Clients
      /\ locked \subseteq Jobs /\ cancelRequested \subseteq Jobs /\ delivered \in Nat
  BY DEF TypeOK, StoreTypeOK, QueueTypeOK, WorkerTypeOK
<1>b. UNCHANGED <<clientVars, aborts>> => Clients'
  BY <1>a DEF clientVars
<1>1. ASSUME NEW j \in Jobs, ClientStep(j) PROVE TypeOK'
  BY <1>1, ClientTypeOK
<1>2. ASSUME NEW w \in Workers, WorkerMoves(w) PROVE TypeOK'
  <2>1. StoreTypeOK' /\ QueueTypeOK' /\ WorkerTypeOK' /\ delivered' >= delivered
    BY <1>2, WorkerStepTypeOK DEF WorkerMoves
  <2>2. RecoveryTypeOK'
    BY <1>a, <1>2, <2>1, RecoveryStutterType DEF WorkerMoves
  <2> QED
    BY <1>b, <1>2, <2>1, <2>2 DEF WorkerMoves, TypeOK
<1>3. ASSUME NEW r \in Recoverers, RecoveryMoves(r) PROVE TypeOK'
  <2>1. StoreTypeOK' /\ QueueTypeOK' /\ RecoveryTypeOK' /\ delivered' = delivered
    BY <1>3, RecoveryStepTypeOK DEF RecoveryMoves
  <2>2. WorkerTypeOK'
    BY <1>a, <1>3, <2>1, WorkerStutterType DEF RecoveryMoves, workerVars
  <2> QED
    BY <1>b, <1>3, <2>1, <2>2 DEF RecoveryMoves, TypeOK
<1>4. ASSUME UNCHANGED <<storeVars, workerVars, recoveryVars, clientVars, aborts>>,
             QueueTypeOK', delivered' = delivered
      PROVE  TypeOK'
  <2>1. StoreTypeOK'
    BY <1>a, <1>4, StoreStutterType DEF storeVars
  <2>2. WorkerTypeOK'
    BY <1>a, <1>4, WorkerStutterType DEF workerVars
  <2>3. RecoveryTypeOK'
    BY <1>a, <1>4, RecoveryStutterType
  <2> QED
    BY <1>b, <1>4, <2>1, <2>2, <2>3 DEF TypeOK
<1>5. ASSUME NEW w \in Workers, HeartbeatBeats(w) PROVE TypeOK'
  <2>1. QueueTypeOK' /\ delivered' = delivered
    BY <1>a, <1>5 DEF HeartbeatBeats, RenewLease, renew_pending_lease, QueueTypeOK
  <2> QED
    BY <1>4, <1>5, <2>1 DEF HeartbeatBeats, RenewLease
<1>6. ASSUME NEW i \in pel, TimePasses(i) PROVE TypeOK'
  <2>1. QueueTypeOK' /\ delivered' = delivered
    BY <1>a, <1>6 DEF TimePasses, LeaseExpires, lease_expires, QueueTypeOK
  <2> QED
    BY <1>4, <1>6, <2>1 DEF TimePasses, LeaseExpires
<1>7. ASSUME NEW w \in Workers, WorkerAborts(w) PROVE TypeOK'
  <2>1. StoreTypeOK'
    BY <1>a, <1>7, StoreStutterType DEF WorkerAborts, Abort
  <2>2. QueueTypeOK' /\ delivered' = delivered
    BY <1>a, <1>7, QueueStutterType DEF WorkerAborts, Abort, queueVars
  <2>3. WorkerTypeOK'
    BY <1>a, <1>7, <2>2, ReturnType DEF WorkerAborts, Abort
  <2>4. RecoveryTypeOK'
    BY <1>a, <1>7, <2>2, RecoveryStutterType DEF WorkerAborts
  <2>5. Clients'
    BY <1>a, <1>7, MaxAbortsAssumption DEF WorkerAborts, clientVars
  <2> QED
    BY <2>1, <2>2, <2>3, <2>4, <2>5 DEF TypeOK
<1>8. ASSUME NEW r \in Recoverers, RecoveryAborts(r) PROVE TypeOK'
  <2>1. StoreTypeOK'
    BY <1>a, <1>8, StoreStutterType DEF RecoveryAborts, AbortPass, storeVars
  <2>2. QueueTypeOK' /\ delivered' = delivered
    BY <1>a, <1>8, QueueStutterType DEF RecoveryAborts, AbortPass, queueVars
  <2>3. WorkerTypeOK'
    BY <1>a, <1>8, <2>2, WorkerStutterType DEF RecoveryAborts, workerVars
  <2>4. RecoveryTypeOK'
    BY <1>a, <1>8, <2>2 DEF RecoveryAborts, AbortPass, RecoveryTypeOK, RecoveryPcs
  <2>5. Clients'
    BY <1>a, <1>8, MaxAbortsAssumption DEF RecoveryAborts, clientVars
  <2> QED
    BY <2>1, <2>2, <2>3, <2>4, <2>5 DEF TypeOK
<1>9. CASE UNCHANGED vars
  <2>1. QueueTypeOK' /\ delivered' = delivered
    BY <1>a, <1>9, QueueStutterType DEF vars, queueVars
  <2> QED
    BY <1>4, <1>9, <2>1 DEF vars
<1> QED
  BY <1>1, <1>2, <1>3, <1>5, <1>6, <1>7, <1>8, <1>9 DEF Next

\* Every reachable state is well typed, and workers and recovery passes only
\* ever hold entries the consumer group has delivered.
THEOREM TypeCorrect == Spec => []TypeOK
  BY InitTypeOK, NextTypeOK, PTL DEF Spec

-----------------------------------------------------------------------------
(***************************************************************************)
(* The inductive invariant.  WorkNotLost is not inductive alone: nothing   *)
(* in it says that a worker or a pass that is about to acknowledge an      *)
(* entry has a right to.  HandoverSafe does, and TerminalStatusBacked is   *)
(* what makes the no-op path safe.  The preservation proof goes through    *)
(* the effects of a step: what it does to the tables, and to the queue.    *)
(***************************************************************************)

IInv ==
  /\ TypeOK
  /\ TerminalStatusBacked
  /\ HandoverSafe
  /\ WorkNotLost

TablesUnchanged == UNCHANGED <<status, finalization, events>>

\* A step runs at most one of the three transactions.
StoreEffect ==
  \/ TablesUnchanged
  \/ \E j \in Jobs : create_job(j)
  \/ \E j \in Jobs, st \in {"queued", "running"},
        type \in EventTypes \ TerminalEventTypes, a \in Nat, b \in Nat :
          record_state_event(j, st, type, a, b)
  \/ \E j \in Jobs, st \in TERMINAL_STATUSES, type \in TerminalEventTypes,
        a \in Nat, b \in Nat : finalize_job(j, st, type, a, b)

\* A step sends at most one command that moves entries, and acknowledges only
\* settled ones.
QueueEffect ==
  \/ UNCHANGED <<stream, delivered, pel>>
  \/ TablesUnchanged /\ \E j \in Jobs, a \in Nat : publish_job(j, a)
  \/ TablesUnchanged /\ lease_jobs
  \/ TablesUnchanged /\ \E i \in Entries : acknowledge(i) /\ Settled(i)

\* The inductive invariant holds before anything is submitted.
LEMMA InitIInv == Init => IInv
<1> SUFFICES ASSUME Init PROVE IInv
  OBVIOUS
<1>1. TypeOK
  BY InitTypeOK
<1>2. TerminalStatusBacked
  BY DEF Init, StoreInit, TerminalStatusBacked, TERMINAL_STATUSES
<1>3. HandoverSafe
  BY DEF Init, StoreInit, QueueInit, WorkerInit, RecoveryInit, HandoverSafe,
         WorkerMayAck, PassMayAck, EntriesHaveRows, Entries
<1>4. WorkNotLost
  BY DEF Init, WorkNotLost
<1> QED
  BY <1>1, <1>2, <1>3, <1>4 DEF IInv

\* What a client does to the tables and the queue.
LEMMA ClientEffects ==
  ASSUME IInv, NEW j \in Jobs, ClientStep(j)
  PROVE  StoreEffect /\ QueueEffect
<1>1. CASE SubmitJob(j)
  BY <1>1 DEF SubmitJob, StoreEffect, QueueEffect, queueVars
<1>2. CASE PublishSubmitted(j)
  BY <1>2 DEF PublishSubmitted, StoreEffect, QueueEffect, TablesUnchanged,
              storeVars
<1>3. CASE cancel_queued_job(j)
  <2>1. /\ "cancelled" \in TERMINAL_STATUSES
        /\ "cancelled" \in TerminalEventTypes /\ 0 \in Nat
    BY DEF TERMINAL_STATUSES, TerminalEventTypes
  <2> QED
    BY <1>3, <2>1 DEF cancel_queued_job, StoreEffect, QueueEffect, queueVars
<1>4. CASE \/ AbandonSubmission(j) \/ ReadQueuedJob(j) \/ request_cancel(j)
  BY <1>4 DEF AbandonSubmission, ReadQueuedJob, request_cancel, StoreEffect,
              QueueEffect, TablesUnchanged, storeVars, queueVars
<1> QED
  BY <1>1, <1>2, <1>3, <1>4 DEF ClientStep

\* What a step of process_one does to the tables and the queue.
LEMMA WorkerEffects ==
  ASSUME IInv, NEW w \in Workers, WorkerStep(w)
  PROVE  StoreEffect /\ QueueEffect
<1>a. wpc[w] # "idle" =>
        /\ wentry[w] \in Entries /\ wentry[w] \in Nat
        /\ JobOf(w) \in Jobs /\ AttemptOf(w) \in Nat
        /\ AttemptOf(w) + 1 \in Nat
  BY HeldEntry DEF IInv
<1>b. /\ TERMINAL_STATUSES = {"completed", "failed", "timed_out", "cancelled"}
      /\ TERMINAL_STATUSES \subseteq TerminalEventTypes
      /\ "budget_blocked" \in TerminalEventTypes
      /\ {"running", "retry_scheduled"} \subseteq EventTypes \ TerminalEventTypes
  BY DEF TERMINAL_STATUSES, TerminalEventTypes, EventTypes, RetryEventTypes
<1>c. wpc[w] \in {"ack", "noop_ack", "blocked_ack"} => Settled(wentry[w])
  BY DEF IInv, HandoverSafe, WorkerMayAck, Settled, JobOf
<1>1. CASE \/ Lease(w)
           \/ LoadTerminal(w) \/ LoadBlocked(w) \/ RunnerReturns(w)
  BY <1>1 DEF Lease, LoadTerminal, LoadBlocked, RunnerReturns, StoreEffect,
              QueueEffect, TablesUnchanged, storeVars, queueVars
<1>2. CASE AckTerminal(w) \/ AckBlocked(w) \/ AckProcessed(w)
  BY <1>a, <1>c, <1>2
  DEF AckTerminal, AckBlocked, AckProcessed, StoreEffect, QueueEffect,
      TablesUnchanged, storeVars
<1>3. CASE CommitBlocked(w)
  BY <1>a, <1>b, <1>3 DEF CommitBlocked, StoreEffect, QueueEffect, queueVars
<1>4. CASE record_running(w)
  BY <1>a, <1>b, <1>4 DEF record_running, StoreEffect, QueueEffect, queueVars
<1>5. CASE record_completed(w)
  BY <1>a, <1>b, <1>5 DEF record_completed, StoreEffect, QueueEffect, queueVars
<1>6. CASE record_retry_scheduled(w)
  BY <1>a, <1>b, <1>6
  DEF record_retry_scheduled, StoreEffect, QueueEffect, queueVars
<1>7. CASE PublishRetry(w)
  BY <1>a, <1>7
  DEF PublishRetry, StoreEffect, QueueEffect, TablesUnchanged, storeVars
<1>8. ASSUME NEW outcome, NEW st \in TERMINAL_STATUSES,
             NEW type \in TerminalEventTypes, FinalizeAs(w, outcome, st, type)
      PROVE  StoreEffect /\ QueueEffect
  BY <1>a, <1>8 DEF FinalizeAs, StoreEffect, QueueEffect, queueVars
<1> QED
  BY <1>b, <1>1, <1>2, <1>3, <1>4, <1>5, <1>6, <1>7, <1>8
  DEF WorkerStep, handle_policy_error, handle_timeout, handle_cancellation,
      RetryOverBudget, RetriesExhausted

\* What a step of a recovery pass does to the tables and the queue.
LEMMA RecoveryEffects ==
  ASSUME IInv, NEW r \in Recoverers, RecoveryStep(r)
  PROVE  StoreEffect /\ QueueEffect
<1>1. CASE ListStaleLeases(r)
  BY <1>1 DEF ListStaleLeases, StoreEffect, QueueEffect, TablesUnchanged,
              storeVars, queueVars
<1>2. ASSUME NEW i \in rtodo[r],
             \/ PlanAcknowledge(r, i) \/ PlanRequeue(r, i) \/ PlanDeadLetter(r, i)
             \/ PublishRequeued(r, i) \/ MoveToDeadLetter(r, i)
             \/ acknowledge_lease(r, i)
      PROVE  StoreEffect /\ QueueEffect
  <2>a. /\ i \in Entries /\ i \in Nat
        /\ stream[i].job \in Jobs /\ stream[i].attempt \in Nat
        /\ stream[i].attempt + 1 \in Nat
    <3>1. i \in 1 .. delivered /\ QueueTypeOK
      BY DEF IInv, TypeOK, RecoveryTypeOK
    <3> QED
      BY <3>1, EntryFields
  <2>b. /\ "failed" \in TERMINAL_STATUSES /\ "failed" \in TerminalEventTypes
        /\ "stale_lease_recovered" \in EventTypes \ TerminalEventTypes
    BY DEF TERMINAL_STATUSES, TerminalEventTypes, EventTypes, RetryEventTypes
  <2>1. CASE PlanAcknowledge(r, i) \/ MoveToDeadLetter(r, i)
    BY <2>1 DEF PlanAcknowledge, MoveToDeadLetter, append_dead_letter,
                StoreEffect, QueueEffect, TablesUnchanged, storeVars, queueVars
  <2>2. CASE PlanRequeue(r, i)
    BY <2>a, <2>b, <2>2 DEF PlanRequeue, StoreEffect, QueueEffect, queueVars
  <2>3. CASE PlanDeadLetter(r, i)
    BY <2>a, <2>b, <2>3 DEF PlanDeadLetter, StoreEffect, QueueEffect, queueVars
  <2>4. CASE PublishRequeued(r, i)
    BY <2>a, <2>4 DEF PublishRequeued, StoreEffect, QueueEffect,
                      TablesUnchanged, storeVars
  <2>5. CASE acknowledge_lease(r, i)
    <3>1. Settled(i)
      BY <2>5 DEF IInv, HandoverSafe, PassMayAck, acknowledge_lease
    <3> QED
      BY <2>a, <2>5, <3>1 DEF acknowledge_lease, StoreEffect, QueueEffect,
                              TablesUnchanged, storeVars
  <2> QED
    BY <1>2, <2>1, <2>2, <2>3, <2>4, <2>5
<1> QED
  BY <1>1, <1>2 DEF RecoveryStep

\* What any step does to the tables and the queue.
LEMMA StepEffects == IInv /\ [Next]_vars => StoreEffect /\ QueueEffect
<1> SUFFICES ASSUME IInv, [Next]_vars PROVE StoreEffect /\ QueueEffect
  OBVIOUS
<1>1. ASSUME NEW w \in Workers,
             HeartbeatBeats(w) \/ WorkerAborts(w)
      PROVE  StoreEffect /\ QueueEffect
  BY <1>1 DEF HeartbeatBeats, RenewLease, renew_pending_lease, WorkerAborts,
              Abort, StoreEffect, QueueEffect, TablesUnchanged, storeVars,
              queueVars
<1>2. ASSUME NEW r \in Recoverers, RecoveryAborts(r)
      PROVE  StoreEffect /\ QueueEffect
  BY <1>2 DEF RecoveryAborts, AbortPass, StoreEffect, QueueEffect,
              TablesUnchanged, storeVars, queueVars
<1>3. ASSUME NEW i \in pel, TimePasses(i)
      PROVE  StoreEffect /\ QueueEffect
  BY <1>3 DEF TimePasses, LeaseExpires, lease_expires, StoreEffect,
              QueueEffect, TablesUnchanged, storeVars
<1>4. CASE UNCHANGED vars
  BY <1>4 DEF vars, StoreEffect, QueueEffect, TablesUnchanged, storeVars,
              queueVars
<1> QED
  BY <1>1, <1>2, <1>3, <1>4, ClientEffects, WorkerEffects, RecoveryEffects
  DEF Next, WorkerMoves, RecoveryMoves

-----------------------------------------------------------------------------
(* Consequences of the effects *)

\* finalize_job never touches a finalization that exists.
LEMMA FinalizationStays ==
  ASSUME TypeOK, StoreEffect, NEW j \in Jobs, Finalized(j)
  PROVE  finalization'[j] = finalization[j] /\ Finalized(j)'
<1>1. finalization'[j] = finalization[j]
  BY DEF TypeOK, StoreTypeOK, StoreEffect, TablesUnchanged, create_job,
         record_state_event, finalize_job
<1> QED
  BY <1>1 DEF Finalized

\* No transaction leaves a terminal status without its finalization:
\* _record_state_event writes none, finalize_job writes both.
LEMMA BackedStays ==
  ASSUME TypeOK, TerminalStatusBacked, StoreEffect
  PROVE  TerminalStatusBacked'
<1>a. /\ status \in [Jobs -> Statuses]
      /\ finalization \in [Jobs -> Finalization]
      /\ "none" \notin TERMINAL_STATUSES
      /\ {"submitted", "queued", "running"} \cap TERMINAL_STATUSES = {}
  BY DEF TypeOK, StoreTypeOK, TERMINAL_STATUSES
<1> SUFFICES ASSUME NEW j \in Jobs, status'[j] \in TERMINAL_STATUSES
             PROVE  finalization'[j].status = status'[j]
  BY DEF TerminalStatusBacked
<1>1. CASE TablesUnchanged
  BY <1>1 DEF TablesUnchanged, TerminalStatusBacked
<1>2. ASSUME NEW k \in Jobs, create_job(k)
      PROVE  finalization'[j].status = status'[j]
  BY <1>a, <1>2 DEF create_job, TerminalStatusBacked
<1>3. ASSUME NEW k \in Jobs, NEW st \in {"queued", "running"}, NEW type, NEW a,
             NEW b, record_state_event(k, st, type, a, b)
      PROVE  finalization'[j].status = status'[j]
  BY <1>a, <1>3 DEF record_state_event, TerminalStatusBacked
<1>4. ASSUME NEW k \in Jobs, NEW st \in TERMINAL_STATUSES, NEW type, NEW a,
             NEW b, finalize_job(k, st, type, a, b)
      PROVE  finalization'[j].status = status'[j]
  BY <1>a, <1>4 DEF finalize_job, TerminalStatusBacked
<1> QED
  BY <1>1, <1>2, <1>3, <1>4 DEF StoreEffect

\* The stream only grows.
LEMMA EntriesStay ==
  ASSUME QueueTypeOK, QueueEffect, NEW k \in Entries
  PROVE  k \in Entries' /\ stream'[k] = stream[k]
<1>1. CASE stream' = stream
  BY <1>1 DEF Entries
<1>2. ASSUME NEW j \in Jobs, NEW a \in Nat, publish_job(j, a)
      PROVE  k \in Entries' /\ stream'[k] = stream[k]
  BY <1>2 DEF publish_job, Entries, QueueTypeOK
<1> QED
  BY <1>1, <1>2 DEF QueueEffect, lease_jobs, acknowledge

\* An entry stops being unacknowledged only when it is acknowledged, settled.
LEMMA UnackedStays ==
  ASSUME QueueTypeOK, QueueEffect, NEW k \in Entries, Unacked(k), ~Unacked(k)'
  PROVE  /\ acknowledge(k) /\ Settled(k) /\ TablesUnchanged
         /\ k \in pel
<1>1. CASE UNCHANGED <<stream, delivered, pel>>
  BY <1>1 DEF Unacked
<1>2. ASSUME NEW j \in Jobs, NEW a \in Nat, publish_job(j, a)
      PROVE  FALSE
  BY <1>2 DEF publish_job, Unacked
<1>3. CASE lease_jobs
  BY <1>3 DEF lease_jobs, Unacked, Entries, QueueTypeOK
<1>4. ASSUME NEW i \in Entries, acknowledge(i), Settled(i), TablesUnchanged
      PROVE  /\ acknowledge(k) /\ Settled(k) /\ TablesUnchanged
             /\ k \in pel
  <2>1. k = i /\ k \in pel
    BY <1>4 DEF acknowledge, Unacked
  <2> QED
    BY <1>4, <2>1
<1> QED
  BY <1>1, <1>2, <1>3, <1>4 DEF QueueEffect

\* A settled entry stays settled: if the entry that carried its job on is
\* itself acknowledged, that one was settled too, and by a still later entry.
LEMMA SettledStays ==
  ASSUME TypeOK, StoreEffect, QueueEffect, NEW i \in Entries, Settled(i)
  PROVE  Settled(i)'
<1> DEFINE j == stream[i].job
<1>a. QueueTypeOK /\ j \in Jobs /\ i \in Nat /\ Entries \subseteq Nat
  <2>1. stream[i] \in QueueJobMessage /\ QueueTypeOK
    BY DEF TypeOK, QueueTypeOK, Entries
  <2> QED
    BY <2>1 DEF QueueJobMessage, Entries
<1>b. i \in Entries' /\ stream'[i].job = j
  BY <1>a, EntriesStay
<1>1. CASE Finalized(j)
  BY <1>a, <1>b, <1>1, FinalizationStays DEF Settled
<1>2. CASE ~DispatchAllowed(j)
  BY <1>b, <1>2 DEF Settled
<1>3. ASSUME NEW k \in Entries, k > i, stream[k].job = j, Unacked(k)
      PROVE  Settled(i)'
  <2>1. k \in Entries' /\ stream'[k].job = j
    BY <1>a, <1>3, EntriesStay
  <2>2. CASE Unacked(k)'
    BY <1>b, <1>3, <2>1, <2>2 DEF Settled
  <2>3. CASE ~Unacked(k)'
    <3>1. Settled(k) /\ acknowledge(k)
      BY <1>a, <1>3, <2>3, UnackedStays
    <3>2. CASE Finalized(j) \/ ~DispatchAllowed(j)
      BY <3>2, <1>1, <1>2
    <3>3. ASSUME NEW m \in Entries, m > k, stream[m].job = j, Unacked(m)
          PROVE  Settled(i)'
      <4>1. m \in Entries' /\ stream'[m].job = j
        BY <1>a, <3>3, EntriesStay
      <4>2. Unacked(m)'
        BY <1>a, <3>1, <3>3 DEF acknowledge, Unacked
      <4>3. m > i
        BY <1>a, <1>3, <3>3
      <4> QED
        BY <1>b, <4>1, <4>2, <4>3 DEF Settled
    <3> QED
      BY <1>3, <3>1, <3>2, <3>3 DEF Settled
  <2> QED
    BY <2>2, <2>3
<1> QED
  BY <1>1, <1>2, <1>3 DEF Settled

\* A job that has an unacknowledged entry keeps one, or is decided.
LEMMA WorkStays ==
  ASSUME TypeOK, StoreEffect, QueueEffect, NEW j \in Jobs, DispatchAllowed(j),
         ~Finalized(j)', HasUnackedEntry(j)
  PROVE  HasUnackedEntry(j)'
<1>a. QueueTypeOK
  BY DEF TypeOK
<1>b. ~Finalized(j)
  BY FinalizationStays
<1>1. PICK k \in Entries : stream[k].job = j /\ Unacked(k)
  BY DEF HasUnackedEntry
<1>2. k \in Entries' /\ stream'[k].job = j
  BY <1>a, <1>1, EntriesStay
<1>3. CASE Unacked(k)'
  BY <1>2, <1>3 DEF HasUnackedEntry
<1>4. CASE ~Unacked(k)'
  <2>1. Settled(k) /\ acknowledge(k)
    BY <1>a, <1>1, <1>4, UnackedStays
  <2>2. PICK m \in Entries : m > k /\ stream[m].job = j /\ Unacked(m)
    BY <1>b, <1>1, <2>1 DEF Settled
  <2>3. m \in Entries' /\ stream'[m].job = j
    BY <1>a, <2>2, EntriesStay
  <2>4. Unacked(m)'
    BY <2>1, <2>2 DEF acknowledge, Unacked, Entries
  <2> QED
    BY <2>3, <2>4 DEF HasUnackedEntry
<1> QED
  BY <1>3, <1>4

\* A published entry is unacknowledged, behind all the others.
LEMMA PublishedIsUnacked ==
  ASSUME QueueTypeOK, NEW j \in Jobs, NEW a \in Nat, publish_job(j, a)
  PROVE  \E n \in Entries' :
           /\ Entries' = Entries \cup {n}
           /\ stream'[n].job = j
           /\ Unacked(n)'
           /\ \A k \in Entries : k < n
<1>1. PICK n \in Nat : n = Len(stream) + 1
  BY DEF QueueTypeOK
<1>2. /\ n \in Entries' /\ Entries' = Entries \cup {n}
      /\ stream'[n].job = j
      /\ \A k \in Entries : k < n
  BY <1>1 DEF QueueTypeOK, publish_job, Entries
<1>3. Unacked(n)'
  BY <1>1 DEF QueueTypeOK, publish_job, Unacked
<1> QED
  BY <1>2, <1>3

\* An entry is settled by a later message of its job as soon as it is published.
LEMMA PublishSettles ==
  ASSUME QueueTypeOK, NEW i \in Entries, NEW a \in Nat,
         stream[i].job \in Jobs, stream'[i] = stream[i],
         publish_job(stream[i].job, a)
  PROVE  Settled(i)'
<1>1. PICK n \in Entries' :
        stream'[n].job = stream[i].job /\ Unacked(n)' /\ n > i
  <2>1. PICK j \in Jobs : j = stream[i].job
    OBVIOUS
  <2>2. PICK n \in Entries' :
          stream'[n].job = j /\ Unacked(n)' /\ \A k \in Entries : k < n
    BY <2>1, PublishedIsUnacked
  <2> QED
    BY <2>1, <2>2 DEF Entries, QueueTypeOK
<1> QED
  BY <1>1 DEF Settled

-----------------------------------------------------------------------------
(* The strengthening is preserved *)

\* What a worker that does not move knows stays true whatever the others do.
LEMMA WorkerMayAckStays ==
  ASSUME IInv, StoreEffect, QueueEffect, NEW w \in Workers,
         wpc'[w] = wpc[w], wentry'[w] = wentry[w]
  PROVE  WorkerMayAck(w)'
<1>1. TypeOK /\ QueueTypeOK /\ WorkerMayAck(w)
  BY DEF IInv, TypeOK, HandoverSafe
<1>2. CASE wpc[w] = "idle"
  BY <1>2 DEF WorkerMayAck
<1>3. CASE wpc[w] # "idle"
  <2>1. wentry[w] \in Entries /\ JobOf(w) \in Jobs
    BY <1>1, <1>3, HeldEntry
  <2>2. JobOf(w)' = JobOf(w)
    BY <1>1, <2>1, EntriesStay DEF JobOf
  <2>3. Settled(wentry[w]) => Settled(wentry[w])'
    BY <1>1, <2>1, SettledStays
  <2>4. Finalized(JobOf(w)) => Finalized(JobOf(w))'
    BY <1>1, <2>1, <2>2, FinalizationStays DEF Finalized
  <2> QED
    BY <1>1, <2>2, <2>3, <2>4 DEF WorkerMayAck
<1> QED
  BY <1>2, <1>3

\* What a recovery pass that does not move knows stays true as well.
LEMMA PassMayAckStays ==
  ASSUME IInv, StoreEffect, QueueEffect, NEW r \in Recoverers,
         rpc'[r] = rpc[r], rtodo'[r] = rtodo[r]
  PROVE  PassMayAck(r)'
<1>1. TypeOK /\ QueueTypeOK /\ PassMayAck(r)
  BY DEF IInv, TypeOK, HandoverSafe
<1> SUFFICES ASSUME NEW i \in rtodo[r], AtLease(r, i)
             PROVE  /\ rpc[r] = "ack" => Settled(i)'
                    /\ rpc[r] = "dlq" => Finalized(stream[i].job)'
  BY DEF PassMayAck, AtLease
<1>2. i \in Entries /\ stream[i].job \in Jobs
  BY <1>1, EntryFields DEF TypeOK, RecoveryTypeOK
<1>3. stream'[i] = stream[i]
  BY <1>1, <1>2, EntriesStay
<1>4. Settled(i) => Settled(i)'
  BY <1>1, <1>2, SettledStays
<1>5. Finalized(stream[i].job) => Finalized(stream[i].job)'
  BY <1>1, <1>2, <1>3, FinalizationStays DEF Finalized
<1> QED
  BY <1>1, <1>4, <1>5 DEF PassMayAck

\* finalize_job leaves its job finalized, conflict or not.
LEMMA FinalizeFinalizes ==
  ASSUME TypeOK, NEW j \in Jobs, NEW st \in TERMINAL_STATUSES, NEW type, NEW a,
         NEW b, finalize_job(j, st, type, a, b)
  PROVE  Finalized(j)'
<1>1. finalization \in [Jobs -> Finalization] /\ "none" \notin TERMINAL_STATUSES
  BY DEF TypeOK, StoreTypeOK, TERMINAL_STATUSES
<1> QED
  BY <1>1 DEF finalize_job, Finalized

\* The worker that moves has a right to the acknowledgement it heads for.
LEMMA MoverMayAck ==
  ASSUME IInv, NEW w \in Workers, WorkerStep(w), StoreEffect, QueueEffect
  PROVE  WorkerMayAck(w)'
<1>a. /\ TypeOK /\ QueueTypeOK /\ WorkerMayAck(w) /\ EntriesHaveRows
      /\ TerminalStatusBacked /\ wpc \in [Workers -> WorkerPcs]
      /\ wentry \in [Workers -> Nat]
  BY DEF IInv, TypeOK, HandoverSafe, WorkerTypeOK
<1>b. wpc[w] # "idle" =>
        /\ wentry[w] \in Entries /\ JobOf(w) \in Jobs /\ AttemptOf(w) \in Nat
        /\ stream'[wentry[w]] = stream[wentry[w]]
        /\ wentry[w] \in Nat
  BY <1>a, HeldEntry, EntriesStay
<1>c. TERMINAL_STATUSES = {"completed", "failed", "timed_out", "cancelled"}
  BY DEF TERMINAL_STATUSES
<1>1. CASE LoadTerminal(w)
  <2>1. status[JobOf(w)] # "absent"
    BY <1>a, <1>b, <1>1 DEF LoadTerminal, EntriesHaveRows, JobOf
  <2>2. Finalized(JobOf(w))
    BY <1>a, <1>b, <1>c, <1>1, <2>1
    DEF LoadTerminal, TerminalStatusBacked, Finalized
  <2>3. wpc'[w] = "noop_ack" /\ wentry'[w] = wentry[w]
    BY <1>a, <1>1 DEF LoadTerminal, GoTo
  <2>4. Finalized(JobOf(w))'
    BY <1>a, <1>b, <1>1, <2>2, <2>3 DEF LoadTerminal, Finalized, JobOf
  <2> QED
    BY <2>3, <2>4 DEF WorkerMayAck
<1>2. CASE LoadBlocked(w)
  BY <1>a, <1>b, <1>2 DEF LoadBlocked, GoTo, WorkerMayAck, JobOf
<1>3. CASE AckBlocked(w)
  BY <1>a, <1>b, <1>3 DEF AckBlocked, GoTo, WorkerMayAck, JobOf
<1>4. CASE \/ Lease(w) \/ AckTerminal(w) \/ CommitBlocked(w) \/ AckProcessed(w)
           \/ record_running(w) \/ RunnerReturns(w) \/ record_retry_scheduled(w)
  <2>1. wpc'[w] \in {"leased", "idle", "running", "record", "publish"}
    BY <1>a, <1>4
    DEF Lease, AckTerminal, CommitBlocked, AckProcessed, record_running,
        RunnerReturns, record_retry_scheduled, GoTo, Return
  <2> QED
    BY <2>1 DEF WorkerMayAck
<1>5. CASE PublishRetry(w)
  <2>1. publish_job(JobOf(w), AttemptOf(w) + 1) /\ wpc[w] = "publish"
    BY <1>5 DEF PublishRetry
  <2>2. wpc'[w] = "ack" /\ wentry'[w] = wentry[w]
    BY <1>a, <1>5 DEF PublishRetry, GoTo
  <2> DEFINE i == wentry[w]
  <2>3. ASSUME NEW e, e = i PROVE Settled(e)'
    BY <1>a, <1>b, <2>1, <2>3, PublishSettles DEF JobOf
  <2> QED
    BY <2>2, <2>3 DEF WorkerMayAck
<1>6. ASSUME NEW st \in TERMINAL_STATUSES, NEW type,
             wpc[w] # "idle", GoTo(w, "ack"),
             finalize_job(JobOf(w), st, type, AttemptOf(w), wentry[w])
      PROVE  WorkerMayAck(w)'
  <2>1. finalization'[JobOf(w)].status # "none"
    BY <1>a, <1>b, <1>6, FinalizeFinalizes DEF Finalized
  <2>2. wpc'[w] = "ack" /\ wentry'[w] = wentry[w]
    BY <1>a, <1>6 DEF GoTo
  <2>3. Settled(wentry[w])'
    BY <1>b, <1>6, <2>1, <2>2 DEF Settled, Finalized, JobOf
  <2> QED
    BY <2>2, <2>3 DEF WorkerMayAck
<1>7. CASE record_completed(w)
  BY <1>c, <1>6, <1>7 DEF record_completed
<1>8. ASSUME NEW outcome, NEW st \in TERMINAL_STATUSES, NEW type,
             FinalizeAs(w, outcome, st, type)
      PROVE  WorkerMayAck(w)'
  BY <1>6, <1>8 DEF FinalizeAs
<1> QED
  BY <1>c, <1>1, <1>2, <1>3, <1>4, <1>5, <1>7, <1>8
  DEF WorkerStep, handle_policy_error, handle_timeout, handle_cancellation,
      RetryOverBudget, RetriesExhausted

\* The pass that moves has a right to the acknowledgement it heads for.
LEMMA PassThatMovesMayAck ==
  ASSUME IInv, NEW r \in Recoverers, RecoveryStep(r), StoreEffect, QueueEffect
  PROVE  PassMayAck(r)'
<1>a. /\ TypeOK /\ QueueTypeOK /\ PassMayAck(r) /\ EntriesHaveRows
      /\ TerminalStatusBacked /\ rpc \in [Recoverers -> RecoveryPcs]
      /\ rtodo \in [Recoverers -> SUBSET (1 .. delivered)]
  BY DEF IInv, TypeOK, HandoverSafe, RecoveryTypeOK
<1>b. TERMINAL_STATUSES = {"completed", "failed", "timed_out", "cancelled"}
  BY DEF TERMINAL_STATUSES
<1>1. CASE ListStaleLeases(r)
  BY <1>a, <1>1 DEF ListStaleLeases, PassMayAck
<1>2. ASSUME NEW i \in rtodo[r],
             \/ PlanAcknowledge(r, i) \/ PlanRequeue(r, i) \/ PlanDeadLetter(r, i)
             \/ PublishRequeued(r, i) \/ MoveToDeadLetter(r, i)
             \/ acknowledge_lease(r, i)
      PROVE  PassMayAck(r)'
  <2>a. /\ i \in Entries /\ stream[i].job \in Jobs /\ stream[i].attempt \in Nat
        /\ stream'[i] = stream[i] /\ i \in Nat
    BY <1>a, EntryFields, EntriesStay
  <2>b. ASSUME NEW pc \in RecoveryPcs, Proceed(r, pc), AtLease(r, i),
               pc = "ack" => Settled(i)',
               pc = "dlq" => Finalized(stream[i].job)'
        PROVE  PassMayAck(r)'
    <3>1. rpc'[r] = pc /\ rtodo'[r] = rtodo[r]
      BY <1>a, <2>b DEF Proceed
    <3>2. \A k \in rtodo[r] : AtLease(r, k)' => k = i
      BY <1>a, <2>b, <3>1 DEF AtLease
    <3> QED
      BY <2>b, <3>1, <3>2 DEF PassMayAck
  <2>c. {"plan", "publish", "dlq", "ack", "idle"} = RecoveryPcs
    BY DEF RecoveryPcs
  <2>1. CASE PlanAcknowledge(r, i)
    <3>1. status[stream[i].job] # "absent"
      BY <1>a, <2>a DEF EntriesHaveRows
    <3>2. finalization[stream[i].job].status # "none"
      BY <1>a, <1>b, <2>a, <2>1, <3>1 DEF PlanAcknowledge, TerminalStatusBacked
    <3>3. Settled(i)'
      BY <2>a, <2>1, <3>2 DEF PlanAcknowledge, storeVars, Settled, Finalized
    <3> QED
      BY <2>b, <2>c, <2>1, <3>3 DEF PlanAcknowledge
  <2>2. CASE PlanRequeue(r, i)
    BY <2>b, <2>c, <2>2 DEF PlanRequeue
  <2>3. CASE PlanDeadLetter(r, i)
    <3>1. finalization'[stream[i].job].status # "none"
      BY <1>a, <1>b, <2>a, <2>3, FinalizeFinalizes DEF PlanDeadLetter, Finalized
    <3>2. Finalized(stream[i].job)'
      BY <2>a, <3>1 DEF Finalized
    <3> QED
      BY <2>b, <2>c, <2>3, <3>2 DEF PlanDeadLetter
  <2>4. CASE PublishRequeued(r, i)
    <3>1. publish_job(stream[i].job, stream[i].attempt + 1)
      BY <2>4 DEF PublishRequeued
    <3>2. Settled(i)'
      <4>1. PICK a \in Nat : a = stream[i].attempt + 1
        BY <2>a
      <4> QED
        BY <1>a, <2>a, <3>1, <4>1, PublishSettles
    <3> QED
      BY <2>b, <2>c, <2>4, <3>2 DEF PublishRequeued
  <2>5. CASE MoveToDeadLetter(r, i)
    <3>1. Finalized(stream[i].job)
      BY <1>a, <2>5 DEF MoveToDeadLetter, PassMayAck
    <3>2. Settled(i)'
      BY <2>a, <2>5, <3>1 DEF MoveToDeadLetter, storeVars, Settled, Finalized
    <3> QED
      BY <2>b, <2>c, <2>5, <3>2 DEF MoveToDeadLetter
  <2>6. CASE acknowledge_lease(r, i)
    BY <1>a, <2>6 DEF acknowledge_lease, PassMayAck
  <2> QED
    BY <1>2, <2>1, <2>2, <2>3, <2>4, <2>5, <2>6
<1> QED
  BY <1>1, <1>2 DEF RecoveryStep

\* Rows are never removed, and only jobs that have messages get more of them.
LEMMA RowsStay ==
  ASSUME IInv, [Next]_vars
  PROVE  EntriesHaveRows'
<1>a. /\ TypeOK /\ QueueTypeOK /\ EntriesHaveRows
      /\ status \in [Jobs -> Statuses]
      /\ submission \in [Jobs -> {"new", "created", "published", "abandoned"}]
      /\ StoreEffect /\ QueueEffect
  BY StepEffects DEF IInv, TypeOK, StoreTypeOK, HandoverSafe
<1>b. "absent" \notin TERMINAL_STATUSES
  BY DEF TERMINAL_STATUSES
<1>c. \A j \in Jobs : status[j] # "absent" => status'[j] # "absent"
  BY <1>a, <1>b DEF StoreEffect, TablesUnchanged, create_job, record_state_event,
                finalize_job
<1>d. /\ \/ \E k \in Jobs : SubmitJob(k) \/ PublishSubmitted(k) \/ AbandonSubmission(k)
         \/ UNCHANGED submission
      /\ \A j \in Jobs : submission[j] = "published" => submission'[j] = "published"
  BY <1>a
  DEF Next, ClientStep, SubmitJob, PublishSubmitted, AbandonSubmission,
      ReadQueuedJob, cancel_queued_job, request_cancel, WorkerMoves,
      HeartbeatBeats, WorkerAborts, RecoveryMoves, RecoveryAborts, TimePasses,
      clientVars, vars
<1>1. \A j \in Jobs : submission'[j] # "new" => status'[j] # "absent"
  BY <1>a, <1>c, <1>d
  DEF EntriesHaveRows, SubmitJob, PublishSubmitted, AbandonSubmission, create_job
<1>2. ASSUME NEW i \in Entries' PROVE submission'[stream'[i].job] = "published"
  <2>a. ASSUME NEW k \in Entries PROVE /\ stream[k].job \in Jobs
                                      /\ submission[stream[k].job] = "published"
    <3>1. stream[k] \in QueueJobMessage
      BY <1>a DEF QueueTypeOK, Entries
    <3> QED
      BY <1>a, <3>1 DEF QueueJobMessage, EntriesHaveRows
  <2>1. CASE i \in Entries
    <3>1. stream'[i] = stream[i]
      BY <1>a, <2>1, EntriesStay
    <3> QED
      BY <1>d, <2>a, <2>1, <3>1
  <2>2. ASSUME NEW j \in Jobs, NEW a \in Nat, publish_job(j, a),
               submission'[j] = "published"
        PROVE  submission'[stream'[i].job] = "published"
    <3>1. CASE i \in Entries
      BY <2>1, <3>1
    <3>2. CASE i \notin Entries
      BY <1>a, <2>2, <3>2, PublishedIsUnacked
    <3> QED
      BY <3>1, <3>2
  <2>3. CASE stream' = stream
    BY <2>1, <2>3 DEF Entries
  <2>4. ASSUME NEW j \in Jobs, ClientStep(j)
        PROVE  submission'[stream'[i].job] = "published"
    <3>1. CASE PublishSubmitted(j)
      BY <1>a, <2>2, <3>1 DEF PublishSubmitted
    <3>2. CASE ~PublishSubmitted(j)
      <4>1. stream' = stream
        BY <2>4, <3>2
        DEF ClientStep, SubmitJob, AbandonSubmission, ReadQueuedJob,
            cancel_queued_job, request_cancel, queueVars
      <4> QED
        BY <2>3, <4>1
    <3> QED
      BY <3>1, <3>2
  <2>5. ASSUME NEW w \in Workers, WorkerStep(w)
        PROVE  submission'[stream'[i].job] = "published"
    <3>1. CASE PublishRetry(w)
      <4>1. /\ wentry[w] \in Entries /\ AttemptOf(w) + 1 \in Nat
            /\ publish_job(JobOf(w), AttemptOf(w) + 1)
        BY <1>a, <3>1, HeldEntry DEF PublishRetry
      <4>2. JobOf(w) \in Jobs /\ submission'[JobOf(w)] = "published"
        BY <1>d, <2>a, <4>1 DEF JobOf
      <4> QED
        BY <2>2, <4>1, <4>2
    <3>2. CASE ~PublishRetry(w)
      <4>1. stream' = stream
        BY <2>5, <3>2
        DEF WorkerStep, Lease, LoadTerminal, AckTerminal, LoadBlocked, AckBlocked,
            CommitBlocked, record_running, RunnerReturns, record_completed,
            handle_policy_error, handle_timeout, handle_cancellation,
            record_retry_scheduled, RetryOverBudget, RetriesExhausted, FinalizeAs,
            AckProcessed, lease_jobs, acknowledge, queueVars
      <4> QED
        BY <2>3, <4>1
    <3> QED
      BY <3>1, <3>2
  <2>6. ASSUME NEW r \in Recoverers, RecoveryStep(r)
        PROVE  submission'[stream'[i].job] = "published"
    <3>1. ASSUME NEW k \in rtodo[r], PublishRequeued(r, k)
          PROVE  submission'[stream'[i].job] = "published"
      <4>1. k \in Entries /\ stream[k].attempt + 1 \in Nat
        BY <1>a, EntryFields DEF TypeOK, RecoveryTypeOK
      <4>2. stream[k].job \in Jobs /\ submission'[stream[k].job] = "published"
        BY <1>d, <2>a, <4>1
      <4> QED
        BY <2>2, <3>1, <4>1, <4>2 DEF PublishRequeued
    <3>2. CASE ~\E k \in rtodo[r] : PublishRequeued(r, k)
      <4>1. stream' = stream
        BY <2>6, <3>2
        DEF RecoveryStep, ListStaleLeases, PlanAcknowledge, PlanRequeue,
            PlanDeadLetter, MoveToDeadLetter, append_dead_letter,
            acknowledge_lease, acknowledge, queueVars
      <4> QED
        BY <2>3, <4>1
    <3> QED
      BY <3>1, <3>2
  <2>7. CASE \/ \E w \in Workers : HeartbeatBeats(w) \/ WorkerAborts(w)
             \/ \E r \in Recoverers : RecoveryAborts(r)
             \/ \E k \in pel : TimePasses(k)
             \/ UNCHANGED vars
    <3>1. stream' = stream
      BY <2>7 DEF HeartbeatBeats, RenewLease, renew_pending_lease, WorkerAborts,
                  Abort, RecoveryAborts, AbortPass, TimePasses, LeaseExpires,
                  lease_expires, queueVars, vars
    <3> QED
      BY <2>3, <3>1
  <2> QED
    BY <2>4, <2>5, <2>6, <2>7 DEF Next, WorkerMoves, RecoveryMoves
<1> QED
  BY <1>1, <1>2 DEF EntriesHaveRows

\* Whoever moves and whoever waits, every acknowledgement ahead is safe.
LEMMA NextHandoverSafe == IInv /\ [Next]_vars => HandoverSafe'
<1> SUFFICES ASSUME IInv, [Next]_vars PROVE HandoverSafe'
  OBVIOUS
<1>a. /\ StoreEffect /\ QueueEffect /\ wpc \in [Workers -> WorkerPcs]
      /\ wentry \in [Workers -> Nat]
      /\ rpc \in [Recoverers -> RecoveryPcs]
      /\ rtodo \in [Recoverers -> SUBSET (1 .. delivered)]
  BY StepEffects DEF IInv, TypeOK, WorkerTypeOK, RecoveryTypeOK
<1>1. EntriesHaveRows'
  BY RowsStay
<1>2. ASSUME NEW w \in Workers PROVE WorkerMayAck(w)'
  <2>1. CASE WorkerStep(w)
    BY <1>a, <2>1, MoverMayAck
  <2>2. CASE wpc'[w] = wpc[w] /\ wentry'[w] = wentry[w]
    BY <1>a, <2>2, WorkerMayAckStays
  <2>3. CASE wpc'[w] = "idle"
    BY <2>3 DEF WorkerMayAck
  <2>4. ASSUME NEW v \in Workers, v # w, WorkerStep(v)
        PROVE  wpc'[w] = wpc[w] /\ wentry'[w] = wentry[w]
    BY <1>a, <2>4
    DEF WorkerStep, Lease, LoadTerminal, AckTerminal, LoadBlocked, AckBlocked,
        CommitBlocked, record_running, RunnerReturns, record_completed,
        handle_policy_error, handle_timeout, handle_cancellation,
        record_retry_scheduled, PublishRetry, RetryOverBudget, RetriesExhausted,
        FinalizeAs, AckProcessed, GoTo, Return
  <2>5. ASSUME NEW v \in Workers, WorkerAborts(v)
        PROVE  \/ wpc'[w] = wpc[w] /\ wentry'[w] = wentry[w]
               \/ wpc'[w] = "idle"
    BY <1>a, <2>5 DEF WorkerAborts, Abort, Return
  <2>6. CASE \/ \E j \in Jobs : ClientStep(j)
             \/ \E v \in Workers : HeartbeatBeats(v)
             \/ \E r \in Recoverers : RecoveryMoves(r) \/ RecoveryAborts(r)
             \/ \E i \in pel : TimePasses(i)
             \/ UNCHANGED vars
    <3>1. UNCHANGED <<wpc, wentry>>
      BY <2>6
      DEF ClientStep, SubmitJob, PublishSubmitted, AbandonSubmission,
          ReadQueuedJob, cancel_queued_job, request_cancel, HeartbeatBeats,
          RenewLease, RecoveryMoves, RecoveryAborts, TimePasses, LeaseExpires,
          workerVars, vars
    <3> QED
      BY <2>2, <3>1
  <2> QED
    BY <2>1, <2>2, <2>3, <2>4, <2>5, <2>6 DEF Next, WorkerMoves
<1>3. ASSUME NEW r \in Recoverers PROVE PassMayAck(r)'
  <2>1. CASE RecoveryStep(r)
    BY <1>a, <2>1, PassThatMovesMayAck
  <2>2. CASE rpc'[r] = rpc[r] /\ rtodo'[r] = rtodo[r]
    BY <1>a, <2>2, PassMayAckStays
  <2>3. CASE rpc'[r] = "idle"
    BY <2>3 DEF PassMayAck
  <2>4. ASSUME NEW q \in Recoverers, q # r, RecoveryStep(q)
        PROVE  rpc'[r] = rpc[r] /\ rtodo'[r] = rtodo[r]
    BY <1>a, <2>4
    DEF RecoveryStep, ListStaleLeases, PlanAcknowledge, PlanRequeue,
        PlanDeadLetter, PublishRequeued, MoveToDeadLetter, acknowledge_lease,
        Proceed
  <2>5. ASSUME NEW q \in Recoverers, RecoveryAborts(q)
        PROVE  \/ rpc'[r] = rpc[r] /\ rtodo'[r] = rtodo[r]
               \/ rpc'[r] = "idle"
    BY <1>a, <2>5 DEF RecoveryAborts, AbortPass
  <2>6. CASE \/ \E j \in Jobs : ClientStep(j)
             \/ \E w \in Workers : \/ WorkerMoves(w) \/ HeartbeatBeats(w)
                                   \/ WorkerAborts(w)
             \/ \E i \in pel : TimePasses(i)
             \/ UNCHANGED vars
    <3>1. UNCHANGED <<rpc, rtodo>>
      BY <2>6
      DEF ClientStep, SubmitJob, PublishSubmitted, AbandonSubmission,
          ReadQueuedJob, cancel_queued_job, request_cancel, HeartbeatBeats,
          WorkerMoves, WorkerAborts, TimePasses, recoveryVars, vars
    <3> QED
      BY <2>2, <3>1
  <2> QED
    BY <2>1, <2>2, <2>3, <2>4, <2>5, <2>6 DEF Next, RecoveryMoves
<1> QED
  BY <1>1, <1>2, <1>3 DEF HandoverSafe

\* A step that publishes a job gives it a message, and one that acknowledges a
\* message leaves its job settled: WorkNotLost survives every step.
LEMMA NextWorkNotLost == IInv /\ [Next]_vars => WorkNotLost'
<1> SUFFICES ASSUME IInv, [Next]_vars,
                    NEW j \in Jobs, submission'[j] = "published",
                    ~Finalized(j)', DispatchAllowed(j)
             PROVE  HasUnackedEntry(j)'
  BY DEF WorkNotLost
<1>a. /\ StoreEffect /\ QueueEffect /\ TypeOK /\ QueueTypeOK /\ WorkNotLost
      /\ submission \in [Jobs -> {"new", "created", "published", "abandoned"}]
  BY StepEffects DEF IInv, TypeOK
<1>1. CASE submission[j] = "published"
  <2>1. ~Finalized(j)
    BY <1>a, FinalizationStays
  <2>2. HasUnackedEntry(j)
    BY <1>a, <1>1, <2>1 DEF WorkNotLost
  <2> QED
    BY <1>a, <2>2, WorkStays
<1>2. CASE submission[j] # "published"
  <2>1. PublishSubmitted(j)
    BY <1>a, <1>2
    DEF Next, ClientStep, SubmitJob, PublishSubmitted, AbandonSubmission,
        ReadQueuedJob, cancel_queued_job, request_cancel, WorkerMoves,
        HeartbeatBeats, WorkerAborts, RecoveryMoves, RecoveryAborts, TimePasses,
        clientVars, vars
  <2> QED
    BY <1>a, <2>1, PublishedIsUnacked DEF PublishSubmitted, HasUnackedEntry
<1> QED
  BY <1>1, <1>2

\* The four parts of the invariant together survive every step.
LEMMA NextIInv == IInv /\ [Next]_vars => IInv'
<1> SUFFICES ASSUME IInv, [Next]_vars PROVE IInv'
  OBVIOUS
<1>1. TypeOK'
  BY NextTypeOK DEF IInv
<1>2. TerminalStatusBacked'
  BY StepEffects, BackedStays DEF IInv
<1>3. HandoverSafe'
  BY NextHandoverSafe
<1>4. WorkNotLost'
  BY NextWorkNotLost
<1> QED
  BY <1>1, <1>2, <1>3, <1>4 DEF IInv

-----------------------------------------------------------------------------
(* Theorems *)

\* The inductive invariant holds in every reachable state.
THEOREM Invariance == Spec => []IInv
  BY InitIInv, NextIInv, PTL DEF Spec

\* No interleaving of workers, recovery passes, cancellations and crashes leaves
\* a published job that may be dispatched undecided and without a message that
\* the queue will deliver or recovery can find.
THEOREM WorkIsNeverLost == Spec => []WorkNotLost
<1>1. IInv => WorkNotLost
  BY DEF IInv
<1> QED
  BY <1>1, Invariance, PTL

\* Every acknowledgement, on each of the worker's and of recovery's paths, finds
\* its job decided or carried on by a later entry.
THEOREM HandoverIsSafe == Spec => []HandoverSafe
<1>1. IInv => HandoverSafe
  BY DEF IInv
<1> QED
  BY <1>1, Invariance, PTL

\* A terminal jobs.status is always the status of the job's finalization.
THEOREM TerminalStatusIsBacked == Spec => []TerminalStatusBacked
<1>1. IInv => TerminalStatusBacked
  BY DEF IInv
<1> QED
  BY <1>1, Invariance, PTL

\* Messages leave the pending list only after lifecycle state is recorded.
THEOREM AcksFollowRecords == Spec => AckAfterRecord
<1> DEFINE Step ==
      \A i \in pel \ pel' :
        LET j == stream[i].job IN
        DispatchAllowed(j) =>
          \/ Finalized(j)
          \/ \E k \in Entries : k > i /\ stream[k].job = j /\ Unacked(k)
<1>1. IInv /\ [Next]_vars => [Step]_vars
  <2> SUFFICES ASSUME IInv, [Next]_vars, NEW i \in pel \ pel'
               PROVE  Settled(i)
    BY DEF Settled
  <2>1. QueueTypeOK /\ QueueEffect /\ i \in 1 .. delivered
    BY StepEffects DEF IInv, TypeOK, QueueTypeOK
  <2>2. i \in Entries /\ Unacked(i)
    BY <2>1, EntryFields DEF Unacked
  <2>3. ~Unacked(i)'
    <3>1. delivered' >= delivered /\ delivered \in Nat /\ delivered' \in Nat
      <4>1. delivered' = delivered \/ delivered' = delivered + 1
        BY <2>1 DEF QueueEffect, publish_job, lease_jobs, acknowledge
      <4>2. delivered \in Nat
        BY <2>1 DEF QueueTypeOK
      <4> QED
        BY <4>1, <4>2
    <3> QED
      BY <2>1, <3>1 DEF Unacked
  <2> QED
    BY <2>1, <2>2, <2>3, UnackedStays
<1> QED
  BY <1>1, Invariance, PTL DEF Spec, AckAfterRecord

=============================================================================
