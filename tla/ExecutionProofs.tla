--------------------------- MODULE ExecutionProofs ---------------------------
(***************************************************************************)
(* What an execution leaves behind: the attempts of the messages, the      *)
(* artifacts of completed jobs, the dead letters, and who holds an entry.  *)
(*                                                                         *)
(* Each of these relates two tables, or a table and the stream, that the   *)
(* code writes in separate steps.  In between the worker or the pass knows *)
(* that the first has been written; WorkerHasRecorded and PassHasRecorded  *)
(* say so, and are what the invariants need to be inductive.               *)
(***************************************************************************)
EXTENDS LifecycleProofs

-----------------------------------------------------------------------------
(* The strengthening *)

\* job_events has a row of this type and attempt for the job.
Recorded(j, type, n) ==
  \E e \in DOMAIN events[j] : events[j][e].type = type /\ events[j][e].attempt = n

RetryRecorded(j, n) ==
  \E e \in DOMAIN events[j] :
    events[j][e].type \in RetryEventTypes /\ events[j][e].attempt = n

\* The artifact file of the attempt exists.
Written(j, n) == \E f \in artifacts : f.job = j /\ f.attempt = n

\* What a worker has made sure of before it records a completion, and before it
\* publishes the next attempt.
WorkerHasRecorded(w) ==
  /\ wpc[w] = "record" => Written(JobOf(w), AttemptOf(w))
  /\ wpc[w] = "publish" =>
       /\ AttemptOf(w) <= MaxRetries(JobOf(w))
       /\ AttemptOf(w) <= Policy.retry_budget
       /\ Recorded(JobOf(w), "retry_scheduled", AttemptOf(w))

\* What a recovery pass has made sure of before it publishes the next attempt,
\* and before it writes a dead letter.
PassHasRecorded(r) ==
  \A i \in rtodo[r] : AtLease(r, i) =>
    /\ rpc[r] = "publish" =>
         /\ stream[i].attempt <= MaxRetries(stream[i].job)
         /\ Recorded(stream[i].job, "stale_lease_recovered", stream[i].attempt)
    /\ rpc[r] = "dlq" => stream[i].attempt > MaxRetries(stream[i].job)

AttemptsPositive == \A i \in Entries : stream[i].attempt >= 1

\* AttemptJustified and BudgetBoundsRetries, of one entry
EntryJustified(i) ==
  stream[i].attempt > 1 =>
    /\ stream[i].attempt <= MaxRetries(stream[i].job) + 1
    /\ \E k \in 1 .. (i - 1) :
         stream[k] = [job |-> stream[i].job, attempt |-> stream[i].attempt - 1]
    /\ RetryRecorded(stream[i].job, stream[i].attempt - 1)

EntryInBudget(i) ==
  stream[i].attempt > Policy.retry_budget + 1 =>
    Recorded(stream[i].job, "stale_lease_recovered", stream[i].attempt - 1)

XInv ==
  /\ IInv
  /\ AttemptsPositive
  /\ AttemptJustified
  /\ BudgetBoundsRetries
  /\ CompletedHasArtifact
  /\ DeadLetterIsFinal
  /\ \A w \in Workers : WorkerHasRecorded(w)
  /\ \A r \in Recoverers : PassHasRecorded(r)

\* The two properties of the stream, entry by entry.
LEMMA EntryByEntry ==
  /\ AttemptJustified = \A i \in Entries : EntryJustified(i)
  /\ BudgetBoundsRetries = \A i \in Entries : EntryInBudget(i)
  BY DEF AttemptJustified, EntryJustified, BudgetBoundsRetries, EntryInBudget,
         Recorded, RetryRecorded

-----------------------------------------------------------------------------
(* The tables only grow *)

\* An appended event is there, and all the others still are.
LEMMA AppendRecords ==
  ASSUME TypeOK, NEW j \in Jobs, NEW type \in EventTypes, NEW a \in Nat,
         NEW b \in Nat, AppendEvent(j, type, a, b)
  PROVE  /\ Recorded(j, type, a)'
         /\ \A k \in Jobs : \A n \in DOMAIN events[k] :
              n \in DOMAIN events'[k] /\ events'[k][n] = events[k][n]
         /\ \A k \in Jobs : \A n \in DOMAIN events'[k] :
              \/ n \in DOMAIN events[k] /\ events'[k][n] = events[k][n]
              \/ k = j /\ events'[k][n].type = type /\ events'[k][n].attempt = a
<1> DEFINE e == [type |-> type, attempt |-> a, by |-> b]
           s == events[j]
<1>a. events \in [Jobs -> Seq(Event)]
  BY DEF TypeOK, StoreTypeOK
<1>1. e.type = type /\ e.attempt = a
  OBVIOUS
<1>2. /\ events'[j] = Append(s, e) /\ s \in Seq(Event) /\ e \in Event
      /\ \A k \in Jobs \ {j} : events'[k] = events[k]
  BY <1>a DEF AppendEvent, Event
<1> HIDE DEF e, s
<1>3. /\ DOMAIN Append(s, e) = DOMAIN s \cup {Len(s) + 1}
      /\ Append(s, e)[Len(s) + 1] = e
      /\ \A n \in DOMAIN s : Append(s, e)[n] = s[n]
  BY <1>2
<1>4. Recorded(j, type, a)'
  BY <1>1, <1>2, <1>3 DEF Recorded
<1>5. ASSUME NEW k \in Jobs, NEW n \in DOMAIN events[k]
      PROVE  n \in DOMAIN events'[k] /\ events'[k][n] = events[k][n]
  BY <1>2, <1>3 DEF s
<1>6. ASSUME NEW k \in Jobs, NEW n \in DOMAIN events'[k]
      PROVE  \/ n \in DOMAIN events[k] /\ events'[k][n] = events[k][n]
             \/ k = j /\ events'[k][n].type = type /\ events'[k][n].attempt = a
  BY <1>1, <1>2, <1>3 DEF s
<1> QED
  BY <1>4, <1>5, <1>6

\* No transaction of the code deletes or rewrites an event.
LEMMA EventsStay ==
  ASSUME TypeOK, StoreEffect, NEW j \in Jobs, NEW n \in DOMAIN events[j]
  PROVE  n \in DOMAIN events'[j] /\ events'[j][n] = events[j][n]
<1>a. /\ "submitted" \in EventTypes /\ TerminalEventTypes \subseteq EventTypes
      /\ 0 \in Nat
  BY DEF EventTypes, TerminalEventTypes
<1> DEFINE Stays == n \in DOMAIN events'[j] /\ events'[j][n] = events[j][n]
<1>1. CASE UNCHANGED events
  BY <1>1
<1>2. ASSUME NEW k \in Jobs, NEW t \in EventTypes, NEW a \in Nat, NEW b \in Nat,
             AppendEvent(k, t, a, b)
      PROVE  Stays
  BY <1>2, AppendRecords
<1>3. ASSUME NEW k \in Jobs, create_job(k) PROVE Stays
  BY <1>a, <1>2, <1>3 DEF create_job
<1>4. ASSUME NEW k \in Jobs, NEW st, NEW t \in EventTypes, NEW a \in Nat,
             NEW b \in Nat, record_state_event(k, st, t, a, b)
      PROVE  Stays
  BY <1>2, <1>4 DEF record_state_event
<1>5. ASSUME NEW k \in Jobs, NEW st, NEW t \in TerminalEventTypes, NEW a \in Nat,
             NEW b \in Nat, finalize_job(k, st, t, a, b)
      PROVE  Stays
  BY <1>a, <1>1, <1>2, <1>5 DEF finalize_job
<1> QED
  BY <1>1, <1>3, <1>4, <1>5 DEF StoreEffect, TablesUnchanged

\* What has been recorded stays recorded.
LEMMA RecordsStay ==
  ASSUME TypeOK, StoreEffect, NEW j \in Jobs, NEW n
  PROVE  /\ \A type : Recorded(j, type, n) => Recorded(j, type, n)'
         /\ RetryRecorded(j, n) => RetryRecorded(j, n)'
  BY EventsStay DEF Recorded, RetryRecorded

\* write_stub_job_artifact may replace a file, and no step removes one.
LEMMA FilesStay ==
  ASSUME [Next]_vars, NEW j, NEW n, Written(j, n)
  PROVE  Written(j, n)'
<1>1. CASE UNCHANGED artifacts
  BY <1>1 DEF Written
<1>2. ASSUME NEW w \in Workers, RunnerReturns(w) PROVE Written(j, n)'
  <2> DEFINE g == [job |-> JobOf(w), attempt |-> AttemptOf(w), by |-> wentry[w]]
  <2>1. PICK f \in artifacts : f.job = j /\ f.attempt = n
    BY DEF Written
  <2>2. /\ g \in artifacts' /\ g.job = JobOf(w) /\ g.attempt = AttemptOf(w)
        /\ f \in artifacts' \/ (f.job = JobOf(w) /\ f.attempt = AttemptOf(w))
    BY <1>2 DEF RunnerReturns, write_stub_job_artifact
  <2> HIDE DEF g
  <2> QED
    BY <2>1, <2>2 DEF Written
<1>3. ASSUME NEW w \in Workers, WorkerStep(w), ~RunnerReturns(w)
      PROVE  UNCHANGED artifacts
  BY <1>3
  DEF WorkerStep, Lease, LoadTerminal, AckTerminal, LoadBlocked, AckBlocked,
      CommitBlocked, record_running, record_completed, handle_policy_error,
      handle_timeout, handle_cancellation, record_retry_scheduled, PublishRetry,
      RetryOverBudget, RetriesExhausted, FinalizeAs, AckProcessed
<1>4. CASE \/ \E k \in Jobs : ClientStep(k)
           \/ \E w \in Workers : HeartbeatBeats(w) \/ WorkerAborts(w)
           \/ \E r \in Recoverers : RecoveryMoves(r) \/ RecoveryAborts(r)
           \/ \E i \in pel : TimePasses(i)
           \/ UNCHANGED vars
  <2>1. UNCHANGED artifacts
    BY <1>4
    DEF ClientStep, SubmitJob, PublishSubmitted, AbandonSubmission,
        ReadQueuedJob, cancel_queued_job, request_cancel, HeartbeatBeats,
        RenewLease, WorkerAborts, Abort, RecoveryMoves, RecoveryAborts,
        TimePasses, LeaseExpires, workerVars, vars
  <2> QED
    BY <1>1, <2>1
<1> QED
  BY <1>1, <1>2, <1>3, <1>4 DEF Next, WorkerMoves

-----------------------------------------------------------------------------
(* Where messages come from *)

\* A message is published by a client that submits, by a worker that has
\* recorded a retry, or by a pass that has recorded a recovery.
LEMMA PublishOrigin ==
  ASSUME [Next]_vars
  PROVE  \/ stream' = stream
         \/ \E j \in Jobs : PublishSubmitted(j)
         \/ \E w \in Workers : PublishRetry(w)
         \/ \E r \in Recoverers : \E i \in rtodo[r] : PublishRequeued(r, i)
<1>1. ASSUME NEW j \in Jobs, ClientStep(j), ~PublishSubmitted(j)
      PROVE  stream' = stream
  BY <1>1
  DEF ClientStep, SubmitJob, AbandonSubmission, ReadQueuedJob,
      cancel_queued_job, request_cancel, queueVars
<1>2. ASSUME NEW w \in Workers, WorkerStep(w), ~PublishRetry(w)
      PROVE  stream' = stream
  BY <1>2
  DEF WorkerStep, Lease, LoadTerminal, AckTerminal, LoadBlocked, AckBlocked,
      CommitBlocked, record_running, RunnerReturns, record_completed,
      handle_policy_error, handle_timeout, handle_cancellation,
      record_retry_scheduled, RetryOverBudget, RetriesExhausted, FinalizeAs,
      AckProcessed, lease_jobs, acknowledge, queueVars
<1>3. ASSUME NEW r \in Recoverers, RecoveryStep(r),
             ~\E i \in rtodo[r] : PublishRequeued(r, i)
      PROVE  stream' = stream
  BY <1>3
  DEF RecoveryStep, ListStaleLeases, PlanAcknowledge, PlanRequeue,
      PlanDeadLetter, MoveToDeadLetter, append_dead_letter,
      acknowledge_lease, acknowledge, queueVars
<1>4. CASE \/ \E w \in Workers : HeartbeatBeats(w) \/ WorkerAborts(w)
           \/ \E r \in Recoverers : RecoveryAborts(r)
           \/ \E k \in pel : TimePasses(k)
           \/ UNCHANGED vars
  BY <1>4 DEF HeartbeatBeats, RenewLease, renew_pending_lease, WorkerAborts,
              Abort, RecoveryAborts, AbortPass, TimePasses, LeaseExpires,
              lease_expires, queueVars, vars
<1> QED
  BY <1>1, <1>2, <1>3, <1>4 DEF Next, WorkerMoves, RecoveryMoves

\* The message of an entry names a job and an attempt.
LEMMA StreamEntry ==
  ASSUME QueueTypeOK, NEW i \in Entries
  PROVE  /\ stream[i] \in QueueJobMessage
         /\ stream[i].job \in Jobs /\ stream[i].attempt \in Nat
         /\ stream[i] = [job |-> stream[i].job, attempt |-> stream[i].attempt]
<1>1. stream[i] \in QueueJobMessage
  BY DEF QueueTypeOK, Entries
<1> QED
  BY <1>1 DEF QueueJobMessage

\* What holds of an entry goes on holding: the stream and the events only grow.
LEMMA OldEntries ==
  ASSUME TypeOK, StoreEffect, QueueEffect, NEW i \in Entries
  PROVE  /\ i \in Entries' /\ stream'[i] = stream[i]
         /\ EntryJustified(i) => EntryJustified(i)'
         /\ EntryInBudget(i) => EntryInBudget(i)'
<1>a. QueueTypeOK /\ Entries = 1 .. Len(stream) /\ Len(stream) \in Nat
  BY DEF TypeOK, QueueTypeOK, Entries
<1>b. \A k \in Entries : k \in Entries' /\ stream'[k] = stream[k]
  BY <1>a, EntriesStay
<1>c. stream[i].job \in Jobs
  BY <1>a, StreamEntry
<1> DEFINE j == stream[i].job
           n == stream[i].attempt - 1
<1>d. j \in Jobs /\ stream'[i].job = j /\ stream'[i].attempt - 1 = n
  BY <1>b, <1>c
<1>e. /\ RetryRecorded(j, n) => RetryRecorded(j, n)'
      /\ Recorded(j, "stale_lease_recovered", n)
           => Recorded(j, "stale_lease_recovered", n)'
  BY <1>b, <1>c, EventsStay DEF Recorded, RetryRecorded
<1>1. EntryJustified(i) => EntryJustified(i)'
  <2>1. \A k \in 1 .. (i - 1) : k \in Entries
    BY <1>a
  <2> QED
    BY <1>b, <1>d, <1>e, <2>1 DEF EntryJustified, RetryRecorded
<1>2. EntryInBudget(i) => EntryInBudget(i)'
  BY <1>b, <1>d, <1>e DEF EntryInBudget, Recorded
<1> QED
  BY <1>b, <1>1, <1>2

\* A first attempt needs no justification, and a later one has it in the entry
\* that it follows.
LEMMA NewEntry ==
  ASSUME TypeOK, StoreEffect, QueueEffect, TablesUnchanged,
         NEW j \in Jobs, NEW a \in Nat, publish_job(j, a),
         \/ a = 1
         \/ \E i \in Entries :
              /\ stream[i].job = j
              /\ a = stream[i].attempt + 1
              /\ stream[i].attempt <= MaxRetries(j)
              /\ RetryRecorded(j, stream[i].attempt)
              /\ \/ stream[i].attempt <= Policy.retry_budget
                 \/ Recorded(j, "stale_lease_recovered", stream[i].attempt),
         NEW m \in Entries' \ Entries
  PROVE  /\ stream'[m].attempt = a
         /\ EntryJustified(m)'
         /\ EntryInBudget(m)'
<1>a. /\ QueueTypeOK /\ Entries = 1 .. Len(stream) /\ Len(stream) \in Nat
      /\ Policy.retry_budget \in Nat /\ MaxRetries(j) \in Nat
      /\ UNCHANGED events
  BY PolicyAssumption, JobSpecAssumption
  DEF TypeOK, QueueTypeOK, Entries, BudgetPolicies, MaxRetries, JobSpecs,
      TablesUnchanged
<1>1. m = Len(stream) + 1 /\ stream'[m] = [job |-> j, attempt |-> a]
  BY <1>a DEF publish_job, QueueTypeOK, Entries
<1>2. stream'[m].job = j /\ stream'[m].attempt = a
  BY <1>1
<1>3. CASE a = 1
  BY <1>a, <1>2, <1>3 DEF EntryJustified, EntryInBudget
<1>4. ASSUME NEW i \in Entries,
             stream[i].job = j,
             a = stream[i].attempt + 1,
             stream[i].attempt <= MaxRetries(j),
             RetryRecorded(j, stream[i].attempt),
             \/ stream[i].attempt <= Policy.retry_budget
             \/ Recorded(j, "stale_lease_recovered", stream[i].attempt)
      PROVE  EntryJustified(m)' /\ EntryInBudget(m)'
  <2>1. /\ stream[i].attempt \in Nat
        /\ stream[i] = [job |-> stream[i].job, attempt |-> stream[i].attempt]
    BY <1>a, StreamEntry
  <2>2. stream[i] = [job |-> j, attempt |-> a - 1] /\ a - 1 = stream[i].attempt
    BY <1>4, <2>1
  <2>3. i \in 1 .. (m - 1) /\ stream'[i] = stream[i]
    BY <1>a, <1>1, EntriesStay
  <2>4. EntryJustified(m)'
    BY <1>2, <1>4, <1>a, <2>1, <2>2, <2>3 DEF EntryJustified, RetryRecorded
  <2>5. EntryInBudget(m)'
    BY <1>2, <1>4, <1>a, <2>1, <2>2 DEF EntryInBudget, Recorded
  <2> QED
    BY <2>4, <2>5
<1> QED
  BY <1>2, <1>3, <1>4

\* Attempts count up from one, each step of the count recorded and within the
\* limits: whoever publishes has checked them in an earlier transaction.
LEMMA NextAttempts ==
  ASSUME XInv, [Next]_vars
  PROVE  AttemptsPositive' /\ AttemptJustified' /\ BudgetBoundsRetries'
<1>a. /\ StoreEffect /\ QueueEffect /\ TypeOK /\ QueueTypeOK /\ AttemptsPositive
      /\ \A i \in Entries : EntryJustified(i) /\ EntryInBudget(i)
  BY StepEffects, EntryByEntry DEF XInv, IInv, TypeOK
<1> SUFFICES ASSUME NEW m \in Entries'
             PROVE  stream'[m].attempt >= 1 /\ EntryJustified(m)' /\ EntryInBudget(m)'
  BY DEF AttemptsPositive, AttemptJustified, EntryJustified,
         BudgetBoundsRetries, EntryInBudget, Recorded, RetryRecorded
<1>1. CASE m \in Entries
  BY <1>1, <1>a, OldEntries DEF AttemptsPositive
<1>2. CASE m \notin Entries
  <2>1. CASE stream' = stream
    BY <1>2, <2>1 DEF Entries
  <2>2. ASSUME NEW j \in Jobs, PublishSubmitted(j)
        PROVE  stream'[m].attempt >= 1 /\ EntryJustified(m)' /\ EntryInBudget(m)'
    <3>1. TablesUnchanged /\ publish_job(j, 1)
      BY <2>2 DEF PublishSubmitted, TablesUnchanged, storeVars
    <3> QED
      BY <1>a, <1>2, <3>1, NewEntry
  <2>3. ASSUME NEW w \in Workers, PublishRetry(w)
        PROVE  stream'[m].attempt >= 1 /\ EntryJustified(m)' /\ EntryInBudget(m)'
    <3>1. /\ TablesUnchanged /\ publish_job(JobOf(w), AttemptOf(w) + 1)
          /\ wpc[w] = "publish"
      BY <2>3 DEF PublishRetry, TablesUnchanged, storeVars
    <3>2. /\ wentry[w] \in Entries /\ JobOf(w) \in Jobs /\ AttemptOf(w) \in Nat
      BY <1>a, <3>1, HeldEntry
    <3>3. /\ AttemptOf(w) <= MaxRetries(JobOf(w))
          /\ AttemptOf(w) <= Policy.retry_budget
          /\ Recorded(JobOf(w), "retry_scheduled", AttemptOf(w))
      BY <3>1 DEF XInv, WorkerHasRecorded
    <3>4. RetryRecorded(JobOf(w), AttemptOf(w))
      BY <3>3 DEF Recorded, RetryRecorded, RetryEventTypes
    <3> DEFINE a == AttemptOf(w) + 1
    <3>5. a \in Nat /\ a >= 1 /\ publish_job(JobOf(w), a)
      BY <3>1, <3>2
    <3>6. \E i \in Entries :
              /\ stream[i].job = JobOf(w)
              /\ a = stream[i].attempt + 1
              /\ stream[i].attempt <= MaxRetries(JobOf(w))
              /\ RetryRecorded(JobOf(w), stream[i].attempt)
              /\ stream[i].attempt <= Policy.retry_budget
      BY <3>2, <3>3, <3>4 DEF JobOf, AttemptOf
    <3> HIDE DEF a
    <3> QED
      BY <1>a, <1>2, <3>1, <3>2, <3>5, <3>6, NewEntry
  <2>4. ASSUME NEW r \in Recoverers, NEW i \in rtodo[r], PublishRequeued(r, i)
        PROVE  stream'[m].attempt >= 1 /\ EntryJustified(m)' /\ EntryInBudget(m)'
    <3> DEFINE j == stream[i].job
               a == stream[i].attempt + 1
    <3>1. /\ TablesUnchanged /\ publish_job(j, a)
          /\ rpc[r] = "publish" /\ AtLease(r, i)
      BY <2>4 DEF PublishRequeued, TablesUnchanged, storeVars
    <3>2. i \in Entries /\ j \in Jobs /\ stream[i].attempt \in Nat
      BY <1>a, EntryFields DEF TypeOK, RecoveryTypeOK
    <3>3. /\ stream[i].attempt <= MaxRetries(j)
          /\ Recorded(j, "stale_lease_recovered", stream[i].attempt)
      BY <3>1 DEF XInv, PassHasRecorded
    <3>4. RetryRecorded(j, stream[i].attempt)
      BY <3>3 DEF Recorded, RetryRecorded, RetryEventTypes
    <3>5. a \in Nat /\ a >= 1
      BY <3>2
    <3>6. /\ stream[i].job = j /\ a = stream[i].attempt + 1
      OBVIOUS
    <3> HIDE DEF a, j
    <3> QED
      BY <1>a, <1>2, <3>1, <3>2, <3>3, <3>4, <3>5, <3>6, NewEntry
  <2> QED
    BY <2>1, <2>2, <2>3, <2>4, PublishOrigin
<1> QED
  BY <1>1, <1>2

-----------------------------------------------------------------------------
(* Completions and their artifacts *)

\* "completed" events are appended by record_completed alone.
LEMMA EventOrigin ==
  ASSUME TypeOK, [Next]_vars
  PROVE  \/ UNCHANGED events
         \/ \E k \in Jobs, type \in EventTypes \ {"completed"}, a \in Nat, b \in Nat :
              AppendEvent(k, type, a, b)
         \/ \E w \in Workers : record_completed(w)
<1> DEFINE Other == \E k \in Jobs, type \in EventTypes \ {"completed"},
                       a \in Nat, b \in Nat : AppendEvent(k, type, a, b)
<1>a. {"submitted", "running", "retry_scheduled", "stale_lease_recovered",
       "failed", "timed_out", "cancelled", "budget_blocked"}
        \subseteq EventTypes \ {"completed"}
  BY DEF EventTypes, TerminalEventTypes, TERMINAL_STATUSES, RetryEventTypes
<1>b. ASSUME NEW j \in Jobs, NEW st, NEW type \in EventTypes \ {"completed"},
             NEW a \in Nat, NEW b \in Nat, finalize_job(j, st, type, a, b)
      PROVE  UNCHANGED events \/ Other
  BY <1>b DEF finalize_job
<1>1. ASSUME NEW j \in Jobs, ClientStep(j) PROVE UNCHANGED events \/ Other
  <2>1. CASE SubmitJob(j)
    BY <1>a, <2>1 DEF SubmitJob, create_job
  <2>2. CASE cancel_queued_job(j)
    BY <1>a, <1>b, <2>2 DEF cancel_queued_job
  <2>3. CASE \/ PublishSubmitted(j) \/ AbandonSubmission(j)
             \/ ReadQueuedJob(j) \/ request_cancel(j)
    BY <2>3 DEF PublishSubmitted, AbandonSubmission, ReadQueuedJob,
                request_cancel, storeVars
  <2> QED
    BY <1>1, <2>1, <2>2, <2>3 DEF ClientStep
<1>2. ASSUME NEW w \in Workers, WorkerStep(w), ~record_completed(w)
      PROVE  UNCHANGED events \/ Other
  <2>a. wpc[w] # "idle" =>
          /\ JobOf(w) \in Jobs /\ AttemptOf(w) \in Nat /\ wentry[w] \in Nat
    BY HeldEntry
  <2>1. CASE record_running(w) \/ record_retry_scheduled(w)
    BY <1>a, <2>a, <2>1
    DEF record_running, record_retry_scheduled, record_state_event
  <2>2. CASE CommitBlocked(w)
    BY <1>a, <1>b, <2>a, <2>2 DEF CommitBlocked
  <2>3. ASSUME NEW outcome, NEW st, NEW type \in EventTypes \ {"completed"},
               FinalizeAs(w, outcome, st, type)
        PROVE  UNCHANGED events \/ Other
    BY <1>b, <2>a, <2>3 DEF FinalizeAs
  <2>4. CASE \/ Lease(w) \/ LoadTerminal(w) \/ AckTerminal(w) \/ LoadBlocked(w)
             \/ AckBlocked(w) \/ RunnerReturns(w) \/ PublishRetry(w)
             \/ AckProcessed(w)
    BY <2>4 DEF Lease, LoadTerminal, AckTerminal, LoadBlocked, AckBlocked,
                RunnerReturns, PublishRetry, AckProcessed, storeVars
  <2> QED
    BY <1>a, <1>2, <2>1, <2>2, <2>3, <2>4
    DEF WorkerStep, handle_policy_error, handle_timeout, handle_cancellation,
        RetryOverBudget, RetriesExhausted
<1>3. ASSUME NEW r \in Recoverers, RecoveryStep(r) PROVE UNCHANGED events \/ Other
  <2>1. CASE ListStaleLeases(r)
    BY <2>1 DEF ListStaleLeases, storeVars
  <2>2. ASSUME NEW i \in rtodo[r]
        PROVE  /\ i \in Nat /\ stream[i].job \in Jobs
               /\ stream[i].attempt \in Nat
    BY EntryFields DEF TypeOK, RecoveryTypeOK
  <2>3. ASSUME NEW i \in rtodo[r], PlanRequeue(r, i)
        PROVE  UNCHANGED events \/ Other
    BY <1>a, <2>2, <2>3 DEF PlanRequeue, record_state_event
  <2>4. ASSUME NEW i \in rtodo[r], PlanDeadLetter(r, i)
        PROVE  UNCHANGED events \/ Other
    BY <1>a, <1>b, <2>2, <2>4 DEF PlanDeadLetter
  <2>5. ASSUME NEW i \in rtodo[r],
               \/ PlanAcknowledge(r, i) \/ PublishRequeued(r, i)
               \/ MoveToDeadLetter(r, i) \/ acknowledge_lease(r, i)
        PROVE  UNCHANGED events
    BY <2>5 DEF PlanAcknowledge, PublishRequeued, MoveToDeadLetter,
                acknowledge_lease, storeVars
  <2> QED
    BY <1>3, <2>1, <2>3, <2>4, <2>5 DEF RecoveryStep
<1>4. CASE \/ \E w \in Workers : HeartbeatBeats(w) \/ WorkerAborts(w)
           \/ \E r \in Recoverers : RecoveryAborts(r)
           \/ \E i \in pel : TimePasses(i)
           \/ UNCHANGED vars
  BY <1>4 DEF HeartbeatBeats, RenewLease, WorkerAborts, Abort, RecoveryAborts,
              AbortPass, TimePasses, LeaseExpires, storeVars, vars
<1> QED
  BY <1>1, <1>2, <1>3, <1>4 DEF Next, WorkerMoves, RecoveryMoves

\* Every completed event keeps its artifact, and a new one comes from a worker
\* that has written the file in the step before.
LEMMA NextCompleted ==
  ASSUME XInv, [Next]_vars
  PROVE  CompletedHasArtifact'
<1>a. TypeOK /\ CompletedHasArtifact
  BY DEF XInv, IInv
<1> SUFFICES ASSUME NEW j \in Jobs, NEW e \in DOMAIN events'[j],
                    events'[j][e].type = "completed",
                    NEW n, n = events'[j][e].attempt
             PROVE  Written(j, n)'
  BY DEF CompletedHasArtifact, Written
<1>1. CASE e \in DOMAIN events[j] /\ events'[j][e] = events[j][e]
  <2>1. Written(j, n)
    BY <1>a, <1>1 DEF CompletedHasArtifact, Written
  <2> QED
    BY <2>1, FilesStay
<1>2. CASE UNCHANGED events
  BY <1>1, <1>2
<1>3. ASSUME NEW k \in Jobs, NEW type \in EventTypes \ {"completed"},
             NEW a \in Nat, NEW b \in Nat, AppendEvent(k, type, a, b)
      PROVE  Written(j, n)'
  BY <1>a, <1>1, <1>3, AppendRecords
<1>4. ASSUME NEW w \in Workers, record_completed(w)
      PROVE  Written(j, n)'
  <2>1. /\ JobOf(w) \in Jobs /\ AttemptOf(w) \in Nat /\ wentry[w] \in Nat
        /\ "completed" \in EventTypes
    BY <1>a, <1>4, HeldEntry
    DEF record_completed, EventTypes, TerminalEventTypes, TERMINAL_STATUSES
  <2>2. Written(JobOf(w), AttemptOf(w)) /\ UNCHANGED artifacts
    BY <1>4 DEF record_completed, XInv, WorkerHasRecorded
  <2>3. CASE UNCHANGED events
    BY <1>2, <2>3
  <2>4. CASE AppendEvent(JobOf(w), "completed", AttemptOf(w), wentry[w])
    <3>1. \/ e \in DOMAIN events[j] /\ events'[j][e] = events[j][e]
          \/ j = JobOf(w) /\ n = AttemptOf(w)
      BY <1>a, <2>1, <2>4, AppendRecords
    <3> QED
      BY <1>1, <2>2, <3>1 DEF Written
  <2> QED
    BY <1>4, <2>3, <2>4 DEF record_completed, finalize_job
<1> QED
  BY <1>a, <1>2, <1>3, <1>4, EventOrigin

-----------------------------------------------------------------------------
(* Dead letters *)

\* Only recovery writes dead letters.
LEMMA DeadLetterOrigin ==
  ASSUME [Next]_vars
  PROVE  \/ dlq' = dlq
         \/ \E r \in Recoverers : \E i \in rtodo[r] : MoveToDeadLetter(r, i)
<1>1. ASSUME NEW j \in Jobs, ClientStep(j) PROVE dlq' = dlq
  BY <1>1
  DEF ClientStep, SubmitJob, PublishSubmitted, AbandonSubmission, ReadQueuedJob,
      cancel_queued_job, request_cancel, publish_job, queueVars
<1>2. ASSUME NEW w \in Workers, WorkerStep(w) PROVE dlq' = dlq
  BY <1>2
  DEF WorkerStep, Lease, LoadTerminal, AckTerminal, LoadBlocked, AckBlocked,
      CommitBlocked, record_running, RunnerReturns, record_completed,
      handle_policy_error, handle_timeout, handle_cancellation,
      record_retry_scheduled, PublishRetry, RetryOverBudget, RetriesExhausted,
      FinalizeAs, AckProcessed, lease_jobs, acknowledge, publish_job, queueVars
<1>3. ASSUME NEW r \in Recoverers, RecoveryStep(r),
             ~\E i \in rtodo[r] : MoveToDeadLetter(r, i)
      PROVE  dlq' = dlq
  BY <1>3
  DEF RecoveryStep, ListStaleLeases, PlanAcknowledge, PlanRequeue,
      PlanDeadLetter, PublishRequeued, publish_job, acknowledge_lease,
      acknowledge, queueVars
<1>4. CASE \/ \E w \in Workers : HeartbeatBeats(w) \/ WorkerAborts(w)
           \/ \E r \in Recoverers : RecoveryAborts(r)
           \/ \E k \in pel : TimePasses(k)
           \/ UNCHANGED vars
  BY <1>4 DEF HeartbeatBeats, RenewLease, renew_pending_lease, WorkerAborts,
              Abort, RecoveryAborts, AbortPass, TimePasses, LeaseExpires,
              lease_expires, queueVars, vars
<1> QED
  BY <1>1, <1>2, <1>3, <1>4 DEF Next, WorkerMoves, RecoveryMoves

\* A dead letter is written for a job that its pass has finalized, and for the
\* attempt after the last one that the retry limit allows to be requeued.
LEMMA NextDeadLetters ==
  ASSUME XInv, [Next]_vars
  PROVE  DeadLetterIsFinal'
<1>a. /\ TypeOK /\ QueueTypeOK /\ StoreEffect /\ DeadLetterIsFinal
      /\ dlq \in Seq(QueueJobMessage)
  BY StepEffects DEF XInv, IInv, TypeOK, QueueTypeOK
<1> DEFINE Final(d) == /\ finalization'[d.job].status # "none"
                       /\ d.attempt = MaxRetries(d.job) + 1
<1>1. ASSUME NEW d \in DOMAIN dlq PROVE Final(dlq[d])
  <2>1. dlq[d] \in QueueJobMessage
    BY <1>a
  <2>2. dlq[d].job \in Jobs
    BY <2>1 DEF QueueJobMessage
  <2> QED
    BY <1>a, <2>2, FinalizationStays DEF DeadLetterIsFinal, Finalized
<1>2. CASE dlq' = dlq
  BY <1>1, <1>2 DEF DeadLetterIsFinal, Finalized
<1>3. ASSUME NEW r \in Recoverers, NEW i \in rtodo[r], MoveToDeadLetter(r, i)
      PROVE  DeadLetterIsFinal'
  <2> DEFINE j == stream[i].job
             m == [job |-> j, attempt |-> stream[i].attempt]
  <2>1. /\ rpc[r] = "dlq" /\ AtLease(r, i) /\ dlq' = Append(dlq, m)
        /\ UNCHANGED finalization
    BY <1>3 DEF MoveToDeadLetter, append_dead_letter, storeVars
  <2>2. i \in Entries /\ j \in Jobs /\ stream[i].attempt \in Nat
    BY <1>a, EntryFields DEF TypeOK, RecoveryTypeOK
  <2>3. Finalized(j) /\ stream[i].attempt > MaxRetries(j)
    BY <2>1 DEF XInv, IInv, HandoverSafe, PassMayAck, PassHasRecorded
  <2>4. stream[i].attempt <= MaxRetries(j) + 1
    <3>1. EntryJustified(i)
      BY <2>2, EntryByEntry DEF XInv
    <3>2. MaxRetries(j) \in Nat
      BY <2>2, JobSpecAssumption DEF MaxRetries, JobSpecs
    <3> QED
      BY <2>2, <3>1, <3>2 DEF EntryJustified
  <2>5. MaxRetries(j) \in Nat
    BY <2>2, JobSpecAssumption DEF MaxRetries, JobSpecs
  <2>6. Final(m) /\ m \in QueueJobMessage
    BY <2>1, <2>2, <2>3, <2>4, <2>5 DEF Finalized, QueueJobMessage
  <2> HIDE DEF m
  <2>7. \A d \in DOMAIN dlq' : dlq'[d] = m \/ (d \in DOMAIN dlq /\ dlq'[d] = dlq[d])
    BY <1>a, <2>1, <2>6
  <2>8. \A d \in DOMAIN dlq' : Final(dlq'[d])
    BY <1>1, <2>6, <2>7
  <2> QED
    BY <2>8 DEF DeadLetterIsFinal, Finalized
<1> QED
  BY <1>2, <1>3, DeadLetterOrigin

-----------------------------------------------------------------------------
(* What workers and passes have recorded *)

\* A worker takes a step of process_one, dies, or is left as it was.
LEMMA OneMover ==
  ASSUME TypeOK, [Next]_vars, NEW w \in Workers
  PROVE  \/ WorkerStep(w)
         \/ wpc'[w] = wpc[w] /\ wentry'[w] = wentry[w]
         \/ wpc'[w] = "idle" /\ wentry'[w] = 0
<1>a. wpc \in [Workers -> WorkerPcs] /\ wentry \in [Workers -> Nat]
  BY DEF TypeOK, WorkerTypeOK
<1>1. ASSUME NEW v \in Workers, v # w, WorkerStep(v)
      PROVE  wpc'[w] = wpc[w] /\ wentry'[w] = wentry[w]
  BY <1>a, <1>1
  DEF WorkerStep, Lease, LoadTerminal, AckTerminal, LoadBlocked, AckBlocked,
      CommitBlocked, record_running, RunnerReturns, record_completed,
      handle_policy_error, handle_timeout, handle_cancellation,
      record_retry_scheduled, PublishRetry, RetryOverBudget, RetriesExhausted,
      FinalizeAs, AckProcessed, GoTo, Return
<1>2. ASSUME NEW v \in Workers, WorkerAborts(v)
      PROVE  \/ wpc'[w] = wpc[w] /\ wentry'[w] = wentry[w]
             \/ wpc'[w] = "idle" /\ wentry'[w] = 0
  BY <1>a, <1>2 DEF WorkerAborts, Abort, Return
<1>3. CASE \/ \E j \in Jobs : ClientStep(j)
           \/ \E v \in Workers : HeartbeatBeats(v)
           \/ \E r \in Recoverers : RecoveryMoves(r) \/ RecoveryAborts(r)
           \/ \E i \in pel : TimePasses(i)
           \/ UNCHANGED vars
  BY <1>3
  DEF ClientStep, SubmitJob, PublishSubmitted, AbandonSubmission,
      ReadQueuedJob, cancel_queued_job, request_cancel, HeartbeatBeats,
      RenewLease, RecoveryMoves, RecoveryAborts, TimePasses, LeaseExpires,
      workerVars, vars
<1> QED
  BY <1>1, <1>2, <1>3 DEF Next, WorkerMoves

\* A pass takes a step, ends, or is left as it was.
LEMMA OnePassMoves ==
  ASSUME TypeOK, [Next]_vars, NEW r \in Recoverers
  PROVE  \/ RecoveryStep(r)
         \/ rpc'[r] = rpc[r] /\ rtodo'[r] = rtodo[r]
         \/ rpc'[r] = "idle"
<1>a. /\ rpc \in [Recoverers -> RecoveryPcs]
      /\ rtodo \in [Recoverers -> SUBSET (1 .. delivered)]
  BY DEF TypeOK, RecoveryTypeOK
<1>1. ASSUME NEW q \in Recoverers, q # r, RecoveryStep(q)
      PROVE  rpc'[r] = rpc[r] /\ rtodo'[r] = rtodo[r]
  BY <1>a, <1>1
  DEF RecoveryStep, ListStaleLeases, PlanAcknowledge, PlanRequeue,
      PlanDeadLetter, PublishRequeued, MoveToDeadLetter, acknowledge_lease,
      Proceed
<1>2. ASSUME NEW q \in Recoverers, RecoveryAborts(q)
      PROVE  \/ rpc'[r] = rpc[r] /\ rtodo'[r] = rtodo[r]
             \/ rpc'[r] = "idle"
  BY <1>a, <1>2 DEF RecoveryAborts, AbortPass
<1>3. CASE \/ \E j \in Jobs : ClientStep(j)
           \/ \E w \in Workers : \/ WorkerMoves(w) \/ HeartbeatBeats(w)
                                 \/ WorkerAborts(w)
           \/ \E i \in pel : TimePasses(i)
           \/ UNCHANGED vars
  BY <1>3
  DEF ClientStep, SubmitJob, PublishSubmitted, AbandonSubmission,
      ReadQueuedJob, cancel_queued_job, request_cancel, HeartbeatBeats,
      WorkerMoves, WorkerAborts, TimePasses, recoveryVars, vars
<1> QED
  BY <1>1, <1>2, <1>3 DEF Next, RecoveryMoves

\* A worker reaches "record" through the artifact and "publish" through the
\* committed retry, and what it then knows outlives everybody else's steps.
LEMMA NextWorkerHasRecorded ==
  ASSUME XInv, [Next]_vars, NEW w \in Workers
  PROVE  WorkerHasRecorded(w)'
<1>a. /\ TypeOK /\ QueueTypeOK /\ StoreEffect /\ QueueEffect /\ WorkerHasRecorded(w)
      /\ wpc \in [Workers -> WorkerPcs] /\ wentry \in [Workers -> Nat]
  BY StepEffects DEF XInv, IInv, TypeOK, WorkerTypeOK
<1>b. wpc[w] # "idle" =>
        /\ wentry[w] \in Entries /\ JobOf(w) \in Jobs /\ AttemptOf(w) \in Nat
        /\ wentry[w] \in Nat
        /\ stream'[wentry[w]] = stream[wentry[w]]
  BY <1>a, HeldEntry, EntriesStay
<1>1. CASE wpc'[w] = wpc[w] /\ wentry'[w] = wentry[w] /\ wpc[w] # "idle"
  <2> SUFFICES ASSUME NEW j, NEW a, j = JobOf(w), a = AttemptOf(w)
               PROVE  /\ wpc[w] = "record" => Written(j, a)'
                      /\ wpc[w] = "publish" =>
                           /\ a <= MaxRetries(j) /\ a <= Policy.retry_budget
                           /\ Recorded(j, "retry_scheduled", a)'
    BY <1>b, <1>1 DEF WorkerHasRecorded, JobOf, AttemptOf, Written, Recorded
  <2>1. wpc[w] = "record" => Written(j, a)'
    BY <1>a, FilesStay DEF WorkerHasRecorded
  <2>2. wpc[w] = "publish" => Recorded(j, "retry_scheduled", a)'
    BY <1>a, <1>b, <1>1, RecordsStay DEF WorkerHasRecorded
  <2> QED
    BY <1>a, <2>1, <2>2 DEF WorkerHasRecorded
<1>2. CASE wpc'[w] \notin {"record", "publish"}
  BY <1>2 DEF WorkerHasRecorded
<1>3. CASE RunnerReturns(w)
  <2> DEFINE g == [job |-> JobOf(w), attempt |-> AttemptOf(w), by |-> wentry[w]]
  <2>1. /\ wpc'[w] = "record" /\ wentry'[w] = wentry[w] /\ stream' = stream
        /\ g \in artifacts' /\ g.job = JobOf(w) /\ g.attempt = AttemptOf(w)
    BY <1>a, <1>3
    DEF RunnerReturns, GoTo, write_stub_job_artifact, queueVars
  <2> HIDE DEF g
  <2> QED
    BY <2>1 DEF WorkerHasRecorded, Written, JobOf, AttemptOf
<1>4. CASE record_retry_scheduled(w)
  <2>1. /\ wpc'[w] = "publish" /\ wentry'[w] = wentry[w] /\ stream' = stream
        /\ wpc[w] # "idle"
        /\ AttemptOf(w) <= MaxRetries(JobOf(w))
        /\ AppendEvent(JobOf(w), "retry_scheduled", AttemptOf(w), wentry[w])
        /\ validate_retry(Policy, AttemptOf(w) + 1)
    BY <1>a, <1>4
    DEF record_retry_scheduled, record_state_event, GoTo, queueVars
  <2>2. AttemptOf(w) <= Policy.retry_budget
    BY <1>b, <2>1, PolicyAssumption DEF BudgetPolicies, validate_retry
  <2>3. \E e \in DOMAIN events'[JobOf(w)] :
          /\ events'[JobOf(w)][e].type = "retry_scheduled"
          /\ events'[JobOf(w)][e].attempt = AttemptOf(w)
    <3>1. "retry_scheduled" \in EventTypes
      BY DEF EventTypes, RetryEventTypes
    <3>2. PICK k \in Jobs, a \in Nat : k = JobOf(w) /\ a = AttemptOf(w)
      BY <1>b, <2>1
    <3>3. Recorded(k, "retry_scheduled", a)'
      BY <1>a, <1>b, <2>1, <3>1, <3>2, AppendRecords
    <3> QED
      BY <3>2, <3>3 DEF Recorded
  <2> QED
    BY <2>1, <2>2, <2>3 DEF WorkerHasRecorded, Recorded, JobOf, AttemptOf
<1>5. ASSUME WorkerStep(w), ~RunnerReturns(w), ~record_retry_scheduled(w)
      PROVE  wpc'[w] \notin {"record", "publish"}
  BY <1>a, <1>5
  DEF WorkerStep, Lease, LoadTerminal, AckTerminal, LoadBlocked, AckBlocked,
      CommitBlocked, record_running, record_completed, handle_policy_error,
      handle_timeout, handle_cancellation, PublishRetry, RetryOverBudget,
      RetriesExhausted, FinalizeAs, AckProcessed, GoTo, Return
<1> QED
  BY <1>a, <1>1, <1>2, <1>3, <1>4, <1>5, OneMover

\* A pass reaches "publish" through the committed recovery event and "dlq"
\* because the attempt is the last one.
LEMMA NextPassHasRecorded ==
  ASSUME XInv, [Next]_vars, NEW r \in Recoverers
  PROVE  PassHasRecorded(r)'
<1>a. /\ TypeOK /\ QueueTypeOK /\ StoreEffect /\ QueueEffect /\ PassHasRecorded(r)
      /\ rpc \in [Recoverers -> RecoveryPcs]
      /\ rtodo \in [Recoverers -> SUBSET (1 .. delivered)]
  BY StepEffects DEF XInv, IInv, TypeOK, RecoveryTypeOK
<1>b. ASSUME NEW i \in rtodo[r]
      PROVE  /\ i \in Entries /\ i \in Nat
             /\ stream[i].job \in Jobs /\ stream[i].attempt \in Nat
             /\ stream'[i] = stream[i]
  BY <1>a, EntryFields, EntriesStay
<1>1. CASE rpc'[r] = rpc[r] /\ rtodo'[r] = rtodo[r]
  <2> SUFFICES ASSUME NEW i \in rtodo[r], AtLease(r, i),
                      NEW j, NEW a, j = stream[i].job, a = stream[i].attempt
               PROVE  /\ rpc[r] = "publish" =>
                           a <= MaxRetries(j) /\ Recorded(j, "stale_lease_recovered", a)'
                      /\ rpc[r] = "dlq" => a > MaxRetries(j)
    BY <1>b, <1>1 DEF PassHasRecorded, AtLease, Recorded
  <2> QED
    BY <1>a, <1>b, RecordsStay DEF PassHasRecorded
<1>2. CASE rpc'[r] \notin {"publish", "dlq"}
  BY <1>2 DEF PassHasRecorded
<1>3. ASSUME NEW i \in rtodo[r], PlanRequeue(r, i)
      PROVE  PassHasRecorded(r)'
  <2> DEFINE j == stream[i].job
             a == stream[i].attempt
  <2>1. /\ rpc'[r] = "publish" /\ rtodo'[r] = rtodo[r] /\ stream' = stream
        /\ AtLease(r, i) /\ a <= MaxRetries(j)
        /\ AppendEvent(j, "stale_lease_recovered", a, i)
    BY <1>a, <1>3
    DEF PlanRequeue, record_state_event, Proceed, queueVars
  <2>2. \A k \in rtodo[r] : AtLease(r, k)' => k = i
    BY <1>b, <2>1 DEF AtLease
  <2>3. \E e \in DOMAIN events'[j] :
          /\ events'[j][e].type = "stale_lease_recovered"
          /\ events'[j][e].attempt = a
    <3>1. "stale_lease_recovered" \in EventTypes
      BY DEF EventTypes, RetryEventTypes
    <3>2. PICK k \in Jobs, n \in Nat : k = j /\ n = a
      BY <1>b
    <3>3. Recorded(k, "stale_lease_recovered", n)'
      BY <1>a, <1>b, <2>1, <3>1, <3>2, AppendRecords
    <3> QED
      BY <3>2, <3>3 DEF Recorded
  <2> QED
    BY <2>1, <2>2, <2>3 DEF PassHasRecorded, Recorded
<1>4. ASSUME NEW i \in rtodo[r], PlanDeadLetter(r, i)
      PROVE  PassHasRecorded(r)'
  <2>1. /\ rpc'[r] = "dlq" /\ rtodo'[r] = rtodo[r] /\ stream' = stream
        /\ AtLease(r, i) /\ stream[i].attempt > MaxRetries(stream[i].job)
    BY <1>a, <1>4 DEF PlanDeadLetter, Proceed, queueVars
  <2>2. \A k \in rtodo[r] : AtLease(r, k)' => k = i
    BY <1>b, <2>1 DEF AtLease
  <2> QED
    BY <2>1, <2>2 DEF PassHasRecorded
<1>5. ASSUME RecoveryStep(r),
             ~\E i \in rtodo[r] : PlanRequeue(r, i) \/ PlanDeadLetter(r, i)
      PROVE  rpc'[r] \notin {"publish", "dlq"}
  BY <1>a, <1>5
  DEF RecoveryStep, ListStaleLeases, PlanAcknowledge, PublishRequeued,
      MoveToDeadLetter, acknowledge_lease, Proceed
<1> QED
  BY <1>a, <1>1, <1>2, <1>3, <1>4, <1>5, OnePassMoves

-----------------------------------------------------------------------------
(* The theorems *)

\* Nothing is published, executed or dead-lettered at first.
LEMMA InitXInv == Init => XInv
<1> SUFFICES ASSUME Init PROVE XInv
  OBVIOUS
<1>1. IInv
  BY InitIInv
<1>2. Entries = {} /\ DOMAIN dlq = {} /\ \A j \in Jobs : DOMAIN events[j] = {}
  BY DEF Init, QueueInit, StoreInit, Entries
<1>3. /\ AttemptsPositive /\ AttemptJustified /\ BudgetBoundsRetries
      /\ CompletedHasArtifact /\ DeadLetterIsFinal
  BY <1>2 DEF AttemptsPositive, AttemptJustified, BudgetBoundsRetries,
              CompletedHasArtifact, DeadLetterIsFinal
<1>4. /\ \A w \in Workers : WorkerHasRecorded(w)
      /\ \A r \in Recoverers : PassHasRecorded(r)
  BY DEF Init, WorkerInit, RecoveryInit, WorkerHasRecorded, PassHasRecorded
<1> QED
  BY <1>1, <1>3, <1>4 DEF XInv

\* The parts of the strengthened invariant together survive every step.
LEMMA NextXInv == XInv /\ [Next]_vars => XInv'
<1> SUFFICES ASSUME XInv, [Next]_vars PROVE XInv'
  OBVIOUS
<1>1. IInv'
  BY NextIInv DEF XInv
<1>2. AttemptsPositive' /\ AttemptJustified' /\ BudgetBoundsRetries'
  BY NextAttempts
<1>3. CompletedHasArtifact' /\ DeadLetterIsFinal'
  BY NextCompleted, NextDeadLetters
<1>4. \A w \in Workers : WorkerHasRecorded(w)'
  BY NextWorkerHasRecorded
<1>5. \A r \in Recoverers : PassHasRecorded(r)'
  BY NextPassHasRecorded
<1> QED
  BY <1>1, <1>2, <1>3, <1>4, <1>5 DEF XInv

\* The strengthened invariant holds in every reachable state.
THEOREM ExecutionInvariance == Spec => []XInv
  BY InitXInv, NextXInv, PTL DEF Spec

\* However often workers and recovery race to publish the next attempt of a job,
\* each message of a later attempt follows one of the attempt before it, was
\* recorded before it was published, and is within the job's retry limit.
THEOREM AttemptsAreJustified == Spec => []AttemptJustified
<1>1. XInv => AttemptJustified
  BY DEF XInv
<1> QED
  BY <1>1, ExecutionInvariance, PTL

\* Only recovery exceeds the retry budget of the policy.
THEOREM BudgetBoundsWorkers == Spec => []BudgetBoundsRetries
<1>1. XInv => BudgetBoundsRetries
  BY DEF XInv
<1> QED
  BY <1>1, ExecutionInvariance, PTL

\* A completed event always has the artifact file of its attempt.
THEOREM CompletionsHaveArtifacts == Spec => []CompletedHasArtifact
<1>1. XInv => CompletedHasArtifact
  BY DEF XInv
<1> QED
  BY <1>1, ExecutionInvariance, PTL

\* Dead letters are those of finalized jobs, on exactly the last attempt.
THEOREM DeadLettersAreFinal == Spec => []DeadLetterIsFinal
<1>1. XInv => DeadLetterIsFinal
  BY DEF XInv
<1> QED
  BY <1>1, ExecutionInvariance, PTL

\* A worker is given an entry that the group has given to nobody yet, so no two
\* workers ever hold the same one.
LEMMA NextEntryHeldOnce ==
  ASSUME TypeOK, EntryHeldOnce, [Next]_vars
  PROVE  EntryHeldOnce'
<1>a. /\ wpc \in [Workers -> WorkerPcs] /\ wentry \in [Workers -> Nat]
      /\ delivered \in Nat
      /\ \A w \in Workers : wentry[w] \in 0 .. delivered
  BY DEF TypeOK, WorkerTypeOK, QueueTypeOK
<1>b. ASSUME NEW w \in Workers
      PROVE  \/ Lease(w) /\ wentry'[w] = delivered + 1
             \/ wentry'[w] = wentry[w]
             \/ wentry'[w] = 0
  <2>1. CASE WorkerStep(w)
    BY <1>a, <2>1
    DEF WorkerStep, Lease, LoadTerminal, AckTerminal, LoadBlocked, AckBlocked,
        CommitBlocked, record_running, RunnerReturns, record_completed,
        handle_policy_error, handle_timeout, handle_cancellation,
        record_retry_scheduled, PublishRetry, RetryOverBudget, RetriesExhausted,
        FinalizeAs, AckProcessed, GoTo, Return
  <2> QED
    BY <2>1, OneMover
<1>c. ASSUME NEW v \in Workers, NEW w \in Workers, v # w, Lease(v)
      PROVE  wentry'[w] = wentry[w]
  BY <1>a, <1>c DEF Lease
<1> SUFFICES ASSUME NEW v \in Workers, NEW w \in Workers, v # w, wentry'[v] # 0
             PROVE  wentry'[v] # wentry'[w]
  BY DEF EntryHeldOnce
<1>1. CASE Lease(v)
  BY <1>a, <1>b, <1>c, <1>1 DEF Lease
<1>2. CASE Lease(w)
  BY <1>a, <1>b, <1>c, <1>2 DEF Lease
<1>3. CASE ~Lease(v) /\ ~Lease(w)
  BY <1>b, <1>3 DEF EntryHeldOnce
<1> QED
  BY <1>1, <1>2, <1>3

\* Delivery is exclusive: recovery, which settles entries without holding them,
\* never puts one into a second worker's hands.
THEOREM EntriesAreHeldOnce == Spec => []EntryHeldOnce
<1>1. Init => EntryHeldOnce
  BY DEF Init, WorkerInit, EntryHeldOnce
<1> QED
  BY <1>1, TypeCorrect, NextEntryHeldOnce, PTL DEF Spec
=============================================================================
