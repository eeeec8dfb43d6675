--------------------------- MODULE SubmissionProofs ---------------------------
(***************************************************************************)
(* Callers that share idempotency keys keep what RuntimeGridProofs shows of *)
(* single submissions.  Every step of a caller is one that a client of     *)
(* RuntimeGrid takes, with two exceptions: a caller that publishes a job   *)
(* once more, and one that dies.  The inductive invariant IInv survives    *)
(* both, so that its proof carries over to SSpec, and the properties of    *)
(* the callers follow from it and from what each caller knows.             *)
(***************************************************************************)
EXTENDS Submitters, LifecycleProofs

-----------------------------------------------------------------------------
(* The strengthening *)

CallPcs == {"idle", "inserting", "publishing", "returned", "conflict", "failed"}

CallersTypeOK ==
  /\ call \in [Callers -> CallPcs]
  /\ DOMAIN payload = Jobs

\* jobs.payload_hash is written with the row, and a client cancels a row.
RowsHavePayload ==
  \A j \in Jobs :
    /\ payload[j] = NoPayload <=> status[j] = "absent"
    /\ status[j] # "absent" => submission[j] \in {"created", "published"}
    /\ cancellation[j] = "read" => status[j] # "absent"

\* A caller goes on to publish only a job of its own payload.
CallerKnows(c) ==
  /\ call[c] \in {"publishing", "returned"} => payload[KeyOf[c]] = PayloadOf[c]
  /\ call[c] = "returned" => submission[KeyOf[c]] = "published"

SInv ==
  /\ IInv
  /\ CallersTypeOK
  /\ RowsHavePayload
  /\ RowCreatedOnce
  /\ \A c \in Callers : CallerKnows(c)

-----------------------------------------------------------------------------
(* The callers' steps as steps of clients *)

\* A caller publishes a job whose message has been published before.
PublishAgain(j) ==
  /\ submission[j] = "published"
  /\ publish_job(j, 1)
  /\ UNCHANGED <<storeVars, workerVars, recoveryVars, clientVars, aborts>>

ProcessDies ==
  /\ aborts < MaxAborts
  /\ aborts' = aborts + 1
  /\ UNCHANGED <<storeVars, queueVars, workerVars, recoveryVars, clientVars>>

\* Jobs of keys are jobs, and a payload is never the mark of a missing row.
LEMMA Keys ==
  ASSUME NEW c \in Callers
  PROVE  KeyOf[c] \in Jobs /\ PayloadOf[c] # NoPayload
  BY SubmittersAssumption

\* The insert is submit_batch's, as there is no row before it.
LEMMA InsertIsSubmit ==
  ASSUME SInv, NEW c \in Callers, InsertJob(c)
  PROVE  SubmitJob(KeyOf[c])
<1>1. KeyOf[c] \in Jobs /\ status[KeyOf[c]] = "absent"
  BY Keys DEF InsertJob, create_job
<1>2. /\ submission[KeyOf[c]] = "new"
  BY <1>1 DEF SInv, IInv, HandoverSafe, EntriesHaveRows
<1> QED
  BY <1>2 DEF InsertJob, SubmitJob

\* The message is the first one of the job's row, or one more.
LEMMA PublishIsRepeated ==
  ASSUME SInv, NEW c \in Callers, PublishCreated(c)
  PROVE  PublishSubmitted(KeyOf[c]) \/ PublishAgain(KeyOf[c])
<1> DEFINE j == KeyOf[c]
<1>1. j \in Jobs /\ payload[j] # NoPayload
  BY Keys DEF SInv, CallerKnows, PublishCreated
<1>2. submission[j] \in {"created", "published"}
  BY <1>1 DEF SInv, RowsHavePayload
<1>3. submission[j] = "published" => submission' = submission
  <2>1. submission \in [Jobs -> {"new", "created", "published", "abandoned"}]
    BY DEF SInv, IInv, TypeOK
  <2> QED
    BY <1>1, <2>1 DEF PublishCreated
<1> QED
  BY <1>2, <1>3 DEF PublishCreated, PublishSubmitted, PublishAgain, clientVars

\* Every step of the composition is one of these.
LEMMA StepKinds ==
  ASSUME SInv, [SNext]_svars
  PROVE  [Next]_vars \/ ProcessDies \/ \E j \in Jobs : PublishAgain(j)
<1>1. ASSUME NEW c \in Callers, CallerStep(c)
      PROVE  [Next]_vars \/ ProcessDies \/ \E j \in Jobs : PublishAgain(j)
  <2>1. KeyOf[c] \in Jobs
    BY Keys
  <2>2. CASE get_by_idempotency_key(c) \/ InsertRefused(c)
    BY <2>2 DEF get_by_idempotency_key, InsertRefused
  <2>3. CASE InsertJob(c)
    BY <2>1, <2>3, InsertIsSubmit DEF Next, ClientStep
  <2>4. CASE PublishCreated(c)
    BY <2>1, <2>4, PublishIsRepeated DEF Next, ClientStep
  <2>5. CASE CallerDies(c)
    BY <2>5 DEF CallerDies, ProcessDies
  <2> QED
    BY <1>1, <2>2, <2>3, <2>4, <2>5 DEF CallerStep
<1>2. CASE RuntimeStep
  BY <1>2 DEF RuntimeStep, Next, ClientStep
<1>3. CASE UNCHANGED svars
  BY <1>3 DEF svars
<1> QED
  BY <1>1, <1>2, <1>3 DEF SNext

\* A message more does no harm: nothing is acknowledged, and the entry it adds
\* is unacknowledged.
LEMMA PublishAgainIInv ==
  ASSUME IInv, NEW j \in Jobs, PublishAgain(j)
  PROVE  IInv'
<1>a. /\ TypeOK /\ StoreTypeOK /\ QueueTypeOK /\ WorkerTypeOK /\ RecoveryTypeOK
      /\ TerminalStatusBacked /\ HandoverSafe /\ EntriesHaveRows /\ WorkNotLost
      /\ locked \subseteq Jobs /\ cancelRequested \subseteq Jobs
      /\ delivered \in Nat
  BY DEF IInv, TypeOK, HandoverSafe, StoreTypeOK, WorkerTypeOK, QueueTypeOK
<1>b. /\ StoreEffect /\ QueueEffect
  BY DEF PublishAgain, StoreEffect, QueueEffect, TablesUnchanged, storeVars
<1>1. TypeOK'
  <2>1. QueueTypeOK' /\ delivered' = delivered
    BY <1>a, PublishType DEF PublishAgain, publish_job
  <2>2. StoreTypeOK'
    BY <1>a, StoreStutterType DEF PublishAgain, storeVars
  <2>3. WorkerTypeOK'
    BY <1>a, <2>1, WorkerStutterType DEF PublishAgain, workerVars
  <2>4. RecoveryTypeOK'
    BY <1>a, <2>1, RecoveryStutterType DEF PublishAgain
  <2> QED
    BY <1>a, <2>1, <2>2, <2>3, <2>4 DEF TypeOK, PublishAgain, clientVars
<1>2. TerminalStatusBacked'
  BY <1>a, <1>b, BackedStays
<1>3. \A w \in Workers : WorkerMayAck(w)'
  BY <1>b, WorkerMayAckStays DEF PublishAgain, workerVars
<1>4. \A r \in Recoverers : PassMayAck(r)'
  BY <1>b, PassMayAckStays DEF PublishAgain, recoveryVars
<1>5. EntriesHaveRows'
  <2>1. PICK n \in Entries' : Entries' = Entries \cup {n} /\ stream'[n].job = j
    BY <1>a, PublishedIsUnacked DEF PublishAgain
  <2>2. \A i \in Entries : stream'[i] = stream[i]
    BY <1>a, <1>b, EntriesStay
  <2> QED
    BY <1>a, <2>1, <2>2 DEF EntriesHaveRows, PublishAgain, storeVars, clientVars
<1>6. WorkNotLost'
  <2> SUFFICES ASSUME NEW k \in Jobs, submission'[k] = "published",
                      ~Finalized(k)', DispatchAllowed(k)
               PROVE  HasUnackedEntry(k)'
    BY DEF WorkNotLost
  <2>1. ~Finalized(k) /\ submission[k] = "published"
    BY DEF PublishAgain, storeVars, clientVars, Finalized
  <2> QED
    BY <1>a, <1>b, <2>1, WorkStays DEF WorkNotLost
<1> QED
  BY <1>1, <1>2, <1>3, <1>4, <1>5, <1>6 DEF IInv, HandoverSafe

\* No state that IInv speaks of changes when a process dies outside of it.
LEMMA ProcessDiesIInv ==
  ASSUME IInv, ProcessDies
  PROVE  IInv'
<1>1. TypeOK'
  BY MaxAbortsAssumption
  DEF IInv, TypeOK, ProcessDies, storeVars, queueVars, workerVars, recoveryVars,
      clientVars, StoreTypeOK, QueueTypeOK, WorkerTypeOK, RecoveryTypeOK
<1>2. TerminalStatusBacked' /\ WorkNotLost'
  BY DEF IInv, ProcessDies, storeVars, queueVars, clientVars,
         TerminalStatusBacked, WorkNotLost, Finalized, HasUnackedEntry, Entries,
         Unacked
<1>3. HandoverSafe'
  BY DEF IInv, ProcessDies, storeVars, queueVars, workerVars, recoveryVars,
         clientVars, HandoverSafe, WorkerMayAck, PassMayAck, EntriesHaveRows,
         Settled, Finalized, Entries, Unacked, AtLease, JobOf
<1> QED
  BY <1>1, <1>2, <1>3 DEF IInv

\* The inductive invariant of the runtime survives the callers' steps as well.
LEMMA SNextIInv == SInv /\ [SNext]_svars => IInv'
  BY StepKinds, NextIInv, PublishAgainIInv, ProcessDiesIInv DEF SInv

-----------------------------------------------------------------------------
(* Rows *)

\* A step of workers, recovery or a cancelling client writes the row and the
\* events of a job that has a row, if any, and never a second "submitted".
LEMMA RuntimeWrites ==
  ASSUME SInv, RuntimeStep
  PROVE  \/ UNCHANGED <<status, events>>
         \/ \E k \in Jobs, st \in Statuses \ {"absent"},
              type \in EventTypes \ {"submitted"}, a \in Nat, b \in Nat :
                /\ status[k] # "absent"
                /\ status' = [status EXCEPT ![k] = st]
                /\ AppendEvent(k, type, a, b)
<1> DEFINE Writes(k) ==
      \E st \in Statuses \ {"absent"}, type \in EventTypes \ {"submitted"},
         a \in Nat, b \in Nat :
           /\ status[k] # "absent"
           /\ status' = [status EXCEPT ![k] = st]
           /\ AppendEvent(k, type, a, b)
      Quiet == UNCHANGED <<status, events>>
<1> SUFFICES Quiet \/ \E k \in Jobs : Writes(k)
  OBVIOUS
<1>a. /\ TypeOK /\ QueueTypeOK /\ EntriesHaveRows /\ RowsHavePayload
      /\ rtodo \in [Recoverers -> SUBSET (1 .. delivered)]
  BY DEF SInv, IInv, HandoverSafe, TypeOK, RecoveryTypeOK
<1>b. /\ TERMINAL_STATUSES \cup {"queued", "running"} \subseteq Statuses \ {"absent"}
      /\ TerminalEventTypes \cup {"running"} \cup RetryEventTypes
           \subseteq EventTypes \ {"submitted"}
  BY DEF Statuses, TERMINAL_STATUSES, EventTypes, TerminalEventTypes, RetryEventTypes
<1>c. /\ {"completed", "failed", "timed_out", "cancelled"} = TERMINAL_STATUSES
      /\ TERMINAL_STATUSES \cup {"budget_blocked"} = TerminalEventTypes
      /\ {"retry_scheduled", "stale_lease_recovered"} = RetryEventTypes
  BY DEF TERMINAL_STATUSES, TerminalEventTypes, RetryEventTypes
<1>d. \A i \in Entries : status[stream[i].job] # "absent" /\ stream[i].job \in Jobs
  <2> TAKE i \in Entries
  <2>1. stream[i] \in QueueJobMessage
    BY <1>a DEF QueueTypeOK, Entries
  <2> QED
    BY <1>a, <2>1 DEF EntriesHaveRows, QueueJobMessage
<1>e. ASSUME NEW k \in Jobs, NEW st \in TERMINAL_STATUSES,
             NEW type \in TerminalEventTypes, NEW a \in Nat, NEW b \in Nat,
             status[k] # "absent", finalize_job(k, st, type, a, b)
      PROVE  Quiet \/ Writes(k)
  BY <1>b, <1>e DEF finalize_job
<1>f. ASSUME NEW k \in Jobs, NEW st \in {"queued", "running"},
             NEW type \in {"running"} \cup RetryEventTypes,
             NEW a \in Nat, NEW b \in Nat,
             status[k] # "absent", record_state_event(k, st, type, a, b)
      PROVE  Writes(k)
  BY <1>b, <1>f DEF record_state_event
<1>1. ASSUME NEW j \in Jobs, ReadQueuedJob(j) \/ cancel_queued_job(j)
      PROVE  Quiet \/ Writes(j)
  <2>1. CASE ReadQueuedJob(j)
    BY <2>1 DEF ReadQueuedJob, storeVars
  <2>2. CASE cancel_queued_job(j)
    <3>1. status[j] # "absent" /\ 0 \in Nat
      BY <1>a, <2>2 DEF cancel_queued_job, RowsHavePayload
    <3> QED
      BY <1>c, <1>e, <2>2, <3>1 DEF cancel_queued_job
  <2> QED
    BY <1>1, <2>1, <2>2
<1>2. ASSUME NEW w \in Workers, WorkerStep(w)
      PROVE  Quiet \/ Writes(JobOf(w))
  <2>a. wpc[w] # "idle" =>
          /\ JobOf(w) \in Jobs /\ AttemptOf(w) \in Nat /\ wentry[w] \in Nat
          /\ status[JobOf(w)] # "absent"
    BY <1>a, <1>d, HeldEntry DEF JobOf
  <2>1. CASE record_running(w) \/ record_retry_scheduled(w)
    BY <1>c, <1>f, <2>a, <2>1 DEF record_running, record_retry_scheduled
  <2>2. CASE CommitBlocked(w) \/ record_completed(w)
    BY <1>c, <1>e, <2>a, <2>2 DEF CommitBlocked, record_completed
  <2>3. ASSUME NEW outcome, NEW st \in TERMINAL_STATUSES,
               NEW type \in TerminalEventTypes, FinalizeAs(w, outcome, st, type)
        PROVE  Quiet \/ Writes(JobOf(w))
    BY <1>e, <2>a, <2>3 DEF FinalizeAs
  <2>4. CASE \/ Lease(w) \/ LoadTerminal(w) \/ AckTerminal(w) \/ LoadBlocked(w)
             \/ AckBlocked(w) \/ RunnerReturns(w) \/ PublishRetry(w)
             \/ AckProcessed(w)
    BY <2>4 DEF Lease, LoadTerminal, AckTerminal, LoadBlocked, AckBlocked,
                RunnerReturns, PublishRetry, AckProcessed, storeVars
  <2>5. /\ {"failed", "timed_out", "cancelled"} \subseteq TERMINAL_STATUSES
        /\ {"failed", "timed_out", "cancelled", "budget_blocked"}
             \subseteq TerminalEventTypes
    BY <1>c
  <2> QED
    BY <1>2, <2>1, <2>2, <2>3, <2>4, <2>5
    DEF WorkerStep, handle_policy_error, handle_timeout, handle_cancellation,
        RetryOverBudget, RetriesExhausted
<1>3. ASSUME NEW r \in Recoverers, RecoveryStep(r)
      PROVE  Quiet \/ \E k \in Jobs : Writes(k)
  <2>a. ASSUME NEW i \in rtodo[r]
        PROVE  /\ i \in Nat /\ stream[i].job \in Jobs /\ stream[i].attempt \in Nat
               /\ status[stream[i].job] # "absent"
    BY <1>a, <1>d, EntryFields
  <2>1. CASE ListStaleLeases(r)
    BY <2>1 DEF ListStaleLeases, storeVars
  <2>2. ASSUME NEW i \in rtodo[r], PlanRequeue(r, i)
        PROVE  Writes(stream[i].job)
    BY <1>c, <1>f, <2>a, <2>2 DEF PlanRequeue
  <2>3. ASSUME NEW i \in rtodo[r], PlanDeadLetter(r, i)
        PROVE  Quiet \/ Writes(stream[i].job)
    BY <1>c, <1>e, <2>a, <2>3 DEF PlanDeadLetter
  <2>4. ASSUME NEW i \in rtodo[r],
               \/ PlanAcknowledge(r, i) \/ PublishRequeued(r, i)
               \/ MoveToDeadLetter(r, i) \/ acknowledge_lease(r, i)
        PROVE  Quiet
    BY <2>4 DEF PlanAcknowledge, PublishRequeued, MoveToDeadLetter,
                acknowledge_lease, storeVars
  <2> HIDE DEF Quiet, Writes
  <2> QED
    BY <1>3, <2>a, <2>1, <2>2, <2>3, <2>4 DEF RecoveryStep
<1>4. ASSUME \/ \E w \in Workers : HeartbeatBeats(w) \/ WorkerAborts(w)
             \/ \E r \in Recoverers : RecoveryAborts(r)
             \/ \E i \in pel : TimePasses(i)
      PROVE  Quiet
  BY <1>4 DEF HeartbeatBeats, RenewLease, WorkerAborts, Abort, RecoveryAborts,
              AbortPass, TimePasses, LeaseExpires, storeVars
<1>5. ASSUME NEW w \in Workers, Writes(JobOf(w)), ~Quiet, WorkerStep(w)
      PROVE  JobOf(w) \in Jobs
  <2>1. wpc[w] # "idle"
    BY <1>5
    DEF WorkerStep, Lease, LoadTerminal, AckTerminal, LoadBlocked, AckBlocked,
        CommitBlocked, record_running, RunnerReturns, record_completed,
        handle_policy_error, handle_timeout, handle_cancellation,
        record_retry_scheduled, PublishRetry, RetryOverBudget, RetriesExhausted,
        FinalizeAs, AckProcessed, storeVars
  <2> QED
    BY <1>a, <2>1, HeldEntry
<1> HIDE DEF Quiet, Writes
<1> QED
  BY <1>1, <1>2, <1>3, <1>4, <1>5 DEF RuntimeStep, WorkerMoves, RecoveryMoves

\* The positions of the "submitted" events of a job
CreatedEvents(j) == {n \in DOMAIN events[j] : events[j][n].type = "submitted"}

\* One row of a job: RowsHavePayload and RowCreatedOnce, job by job.
RowOK(j) ==
  /\ payload[j] = NoPayload <=> status[j] = "absent"
  /\ status[j] # "absent" => submission[j] \in {"created", "published"}
  /\ cancellation[j] = "read" => status[j] # "absent"
  /\ IF payload[j] = NoPayload THEN events[j] = <<>> ELSE CreatedEvents(j) = {1}

\* The two invariants, job by job.
LEMMA RowByRow ==
  RowsHavePayload /\ RowCreatedOnce <=> \A j \in Jobs : RowOK(j)
  BY DEF RowsHavePayload, RowCreatedOnce, RowOK, CreatedEvents

\* Workers, recovery and cancelling clients leave rows where they are.
LEMMA RuntimeKeepsRows ==
  ASSUME SInv, RuntimeStep, NEW j \in Jobs
  PROVE  RowOK(j)'
<1>a. /\ RowOK(j) /\ TypeOK /\ UNCHANGED payload
      /\ status \in [Jobs -> Statuses]
      /\ cancellation \in [Jobs -> {"none", "read", "done"}]
  BY RowByRow DEF SInv, IInv, TypeOK, StoreTypeOK, RuntimeStep, submitterVars
<1>1. /\ UNCHANGED submission
      /\ cancellation'[j] = "read" =>
           cancellation[j] = "read" \/ status[j] # "absent"
  BY <1>a
  DEF RuntimeStep, ReadQueuedJob, cancel_queued_job, WorkerMoves, HeartbeatBeats,
      WorkerAborts, RecoveryMoves, RecoveryAborts, TimePasses, clientVars
<1>2. CASE UNCHANGED <<status, events>>
  BY <1>a, <1>1, <1>2 DEF RowOK, CreatedEvents
<1>3. ASSUME NEW k \in Jobs, NEW st \in Statuses \ {"absent"},
             NEW type \in EventTypes \ {"submitted"}, NEW a \in Nat, NEW b \in Nat,
             status[k] # "absent",
             status' = [status EXCEPT ![k] = st],
             AppendEvent(k, type, a, b)
      PROVE  RowOK(j)'
  <2>1. status'[j] = "absent" <=> status[j] = "absent"
    BY <1>a, <1>3
  <2>2. payload[j] = NoPayload => events'[j] = events[j]
    BY <1>a, <1>3, AppendedEvent DEF RowOK
  <2>3. CreatedEvents(j)' = CreatedEvents(j)
    <3>1. CASE k # j
      BY <1>a, <1>3, <3>1, AppendedEvent DEF CreatedEvents
    <3>2. CASE k = j
      <4>1. /\ DOMAIN events'[j] = DOMAIN events[j] \cup {Len(events[j]) + 1}
            /\ events'[j][Len(events[j]) + 1].type = type
            /\ \A n \in DOMAIN events[j] : events'[j][n] = events[j][n]
        BY <1>a, <1>3, <3>2, AppendedEvent
      <4> QED
        BY <1>3, <4>1 DEF CreatedEvents
    <3> QED
      BY <3>1, <3>2
  <2> QED
    BY <1>a, <1>1, <2>1, <2>2, <2>3 DEF RowOK
<1> QED
  BY <1>2, <1>3, RuntimeWrites

\* The insert makes a row with its one "submitted" event.
LEMMA InsertMakesRow ==
  ASSUME SInv, NEW c \in Callers, InsertJob(c), NEW j \in Jobs
  PROVE  RowOK(j)'
<1> DEFINE k == KeyOf[c]
<1>a. /\ RowOK(j) /\ RowOK(k) /\ TypeOK /\ k \in Jobs /\ PayloadOf[c] # NoPayload
      /\ status \in [Jobs -> Statuses] /\ DOMAIN payload = Jobs
      /\ submission \in [Jobs -> {"new", "created", "published", "abandoned"}]
  BY Keys, RowByRow DEF SInv, IInv, TypeOK, StoreTypeOK, CallersTypeOK
<1>b. /\ status[k] = "absent" /\ status' = [status EXCEPT ![k] = "submitted"]
      /\ AppendEvent(k, "submitted", 0, 0)
      /\ payload' = [payload EXCEPT ![k] = PayloadOf[c]]
      /\ submission' = [submission EXCEPT ![k] = "created"]
      /\ UNCHANGED cancellation
      /\ "submitted" \in EventTypes /\ 0 \in Nat
  BY DEF InsertJob, create_job, EventTypes
<1>1. CASE j # k
  <2>1. events'[j] = events[j]
    BY <1>a, <1>b, <1>1, AppendedEvent
  <2> QED
    BY <1>a, <1>b, <1>1, <2>1 DEF RowOK, CreatedEvents
<1>2. CASE j = k
  <2>1. events[j] = <<>>
    BY <1>a, <1>b, <1>2 DEF RowOK
  <2>2. Len(events[j]) + 1 = 1 /\ DOMAIN events[j] = {}
    BY <2>1
  <2>3. DOMAIN events'[j] = {1} /\ events'[j][1].type = "submitted"
    BY <1>a, <1>b, <1>2, <2>2, AppendedEvent
  <2>4. CreatedEvents(j)' = {1}
    BY <2>3 DEF CreatedEvents
  <2> QED
    BY <1>a, <1>b, <1>2, <2>4 DEF RowOK
<1> QED
  BY <1>1, <1>2

\* A row is there once and for all, and created once.
LEMMA NextRows ==
  ASSUME SInv, [SNext]_svars
  PROVE  RowsHavePayload' /\ RowCreatedOnce'
<1> SUFFICES ASSUME NEW j \in Jobs PROVE RowOK(j)'
  BY DEF RowsHavePayload, RowCreatedOnce, RowOK, CreatedEvents
<1>a. RowOK(j)
  BY RowByRow DEF SInv
<1>1. CASE UNCHANGED <<status, events, submission, cancellation, payload>>
  BY <1>a, <1>1 DEF RowOK, CreatedEvents
<1>2. ASSUME NEW c \in Callers, CallerStep(c)
      PROVE  RowOK(j)'
  <2>1. CASE InsertJob(c)
    BY <2>1, InsertMakesRow
  <2>2. CASE PublishCreated(c)
    <3>1. UNCHANGED <<status, events, cancellation, payload>>
      BY <2>2 DEF PublishCreated, storeVars
    <3>2. KeyOf[c] \in Jobs /\ DOMAIN submission = Jobs
      BY Keys DEF SInv, IInv, TypeOK
    <3>3. submission' = [submission EXCEPT ![KeyOf[c]] = "published"]
      BY <2>2 DEF PublishCreated
    <3>4. submission'[j] = submission[j] \/ submission'[j] = "published"
      BY <3>2, <3>3
    <3> QED
      BY <1>a, <3>1, <3>4 DEF RowOK, CreatedEvents
  <2>3. CASE \/ get_by_idempotency_key(c) \/ InsertRefused(c) \/ CallerDies(c)
    BY <1>1, <2>3 DEF get_by_idempotency_key, InsertRefused, CallerDies, vars,
                      storeVars, clientVars
  <2> QED
    BY <1>2, <2>1, <2>2, <2>3 DEF CallerStep
<1>3. CASE RuntimeStep
  BY <1>3, RuntimeKeepsRows
<1>4. CASE UNCHANGED svars
  BY <1>1, <1>4 DEF svars, vars, submitterVars, storeVars, clientVars
<1> QED
  BY <1>2, <1>3, <1>4 DEF SNext

-----------------------------------------------------------------------------
(* What callers know *)

\* A caller publishes what it has found or inserted, and nobody changes it.
LEMMA NextCallers ==
  ASSUME SInv, [SNext]_svars
  PROVE  CallersTypeOK' /\ \A c \in Callers : CallerKnows(c)'
<1>a. /\ call \in [Callers -> CallPcs] /\ DOMAIN payload = Jobs
      /\ \A c \in Callers : CallerKnows(c)
      /\ \A j \in Jobs : RowOK(j)
      /\ submission \in [Jobs -> {"new", "created", "published", "abandoned"}]
  BY RowByRow DEF SInv, CallersTypeOK, IInv, TypeOK
<1>b. \A c \in Callers : KeyOf[c] \in Jobs /\ PayloadOf[c] # NoPayload
  BY Keys
<1>c. CallPcs = {"idle", "inserting", "publishing", "returned", "conflict", "failed"}
  BY DEF CallPcs
<1>1. ASSUME UNCHANGED <<submission, payload, call>>
      PROVE  CallersTypeOK' /\ \A c \in Callers : CallerKnows(c)'
  BY <1>a, <1>1 DEF CallersTypeOK, CallerKnows
<1>2. ASSUME NEW c \in Callers, UNCHANGED <<submission, payload>>,
             NEW pc \in CallPcs \ {"returned"}, CallGoes(c, pc),
             pc = "publishing" => payload[KeyOf[c]] = PayloadOf[c]
      PROVE  CallersTypeOK' /\ \A d \in Callers : CallerKnows(d)'
  BY <1>a, <1>2 DEF CallersTypeOK, CallerKnows, CallGoes
<1>3. ASSUME NEW c \in Callers, CallerStep(c)
      PROVE  CallersTypeOK' /\ \A d \in Callers : CallerKnows(d)'
  <2>1. CASE get_by_idempotency_key(c)
    <3> DEFINE pc == IF payload[KeyOf[c]] = NoPayload THEN "inserting" ELSE Existing(c)
    <3>1. /\ pc \in CallPcs \ {"returned"}
          /\ pc = "publishing" => payload[KeyOf[c]] = PayloadOf[c]
          /\ CallGoes(c, pc) /\ UNCHANGED <<submission, payload>>
      BY <1>c, <2>1 DEF get_by_idempotency_key, Existing, vars, clientVars
    <3> HIDE DEF pc
    <3> QED
      BY <1>2, <3>1
  <2>2. CASE InsertRefused(c) \/ CallerDies(c)
    BY <1>2, <1>c, <2>2 DEF InsertRefused, CallerDies, vars, clientVars
  <2>3. CASE InsertJob(c)
    <3>1. /\ payload' = [payload EXCEPT ![KeyOf[c]] = PayloadOf[c]]
          /\ submission' = [submission EXCEPT ![KeyOf[c]] = "created"]
          /\ call' = [call EXCEPT ![c] = "publishing"]
          /\ status[KeyOf[c]] = "absent"
      BY <2>3 DEF InsertJob, create_job, CallGoes
    <3>2. payload[KeyOf[c]] = NoPayload
      BY <1>a, <1>b, <3>1 DEF RowOK
    <3>3. CallersTypeOK'
      BY <1>a, <1>c, <3>1 DEF CallersTypeOK
    <3>4. ASSUME NEW d \in Callers PROVE CallerKnows(d)'
      <4>1. CASE d = c
        BY <1>a, <1>b, <3>1, <4>1 DEF CallerKnows
      <4>2. CASE d # c /\ KeyOf[d] = KeyOf[c]
        BY <1>a, <1>b, <3>1, <3>2, <4>2 DEF CallerKnows
      <4>3. CASE d # c /\ KeyOf[d] # KeyOf[c]
        BY <1>a, <1>b, <3>1, <4>3 DEF CallerKnows
      <4> QED
        BY <4>1, <4>2, <4>3
    <3> QED
      BY <3>3, <3>4
  <2>4. CASE PublishCreated(c)
    <3>1. /\ call[c] = "publishing" /\ UNCHANGED payload
          /\ submission' = [submission EXCEPT ![KeyOf[c]] = "published"]
          /\ call' = [call EXCEPT ![c] = "returned"]
      BY <2>4 DEF PublishCreated, CallGoes
    <3>2. CallersTypeOK'
      BY <1>a, <1>c, <3>1 DEF CallersTypeOK
    <3>3. ASSUME NEW d \in Callers PROVE CallerKnows(d)'
      BY <1>a, <1>b, <3>1 DEF CallerKnows
    <3> QED
      BY <3>2, <3>3
  <2> QED
    BY <1>3, <2>1, <2>2, <2>3, <2>4 DEF CallerStep
<1>4. CASE RuntimeStep
  <2>1. UNCHANGED <<submission, payload, call>>
    BY <1>4
    DEF RuntimeStep, ReadQueuedJob, cancel_queued_job, WorkerMoves,
        HeartbeatBeats, WorkerAborts, RecoveryMoves, RecoveryAborts, TimePasses,
        clientVars, submitterVars
  <2> QED
    BY <1>1, <2>1
<1>5. CASE UNCHANGED svars
  BY <1>1, <1>5 DEF svars, vars, clientVars, submitterVars
<1> QED
  BY <1>3, <1>4, <1>5 DEF SNext

-----------------------------------------------------------------------------
(* The theorems *)

\* No caller has called yet, and there are no rows.
LEMMA InitSInv == SInit => SInv
<1> SUFFICES ASSUME SInit PROVE SInv
  OBVIOUS
<1>1. IInv
  BY InitIInv DEF SInit
<1>2. CallersTypeOK /\ \A c \in Callers : CallerKnows(c)
  BY DEF SInit, CallersTypeOK, CallPcs, CallerKnows
<1>3. RowsHavePayload /\ RowCreatedOnce
  BY DEF SInit, Init, StoreInit, RowsHavePayload, RowCreatedOnce, NoPayload
<1> QED
  BY <1>1, <1>2, <1>3 DEF SInv

\* All that the runtime guarantees for one submission per job, its inductive
\* invariant, holds for callers that race for a key, retry and die as well.
THEOREM CallersInvariance == SSpec => []SInv
<1>1. SInv /\ [SNext]_svars => SInv'
  BY SNextIInv, NextRows, NextCallers DEF SInv
<1> QED
  BY <1>1, InitSInv, PTL DEF SSpec

\* However many callers race for a key, one row is created for it.
THEOREM RowsAreCreatedOnce == SSpec => []RowCreatedOnce
<1>1. SInv => RowCreatedOnce
  BY DEF SInv
<1> QED
  BY <1>1, CallersInvariance, PTL

\* A caller that was answered has its payload stored, and its job is decided or
\* has a message on its way, whoever published it and whoever died.
THEOREM SubmissionsAreHonoured == SSpec => []SubmissionHonoured
<1>1. SInv => SubmissionHonoured
  <2> SUFFICES ASSUME SInv, NEW c \in Callers, call[c] = "returned"
               PROVE  /\ payload[KeyOf[c]] = PayloadOf[c]
                      /\ \/ Finalized(KeyOf[c]) \/ ~DispatchAllowed(KeyOf[c])
                         \/ HasUnackedEntry(KeyOf[c])
    BY DEF SubmissionHonoured
  <2>1. KeyOf[c] \in Jobs
    BY Keys
  <2> QED
    BY <2>1 DEF SInv, IInv, CallerKnows, WorkNotLost
<1> QED
  BY <1>1, CallersInvariance, PTL
=============================================================================
