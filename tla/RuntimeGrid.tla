---------------------------- MODULE RuntimeGrid ----------------------------
(***************************************************************************)
(* The runtime as a whole: clients that submit and cancel jobs, the worker *)
(* pool, and recovery passes, over one job store and one queue.            *)
(***************************************************************************)
EXTENDS Worker, Recovery

CONSTANTS
  Cancellable,   \* jobs a client may try to cancel in the database
  Interruptible, \* jobs whose running execution a client may ask to stop
  MaxAborts      \* bound: how often processes die, in total

VARIABLES
  submission,    \* how far submit_batch came with each job
  cancellation,  \* how far a client came with cancel_queued_job
  aborts         \* how often a process died so far

clientVars == <<submission, cancellation>>

vars == <<storeVars, queueVars, workerVars, recoveryVars, clientVars, aborts>>

ASSUME CancellableAssumption == Cancellable \subseteq Jobs /\ Interruptible \subseteq Jobs

ASSUME MaxAbortsAssumption == MaxAborts \in Nat

-----------------------------------------------------------------------------
(* Clients *)

\* submit_batch: the row is committed first, the message is published after.
SubmitJob(j) ==
  /\ submission[j] = "new"
  /\ create_job(j)
  /\ submission' = [submission EXCEPT ![j] = "created"]
  /\ UNCHANGED <<locked, queueVars, workerVars, recoveryVars, cancellation,
                 aborts>>

PublishSubmitted(j) ==
  /\ submission[j] = "created"
  /\ publish_job(j, 1)
  /\ submission' = [submission EXCEPT ![j] = "published"]
  /\ UNCHANGED <<storeVars, workerVars, recoveryVars, cancellation, aborts>>

\* The submitter dies in between: nothing will ever publish the job.
AbandonSubmission(j) ==
  /\ submission[j] = "created"
  /\ aborts < MaxAborts
  /\ submission' = [submission EXCEPT ![j] = "abandoned"]
  /\ aborts' = aborts + 1
  /\ UNCHANGED <<storeVars, queueVars, workerVars, recoveryVars, cancellation>>

\* A client reads a job that has not started, and decides to cancel it.
ReadQueuedJob(j) ==
  /\ j \in Cancellable
  /\ cancellation[j] = "none"
  /\ status[j] \in {"submitted", "queued"}
  /\ cancellation' = [cancellation EXCEPT ![j] = "read"]
  /\ UNCHANGED <<storeVars, queueVars, workerVars, recoveryVars, submission,
                 aborts>>

\* cancel_queued_job does not look at the status again.
cancel_queued_job(j) ==
  /\ cancellation[j] = "read"
  /\ RowFree(j)
  /\ finalize_job(j, "cancelled", "cancelled", 0, 0)
  /\ cancellation' = [cancellation EXCEPT ![j] = "done"]
  /\ UNCHANGED <<locked, queueVars, workerVars, recoveryVars, submission,
                 aborts>>

\* The cancellation event of the worker process is set and never cleared.
request_cancel(j) ==
  /\ j \in Interruptible \ cancelRequested
  /\ cancelRequested' = cancelRequested \cup {j}
  /\ UNCHANGED <<storeVars, queueVars, wpc, wentry, artifacts, recoveryVars,
                 clientVars, aborts>>

ClientStep(j) ==
  \/ SubmitJob(j) \/ PublishSubmitted(j) \/ AbandonSubmission(j)
  \/ ReadQueuedJob(j) \/ cancel_queued_job(j) \/ request_cancel(j)

-----------------------------------------------------------------------------
Init ==
  /\ StoreInit
  /\ QueueInit
  /\ WorkerInit
  /\ RecoveryInit
  /\ submission = [j \in Jobs |-> "new"]
  /\ cancellation = [j \in Jobs |-> "none"]
  /\ aborts = 0

WorkerAborts(w) ==
  /\ aborts < MaxAborts
  /\ Abort(w)
  /\ aborts' = aborts + 1
  /\ UNCHANGED <<recoveryVars, clientVars>>

RecoveryAborts(r) ==
  /\ aborts < MaxAborts
  /\ AbortPass(r)
  /\ aborts' = aborts + 1
  /\ UNCHANGED <<workerVars, clientVars>>

WorkerMoves(w) ==
  WorkerStep(w) /\ UNCHANGED <<recoveryVars, clientVars, aborts>>

RecoveryMoves(r) ==
  RecoveryStep(r) /\ UNCHANGED <<workerVars, clientVars, aborts>>

HeartbeatBeats(w) ==
  RenewLease(w) /\ UNCHANGED <<recoveryVars, clientVars, aborts>>

TimePasses(i) ==
  LeaseExpires(i) /\ UNCHANGED <<recoveryVars, clientVars, aborts>>

Next ==
  \/ \E j \in Jobs : ClientStep(j)
  \/ \E w \in Workers : WorkerMoves(w) \/ HeartbeatBeats(w) \/ WorkerAborts(w)
  \/ \E r \in Recoverers : RecoveryMoves(r) \/ RecoveryAborts(r)
  \/ \E i \in pel : TimePasses(i)

Spec == Init /\ [][Next]_vars

-----------------------------------------------------------------------------
(* Properties *)

\* Every variable has the values the code can give it; a busy worker holds an
\* entry the group has delivered, and a recovery pass lists only such entries.
TypeOK ==
  /\ StoreTypeOK
  /\ QueueTypeOK
  /\ WorkerTypeOK
  /\ RecoveryTypeOK
  /\ submission \in [Jobs -> {"new", "created", "published", "abandoned"}]
  /\ cancellation \in [Jobs -> {"none", "read", "done"}]
  /\ aborts \in 0 .. MaxAborts

\* Positions of the events that finalize_job wrote for j.
TerminalEventsOf(j) ==
  {n \in DOMAIN events[j] : events[j][n].type \in TerminalEventTypes}

\* A job has a terminal event exactly when it has a finalization, never more
\* than one, and of the finalization's type, however many workers, recovery
\* passes and clients race in finalize_job.
OneTerminalEvent ==
  \A j \in Jobs :
    /\ Finalized(j) <=> TerminalEventsOf(j) # {}
    /\ \A n, m \in TerminalEventsOf(j) : n = m
    /\ \A n \in TerminalEventsOf(j) :
         events[j][n].type = finalization[j].event_type

\* A terminal jobs.status, which makes workers and recovery drop messages of
\* the job, is always backed by a finalization of that status.
TerminalStatusBacked ==
  \A j \in Jobs :
    status[j] \in TERMINAL_STATUSES => finalization[j].status = status[j]

\* j still has a message that the consumer group will deliver or that recovery
\* can find.
HasUnackedEntry(j) == \E i \in Entries : stream[i].job = j /\ Unacked(i)

\* A published job that is not finalized is never without an unacknowledged
\* message, whatever dies and whichever duplicates are acknowledged in between.
\* (Jobs the budget policy blocks at dispatch are excepted: their message is
\* acknowledged before the transaction commits, see AckAfterRecord.)
WorkNotLost ==
  \A j \in Jobs :
    submission[j] = "published" /\ ~Finalized(j) /\ DispatchAllowed(j)
      => HasUnackedEntry(j)

\* The job of entry i no longer depends on it: it is decided, or a later entry
\* carries it on.
Settled(i) ==
  LET j == stream[i].job IN
  \/ Finalized(j)
  \/ ~DispatchAllowed(j)
  \/ \E k \in Entries : k > i /\ stream[k].job = j /\ Unacked(k)

\* What a worker knows when it is about to acknowledge its entry.
WorkerMayAck(w) ==
  /\ wpc[w] = "ack" => Settled(wentry[w])
  /\ wpc[w] = "noop_ack" => Finalized(JobOf(w))
  /\ wpc[w] \in {"blocked_ack", "blocked_commit"} => ~DispatchAllowed(JobOf(w))

\* What a recovery pass knows of the entry it is about to acknowledge.
PassMayAck(r) ==
  \A i \in rtodo[r] :
    AtLease(r, i) => /\ rpc[r] = "ack" => Settled(i)
                     /\ rpc[r] = "dlq" => Finalized(stream[i].job)

\* Messages exist only for jobs whose row is committed, so that the branches of
\* the worker and of recovery for a missing job are never taken.
EntriesHaveRows ==
  /\ \A i \in Entries : submission[stream[i].job] = "published"
  /\ \A j \in Jobs : submission[j] # "new" => status[j] # "absent"

\* The entries about to be acknowledged are settled ones.  This is what each of
\* the paths to XACK establishes, and what the acknowledgement of one duplicate
\* must not take from another: the entry carrying a job on is always a later one.
HandoverSafe ==
  /\ \A w \in Workers : WorkerMayAck(w)
  /\ \A r \in Recoverers : PassMayAck(r)
  /\ EntriesHaveRows

\* A message of attempt n > 1 exists only if an earlier message of attempt
\* n - 1 does, a retry or recovery event of that attempt was committed, and n is
\* within the job's retry limit.
AttemptJustified ==
  \A i \in Entries :
    LET j == stream[i].job
        n == stream[i].attempt
    IN  n > 1 =>
          /\ n <= MaxRetries(j) + 1
          /\ \E k \in 1 .. (i - 1) : stream[k] = [job |-> j, attempt |-> n - 1]
          /\ \E e \in DOMAIN events[j] :
               /\ events[j][e].type \in RetryEventTypes
               /\ events[j][e].attempt = n - 1

\* A message beyond the policy's retry budget exists only because recovery, which
\* does not consult the budget, requeued the attempt before it.
BudgetBoundsRetries ==
  \A i \in Entries :
    stream[i].attempt > Policy.retry_budget + 1 =>
      \E e \in DOMAIN events[stream[i].job] :
        LET ev == events[stream[i].job][e] IN
        ev.type = "stale_lease_recovered" /\ ev.attempt = stream[i].attempt - 1

\* An entry is in the hands of one worker at most: XREADGROUP delivers it once,
\* and recovery never redelivers an entry, it publishes a new one.
EntryHeldOnce ==
  \A v, w \in Workers : v # w /\ wentry[v] # 0 => wentry[v] # wentry[w]

\* A completed event names an attempt whose artifact file exists, because the
\* file is written before record_completed.
CompletedHasArtifact ==
  \A j \in Jobs : \A e \in DOMAIN events[j] :
    events[j][e].type = "completed" =>
      \E f \in artifacts : f.job = j /\ f.attempt = events[j][e].attempt

\* Only jobs that are finalized, on their last attempt, are dead-lettered.
DeadLetterIsFinal ==
  \A d \in DOMAIN dlq :
    /\ Finalized(dlq[d].job)
    /\ dlq[d].attempt = MaxRetries(dlq[d].job) + 1

\* A message leaves the pending list only when its job is finalized or a later
\* message carries the job on: lifecycle state is recorded before XACK.
AckAfterRecord ==
  [][\A i \in pel \ pel' :
       LET j == stream[i].job IN
       DispatchAllowed(j) =>
         \/ Finalized(j)
         \/ \E k \in Entries : k > i /\ stream[k].job = j /\ Unacked(k)]_vars

\* The runtime implements JobLifecycle: its outcome is the job's finalization,
\* and it owes the jobs that have an unacknowledged message.
Lifecycle ==
  INSTANCE JobLifecycle WITH
    Outcomes <- TERMINAL_STATUSES,
    Guarded <- {j \in Jobs : DispatchAllowed(j)},
    outcome <- [j \in Jobs |-> finalization[j].status],
    owed <- {j \in Jobs : HasUnackedEntry(j)}

\* Every step of workers, recovery passes and clients is a step of the abstract
\* lifecycle or leaves it alone: outcomes are decided once, and the last message
\* of a job is acknowledged only after its outcome is decided.
ImplementsLifecycle == Lifecycle!LSpec

-----------------------------------------------------------------------------
(* Liveness *)

\* Nobody is executing entry i: only a recovery pass can bring its job back.
Orphaned(i) == ~\E w \in Workers : wentry[w] = i

\* The worker loops run process_one again and again.
WorkerFairness == \A w \in Workers : WF_vars(WorkerMoves(w))

\* Operators keep running recovery passes, and abandoned leases grow old.
RecoveryFairness ==
  /\ \A r \in Recoverers : WF_vars(RecoveryMoves(r))
  /\ WF_vars(\E i \in pel : Orphaned(i) /\ TimePasses(i))

WorkerFairSpec == Spec /\ WorkerFairness

FairSpec == Spec /\ WorkerFairness /\ RecoveryFairness

\* Every published job that may be dispatched is finalized in the end.
EventuallyFinalized ==
  \A j \in Jobs :
    submission[j] = "published" /\ DispatchAllowed(j) ~> Finalized(j)

\* In the end every message is delivered and acknowledged, duplicates included.
EventuallyDrained == <>[](pel = {} /\ delivered = Len(stream))

-----------------------------------------------------------------------------
(* What the documentation says *)

\* docs/FAILURE_MODES.md: "Replayed queue messages for terminal jobs are
\* acknowledged as no-ops": no execution starts after the terminal event.
NoExecutionAfterTerminal ==
  \A j \in Jobs : \A n \in TerminalEventsOf(j) : \A m \in DOMAIN events[j] :
    m > n => events[j][m].type # "running"

\* docs/COST_BUDGET.md: "acknowledge the Redis message only after the database
\* event is recorded": a blocked job has its message or its event, or the
\* worker is still committing it.
BlockedWorkNotLost ==
  \A j \in Jobs :
    submission[j] = "published" /\ ~Finalized(j) /\ ~DispatchAllowed(j)
      => \/ HasUnackedEntry(j)
         \/ \E w \in Workers : wpc[w] = "blocked_commit" /\ JobOf(w) = j

\* docs/OPERATIONS.md: "Non-terminal jobs with exhausted retry budget are
\* finalized as failed and moved to the Redis dead-letter stream".  The runner
\* of a success job cannot fail it, so only recovery has; once no message of
\* the job is left its dead letter is there.
ExhaustedIsDeadLettered ==
  \A j \in Jobs :
    /\ RunnerOutcomes(j) = {"completed"}
    /\ finalization[j].status = "failed"
    /\ ~HasUnackedEntry(j)
    => \E d \in DOMAIN dlq : dlq[d].job = j

=============================================================================
