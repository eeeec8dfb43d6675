----------------------------- MODULE Submitters -----------------------------
(***************************************************************************)
(* Callers that submit jobs under idempotency keys of their own: create_job *)
(* and then publish_job, as submit_batch and the proof commands do.        *)
(* Several callers may use one key, for one payload or for different ones, *)
(* and a caller that failed half-way may be followed by another, a retry.  *)
(* create_job looks for the key before it inserts, in a transaction that   *)
(* locks nothing it has not found; the unique constraint decides.          *)
(***************************************************************************)
EXTENDS RuntimeGrid

CONSTANTS
  Callers,
  KeyOf,      \* the idempotency key each caller uses, named by the job it gets
  PayloadOf   \* the payload (hash) each caller submits

VARIABLES
  call,       \* where each caller is
  payload     \* jobs.payload_hash, NoPayload without a row

submitterVars == <<call, payload>>

svars == <<vars, submitterVars>>

NoPayload == "none"

ASSUME SubmittersAssumption ==
  /\ KeyOf \in [Callers -> Jobs]
  /\ \A c \in Callers : PayloadOf[c] # NoPayload

SInit ==
  /\ Init
  /\ call = [c \in Callers |-> "idle"]
  /\ payload = [j \in Jobs |-> NoPayload]

CallGoes(c, pc) == call' = [call EXCEPT ![c] = pc]

-----------------------------------------------------------------------------
(* create_job *)

\* Mutant: a caller whose key exists has nothing left to do.
return_existing(c) ==
  IF payload[KeyOf[c]] = PayloadOf[c] THEN "returned" ELSE "conflict"

\* A job of the key exists: it is returned, and published once more, unless its
\* payload is another one (IdempotencyConflictError).
Existing(c) ==
  IF payload[KeyOf[c]] = PayloadOf[c] THEN "publishing" ELSE "conflict"

get_by_idempotency_key(c) ==
  /\ call[c] = "idle"
  /\ CallGoes(c, IF payload[KeyOf[c]] = NoPayload THEN "inserting" ELSE Existing(c))
  /\ UNCHANGED <<vars, payload>>

\* Mutant: jobs.idempotency_key is not unique, a second row takes the first's place.
insert_again(c) ==
  /\ call[c] = "inserting"
  /\ status' = [status EXCEPT ![KeyOf[c]] = "submitted"]
  /\ AppendEvent(KeyOf[c], "submitted", 0, 0)
  /\ payload' = [payload EXCEPT ![KeyOf[c]] = PayloadOf[c]]
  /\ submission' = [submission EXCEPT ![KeyOf[c]] = "created"]
  /\ CallGoes(c, "publishing")
  /\ UNCHANGED <<finalization, conflicts, locked, queueVars, workerVars,
                 recoveryVars, cancellation, aborts>>

InsertJob(c) ==
  /\ call[c] = "inserting"
  /\ create_job(KeyOf[c])
  /\ payload' = [payload EXCEPT ![KeyOf[c]] = PayloadOf[c]]
  /\ submission' = [submission EXCEPT ![KeyOf[c]] = "created"]
  /\ CallGoes(c, "publishing")
  /\ UNCHANGED <<locked, queueVars, workerVars, recoveryVars, cancellation,
                 aborts>>

\* Another caller's row was committed since the look-up: IntegrityError, which
\* nothing in create_job catches.
InsertRefused(c) ==
  /\ call[c] = "inserting"
  /\ status[KeyOf[c]] # "absent"
  /\ CallGoes(c, "failed")
  /\ UNCHANGED <<vars, payload>>

-----------------------------------------------------------------------------
(* submit_batch after create_job *)

PublishCreated(c) ==
  /\ call[c] = "publishing"
  /\ publish_job(KeyOf[c], 1)
  /\ submission' = [submission EXCEPT ![KeyOf[c]] = "published"]
  /\ CallGoes(c, "returned")
  /\ UNCHANGED <<storeVars, workerVars, recoveryVars, cancellation, aborts,
                 payload>>

\* A caller dies before or after its transaction.
CallerDies(c) ==
  /\ call[c] \in {"inserting", "publishing"}
  /\ aborts < MaxAborts
  /\ aborts' = aborts + 1
  /\ CallGoes(c, "failed")
  /\ UNCHANGED <<storeVars, queueVars, workerVars, recoveryVars, clientVars,
                 payload>>

CallerStep(c) ==
  \/ get_by_idempotency_key(c)
  \/ InsertJob(c) \/ InsertRefused(c)
  \/ PublishCreated(c) \/ CallerDies(c)

RuntimeStep ==
  /\ \/ \E j \in Jobs : ReadQueuedJob(j) \/ cancel_queued_job(j)
     \/ \E w \in Workers : WorkerMoves(w) \/ HeartbeatBeats(w) \/ WorkerAborts(w)
     \/ \E r \in Recoverers : RecoveryMoves(r) \/ RecoveryAborts(r)
     \/ \E i \in pel : TimePasses(i)
  /\ UNCHANGED submitterVars

SNext == (\E c \in Callers : CallerStep(c)) \/ RuntimeStep

\* Workers and recovery passes keep running; nothing makes a caller call.
SubmitterFairness ==
  /\ \A w \in Workers : WF_svars(WorkerMoves(w) /\ UNCHANGED submitterVars)
  /\ \A r \in Recoverers : WF_svars(RecoveryMoves(r) /\ UNCHANGED submitterVars)
  /\ WF_svars((\E i \in pel : Orphaned(i) /\ TimePasses(i)) /\ UNCHANGED submitterVars)

SSpec == SInit /\ [][SNext]_svars

SFairSpec == SSpec /\ SubmitterFairness

-----------------------------------------------------------------------------
(* Properties *)

\* However many callers use a key at once, one row is created for it: one
\* "submitted" event, the first of the job, whose payload never changes again.
RowCreatedOnce ==
  \A j \in Jobs : LET created == {n \in DOMAIN events[j] : events[j][n].type = "submitted"} IN
    IF payload[j] = NoPayload THEN events[j] = <<>> ELSE created = {1}

\* A submission that returned can be relied upon, even if the job's row was
\* inserted by a caller that died before publishing it: the job has the payload
\* this caller submitted, and it is decided or has a message on its way.
SubmissionHonoured ==
  \A c \in Callers :
    call[c] = "returned" =>
      LET j == KeyOf[c] IN
      /\ payload[j] = PayloadOf[c]
      /\ Finalized(j) \/ ~DispatchAllowed(j) \/ HasUnackedEntry(j)

\* A job whose submission returned to some caller is finalized in the end.
EventuallyHonoured ==
  \A c \in Callers :
    call[c] = "returned" /\ DispatchAllowed(KeyOf[c]) ~> Finalized(KeyOf[c])

=============================================================================
