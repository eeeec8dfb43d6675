------------------------------- MODULE Smoke -------------------------------
(***************************************************************************)
(* run_smoke, and what the commands that certify a run share with it: a    *)
(* batch submitted to a queue of the command's own, rounds in which every  *)
(* worker of a pool runs process_one once until a round finds nothing, a   *)
(* report over the rows of the run, and a validator that accepts it.       *)
(* ReliabilityProof and FullStackProof have batches and validators of      *)
(* their own; ProofCommands puts the three commands together.              *)
(***************************************************************************)
EXTENDS Worker

CONSTANTS
  SmokeJobs,  \* the jobs of a smoke run
  PoolOf,     \* the workers each command starts
  MaxRaises   \* bound: how often process_one raises

VARIABLES
  command,    \* the command that runs
  phase,      \* where it is
  todo,       \* what it has yet to submit, in order
  processed,  \* what process_one returned to each worker in this round
  report,     \* the report, once built
  raises      \* how often process_one raised

driverVars == <<command, phase, todo, processed, report, raises>>

Commands == {"smoke", "reliability", "full_stack"}

SmokeSubmission ==
  [job_type |-> "stub", mode |-> "success", max_retries |-> 1,
   budget_cents |-> NoBudget]

ASSUME SmokeAssumption ==
  /\ SmokeJobs \subseteq Jobs /\ IsFiniteSet(SmokeJobs) /\ SmokeJobs # {}
  /\ \A j \in SmokeJobs : JobSpec[j] = SmokeSubmission
  /\ PoolOf \in [Commands -> (SUBSET Workers) \ {{}}]
  /\ Policy = StubPolicy
  /\ MaxRaises \in Nat

\* The orders in which the elements of S can be submitted.
Orderings(S) ==
  {s \in [1 .. Cardinality(S) -> S] :
     \A m, n \in DOMAIN s : s[m] = s[n] => m = n}

NoReport == [submitted |-> 0, completed |-> 0, timed_out |-> 0, terminal |-> 0,
             duplicates |-> 0, retries |-> 0, checked |-> 0]

DriverInit(c, start) ==
  /\ StoreInit
  /\ QueueInit
  /\ WorkerInit
  /\ command = c
  /\ phase = start
  /\ processed = [w \in Workers |-> "pending"]
  /\ report = NoReport
  /\ raises = 0

-----------------------------------------------------------------------------
(* Submission: each job is created and published before the next *)

Create(j, next) ==
  /\ phase = "create"
  /\ create_job(j)
  /\ phase' = next
  /\ UNCHANGED <<locked, queueVars, workerVars, command, todo, processed, report,
                 raises>>

Publish(j) ==
  /\ phase = "publish"
  /\ publish_job(j, 1)
  /\ todo' = Tail(todo)
  /\ phase' = IF Tail(todo) = <<>> THEN "round" ELSE "create"
  /\ UNCHANGED <<storeVars, workerVars, command, processed, report, raises>>

\* _submit_smoke_batch
CreateSmokeJob ==
  /\ command = "smoke"
  /\ Create(Head(todo), "publish")

-----------------------------------------------------------------------------
(* One round: asyncio.gather of process_one for every worker of the pool *)

Pool == PoolOf[command]

\* gather neither cancels nor waits for the workers of a round in which one raised:
\* they go on with the process_one that was started for them.
MayProcess(w) ==
  phase \in {"round", "raised"} /\ w \in Pool /\ processed[w] = "pending"

\* Mutant: process_one returns True whether or not it leased an entry.
always_processed(w) ==
  /\ MayProcess(w)
  /\ wpc[w] = "idle"
  /\ delivered = Len(stream)
  /\ processed' = [processed EXCEPT ![w] = "true"]
  /\ UNCHANGED <<storeVars, queueVars, workerVars, command, phase, todo, report,
                 raises>>

\* A worker finds no entry to lease: process_one returns False.
FindNothing(w) ==
  /\ MayProcess(w)
  /\ wpc[w] = "idle"
  /\ delivered = Len(stream)
  /\ processed' = [processed EXCEPT ![w] = "false"]
  /\ UNCHANGED <<storeVars, queueVars, workerVars, command, phase, todo, report,
                 raises>>

\* process_one returns True with the step that makes the worker idle.
NoteProcessed(w) ==
  /\ processed' = IF wpc'[w] = "idle" THEN [processed EXCEPT ![w] = "true"]
                                      ELSE processed
  /\ UNCHANGED <<command, phase, todo, report, raises>>

Process(w) == MayProcess(w) /\ WorkerStep(w) /\ NoteProcessed(w)

\* process_one raises: gather raises, and with it the command.
WorkerRaises(w) ==
  /\ phase \in {"round", "raised"}
  /\ Abort(w)
  /\ phase' = "raised"
  /\ processed' = [processed EXCEPT ![w] = "raised"]
  /\ UNCHANGED <<command, todo, report>>

\* asyncio.run cancels what is left of the round before the process ends.
WorkerCancelled(w) ==
  /\ phase = "raised"
  /\ WorkerRaises(w)
  /\ UNCHANGED raises

\* Mutant: the pool is run for one round, not until it finds nothing.
drain_once == \A w \in Pool : processed[w] # "pending"

\* if not any(processed): break
NothingProcessed == \A w \in Pool : processed[w] = "false"

EndRound ==
  /\ phase = "round"
  /\ \A w \in Pool : processed[w] # "pending"
  /\ phase' = IF NothingProcessed THEN "report" ELSE "round"
  /\ processed' = [w \in Workers |-> "pending"]
  /\ UNCHANGED <<storeVars, queueVars, workerVars, command, todo, report, raises>>

-----------------------------------------------------------------------------
(* build_smoke_report and validate_smoke_report *)

WithStatus(S) == {j \in Jobs : status[j] \in S}

\* The events of types S, each as its job and its position.
EventsOf(S) ==
  UNION {{<<j, n>> : n \in {k \in DOMAIN events[j] : events[j][k].type \in S}} :
           j \in Jobs}

\* Jobs with more than one event of a type in TERMINAL_STATUSES.
duplicate_terminal_events ==
  {j \in Jobs : \E e, f \in EventsOf(TERMINAL_STATUSES) :
                  e # f /\ e[1] = j /\ f[1] = j}

\* validate_artifact_integrity of what a completed event says of its artifact.
ArtifactIntact(e) ==
  LET ev == events[e[1]][e[2]] IN
  [job |-> e[1], attempt |-> ev.attempt, by |-> ev.by] \in artifacts

\* An artifact that is missing or has other bytes ends the command.
build_smoke_report ==
  /\ phase = "report"
  /\ IF \A e \in EventsOf({"completed"}) : ArtifactIntact(e)
     THEN /\ report' =
               [submitted |-> Cardinality({j \in Jobs : status[j] # "absent"}),
                completed |-> Cardinality(WithStatus({"completed"})),
                timed_out |-> Cardinality(WithStatus({"timed_out"})),
                terminal |-> Cardinality(WithStatus(TERMINAL_STATUSES)),
                duplicates |-> Cardinality(duplicate_terminal_events),
                retries |-> Cardinality(EventsOf({"retry_scheduled"})),
                checked |-> Cardinality(EventsOf({"completed"}))]
          /\ phase' = "validate"
     ELSE phase' = "invalid" /\ UNCHANGED report
  /\ UNCHANGED <<storeVars, queueVars, workerVars, command, todo, processed, raises>>

Validate(valid) ==
  /\ phase = "validate"
  /\ phase' = IF valid THEN "certified" ELSE "invalid"
  /\ UNCHANGED <<storeVars, queueVars, workerVars, command, todo, processed, report,
                 raises>>

\* Mutant: a retry must be shown, as by a reliability proof.
retry_demanded ==
  /\ {report.submitted, report.terminal, report.completed}
       = {Cardinality(SmokeJobs)}
  /\ report.duplicates = 0
  /\ report.retries > 0

\* Artifact completeness is checked / completed; the cost of stub jobs is zero.
SmokeReportValid ==
  /\ {report.submitted, report.terminal, report.completed}
       = {Cardinality(SmokeJobs)}
  /\ report.duplicates = 0
  /\ report.checked = report.completed

validate_smoke_report ==
  /\ command = "smoke"
  /\ Validate(SmokeReportValid)

=============================================================================
