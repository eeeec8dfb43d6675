# Agent Runtime Grid: specification, model checking and proofs

This directory holds TLA+ models of the runtime in `src/src/agent_runtime_grid`,
TLC configurations that check them on small instances, and TLAPS proofs of the
main results for instances of any size. `PROJECT.json` lists, for every
definition, the lines of the code it models.

## 1. Inventory

| Component | State | Operations | Talks to |
|---|---|---|---|
| Job store (`storage/`, `worker/state_machine.py`) | rows of `jobs`, `job_events`, `job_finalizations`, `finalization_conflict_attempts` | `create_job`, `_record_state_event`, `finalize_job`, `load_job_for_update` | called by clients, workers, recovery |
| Queue (`queue/redis_streams.py`) | stream, consumer-group cursor, pending entries with idle times, dead-letter stream | `publish_job`, `lease_jobs`, `acknowledge`, `renew_pending_lease`, `find_stale_leases`, `move_to_dead_letter` | called by clients, workers, recovery |
| Worker (`worker/loop.py`) | the leased message, the loaded job, the heartbeat task, cancellation events | `process_one` and its handlers | store, queue, runners, artifact store, budget policy |
| Runners (`jobs/`) | the result file of each eval case | `run`, `run_eval_lab_case`, `run_gdev_webhook_eval` with its normalisation of answers | called by the worker under a timeout; a local gdev-agent |
| Artifact store (`artifacts/store.py`) | one file per job and attempt; links in result files | `write_stub_job_artifact`, integrity check | called by the worker |
| Budget policy and cost (`cost/`) | a frozen policy; cost records | `validate_dispatch`, `validate_retry`, rollups | called by the worker, reports |
| Recovery (`worker/recovery.py`) | the list of stale leases of a pass | `recover_stale_leases`, `_plan_recovery_action` | store, queue; started by an operator (`cli/operator.py`) |
| Clients (`cli/main.py`, `worker/cancellation.py`) | how far a batch has been submitted | `submit_batch`, `cancel_queued_job`, `request_cancel` | store, queue, the worker's registry |
| Drivers (`cli/smoke.py`, `benchmark.py`, `proof.py`, `jobs/failure_injection.py`) | a batch, a pool, an advisory lock, a report | submission, rounds of `process_one`, reset of the tables, report, validators | clients of store and queue, run workers |
| Inspection (`queue/inspection.py`) | none | `inspect_queue_backpressure` | reads queue and store |
| Evidence (`evidence.py`) | three files per report path | `write_evidence_bundle`, verifiers | called by the drivers and `verify-evidence` |
| Failure reports, cost rollup, cleanup | none | rendering, sums, removal of directories | read what they are given |
| API, observability, logging, config | none that concerns a job | placeholders, formatting | - |

PostgreSQL and Redis are changed in turn and no transaction spans both. Every
path is therefore "record in the database, then tell the queue", and the hard
questions are about what lies between the two:

- *interleavings*: several workers, several operators and cancelling clients act
  on one job; a lease can look stale while its execution is alive;
- *death between two steps*: after the commit and before XADD or XACK, or, on the
  budget path, after XACK and before the commit;
- *duplicates*: recovery publishes a new message instead of taking over the old
  one, so several messages of one job, even of one attempt, circulate;
- *commands side by side*: commands share one database and, by default, one
  directory of result files; some of them drop all tables first;
- *submissions that share a key*: the look-up of the idempotency key locks nothing;
- *stale reads*: handlers use the job row as loaded before the runner, a pass
  uses a list of leases read once, `cancel_queued_job` a row read earlier.

What makes the parts correct:

- store: one finalization and one terminal event per job; a terminal status is
  backed by its finalization;
- queue and worker: a message is acknowledged only when its job is decided or a
  later message carries it on; a completed job has its artifact;
- recovery: it neither drops work nor dead-letters undecided jobs; what it lists
  and settles is settled for good;
- submission: a key has one row and one payload; a submission that returned is
  honoured even if an earlier one died half-way;
- drivers: they report on a drained queue, certify only what they executed, reject
  only for cause, and end;
- gdev adapter: a case passes exactly if the agent's answer can be used;
- inspection: an empty queue means that the work is done;
- whole: every dispatchable job that was published is finalized in the end, and
  the queue is drained.

`PROJECT.json` lists the hazards at their lines with the properties about them.

## 2. Modules

| Module | Models | Notes |
|---|---|---|
| `JobDomain` | `domain/jobs.py` | jobs and their immutable fields, as constants |
| `JobStore` | tables and statements | one operator per SQL unit |
| `JobQueue` | Redis Streams commands | entry ids are positions in the stream |
| `BudgetPolicy` | the two checks of `cost/telemetry.py` | pure operators |
| `Worker` | `worker/loop.py` | extends store, queue and policy |
| `Recovery` | `worker/recovery.py` | extends store and queue |
| `RuntimeGrid` | clients, composition | `Init`, `Next`, all properties, fairness |
| `JobLifecycle` | - | the abstract promise: outcomes decided once, owed until decided |
| `MCGrid` | - | the job specifications and policies of the runs |
| `MCBudget` | - | the pool, policy and property of run `RunBudget` |
| `Submitters` | `create_job` and `submit_batch` with keys chosen by the caller | extends `RuntimeGrid`: callers in place of its one submission per job |
| `MCSubmission` | - | three callers of one key |
| `Inspection` | `queue/inspection.py` | extends `RuntimeGrid` by an operator who looks |
| `MCOperator` | - | the pool and policy of run `Budget` |
| `Smoke` | `run_smoke`, `build_smoke_report`, `validate_smoke_report` | extends `Worker`: what every certifying command shares |
| `ReliabilityProof` | `run_reliability_proof`, `FailurePlan` | extends `Smoke` |
| `GdevAdapter` | answers and quality in `jobs/gdev_agent.py` | pure operators, with a reference definition (`Usable`) |
| `FullStackProof` | `cli/proof.py`, result files and cross links | extends `Smoke` and `GdevAdapter` |
| `ProofCommands` | - | the three commands together: `Init`, `Next`, properties, fairness |
| `MCProof` | - | the batches and calls of the run |
| `EvidenceBundle` | `evidence.py`, `verify-evidence`, `verify-committed-evidence` | stands alone: the three files of one report path |
| `RuntimeGridProofs`, `LifecycleProofs`, `ExecutionProofs` | - | proofs about `RuntimeGrid`, each extending the one before |
| `SubmissionProofs`, `InspectionProofs` | - | proofs about `Submitters` and `Inspection`, on top of those |
| `EvidenceProofs` | - | proofs about `EvidenceBundle` |
| `GdevAdapterProofs`, `CommandProofs` | - | proofs about `GdevAdapter`, and about `ProofCommands` on top of those |

### State and actions against the code

`status`, `finalization`, `events` and `conflicts` are the four tables;
`stream`, `delivered`, `pel` are the stream, the group's last-delivered-id and
its pending entries; `stale` is the part of `pel` that has been idle for
`stale_after_ms`. Time is left out: an entry may become stale at any moment at
which nobody renews it, and XCLAIM takes it out of `stale`. `HeartbeatReliable`
says whether an execution with a heartbeat can be late. FALSE covers the Redis
errors the heartbeat swallows, an event loop blocked by a synchronous runner,
and a renewal interval longer than `stale_after_ms`. TRUE is a heartbeat that
works; an entry can still become stale between delivery and `record_running`.

A worker's `wpc` is its place in `process_one`, which is cut at every await that
lets another process act: after XREADGROUP, after the transaction of
`record_running`, after the runner and the artifact, after the recording
transaction, after XADD. Each handler of an exception is one action with its
transaction, and XADD and XACK are actions of their own. `Abort` ends
`process_one` at any of these places and stands both for the death of the
process and for an exception the loop does not catch; an open transaction is
rolled back and the message stays pending. A pass (`rpc`, `rtodo`) is cut in the
same way: list, plan, XADD to the stream or the dead-letter stream, XACK.

*Transactions as steps.* A transaction that only talks to the database is one
step. `load_job_for_update` takes the row FOR UPDATE; `_record_state_event`
begins with an UPDATE of the row; `finalize_job` begins with an INSERT whose
primary key makes a second finalizer wait and whose foreign key takes the row
KEY SHARE, which waits for FOR UPDATE. Conflicting transactions on a job hence
take effect in the order of their commits. The transaction at the start of
`_process_message` is the exception, since it awaits XACK while holding the row:
its job is in `locked` between the read and the end of the transaction, and no
other transaction on the job runs (`RowFree`).

*Cancellation.* The registry is one set shared by the pool (workers of one
process share it) and, as in the code, an event is never cleared. The database
cancellation is two steps, reading the job and finalizing it, because
`cancel_queued_job` is handed a job read earlier.

*Abstractions.* A message is a job and an attempt number. An event keeps its
type, attempt and the entry whose execution wrote it. An artifact keeps its path
(job, attempt) and the execution whose bytes it holds, since worker id and
creation time are part of the content. The missing-job branches of worker and
recovery are kept in the guards; `EntriesHaveRows` shows they are not reached.
The workers have an artifact store (`artifact_store=None` skips the write).

*Submitters.* In `RuntimeGrid` a job is submitted once, as `submit_batch` does with
keys made of a fresh run id. `Submitters` replaces that by callers with keys and
payloads of their own. A job stands for its idempotency key. The look-up of
`create_job` is one step and the INSERT another: at PostgreSQL's READ COMMITTED
level nothing is locked in between, and the unique constraint lets only one INSERT
succeed. The others raise, which `create_job` does not catch. A caller that finds
the key returns the row and publishes it again. Calling again after a failure is
another caller with the same key and payload.

*Drivers.* `Smoke` composes the same `Worker` actions differently: a command submits
its whole batch to a queue of its own, then calls `process_one` once for every worker
and waits for all of them (`asyncio.gather`), until a round in which all returned
False. No recovery pass and no cancelling client acts on that queue, so leases growing
old are left out. A worker that raises ends the command. The report is counted from
the tables after the loop (one step: no worker of the command runs any more), and the
command's validator accepts or rejects it; `phase` becomes "certified", "invalid",
"refused" (a dataset that cannot be submitted) or "raised". `gather` does not cancel the
other workers when one raises: in "raised" they go on with the message they hold, until
`asyncio.run` cancels them (`WorkersCancelled`) or the process ends. In `ReliabilityProof`
the seeded shuffle of the failure plan is any order of submission, and a sleeping job may
or may not outlast its timeout. `int(jobs * failure_rate)` is computed in floating point:
where the exact product is a whole number it may come out one less (50 jobs at 0.58 are
28 failures, not 29), so a plan's `failure_count` may be either (`PossibleFailureCounts`).
`plan` is how the command was called: its options, the jobs of the batch, and how many of
them fail. `Plans` holds the calls, and `PlanHolds` says what the code makes of one: the
modes take turns over the failing jobs, so that a short plan leaves some mode out.

*Full-stack proof.* `setup` is how the command was called: the dataset, live or stub
agent, with or without reset, and what the other command, the *rival*, does. A case is
an id, a request and whether it has a text. Jobs are named by case ids, since the
idempotency key is run id and case id. Result files hold the execution whose body they
contain, the execution whose artifact they name, and the quality status; executions
are named by their queue entry. Python runs the code between `run_gdev_webhook_eval`'s
answer and the end of `write_stub_job_artifact` without an await, so the command's own
workers never interleave in it (`LoopFree`), but the rival's system calls do: opening
with truncation, writing, reading and rewriting are steps. Two texts written into one
file leave the longer one or a mixture that is not JSON (`Garbled`). When the rival
drops the tables, a worker that records an outcome fails on the foreign key of
`job_finalizations`, and a worker that loads the job finds no row.

*Rival.* It is a full-stack command too and is followed as far as the first one can
tell: lock, reset, one execution of a case of the dataset, end or death. When one of its
workers raises (`RivalFails`) the lock is released at once, while another worker of the
same round may still be writing its result file or get its answer and write one then;
only the end of the process stops that. Two bounds go with it: it writes one result file, and it does not reset between the cases of a
dataset that repeats an id (the repeated case would get a second job of the same name).

*Answers.* `Responses` are the 147456 combinations of what the adapter looks at: HTTP
failure, whether the body is an object, the words and types of its fields, and whether
they are on top, in the classification, null or missing. `quality_status` of
`normalize_live_response` is compared with `Usable`, which says what an answer is worth
without the pipeline. `LiveVerdicts` is the set of all pairs that result.

*Inspection.* XINFO GROUPS gives the pending entries and the lag at one moment; the
other figures are read by other commands and summed up with nothing, so `queue_depth`
is what the model keeps. `known` remembers which jobs were published when the operator
looked.

*Evidence files.* A file's bytes are named by the run they belong to, a digest by
the bytes, and a manifest is a pair of digests. `_atomic_write` is three steps:
temporary file, `os.replace`, sync of the directory. `disk` is what processes see,
`durable` what a power loss leaves; a rename becomes durable with the sync or
earlier, in any order. `mkdir(parents=True)` at the start makes the directory where it is
missing, and nothing syncs the directory that holds its entry: `directory` is "fresh"
until the file system has written that entry on its own, and a power loss before takes
the directory with every file in it. Sidecar files that other programs put beside the
report are not modelled, only the temporary files of killed commands. Verifiers read the
manifest, hash the report, hash the data and list the sidecars in steps of their own. The
release audit compares the manifest with the pinned digest first and reads the data once
more at the end.

## 3. Runs

Runs use module `MCGrid` unless the table says otherwise. They switch the deadlock
check off because the system comes to rest when all jobs are decided and the queue
is empty, or when the commands have ended.

| Run | Instance | Shows |
|---|---|---|
| `Chaos` | a transient job with one retry, 2 workers, 1 pass, unreliable heartbeat, 1 death | types, no lost work, one terminal event, attempts justified, entries held once, acknowledgement after record, refinement of `JobLifecycle` |
| `Handover` | a job that succeeds and has one retry left to recovery, 2 workers, 2 passes, unreliable heartbeat, 1 death | no lost work, safe handover, artifact of completed jobs |
| `Budget` (`MCOperator`) | a live pool without retries, a transient job and one over budget, 2 workers, 1 pass, 1 death, an operator who looks once | only recovery exceeds the retry budget, dead letters are final, an empty queue means that the work is done |
| `WorkersLive` | a transient job, 2 workers (fair), 1 pass (unfair), unreliable heartbeat, a cancelling client | one terminal event, backed terminal status; every published job is finalized |
| `RecoveryLive` | a transient job with one retry and an interruptible sleeping job, 1 worker and 1 pass (both fair), 1 death | every published job is finalized, the queue is drained |
| `Submission` (`MCSubmission`) | 3 callers of one key, 2 of them with one payload, 1 worker and 1 pass (both fair), a cancelling client, 1 death | one row per key, submissions that returned are honoured, at once and in the end |
| `Proof` (`MCProof`) | a smoke run of 3 jobs and 2 workers; 5 jobs with one of each failure mode and one without, in every order, 3 workers; two plans too short for the evidence asked for (2 failures for 3 modes with a repeated submission demanded, no failure for a rate above zero); 18 calls of the full-stack proof with up to 2 cases, distinct, repeated, conflicting, without id or text, live or stub, with and without reset and rival, 2 workers; one exception | the rounds end only when everything is decided and drained; runs are rejected only for cause and certified only with the failures they were to show; what is certified was executed once; links and quality of result files agree with artifacts and answers; commands that reset exclude each other; every command ends |
| `Evidence` (`EvidenceBundle`) | 2 writing commands in turn over a missing directory, an unused or a committed path, a reader, an audit, kills anywhere, 1 power loss | verified bundles are of one run, the writer's own check passes, a returned bundle is durable, or goes as a whole with a directory that had to be made |

Why the bounds are enough to be interesting: with one retry a job has a first, a
retried and an exhausted attempt, and an unreliable heartbeat already yields
several messages of the same attempt; two workers hold two of them at once, and
two passes settle the same entry twice. One death can fall between any two
steps of a worker, a pass or a submitter, and an unreliable heartbeat gives
passes something to recover without it; `DeadLetterLoss` has two, for a worker
and then the pass that recovers it. `MaxAborts`, `RecoveryBatch` and the sets
are the only bounds; attempts are bounded by `max_retries` itself, and events
and messages follow. Worker and recoverer ids are symmetric in the safety runs,
which use no operator that tells them apart; the liveness runs use no symmetry.
A death between the commit of `retry_scheduled` and the XADD of the retry needs a job
that fails transiently and a worker that may die: it falls in `Chaos` (safety) and in
`RecoveryLive` (the job is finalized all the same), and in the theorems. `Handover` has
no transient job and `WorkersLive` no death.
In `Proof` three workers can be one retrying, one done and one that found the queue
empty in a single round; two cases are enough for one to be processed while the other
is submitted, dropped or repeated, and one execution of the rival can fall between any
two system calls of the command. In `Submission` a caller can die, a second lose the
race and a third find the row. In `Evidence` two commands are a killed one and its
successor, and the committed release is a third set of bytes; three commands were
also explored (13 million states) with the same result.

### Where the documents say more than the code does

Four runs are expected to fail; each checks one sentence of the documents.

| Run | Sentence | What happens |
|---|---|---|
| `Resurrection` | FAILURE_MODES.md: "Replayed queue messages for terminal jobs are acknowledged as no-ops." | an execution that lost its lease records `retry_scheduled` after the job was finalized; the unconditional UPDATE makes it `queued`, and the next message is executed |
| `BlockedLoss` | COST_BUDGET.md: "acknowledge the Redis message only after the database event is recorded." | XACK precedes the commit; a death in between leaves neither |
| `DeadLetterLoss` | OPERATIONS.md: "... finalized as failed and moved to the Redis dead-letter stream." | a pass dies after the commit; the next one sees a terminal job and only acknowledges |
| `RunBudget` (`MCBudget`) | spec.md: "Cost budget overrun blocks additional live LLM job dispatch for the run and records a budget event." | `validate_dispatch` compares the run's budget with that of one job at a time; three jobs of 6 cents are dispatched under a limit of 10 |

`RunBudget` is about a pool that a caller gives a live policy; the commands of the
repository use the stub policy, under which no live job is dispatched.

`cancel_queued_job` does not read the status again either, so a job recorded as
cancelled while queued may already be running.

None of this changes an outcome once decided: `OneTerminalEvent`, `WorkNotLost` and the
refinement hold in all of these situations for dispatchable jobs.

FAILURE_MODES.md also says "Matching idempotency replays return the existing job."
That holds for replays that start after the first submission has committed. Of two
that race, one ends in an `IntegrityError` (`InsertRefused`); a caller that calls once
more gets the job.

More limits came up that no document speaks about. A second execution of an attempt
replaces the artifact file of the first (`CompletedHasArtifact` says that a file is there,
not that its bytes have the digest in the completed event). A bundle written into a new
directory can be lost with it. A command that resets the database and one of whose workers
raises unlocks while the others of its round still write result files, so that the next
command that takes the lock can be certified over a file that is not its own:
`ExclusiveCaseFiles` holds only as long as the rival has not failed (`~RivalFailed`), and
TLC finds it violated otherwise. A full-stack proof that does not
reset takes no lock: another command's reset takes its rows away, which ends it with
an exception or a rejected report, never a certified one (`CertifiedIsSound`). Its
result files can hold the body of one command's execution beside the link of
another's; link and quality always agree (`LinkMatchesArtifact`). A dataset that
repeats a case id is executed and then rejected. Two commands writing to the
same report path at once (`Overlap = TRUE`) can leave a manifest that certifies the
report of one and the data of the other, and their own verification can reject the
other's files. And `int(jobs * failure_rate)` failures share the modes in turn: with
fewer failures than modes, `validate_reliability_proof` asks for evidence the batch
cannot produce and rejects a correct run.

### Fairness

Worker loops call `process_one` again as long as the pool runs: weak fairness of
each worker. Recovery is started by an operator: `WorkersLive` assumes nothing of
it, `RecoveryLive` assumes that passes keep being run and that the idle time of
a lease nobody is working on grows past `stale_after_ms`. Deaths, heartbeats,
cancellations, submissions and the expiry of live leases have no fairness. In
`Proof` the event loop runs the command and every task `gather` waits for (while it
waits: nothing is assumed of the workers that are left when one has raised), and a rival
that holds the advisory lock ends or dies (`WF_vars(Rival)`), as PostgreSQL releases
the lock with the connection. In `Submission` nothing makes a caller call or publish:
the promise is about submissions that returned.

## 4. Proofs

Assumptions on the constants are those of the modules: `JobSpec` maps jobs to
job specifications with `max_retries` a natural number, `Policy` is a budget
policy, `RecoveryBatch` is a positive number, `MaxAborts` a natural number. The
sets of jobs, workers and recoverers are arbitrary, infinite ones included.
`CommandProofs` adds those of the commands: a smoke run and a reliability proof
have a finite batch that is not empty and every command has a worker, because
`run_smoke`, the benchmark and the full-stack proof refuse a number of jobs or
workers that is not positive (`cli/smoke.py:70`, `cli/benchmark.py:243`,
`cli/proof.py:95`); a reliability proof is called by one of `Plans`, of which
`PlanHolds` says what the code makes of the options. `CallsAssumption` says that the
value that stands for a missing case id is not the id of a case.

`RuntimeGridProofs` proves `Spec => []IInv` for

    IInv == TypeOK /\ TerminalStatusBacked /\ HandoverSafe /\ WorkNotLost

and from it `TypeCorrect`, `WorkIsNeverLost`, `HandoverIsSafe`,
`TerminalStatusIsBacked` and `AcksFollowRecords`. `WorkNotLost` alone is not
inductive: an acknowledgement removes an entry, so one must know that the entry
was not the last one. `HandoverSafe` says what every process about to send XACK
has established, and says it in a form that other acknowledgements cannot take
away: the job is finalized, which is for ever, or a *later* entry is
unacknowledged. When that later entry is acknowledged in turn, its own
settlement supplies a still later one, so the claim survives. The no-op path
acknowledges because it saw a terminal status, and `TerminalStatusBacked` turns
that into a finalization. The status may leave its terminal value again (see
`Resurrection`), the finalization never does, and this is why the argument rests
on the latter.

The proof first sums up each action by what it does to store and queue (an event
is appended, a job is finalized, an entry is published, delivered or
acknowledged), shows the invariant under each such effect, and then goes through
the actions of `Next` one by one.

`LifecycleProofs` adds `OneTerminalEventTheorem` (inductive with `TypeOK`: each
store effect appends at most one event, a terminal one exactly when it creates
the finalization) and `Refinement`: with the finalization's status as `outcome`
and the jobs with an unacknowledged entry as `owed`, every step of the runtime
is `Accept`, `Decide` or `Release` of `JobLifecycle`, or leaves it alone.
`Release` is where `AckAfterRecord` is needed.

`ExecutionProofs` proves what an execution leaves behind, with

    XInv == IInv /\ AttemptsPositive /\ AttemptJustified /\ BudgetBoundsRetries
              /\ CompletedHasArtifact /\ DeadLetterIsFinal
              /\ \A w : WorkerHasRecorded(w) /\ \A r : PassHasRecorded(r)

Each of these properties relates two places that the code writes one after the
other: the artifact and then the completed event, the retry event and then the
message, the finalization and then the dead letter. In between, nothing but the
position of the worker or the pass says that the first has been written.
`WorkerHasRecorded` and `PassHasRecorded` say it, and the proof has to show that no
other worker or pass undoes it: events are only appended, an artifact is replaced
only by one of the same job and attempt, the job and attempt of an entry never
change. `EntriesAreHeldOnce` needs only the types: what a worker holds has been
delivered, and XREADGROUP delivers what has not.

`SubmissionProofs` carries `IInv` over to callers that race for a key. Every step of
a caller is a step that a client of `RuntimeGrid` takes, with two exceptions: a
caller that finds the key publishes the job once more (`PublishAgain`), and a caller
dies (`ProcessDies`). `IInv` survives both, so that the proof of `RuntimeGridProofs`
is used for the rest, and `WorkNotLost` then gives the message of
`SubmissionsAreHonoured`. What the properties need beside it is what each caller
knows after its look-up and its INSERT (`CallerKnows`), and that a row has the
payload it was created with.

`EvidenceProofs` is about `EvidenceBundle`, for any sets of commands, readers and
audits and any number of power losses, under the assumption that the commands that
write to a path take turns (`~Overlap`; the types need no such assumption). Its
invariant says, for each place of `write_evidence_bundle`, which files are the
writer's own on disk and durably, what the state of the directory says about both
(`DirectoryInv`), that only the command that began last writes, and
that every manifest, on disk, durable or already read by a verifier, names one run.
The last part carries `VerifiedIsOneRun`: a verifier compares the files with the
manifest it has read, so whatever was replaced in between, what it accepted is what
that manifest names. `ReturnedBundles` is what `write_evidence_bundle` can promise without
syncing the parent: in its directory the bundle is complete and durable, and what a power
loss can take is a directory the command had to make, with all of the bundle.

`InspectionProofs` proves `ISpec => []EmptyQueueMeansDone` on top of `IInv`. An
inspection takes no step of the runtime, so `IInv` goes on to hold; a depth of zero
leaves no unacknowledged entry, so `WorkNotLost` gives an outcome for every published
job that may be dispatched; and finalizations stay.

`GdevAdapterProofs` proves, for every answer in `Responses`, that the quality status is
"pass" exactly if the answer is `Usable`, and that the adapter reports `requires_human`
as false only if the agent said so or executed the case with nothing pending or risky.
It goes through the pipeline of `_normalize_live_response` case by case. TLC checks the
first as part of `PassMeansUsable`, through the result files.

`CommandProofs` is about the three commands, for every batch, dataset, pool and
call, with a rival that shares the result files and may drop the tables.

*Result files.* `FileInv` is inductive and contains `LinkMatchesArtifact`; from it and
`QualityIsUsability` follows `PassesAreUsable`. A process that is writing a file holds
the quality of its execution's verdict in a variable of its own, and writes it beside
the link several steps later. The link is therefore right only if the verdict cannot
change in between (`JudgedOnce`: an entry is answered once, and the worker that holds
it is in the stretch of code that writes) and if the artifact is there before the link
(`LinkAfterArtifact`), also when the artifact file replaces that of an earlier execution
of the same case: until the new link is written no file names the old one.

*Rounds.* `DrainInv` adds to it what `DrainedAtReport` rests on. `RoundsOK`: while an
entry is undelivered and a worker has found the queue empty, another worker of the
round is busy or has returned True, so that the round is not the last; a pending entry
is in the hands of a busy worker. `RowsCovered`: a row that is not decided has an entry
that is still to be looked at, or its message is about to be published.
`OneLiveEntry`: unless a case comes twice, no job has two such entries, and none has
one once it is decided, which is why nothing conflicts. `TodoUntouched` and
`BatchCovered` connect both with the batch: what is left to submit has no message yet,
and no job of the batch is left out (an injective enumeration of a finite batch
reaches every job, by the theorems about finite cardinalities). The proof sorts the
steps of a command by what they do to the jobs (`StepShapes`) and those of a worker
by what they decide about their entry (`WorkerDecides`): it is looked at, passed over,
settled or handed on to its next attempt.

*Certificates.* `validate_full_stack_report` compares numbers; `CertificatesAreSound`
says what follows from them. `CertInv` adds to `DrainInv` that rows and messages are
those of cases (`CasesOnly`), that a completed row has its event (`CompletedLogged`),
that an artifact names an execution that was answered (`ArtifactsKnown`) and that a
case has one message unless it comes twice (`OneEntryPerCase`). If as many rows as the
dataset has elements are there when the report is built, the ids of the dataset are all
different and the rows are theirs; if as many are completed, all are; the
integrity check of the report then finds the artifact of each, and the only message of
the case is the only execution that can have left it. All of this is about the moment of
the report. Afterwards the rival may still drop the rows, which is why `ReportSound`
keeps what was executed and not what the tables say.

*The lock.* `LockKeepsFilesWhole` rests on `AloneInv`: from `TakeLock` to `ReleaseLock`
the rival, if it is to reset the database too and none of its workers has raised, has not
started or has stopped (`LockOK`), so that what the command reads back from a result file is what it wrote
(`OwnText`) and every execution leaves a whole file (`WholeFiles`). `WriterWorks`
connects the stretch of code that writes with the worker in it: with idle workers no
file is half written. That every case was executed comes from `CertInv`.

*Rejections.* `RejectionsHaveCauses` is about the other direction, for smoke runs and
reliability proofs with any plan, however short: what they ran is accepted, unless the
plan has no job that could give the evidence asked for, or every job that was to time out
was faster. `CauseInv` adds to `CertInv` where the evidence comes from:
a finalization has the one outcome that the payload of its job allows (`OutcomesFit`),
and a transient failure is final only after a retry was recorded, because a message of
a later attempt follows its `retry_scheduled` event (`RetriesShown`); a job has one
terminal event, that of its status, and a completed one names an artifact that is there
(`EventsFit`, with `WorkersFit` for the worker between artifact and event); the second
submission of a job is counted before its message is published (`ReplaysCounted`).
When the report is built, the completed events are as many as the completed rows
(`CompletedOnce`, a bijection), and what is missing was not planned or did not happen.
`FullPlansAreAccepted` draws the conclusion for the usual call: with at least as many
failures as modes every mode has a job (`ModesOccur`, about the cardinalities of the
plan), and only a timeout that did not happen is left as a cause.

Every invariant and action property of the passing runs but one is thus a theorem.
`CertifiedShowsFailures`, that a certified reliability proof has seen the failures it was
asked for, is model-checked only, and so is liveness (`EventuallyFinalized`,
`EventuallyDrained`, `EventuallyHonoured`, `CommandEnds`): it rests on fairness and on
`ENABLED`, which are outside the prover's reach. The four runs that expect a violation
are counterexamples and have nothing to prove.

## 5. Plan

The parts that share `Worker` are related by proofs where their composition is the
same (`RuntimeGridProofs` carries over to `Submitters` and `Inspection`), but the
commands are proved about on their own. What is left is to show that the commands
without a rival implement `JobLifecycle` as well.

