--------------------------- MODULE FullStackProof ---------------------------
(***************************************************************************)
(* run_full_stack_proof: a command that turns the cases of a dataset into  *)
(* gdev_webhook_eval jobs, processes them like a smoke run and certifies   *)
(* the run.  Every execution leaves a result file for its case outside the *)
(* artifact root, named by candidate and case only: another command writes *)
(* the same files, and may drop the tables of the shared database.  That   *)
(* command, the rival, is followed as far as this one can tell.            *)
(***************************************************************************)
EXTENDS Smoke, GdevAdapter

CONSTANTS
  CaseIds,    \* the ids of dataset cases; as jobs, those of this command's run
  Calls       \* the ways the command may be called

VARIABLES
  setup,      \* how the command was called, and what else runs
  lock,       \* who holds the advisory lock 7400
  rival,      \* where the rival is
  files,      \* the result file of each case
  writing,    \* where each command is in the code that writes a result file
  verdicts    \* the verdict of each execution of this command, by entry

fullStackVars == <<setup, lock, rival, files, writing, verdicts>>

NoId == "no id"

\* A case; `request' tells requests apart, `text' says whether it has one.
Cases == [id : CaseIds \cup {NoId}, request : Nat, text : BOOLEAN]

CaseSubmission ==
  [job_type |-> "gdev_webhook_eval", mode |-> "success", max_retries |-> 1,
   budget_cents |-> NoBudget]

\* dataset: the first cases of the dataset, none if an input file is missing or
\* malformed; live: live_local_gdev is given; secret: its environment variable is set.  The
\* rival only shares the report directory, or is to reset the database as well.
Setup ==
  [dataset : Seq(Cases), live : BOOLEAN, secret : BOOLEAN,
   clean_state : BOOLEAN, rival : {"none", "shares", "resets"}]

ASSUME CallsAssumption ==
  /\ CaseIds \subseteq Jobs /\ NoId \notin CaseIds
  /\ \A j \in CaseIds : JobSpec[j] = CaseSubmission
  /\ Calls \subseteq Setup

Processes == {"own", "rival"}

\* Executions of this command are named by their entry, that of the rival is 0.
RivalExecution == 0

\* `body' is the execution whose result the file holds and `link' the one whose
\* artifact it names; quality is quality_status.
NoFile == [text |-> "missing"]
Truncated == [text |-> "empty"]
Garbled == [text |-> "garbled"]
Result(body, link, quality) ==
  [text |-> "json", body |-> body, link |-> link, quality |-> quality]
NoExecution == -1

NotWriting == [step |-> "none"]

FullStackInit ==
  /\ setup \in Calls
  /\ lock = "none"
  /\ rival = "start"
  /\ files = [c \in CaseIds |-> NoFile]
  /\ writing = [p \in Processes |-> NotWriting]
  /\ verdicts = [i \in {} |-> {}]

QuietFiles == UNCHANGED <<files, writing, verdicts>>

\* The case with which the row of job j was created.
CaseOf(j) ==
  setup.dataset[CHOOSE n \in DOMAIN setup.dataset :
    /\ setup.dataset[n].id = j
    /\ \A m \in 1 .. (n - 1) : setup.dataset[m].id # j]

-----------------------------------------------------------------------------
(* run_full_stack_from_urls: the lock and the tables *)

\* drop_all waits for the transactions that are open, and takes every row.
DropTables ==
  /\ locked = {}
  /\ status' = [j \in Jobs |-> "absent"]
  /\ finalization' = [j \in Jobs |-> NotFinalized]
  /\ conflicts' = [j \in Jobs |-> 0]
  /\ events' = [j \in Jobs |-> <<>>]
  /\ UNCHANGED locked

\* pg_advisory_lock, for a command that is to reset the database
TakeLock ==
  /\ phase = "start"
  /\ setup.clean_state
  /\ lock = "none"
  /\ lock' = "own"
  /\ phase' = "reset"
  /\ UNCHANGED <<storeVars, queueVars, workerVars, command, todo, processed, report,
                 raises, setup, rival>>
  /\ QuietFiles

SkipReset ==
  /\ phase = "start"
  /\ ~setup.clean_state
  /\ phase' = "create"
  /\ UNCHANGED <<storeVars, queueVars, workerVars, command, todo, processed, report,
                 raises, setup, lock, rival>>
  /\ QuietFiles

\* Mutant: the lock covers the reset only.
reset_and_unlock ==
  /\ phase = "reset"
  /\ DropTables
  /\ phase' = "create"
  /\ lock' = "none"
  /\ UNCHANGED <<queueVars, workerVars, command, todo, processed, report, raises,
                 setup, rival>>
  /\ QuietFiles

ResetTables ==
  /\ phase = "reset"
  /\ DropTables
  /\ phase' = "create"
  /\ UNCHANGED <<queueVars, workerVars, command, todo, processed, report, raises,
                 setup, lock, rival>>
  /\ QuietFiles

\* The finally clause, however the run ended; after an exception of one worker the
\* others may still be at work.
ReleaseLock ==
  /\ phase \in {"certified", "invalid", "refused", "raised"}
  /\ lock = "own"
  /\ lock' = "none"
  /\ UNCHANGED <<storeVars, queueVars, workerVars, driverVars, setup, rival>>
  /\ QuietFiles

-----------------------------------------------------------------------------
(* The batch *)

KeyTaken == status[Head(todo).id] # "absent"

\* The payload of the row: the request, and what every case of the run shares.
SameRequest == CaseOf(Head(todo).id).request = Head(todo).request

CreateCaseJob ==
  /\ phase = "create" /\ todo # <<>>
  /\ Head(todo).id # NoId
  /\ Create(Head(todo).id, "publish")
  /\ UNCHANGED fullStackVars

\* The idempotency key of the case is taken: create_job returns its row, which
\* is published once more ...
ReturnCaseJob ==
  /\ phase = "create" /\ todo # <<>>
  /\ Head(todo).id # NoId /\ KeyTaken /\ SameRequest
  /\ phase' = "publish"
  /\ UNCHANGED <<storeVars, queueVars, workerVars, command, todo, processed, report,
                 raises, fullStackVars>>

\* ... or raises, as a case without an id does.  What is published so far stays
\* in a queue that no worker will ever read.  Missing inputs are noticed here too,
\* after the reset of the database.
DatasetRefused ==
  /\ phase = "create"
  /\ todo # <<>> /\ Head(todo).id # NoId => KeyTaken /\ ~SameRequest
  /\ phase' = "refused"
  /\ UNCHANGED <<storeVars, queueVars, workerVars, command, todo, processed, report,
                 raises, fullStackVars>>

PublishCaseJob ==
  /\ phase = "publish"
  /\ Publish(Head(todo).id)
  /\ UNCHANGED fullStackVars

-----------------------------------------------------------------------------
(* run_gdev_webhook_eval and write_stub_job_artifact: the result file of a *)
(* case is written, and then read, changed and written again.  There is no *)
(* await in this code: the workers of a command take turns in it, and only *)
(* the other command gets between two of its system calls.                 *)

File(p) == files[writing[p].case]

Step(p, step) == writing' = [writing EXCEPT ![p].step = step]

BeginResult(p, case, execution, verdict) ==
  /\ writing[p] = NotWriting
  /\ writing' = [writing EXCEPT
                   ![p] = [step |-> "open", case |-> case, execution |-> execution,
                           quality |-> verdict.quality, body |-> NoExecution]]

\* open(path, "w")
Truncate(p, step, next) ==
  /\ writing[p].step = step
  /\ files' = [files EXCEPT ![writing[p].case] = Truncated]
  /\ Step(p, next)

\* What a write leaves when another command wrote since the file was truncated:
\* the longer text wins, or its end is left behind the shorter one.
Written(p, text) == {text} \cup (IF File(p) = Truncated THEN {} ELSE {Garbled})

\* _write_eval_result
WriteResult(p) ==
  /\ writing[p].step = "write"
  /\ \E text \in Written(p, Result(writing[p].execution, NoExecution,
                                   writing[p].quality)) :
       files' = [files EXCEPT ![writing[p].case] = text]
  /\ Step(p, "artifact")

\* _upsert_eval_result_cross_link: a file that is not JSON counts as empty.
ReadResult(p) ==
  /\ writing[p].step = "link"
  /\ writing' = [writing EXCEPT
                   ![p].body = IF File(p).text = "json" THEN File(p).body
                               ELSE NoExecution,
                   ![p].step = "reopen"]
  /\ UNCHANGED files

\* Mutant: the quality status of the file that was read is kept.
write_link_keeps_quality(p) ==
  /\ writing[p].step = "rewrite"
  /\ \E quality \in {"pass", "fail"} : \E text \in Written(p,
       Result(writing[p].body, writing[p].execution, quality)) :
       files' = [files EXCEPT ![writing[p].case] = text]
  /\ writing' = [writing EXCEPT ![p] = NotWriting]

\* case_id, quality_status and the artifact's path are set, the rest is kept.
WriteLink(p) ==
  /\ writing[p].step = "rewrite"
  /\ \E text \in Written(p, Result(writing[p].body, writing[p].execution,
                                   writing[p].quality)) :
       files' = [files EXCEPT ![writing[p].case] = text]
  /\ writing' = [writing EXCEPT ![p] = NotWriting]

FileStep(p) ==
  \/ Truncate(p, "open", "write") \/ WriteResult(p)
  \/ ReadResult(p)
  \/ Truncate(p, "reopen", "rewrite") \/ WriteLink(p)

WritesFile ==
  /\ FileStep("own")
  /\ UNCHANGED <<storeVars, queueVars, workerVars, driverVars, setup, lock, rival,
                 verdicts>>

-----------------------------------------------------------------------------
(* The workers of the command *)

\* _build_local_webhook_payload or _webhook_secret_from_env raises.
Refused(j) == setup.live /\ ~(CaseOf(j).text /\ setup.secret)

PossibleVerdicts(live) == IF live THEN LiveVerdicts ELSE StubVerdicts

\* This command's one thread is not inside the code that writes a result file.
LoopFree == writing["own"] = NotWriting

RowGone(w) == status[JobOf(w)] = "absent"

\* process_one of w goes on outside a runner, with the row it needs.
ProcessCase(w) ==
  /\ command = "full_stack"
  /\ LoopFree
  /\ wpc[w] # "running"
  /\ wpc[w] = "record" => ~RowGone(w)
  /\ Process(w)
  /\ UNCHANGED fullStackVars

RunningCase(w) ==
  /\ MayProcess(w)
  /\ command = "full_stack"
  /\ LoopFree
  /\ wpc[w] = "running"

\* The runner has its answer: a synchronous stretch of code begins.
CaseAnswered(w) ==
  /\ RunningCase(w)
  /\ ~Refused(JobOf(w))
  /\ \E verdict \in PossibleVerdicts(setup.live) :
       /\ BeginResult("own", JobOf(w), wentry[w], verdict)
       /\ verdicts' = [i \in DOMAIN verdicts \cup {wentry[w]} |->
                         IF i = wentry[w] THEN verdict ELSE verdicts[i]]
  /\ UNCHANGED <<storeVars, queueVars, workerVars, driverVars, setup, lock, rival,
                 files>>

\* In the middle of it the artifact is written.
CaseArtifact(w) ==
  /\ MayProcess(w)
  /\ writing["own"].step = "artifact"
  /\ writing["own"].execution = wentry[w]
  /\ RunnerReturns(w)
  /\ NoteProcessed(w)
  /\ Step("own", "link")
  /\ UNCHANGED <<raises, setup, lock, rival, files, verdicts>>

\* GdevAgentPayloadError, and a local agent that takes longer than the job may
CaseFails(w) ==
  /\ RunningCase(w)
  /\ ~RowGone(w)
  /\ \/ Refused(JobOf(w)) /\ handle_policy_error(w)
     \/ setup.live /\ ~Refused(JobOf(w)) /\ handle_timeout(w)
  /\ NoteProcessed(w)
  /\ UNCHANGED <<raises, fullStackVars>>

\* The job's row was dropped: job_finalizations refuses to refer to it.
RecordingRefused(w) ==
  /\ command = "full_stack"
  /\ LoopFree
  /\ wpc[w] = "record" \/ (wpc[w] = "running" /\ setup.live)
  /\ RowGone(w)
  /\ WorkerRaises(w)
  /\ UNCHANGED <<raises, fullStackVars>>

\* Anything else that fails, in the middle of writing a result file included.
CaseRaises(w) ==
  /\ command = "full_stack"
  /\ raises < MaxRaises
  /\ ~LoopFree => writing["own"].execution = wentry[w]
  /\ WorkerRaises(w)
  /\ raises' = raises + 1
  /\ writing' = [writing EXCEPT !["own"] = NotWriting]
  /\ UNCHANGED <<setup, lock, rival, files, verdicts>>

CaseStep(w) ==
  ProcessCase(w) \/ CaseAnswered(w) \/ CaseArtifact(w) \/ CaseFails(w)

-----------------------------------------------------------------------------
(* validate_full_stack_report *)

\* Mutant: the counts are compared with each other, not with the dataset.
counts_agree ==
  /\ {report.submitted, report.completed, report.checked} = {report.completed}
  /\ report.duplicates = 0

FullStackReportValid ==
  /\ {report.submitted, report.completed, report.checked} = {Len(setup.dataset)}
  /\ report.duplicates = 0

validate_full_stack_report ==
  /\ command = "full_stack"
  /\ Validate(FullStackReportValid)
  /\ UNCHANGED fullStackVars

-----------------------------------------------------------------------------
(* The rival: another full-stack command, with jobs and a queue of its own *)

RivalStarts ==
  /\ rival = "start"
  /\ \/ /\ setup.rival = "resets"
        /\ lock = "none"
        /\ lock' = "rival" /\ rival' = "reset"
     \/ /\ setup.rival = "shares"
        /\ rival' = "running" /\ UNCHANGED lock
  /\ UNCHANGED <<storeVars, queueVars, workerVars, driverVars, setup>>
  /\ QuietFiles

RepeatedId ==
  \E m, n \in DOMAIN setup.dataset :
    m # n /\ setup.dataset[m].id = setup.dataset[n].id

\* A case that comes again after its row was dropped would get a second job: the
\* model leaves out resets between the cases of a dataset that repeats an id.
RivalResets ==
  /\ rival = "reset"
  /\ RepeatedId => phase \notin {"create", "publish"}
  /\ DropTables
  /\ rival' = "running"
  /\ UNCHANGED <<queueVars, workerVars, driverVars, setup, lock>>
  /\ QuietFiles

\* The model follows one execution of the rival, of a case of the dataset.
RivalAnswered ==
  /\ rival \in {"running", "failing"}
  /\ \E n \in DOMAIN setup.dataset :
       \E verdict \in PossibleVerdicts(setup.live) :
         /\ setup.dataset[n].id # NoId
         /\ BeginResult("rival", setup.dataset[n].id, RivalExecution, verdict)
         /\ verdicts' = [i \in DOMAIN verdicts \cup {RivalExecution} |->
                           IF i = RivalExecution THEN verdict ELSE verdicts[i]]
  /\ rival' = IF rival = "running" THEN "wrote" ELSE "failed"
  /\ UNCHANGED <<storeVars, queueVars, workerVars, driverVars, setup, lock, files>>

RivalWrites ==
  /\ \/ FileStep("rival")
     \/ /\ writing["rival"].step = "artifact"
        /\ Step("rival", "link")
        /\ UNCHANGED files
  /\ UNCHANGED <<storeVars, queueVars, workerVars, driverVars, setup, lock, rival,
                 verdicts>>

\* One of its workers raises.  The lock is released at once, while the other
\* workers of the round go on: one of them may be writing a result file, or may
\* still get its answer and write one.
RivalFails ==
  /\ rival \in {"running", "wrote"}
  /\ rival' = IF rival = "running" THEN "failing" ELSE "failed"
  /\ lock' = IF lock = "rival" THEN "none" ELSE lock
  /\ UNCHANGED <<storeVars, queueVars, workerVars, driverVars, setup>>
  /\ QuietFiles

RivalFailed == rival \in {"failing", "failed"}

\* Its process ends or is killed; with its connection goes its lock.
RivalStops ==
  /\ rival \notin {"start", "stopped"}
  /\ rival' = IF RivalFailed THEN "failed" ELSE "stopped"
  /\ lock' = IF lock = "rival" THEN "none" ELSE lock
  /\ writing' = [writing EXCEPT !["rival"] = NotWriting]
  /\ UNCHANGED <<storeVars, queueVars, workerVars, driverVars, setup, files, verdicts>>

RivalStep ==
  \/ RivalStarts \/ RivalResets \/ RivalAnswered \/ RivalWrites
  \/ RivalFails \/ RivalStops

=============================================================================
