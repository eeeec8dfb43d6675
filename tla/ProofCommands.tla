--------------------------- MODULE ProofCommands ---------------------------
(***************************************************************************)
(* The commands that run a batch and certify the run: smoke, reliability   *)
(* proof and full-stack proof.  They share the rounds, the workers and the *)
(* report of Smoke; each submits a batch and validates a report of its     *)
(* own.  Which of them runs is chosen at the start.                        *)
(***************************************************************************)
EXTENDS ReliabilityProof, FullStackProof

vars == <<storeVars, queueVars, workerVars, driverVars, proofVars, fullStackVars>>

Init ==
  /\ FullStackInit
  /\ plan \in Plans /\ replays = 0
  /\ \/ DriverInit("smoke", "create") /\ todo \in Orderings(SmokeJobs)
     \/ DriverInit("reliability", "create") /\ todo \in BatchOrders
     \/ DriverInit("full_stack", "start") /\ todo = setup.dataset
  /\ command # "full_stack" => setup = CHOOSE s \in Calls : TRUE
  /\ command # "reliability" => plan = CHOOSE p \in Plans : TRUE

\* A smoke run or a reliability proof: nothing of FullStackProof moves.
Plain == command # "full_stack" /\ UNCHANGED fullStackVars

PlainStep ==
  /\ Plain
  /\ \/ UNCHANGED proofVars /\ CreateSmokeJob
     \/ CreateReliabilityJob \/ ReplaySubmission
     \/ UNCHANGED proofVars /\ Publish(Head(todo))
     \/ UNCHANGED proofVars /\ validate_smoke_report
     \/ validate_reliability_proof

FullStackStep ==
  /\ command = "full_stack"
  /\ \/ TakeLock \/ SkipReset \/ ResetTables
     \/ CreateCaseJob \/ ReturnCaseJob \/ DatasetRefused \/ PublishCaseJob
     \/ WritesFile
     \/ validate_full_stack_report
     \/ ReleaseLock
  /\ UNCHANGED proofVars

\* The command's own code between the awaits of its workers
Drive ==
  \/ PlainStep
  \/ FullStackStep
  \/ /\ EndRound \/ build_smoke_report
     /\ UNCHANGED <<proofVars, fullStackVars>>

PlainProcess(w) == Plain /\ Process(w) /\ UNCHANGED proofVars

PlainRaises(w) ==
  /\ Plain
  /\ raises < MaxRaises
  /\ WorkerRaises(w)
  /\ raises' = raises + 1
  /\ UNCHANGED proofVars

WorkerGoesOn(w) ==
  \/ PlainProcess(w)
  \/ CaseStep(w) /\ UNCHANGED proofVars
  \/ LoopFree /\ FindNothing(w) /\ UNCHANGED <<proofVars, fullStackVars>>

RecordingFails(w) == RecordingRefused(w) /\ UNCHANGED proofVars

WorkerFails(w) ==
  \/ PlainRaises(w)
  \/ CaseRaises(w) /\ UNCHANGED proofVars

WorkersCancelled(w) ==
  LoopFree /\ WorkerCancelled(w) /\ UNCHANGED <<proofVars, fullStackVars>>

Rival == command = "full_stack" /\ RivalStep /\ UNCHANGED proofVars

Next ==
  \/ Drive
  \/ \E w \in Workers :
       WorkerGoesOn(w) \/ RecordingFails(w) \/ WorkerFails(w) \/ WorkersCancelled(w)
  \/ Rival

\* Nothing in these commands waits for anything but the row locks of workers
\* that go on, and for the lock of a rival that ends.  Nobody waits for the workers
\* of a round in which one raised.
Fairness ==
  /\ WF_vars(Drive)
  /\ \A w \in Workers :
       WF_vars(phase = "round" /\ (WorkerGoesOn(w) \/ RecordingFails(w)))
  /\ WF_vars(Rival)

Spec == Init /\ [][Next]_vars /\ Fairness

-----------------------------------------------------------------------------
(* Properties *)

\* The jobs of a command whose rows nobody drops
BatchOf(c) == CASE c = "smoke" -> SmokeJobs
                [] c = "reliability" -> ReliabilityJobs
                [] OTHER -> {}

\* The rounds stop at the first one in which no worker got a message, although
\* workers publish retries while others find the queue empty: when the report is
\* built nothing is queued or pending, no worker is at work, and every job that
\* still has its row is decided, without a conflict unless a case came twice.
DrainedAtReport ==
  phase \in {"report", "validate", "certified"} =>
    /\ delivered = Len(stream) /\ pel = {}
    /\ \A w \in Workers : wpc[w] = "idle"
    /\ \A j \in Jobs :
         /\ j \in BatchOf(command) \/ status[j] # "absent" => Finalized(j)
         /\ conflicts[j] = 0 \/ (command = "full_stack" /\ RepeatedId)

Planned(mode) == \E j \in ReliabilityJobs : ModeOf[j] = mode

\* A command without a rival rejects a run only for want of evidence that
\* validate_reliability_proof insists on: a plan of too few failures has no job that
\* could show a retry or a replay, or no planned timeout happened.  No smoke run is
\* ever rejected.
RejectedForCause ==
  command # "full_stack" /\ phase = "invalid" =>
    /\ command = "reliability"
    /\ \/ plan.failure_rate > 0 /\ ~Planned("transient")
       \/ plan.repeat_idempotency_submissions /\ ~Planned("duplicate_submission")
       \/ /\ plan.include_timeouts
          /\ \A j \in ReliabilityJobs :
               ModeOf[j] = "timeout" => finalization[j].status = "completed"

\* A certified reliability proof has seen what was asked for: some job was retried
\* and decided by its second attempt, some job timed out, and one that was submitted
\* twice has a single message and completed.
CertifiedShowsFailures ==
  command = "reliability" /\ phase = "certified" =>
    /\ plan.failure_rate > 0 =>
         \E j \in ReliabilityJobs : \E m, n \in DOMAIN events[j] :
           /\ ModeOf[j] = "transient" /\ m < n
           /\ events[j][m].type = "retry_scheduled"
           /\ events[j][n].type = "failed" /\ events[j][n].attempt = 2
    /\ plan.include_timeouts =>
         \E j \in ReliabilityJobs :
           ModeOf[j] = "timeout" /\ finalization[j].status = "timed_out"
    /\ plan.repeat_idempotency_submissions =>
         \E j \in ReliabilityJobs :
           /\ ModeOf[j] = "duplicate_submission"
           /\ finalization[j].status = "completed"
           /\ Cardinality({i \in Entries : stream[i].job = j}) = 1

\* A full-stack proof is certified only for a dataset of distinct cases, each
\* executed by this run exactly once and leaving its artifact, even if another
\* command drops the tables while it runs.
CertifiedIsSound ==
  command = "full_stack" /\ phase = "certified" =>
    /\ ~RepeatedId
    /\ \A n \in DOMAIN setup.dataset :
         LET id == setup.dataset[n].id IN
         /\ id # NoId
         /\ \E i \in DOMAIN verdicts :
              /\ [job |-> id, attempt |-> 1, by |-> i] \in artifacts
              /\ \A k \in DOMAIN verdicts \ {RivalExecution} :
                   stream[k].job = id => k = i

\* Whatever two commands do to a result file at the same time: the artifact it
\* names is on disk, and the quality status beside it is that of the execution
\* which wrote that artifact.
LinkMatchesArtifact ==
  \A c \in CaseIds :
    files[c].text = "json" /\ files[c].link # NoExecution =>
      /\ files[c].link \in DOMAIN verdicts
      /\ files[c].quality = verdicts[files[c].link].quality
      /\ files[c].link # RivalExecution =>
           [job |-> c, attempt |-> 1, by |-> files[c].link] \in artifacts

\* A linked result passes exactly if the agent's answer was a usable one.
PassMeansUsable ==
  \A c \in CaseIds :
    files[c].text = "json" /\ files[c].link \in DOMAIN verdicts =>
      (files[c].quality = "pass" <=> verdicts[files[c].link].usable)

\* Every case has a whole result file, body and link of one execution of this run.
CaseFilesWhole ==
  \A n \in DOMAIN setup.dataset :
    LET file == files[setup.dataset[n].id] IN
    /\ file.text = "json"
    /\ file.body = file.link
    /\ file.link \notin {NoExecution, RivalExecution}

\* Commands that reset the database exclude each other: at the moment one is
\* certified, the result files are whole and its own, whether the other waits, has
\* ended or was killed.  The exception is a command one of whose workers raised: it
\* releases the lock while the other workers of its round still write.
ExclusiveCaseFiles ==
  [][command = "full_stack" /\ setup.clean_state /\ setup.rival = "resets"
     /\ ~RivalFailed
     /\ phase = "validate" /\ phase' = "certified" => CaseFilesWhole]_vars

\* Every command ends, certified, rejected or with an exception.
CommandEnds == <>(phase \in {"certified", "invalid", "refused", "raised"})

=============================================================================
