--------------------------- MODULE CommandProofs ---------------------------
(***************************************************************************)
(* Machine-checked proofs about ProofCommands, for every batch, dataset,   *)
(* pool of workers and way to call the command: what the result files of a *)
(* full-stack proof say, with a second command writing the same files,     *)
(* what has been decided when a report is built, what a certificate rests  *)
(* on, and what a command without a rival can be rejected for.             *)
(***************************************************************************)
EXTENDS ProofCommands, GdevAdapterProofs, FiniteSetTheorems

-----------------------------------------------------------------------------
(* What workers and the queue know of each other *)

Phases == {"start", "reset", "create", "replay", "publish", "round", "report",
           "validate", "certified", "invalid", "refused", "raised"}

Submitting == {"start", "reset", "create", "replay", "publish"}

\* Entries are handed out in order, each to one worker.
EntriesHeld ==
  /\ stream \in Seq(QueueJobMessage)
  /\ delivered \in Nat /\ delivered <= Len(stream)
  /\ wpc \in [Workers -> WorkerPcs]
  /\ wentry \in [Workers -> Nat]
  /\ \A w \in Workers : wpc[w] # "idle" => wentry[w] \in 1 .. delivered
  /\ \A v, w \in Workers :
       wpc[v] # "idle" /\ wpc[w] # "idle" /\ wentry[v] = wentry[w] => v = w

\* What is left to submit is of the command's own batch, and a full-stack proof
\* runs nothing but first attempts of cases.
Batched ==
  /\ command \in Commands
  /\ phase \in Phases
  /\ setup \in Setup /\ plan \in Plans
  /\ command # "full_stack" =>
       /\ todo \in Seq(Jobs)
       /\ phase \in Submitting => todo # <<>> /\ phase \notin {"start", "reset"}
  /\ command = "full_stack" =>
       /\ todo \in Seq(Cases)
       /\ phase = "publish" => todo # <<>> /\ Head(todo).id \in CaseIds
       /\ \A i \in Entries : stream[i].job \in CaseIds /\ stream[i].attempt = 1
       /\ \A w \in Workers : wpc[w] # "publish"

-----------------------------------------------------------------------------
(* The result files *)

WriteSteps == {"open", "write", "artifact", "link", "reopen", "rewrite"}

\* A process between the two ends of the code that writes a result file
Stretch ==
  [step : WriteSteps, case : CaseIds, execution : Nat,
   quality : {"pass", "fail"}, body : Nat \cup {NoExecution}]

Verdicts == [quality : {"pass", "fail"}, usable : BOOLEAN]

IsWriting(p) == writing[p] # NotWriting

FilesTypeOK ==
  /\ writing \in [Processes -> Stretch \cup {NotWriting}]
  /\ DOMAIN files = CaseIds
  /\ DOMAIN verdicts \subseteq 0 .. delivered
  /\ verdicts \in [DOMAIN verdicts -> Verdicts]
  /\ \A c \in CaseIds :
       files[c].text = "json" => files[c].body \in Nat \cup {NoExecution}

\* The link of a file, if it is there and can be read
Links(c) == IF files[c].text = "json" THEN {files[c].link} \ {NoExecution} ELSE {}

Executed(c, i) == [job |-> c, attempt |-> 1, by |-> i] \in artifacts

\* Who writes, writes for an execution whose verdict is known.
WritesVerdict ==
  /\ IsWriting("own") =>
       /\ writing["own"].execution # RivalExecution
       /\ stream[writing["own"].execution].job = writing["own"].case
  /\ IsWriting("rival") => writing["rival"].execution = RivalExecution
  /\ \A p \in Processes : IsWriting(p) =>
       /\ writing[p].execution \in DOMAIN verdicts
       /\ writing[p].quality = verdicts[writing[p].execution].quality

\* The artifact of an execution is written before anything links it, and while
\* it replaces that of another execution, no file links that one.
LinkAfterArtifact ==
  /\ IsWriting("own") /\ writing["own"].step \in {"link", "reopen", "rewrite"} =>
       Executed(writing["own"].case, writing["own"].execution)
  /\ IsWriting("own") /\ writing["own"].step \in {"write", "artifact"} =>
       Links(writing["own"].case) \subseteq {RivalExecution}

\* No execution gets a second verdict.
JudgedOnce ==
  /\ \A w \in Workers :
       wpc[w] \in {"leased", "running"} /\ wentry[w] \in DOMAIN verdicts =>
         /\ wpc[w] = "running"
         /\ IsWriting("own")
         /\ writing["own"].execution = wentry[w]
         /\ writing["own"].step \in {"open", "write", "artifact"}
  /\ rival \in {"start", "reset", "running", "failing"} => RivalExecution \notin DOMAIN verdicts

\* Only full-stack proofs write result files.
FilesOfFullStack ==
  command # "full_stack" =>
    /\ \A p \in Processes : ~IsWriting(p)
    /\ \A c \in CaseIds : files[c] = NoFile
    /\ DOMAIN verdicts = {}

QualityKnown ==
  \A i \in DOMAIN verdicts : verdicts[i].quality = "pass" <=> verdicts[i].usable

FilesOK ==
  /\ FilesTypeOK /\ WritesVerdict /\ LinkAfterArtifact /\ JudgedOnce
  /\ FilesOfFullStack /\ QualityKnown
  /\ LinkMatchesArtifact

FileInv == EntriesHeld /\ Batched /\ FilesOK

-----------------------------------------------------------------------------
(* The steps of a command *)

\* The entry a busy worker holds names a job and an attempt.
LEMMA HeldMessage ==
  ASSUME EntriesHeld, NEW w \in Workers, wpc[w] # "idle"
  PROVE  /\ wentry[w] \in Entries /\ wentry[w] \in 1 .. delivered
         /\ JobOf(w) \in Jobs /\ AttemptOf(w) \in Nat
<1>1. wentry[w] \in Entries /\ wentry[w] \in 1 .. delivered
  BY DEF EntriesHeld, Entries
<1>2. stream[wentry[w]] \in QueueJobMessage
  BY <1>1 DEF EntriesHeld, Entries
<1> QED
  BY <1>1, <1>2 DEF QueueJobMessage, JobOf, AttemptOf

\* XADD appends an entry and moves none.
LEMMA Published ==
  ASSUME EntriesHeld, NEW j \in Jobs, NEW a \in Nat, publish_job(j, a)
  PROVE  /\ stream' \in Seq(QueueJobMessage)
         /\ Len(stream') = Len(stream) + 1
         /\ delivered' = delivered /\ pel' = pel
         /\ \A i \in Entries : stream'[i] = stream[i]
         /\ Entries' = Entries \cup {Len(stream) + 1}
         /\ stream'[Len(stream) + 1].job = j
         /\ stream'[Len(stream) + 1].attempt = a
<1> DEFINE m == [job |-> j, attempt |-> a]
<1>1. m \in QueueJobMessage /\ m.job = j /\ m.attempt = a
  BY DEF QueueJobMessage
<1>2. stream' = Append(stream, m) /\ delivered' = delivered /\ pel' = pel
  BY DEF publish_job
<1> HIDE DEF m
<1>3. stream \in Seq(QueueJobMessage)
  BY DEF EntriesHeld
<1>4. /\ stream' \in Seq(QueueJobMessage)
      /\ Len(stream') = Len(stream) + 1
      /\ \A i \in 1 .. Len(stream) : stream'[i] = stream[i]
      /\ stream'[Len(stream) + 1] = m
  BY <1>1, <1>2, <1>3
<1> QED
  BY <1>1, <1>2, <1>3, <1>4 DEF Entries

\* Workers that go on, or return, keep apart.
LEMMA HeldStay ==
  ASSUME EntriesHeld, stream' \in Seq(QueueJobMessage), delivered' = delivered,
         Len(stream') >= Len(stream),
         wpc' \in [Workers -> WorkerPcs], wentry' \in [Workers -> Nat],
         \A w \in Workers : wpc'[w] # "idle" =>
           wpc[w] # "idle" /\ wentry'[w] = wentry[w]
  PROVE  EntriesHeld'
  BY DEF EntriesHeld

\* A worker that goes on keeps its entry, one that returns holds none.
LEMMA HeldGoesOn ==
  ASSUME EntriesHeld, stream' \in Seq(QueueJobMessage), delivered' = delivered,
         Len(stream') >= Len(stream), NEW w \in Workers, wpc[w] # "idle",
         Return(w) \/ \E pc \in WorkerPcs : GoTo(w, pc)
  PROVE  EntriesHeld'
<1>1. CASE Return(w)
  <2>1. /\ wpc' \in [Workers -> WorkerPcs] /\ wentry' \in [Workers -> Nat]
        /\ \A v \in Workers : wpc'[v] # "idle" =>
             wpc[v] # "idle" /\ wentry'[v] = wentry[v]
    BY <1>1 DEF EntriesHeld, Return, WorkerPcs
  <2> QED
    BY <2>1, HeldStay
<1>2. ASSUME NEW pc \in WorkerPcs, GoTo(w, pc)
      PROVE  EntriesHeld'
  <2>1. /\ wpc' \in [Workers -> WorkerPcs] /\ wentry' \in [Workers -> Nat]
        /\ \A v \in Workers : wpc'[v] # "idle" =>
             wpc[v] # "idle" /\ wentry'[v] = wentry[v]
    BY <1>2 DEF EntriesHeld, GoTo
  <2> QED
    BY <2>1, HeldStay
<1> QED
  BY <1>1, <1>2

\* XREADGROUP hands the next entry to one worker.
LEMMA HeldLease ==
  ASSUME EntriesHeld, NEW w \in Workers, Lease(w)
  PROVE  EntriesHeld'
<1>1. /\ stream' = stream /\ delivered' = delivered + 1
      /\ delivered < Len(stream)
      /\ wpc' = [wpc EXCEPT ![w] = "leased"]
      /\ wentry' = [wentry EXCEPT ![w] = delivered + 1]
  BY DEF Lease, lease_jobs
<1>2. /\ delivered \in Nat /\ wpc \in [Workers -> WorkerPcs]
      /\ wentry \in [Workers -> Nat] /\ "leased" \in WorkerPcs
      /\ \A v \in Workers : wpc[v] # "idle" => wentry[v] \in 1 .. delivered
  BY DEF EntriesHeld, WorkerPcs
<1>3. /\ wpc' \in [Workers -> WorkerPcs] /\ wentry' \in [Workers -> Nat]
      /\ wentry'[w] = delivered + 1
      /\ \A v \in Workers \ {w} :
           /\ wpc'[v] = wpc[v] /\ wentry'[v] = wentry[v]
           /\ wpc[v] # "idle" => wentry[v] \in 1 .. delivered
  BY <1>1, <1>2
<1> QED
  BY <1>1, <1>2, <1>3 DEF EntriesHeld

\* What a step of process_one can do to the queue and to its worker.
LEMMA WorkerStepEffect ==
  ASSUME EntriesHeld, NEW w \in Workers, WorkerStep(w)
  PROVE  /\ \/ Lease(w)
            \/ /\ wpc[w] # "idle" /\ delivered' = delivered
               /\ Return(w) \/ \E pc \in WorkerPcs \ {"idle"} : GoTo(w, pc)
         /\ \/ stream' = stream
            \/ PublishRetry(w)
         /\ artifacts' = artifacts \/ RunnerReturns(w)
<1> USE DEF GoTo, Return, WorkerPcs, acknowledge, queueVars, FinalizeAs
<1>1. CASE \/ LoadTerminal(w) \/ AckTerminal(w)
           \/ LoadBlocked(w) \/ AckBlocked(w) \/ CommitBlocked(w)
  BY <1>1 DEF LoadTerminal, AckTerminal, LoadBlocked, AckBlocked, CommitBlocked
<1>2. CASE record_running(w) \/ RunnerReturns(w) \/ record_completed(w)
  BY <1>2 DEF record_running, RunnerReturns, record_completed
<1>3. CASE \/ handle_policy_error(w) \/ handle_timeout(w) \/ handle_cancellation(w)
           \/ RetryOverBudget(w) \/ RetriesExhausted(w)
  BY <1>3 DEF handle_policy_error, handle_timeout, handle_cancellation,
              RetryOverBudget, RetriesExhausted
<1>4. CASE record_retry_scheduled(w) \/ PublishRetry(w) \/ AckProcessed(w)
  BY <1>4 DEF record_retry_scheduled, PublishRetry, publish_job, AckProcessed
<1>5. CASE Lease(w)
  BY <1>5 DEF Lease, lease_jobs
<1> QED
  BY <1>1, <1>2, <1>3, <1>4, <1>5 DEF WorkerStep

\* A step of process_one leaves workers with entries of their own.
LEMMA HeldWorkerStep ==
  ASSUME EntriesHeld, NEW w \in Workers, WorkerStep(w) \/ Abort(w)
  PROVE  EntriesHeld'
<1>1. CASE Lease(w)
  BY <1>1, HeldLease
<1>2. CASE Abort(w)
  <2>1. stream' = stream /\ delivered' = delivered /\ wpc[w] # "idle" /\ Return(w)
    BY <1>2 DEF Abort, queueVars
  <2> QED
    BY <2>1, HeldGoesOn DEF EntriesHeld
<1>3. CASE WorkerStep(w) /\ ~Lease(w)
  <2>1. /\ wpc[w] # "idle" /\ delivered' = delivered
        /\ Return(w) \/ \E pc \in WorkerPcs : GoTo(w, pc)
    BY <1>3, WorkerStepEffect
  <2>2. stream' \in Seq(QueueJobMessage) /\ Len(stream') >= Len(stream)
    <3>1. CASE stream' = stream
      BY <3>1 DEF EntriesHeld
    <3>2. CASE PublishRetry(w)
      <4>1. /\ JobOf(w) \in Jobs /\ AttemptOf(w) + 1 \in Nat
            /\ publish_job(JobOf(w), AttemptOf(w) + 1)
        BY <2>1, <3>2, HeldMessage DEF PublishRetry
      <4> QED
        BY <4>1, Published DEF EntriesHeld
    <3> QED
      BY <1>3, <3>1, <3>2, WorkerStepEffect
  <2> QED
    BY <2>1, <2>2, HeldGoesOn
<1> QED
  BY <1>1, <1>2, <1>3

\* The rival has not executed its case yet.
RivalBefore == {"start", "reset", "running", "failing"}

\* Nothing of the queue, the workers or the result files moves.
Waits ==
  /\ UNCHANGED <<queueVars, workerVars, files, writing, verdicts>>
  /\ rival' \in RivalBefore => rival \in RivalBefore

PublishesNext ==
  /\ phase = "publish"
  /\ \E j \in Jobs :
       publish_job(j, 1) /\ (command = "full_stack" => j \in CaseIds)
  /\ UNCHANGED <<storeVars, workerVars, fullStackVars>>

PlainWorks(w) ==
  /\ command # "full_stack" /\ UNCHANGED fullStackVars
  /\ WorkerStep(w) \/ (Abort(w) /\ phase' = "raised")

\* A worker raises, or is cancelled, while no result file is written.
Raises(w) ==
  /\ command = "full_stack" /\ LoopFree
  /\ WorkerRaises(w)
  /\ UNCHANGED <<raises, fullStackVars>>

CaseMoves(w) ==
  /\ command = "full_stack"
  /\ \/ CaseStep(w)
     \/ Raises(w) \/ CaseRaises(w)

FilesMove ==
  /\ command = "full_stack"
  /\ WritesFile \/ RivalAnswered \/ RivalWrites \/ RivalStops

WorkerActs(w) ==
  WorkerGoesOn(w) \/ RecordingFails(w) \/ WorkerFails(w) \/ WorkersCancelled(w)

\* What ends an execution early, in a command of its kind.
LEMMA EarlyEnds ==
  ASSUME NEW w \in Workers, WorkerActs(w)
  PROVE  /\ UNCHANGED <<plan, replays>>
         /\ \/ WorkerGoesOn(w)
            \/ WorkerRaises(w) /\ command # "full_stack" /\ UNCHANGED fullStackVars
            \/ Raises(w) \/ CaseRaises(w)
<1>1. CASE RecordingFails(w)
  BY <1>1 DEF RecordingFails, RecordingRefused, Raises, proofVars
<1>2. CASE WorkerFails(w)
  BY <1>2 DEF WorkerFails, PlainRaises, Plain, proofVars
<1>3. CASE WorkersCancelled(w)
  BY <1>3 DEF WorkersCancelled, WorkerCancelled, Raises, proofVars
<1>4. CASE WorkerGoesOn(w)
  BY <1>4 DEF WorkerGoesOn, PlainProcess, proofVars
<1> QED
  BY <1>1, <1>2, <1>3, <1>4 DEF WorkerActs

\* How a command was called does not change.
LEMMA SamePlan ==
  ASSUME [Next]_vars
  PROVE  plan' = plan
<1>1. CASE UNCHANGED vars
  BY <1>1 DEF vars, proofVars
<1>2. CASE CreateReliabilityJob \/ ReplaySubmission \/ validate_reliability_proof
  BY <1>2 DEF CreateReliabilityJob, ReplaySubmission, validate_reliability_proof, proofVars
<1>3. CASE UNCHANGED proofVars
  BY <1>3 DEF proofVars
<1>4. ASSUME NEW w \in Workers, WorkerActs(w)
      PROVE  plan' = plan
  BY <1>4, EarlyEnds
<1> QED
  BY <1>1, <1>2, <1>3, <1>4 DEF Next, Drive, PlainStep, FullStackStep, Rival, WorkerActs

\* A step of a command is one of five kinds.
LEMMA StepKinds ==
  ASSUME Batched, FilesOfFullStack, [Next]_vars
  PROVE  /\ command' = command /\ setup' = setup
         /\ phase = "raised" => phase' = "raised"
         /\ \/ Waits \/ PublishesNext \/ FilesMove
            \/ \E w \in Workers : PlainWorks(w) \/ CaseMoves(w)
<1> DEFINE Goal == /\ command' = command /\ setup' = setup
                   /\ phase = "raised" => phase' = "raised"
                   /\ \/ Waits \/ PublishesNext \/ FilesMove
                      \/ \E w \in Workers : PlainWorks(w) \/ CaseMoves(w)
<1>a. /\ command # "full_stack" /\ phase = "publish" =>
           Head(todo) \in Jobs
      /\ command = "full_stack" /\ phase = "publish" =>
           Head(todo).id \in CaseIds /\ Head(todo).id \in Jobs
  BY CallsAssumption DEF Batched, Submitting
<1>1. CASE UNCHANGED vars
  BY <1>1 DEF vars, driverVars, fullStackVars, Waits
<1>2. CASE PlainStep
  <2>a. command # "full_stack" /\ UNCHANGED fullStackVars
    BY <1>2 DEF PlainStep, Plain
  <2>1. CASE Publish(Head(todo))
    BY <1>a, <2>a, <2>1 DEF Publish, PublishesNext, fullStackVars
  <2>2. CASE ~Publish(Head(todo))
    BY <1>2, <2>a, <2>2
    DEF PlainStep, CreateSmokeJob, CreateReliabilityJob, ReplaySubmission, Create,
        validate_smoke_report, validate_reliability_proof, Validate, Waits,
        fullStackVars
  <2> QED
    BY <2>1, <2>2
<1>3. CASE FullStackStep
  <2>a. command = "full_stack"
    BY <1>3 DEF FullStackStep
  <2>1. CASE PublishCaseJob
    BY <1>a, <2>a, <2>1 DEF PublishCaseJob, Publish, PublishesNext, fullStackVars
  <2>2. CASE WritesFile
    BY <2>a, <2>2 DEF WritesFile, FilesMove, driverVars
  <2>3. CASE CreateCaseJob \/ ReturnCaseJob \/ DatasetRefused
    BY <2>3 DEF CreateCaseJob, Create, ReturnCaseJob, DatasetRefused, Waits,
                fullStackVars
  <2>4. CASE TakeLock \/ SkipReset \/ ResetTables \/ ReleaseLock
    BY <2>4 DEF TakeLock, SkipReset, ResetTables, ReleaseLock, Waits, QuietFiles,
                driverVars
  <2>5. CASE validate_full_stack_report
    BY <2>5 DEF validate_full_stack_report, Validate, Waits, fullStackVars
  <2> QED
    BY <1>3, <2>1, <2>2, <2>3, <2>4, <2>5 DEF FullStackStep
<1>4. CASE (EndRound \/ build_smoke_report) /\ UNCHANGED fullStackVars
  BY <1>4 DEF EndRound, build_smoke_report, Waits, fullStackVars
<1>5. ASSUME NEW w \in Workers, WorkerActs(w)
      PROVE  Goal
  <2>1. CASE \/ PlainProcess(w)
             \/ WorkerRaises(w) /\ command # "full_stack" /\ UNCHANGED fullStackVars
    BY <2>1 DEF PlainProcess, Process, NoteProcessed, WorkerRaises, Plain,
                PlainWorks, fullStackVars
  <2>2. CASE CaseStep(w)
    <3>1. command = "full_stack"
      <4>1. NotWriting.step # "artifact"
        BY DEF NotWriting
      <4>2. CASE CaseArtifact(w)
        BY <4>1, <4>2 DEF CaseArtifact, FilesOfFullStack, IsWriting, Processes
      <4> QED
        BY <2>2, <4>2 DEF CaseStep, ProcessCase, CaseAnswered, CaseFails, RunningCase
    <3>2. command' = command /\ setup' = setup /\ phase' = phase
      BY <2>2 DEF CaseStep, ProcessCase, CaseAnswered, CaseArtifact, CaseFails,
                  Process, NoteProcessed, fullStackVars, driverVars
    <3> QED
      BY <2>2, <3>1, <3>2 DEF CaseMoves
  <2>3. CASE FindNothing(w) /\ UNCHANGED fullStackVars
    BY <2>3 DEF FindNothing, Waits, fullStackVars
  <2>4. CASE Raises(w) \/ CaseRaises(w)
    BY <2>4 DEF Raises, CaseRaises, WorkerRaises, CaseMoves, fullStackVars
  <2> QED
    BY <1>5, <2>1, <2>2, <2>3, <2>4, EarlyEnds DEF WorkerGoesOn
<1>6. CASE Rival
  <2>1. CASE RivalStarts \/ RivalResets \/ RivalFails
    BY <2>1 DEF RivalStarts, RivalResets, RivalFails, driverVars, QuietFiles, Waits,
                RivalBefore
  <2>2. CASE RivalAnswered \/ RivalWrites \/ RivalStops
    BY <1>6, <2>2 DEF RivalAnswered, RivalWrites, RivalStops, driverVars, Rival,
                      FilesMove
  <2> QED
    BY <1>6, <2>1, <2>2 DEF Rival, RivalStep
<1> QED
  BY <1>1, <1>2, <1>3, <1>4, <1>5, <1>6 DEF Next, Drive, WorkerActs

\* Entries are held by one worker each, whatever step the command takes.
LEMMA NextEntries ==
  ASSUME EntriesHeld, Batched, FilesOfFullStack, [Next]_vars
  PROVE  EntriesHeld'
<1>1. CASE UNCHANGED <<stream, delivered, wpc, wentry>>
  BY <1>1 DEF EntriesHeld
<1>2. CASE Waits
  BY <1>1, <1>2 DEF Waits, queueVars, workerVars
<1>3. CASE PublishesNext
  <2>1. PICK j \in Jobs : publish_job(j, 1)
    BY <1>3 DEF PublishesNext
  <2>2. UNCHANGED <<wpc, wentry>>
    BY <1>3 DEF PublishesNext, workerVars
  <2>3. EntriesHeld /\ 1 \in Nat
    OBVIOUS
  <2> QED
    BY <2>1, <2>2, <2>3, Published, HeldStay DEF EntriesHeld
<1>4. CASE FilesMove
  BY <1>1, <1>4 DEF FilesMove, WritesFile, RivalAnswered, RivalWrites, RivalStops,
                    queueVars, workerVars
<1>5. ASSUME NEW w \in Workers, PlainWorks(w) \/ CaseMoves(w)
      PROVE  EntriesHeld'
  <2>1. CASE PlainWorks(w)
    BY <2>1, HeldWorkerStep DEF PlainWorks
  <2>2. CASE ProcessCase(w)
    BY <2>2, HeldWorkerStep DEF ProcessCase, Process
  <2>3. CASE CaseAnswered(w)
    BY <1>1, <2>3 DEF CaseAnswered, queueVars, workerVars
  <2>4. CASE CaseArtifact(w)
    BY <2>4, HeldWorkerStep DEF CaseArtifact, WorkerStep
  <2>5. CASE CaseFails(w)
    BY <2>5, HeldWorkerStep DEF CaseFails, WorkerStep
  <2>6. CASE Raises(w) \/ CaseRaises(w)
    BY <2>6, HeldWorkerStep DEF Raises, CaseRaises, WorkerRaises
  <2> QED
    BY <1>5, <2>1, <2>2, <2>3, <2>4, <2>5, <2>6 DEF CaseMoves, CaseStep
<1> QED
  BY <1>2, <1>3, <1>4, <1>5, StepKinds

\* The workers of a full-stack proof never schedule a retry, and hand over no
\* entry: its jobs end at their first attempt.
LEMMA CaseWorkerEffect ==
  ASSUME EntriesHeld, Batched, NEW w \in Workers, CaseMoves(w)
  PROVE  /\ stream' = stream
         /\ \A v \in Workers : wpc'[v] # "publish"
         /\ \A v \in Workers \ {w} : wpc'[v] = wpc[v] /\ wentry'[v] = wentry[v]
<1>a. /\ wpc \in [Workers -> WorkerPcs] /\ wentry \in [Workers -> Nat]
      /\ \A v \in Workers : wpc[v] # "publish"
  BY DEF EntriesHeld, Batched, CaseMoves
<1>1. CASE ProcessCase(w)
  <2>1. WorkerStep(w) /\ wpc[w] # "running" /\ ~PublishRetry(w)
    BY <1>1, <1>a DEF ProcessCase, Process, PublishRetry
  <2>2. stream' = stream
    BY <2>1, WorkerStepEffect
  <2>3. /\ wpc'[w] # "publish"
        /\ \A v \in Workers \ {w} : wpc'[v] = wpc[v] /\ wentry'[v] = wentry[v]
    BY <1>a, <2>1
    DEF WorkerStep, Lease, LoadTerminal, AckTerminal, LoadBlocked, AckBlocked,
        CommitBlocked, record_running, RunnerReturns, record_completed,
        handle_policy_error, handle_timeout, handle_cancellation, FinalizeAs,
        record_retry_scheduled, RetryOverBudget, RetriesExhausted, AckProcessed,
        GoTo, Return
  <2> QED
    BY <1>a, <2>2, <2>3
<1>2. CASE CaseAnswered(w)
  BY <1>a, <1>2 DEF CaseAnswered, queueVars, workerVars
<1>3. CASE CaseArtifact(w)
  BY <1>a, <1>3 DEF CaseArtifact, RunnerReturns, GoTo, queueVars
<1>4. CASE CaseFails(w)
  BY <1>a, <1>4 DEF CaseFails, handle_policy_error, handle_timeout, FinalizeAs, GoTo,
                    queueVars
<1>5. CASE Raises(w) \/ CaseRaises(w)
  BY <1>a, <1>5 DEF Raises, CaseRaises, WorkerRaises, Abort, Return, queueVars
<1> QED
  BY <1>1, <1>2, <1>3, <1>4, <1>5 DEF CaseMoves, CaseStep

\* What is left to submit changes when a job was published, and only then; a job
\* is published after it was created or found.
LEMMA TodoSteps ==
  ASSUME Batched, FilesOfFullStack, [Next]_vars
  PROVE  /\ phase' \in Phases
         /\ \/ /\ phase = "publish" /\ todo' = Tail(todo)
               /\ phase' = IF Tail(todo) = <<>> THEN "round" ELSE "create"
            \/ /\ todo' = todo
               /\ phase' \in Submitting => phase \in Submitting
               /\ phase' \in {"start", "reset"} => phase \in {"start", "reset"}
               /\ command = "full_stack" /\ phase' = "publish" /\ phase # "publish"
                    => todo # <<>> /\ Head(todo).id \in CaseIds
<1> USE DEF Phases, Submitting
<1>1. CASE UNCHANGED vars
  BY <1>1 DEF vars, driverVars, Batched
<1>2. CASE PlainStep
  <2>1. CASE Publish(Head(todo))
    BY <2>1 DEF Publish
  <2>2. CASE ~Publish(Head(todo))
    BY <1>2, <2>2
    DEF PlainStep, Plain, CreateSmokeJob, CreateReliabilityJob, ReplaySubmission,
        Create, validate_smoke_report, validate_reliability_proof, Validate
  <2> QED
    BY <2>1, <2>2
<1>3. CASE FullStackStep
  <2>a. command = "full_stack" /\ todo \in Seq(Cases) /\ phase \in Phases
    BY <1>3 DEF FullStackStep, Batched
  <2>1. CASE CreateCaseJob \/ ReturnCaseJob
    <3>1. todo # <<>> /\ Head(todo).id # NoId
      BY <2>1 DEF CreateCaseJob, ReturnCaseJob
    <3>2. Head(todo) \in Cases
      BY <2>a, <3>1
    <3>3. Head(todo).id \in CaseIds
      BY <3>1, <3>2 DEF Cases
    <3> QED
      BY <2>1, <3>1, <3>3 DEF CreateCaseJob, ReturnCaseJob, Create
  <2>2. CASE PublishCaseJob
    BY <2>2 DEF PublishCaseJob, Publish
  <2>3. CASE DatasetRefused \/ WritesFile \/ validate_full_stack_report
    BY <2>a, <2>3 DEF DatasetRefused, WritesFile, driverVars,
                      validate_full_stack_report, Validate
  <2>4. CASE TakeLock \/ SkipReset \/ ResetTables \/ ReleaseLock
    BY <2>a, <2>4 DEF TakeLock, SkipReset, ResetTables, ReleaseLock, driverVars
  <2> QED
    BY <1>3, <2>1, <2>2, <2>3, <2>4 DEF FullStackStep
<1>4. CASE EndRound \/ build_smoke_report
  BY <1>4 DEF EndRound, build_smoke_report
<1>5. ASSUME NEW w \in Workers, WorkerActs(w)
      PROVE  todo' = todo /\ phase' \in {"raised", phase}
  <2>1. CASE PlainProcess(w) \/ ProcessCase(w)
    BY <2>1 DEF PlainProcess, ProcessCase, Process, NoteProcessed
  <2>2. CASE CaseAnswered(w) \/ CaseArtifact(w) \/ CaseFails(w) \/ FindNothing(w)
    BY <2>2 DEF CaseAnswered, CaseArtifact, CaseFails, FindNothing, NoteProcessed,
                driverVars
  <2>3. CASE WorkerRaises(w) \/ Raises(w) \/ CaseRaises(w)
    BY <2>3 DEF Raises, CaseRaises, WorkerRaises
  <2> QED
    BY <1>5, <2>1, <2>2, <2>3, EarlyEnds DEF WorkerGoesOn, CaseStep
<1>6. CASE Rival
  BY <1>6 DEF Rival, RivalStep, RivalStarts, RivalResets, RivalAnswered, RivalWrites,
              RivalFails, RivalStops, driverVars, Batched
<1> QED
  BY <1>1, <1>2, <1>3, <1>4, <1>5, <1>6 DEF Next, Drive, Batched, WorkerActs

\* A command goes on with its own batch.
LEMMA NextBatched ==
  ASSUME EntriesHeld, Batched, FilesOfFullStack, [Next]_vars
  PROVE  Batched'
<1>a. command' = command /\ setup' = setup /\ plan' = plan
  BY StepKinds, SamePlan
<1>b. phase' \in Phases
  BY TodoSteps
<1>1. CASE command # "full_stack"
  <2>a. /\ todo \in Seq(Jobs)
        /\ phase \in Submitting => todo # <<>> /\ phase \notin {"start", "reset"}
    BY <1>1 DEF Batched
  <2>1. /\ todo' \in Seq(Jobs)
        /\ phase' \in Submitting => todo' # <<>> /\ phase' \notin {"start", "reset"}
    <3>1. CASE todo' = todo
      BY <2>a, <3>1, TodoSteps DEF Submitting
    <3>2. CASE phase = "publish" /\ todo' = Tail(todo)
      <4>1. Tail(todo) \in Seq(Jobs)
        BY <2>a, <3>2 DEF Submitting
      <4> QED
        BY <3>2, <4>1, <3>1, TodoSteps DEF Submitting
    <3> QED
      BY <3>1, <3>2, TodoSteps
  <2> QED
    BY <1>1, <1>a, <1>b, <2>1 DEF Batched
<1>2. CASE command = "full_stack"
  <2>a. /\ todo \in Seq(Cases)
        /\ phase = "publish" => todo # <<>> /\ Head(todo).id \in CaseIds
        /\ \A i \in Entries : stream[i].job \in CaseIds /\ stream[i].attempt = 1
        /\ \A w \in Workers : wpc[w] # "publish"
    BY <1>2 DEF Batched
  <2>1. /\ todo' \in Seq(Cases)
        /\ phase' = "publish" => todo' # <<>> /\ Head(todo').id \in CaseIds
    <3>1. CASE todo' = todo
      BY <1>2, <2>a, <3>1, TodoSteps
    <3>2. CASE phase = "publish" /\ todo' = Tail(todo)
      <4>1. Tail(todo) \in Seq(Cases)
        BY <2>a, <3>2
      <4> QED
        BY <3>1, <3>2, <4>1, TodoSteps
    <3> QED
      BY <3>1, <3>2, TodoSteps
  <2>2. /\ \A i \in Entries' : stream'[i].job \in CaseIds /\ stream'[i].attempt = 1
        /\ \A w \in Workers : wpc'[w] # "publish"
    <3>1. CASE UNCHANGED <<stream, wpc>>
      BY <2>a, <3>1 DEF Entries
    <3>2. CASE PublishesNext
      <4>1. PICK j \in Jobs : publish_job(j, 1) /\ j \in CaseIds
        BY <1>2, <3>2 DEF PublishesNext
      <4>2. wpc' = wpc /\ 1 \in Nat
        BY <3>2 DEF PublishesNext, workerVars
      <4> QED
        BY <2>a, <4>1, <4>2, Published
    <3>3. CASE Waits \/ FilesMove
      BY <3>1, <3>3 DEF Waits, FilesMove, WritesFile, RivalAnswered, RivalWrites,
                        RivalStops, queueVars, workerVars
    <3>4. ASSUME NEW w \in Workers, CaseMoves(w)
          PROVE  /\ stream' = stream
                 /\ \A v \in Workers : wpc'[v] # "publish"
      BY <3>4, CaseWorkerEffect
    <3>5. ASSUME NEW w \in Workers, PlainWorks(w)
          PROVE  FALSE
      BY <1>2, <3>5 DEF PlainWorks
    <3> QED
      BY <2>a, <3>2, <3>3, <3>4, <3>5, StepKinds DEF Entries
  <2> QED
    BY <1>2, <1>a, <1>b, <2>1, <2>2 DEF Batched
<1> QED
  BY <1>1, <1>2

-----------------------------------------------------------------------------
(* What a step does to the result files *)

\* A process that goes on in the code for a result file changes where it is.
LEMMA StepEffect ==
  ASSUME FilesTypeOK, NEW p \in Processes, IsWriting(p), NEW s \in WriteSteps,
         Step(p, s)
  PROVE  /\ writing' \in [Processes -> Stretch \cup {NotWriting}]
         /\ \A q \in Processes \ {p} : writing'[q] = writing[q]
         /\ IsWriting(p)'
         /\ writing'[p].step = s
         /\ writing'[p].case = writing[p].case
         /\ writing'[p].execution = writing[p].execution
         /\ writing'[p].quality = writing[p].quality
<1> DEFINE r == [writing[p] EXCEPT !.step = s]
<1>1. writing[p] \in Stretch /\ writing \in [Processes -> Stretch \cup {NotWriting}]
  BY DEF FilesTypeOK, IsWriting
<1>2. /\ r \in Stretch /\ r.step = s /\ r.case = writing[p].case
      /\ r.execution = writing[p].execution /\ r.quality = writing[p].quality
  BY <1>1 DEF Stretch
<1>3. writing' = [writing EXCEPT ![p] = r]
  BY <1>1 DEF Step
<1>4. NotWriting.step \notin WriteSteps
  BY DEF NotWriting, WriteSteps
<1> HIDE DEF r
<1>5. writing'[p] = r
  BY <1>1, <1>3
<1> QED
  BY <1>1, <1>2, <1>3, <1>4, <1>5 DEF IsWriting

\* Every step in the code for a result file touches the file of its case only,
\* and leaves a result in it when it writes.
LEMMA FileStepEffect ==
  ASSUME FilesTypeOK, NEW p \in Processes, FileStep(p), NEW c, c = writing[p].case
  PROVE  /\ IsWriting(p) /\ c \in CaseIds
         /\ writing' \in [Processes -> Stretch \cup {NotWriting}]
         /\ \A q \in Processes \ {p} : writing'[q] = writing[q]
         /\ DOMAIN files' = CaseIds
         /\ \A d \in CaseIds \ {c} : files'[d] = files[d]
         /\ \/ writing[p].step = "rewrite" /\ writing'[p] = NotWriting
            \/ /\ IsWriting(p)'
               /\ writing'[p].case = c
               /\ writing'[p].execution = writing[p].execution
               /\ writing'[p].quality = writing[p].quality
               /\ <<writing[p].step, writing'[p].step>> \in
                    {<<"open", "write">>, <<"write", "artifact">>,
                     <<"link", "reopen">>, <<"reopen", "rewrite">>}
         /\ \/ files'[c].text \in {"empty", "garbled"}
            \/ writing[p].step = "link" /\ files'[c] = files[c]
            \/ /\ writing[p].step = "write"
               /\ files'[c] = Result(writing[p].execution, NoExecution,
                                     writing[p].quality)
            \/ /\ writing[p].step = "rewrite"
               /\ files'[c] = Result(writing[p].body, writing[p].execution,
                                     writing[p].quality)
<1>a. /\ writing \in [Processes -> Stretch \cup {NotWriting}]
      /\ DOMAIN files = CaseIds
      /\ NotWriting.step = "none"
  BY DEF FilesTypeOK, NotWriting
<1>b. IsWriting(p) /\ writing[p] \in Stretch
  BY <1>a DEF IsWriting, FileStep, Truncate, WriteResult, ReadResult, WriteLink
<1>c. c \in CaseIds /\ writing[p].execution \in Nat
  BY <1>b DEF Stretch
<1>d. Truncated.text = "empty" /\ Garbled.text = "garbled"
  BY DEF Truncated, Garbled
<1>e. {"open", "write", "artifact", "link", "reopen", "rewrite"} = WriteSteps
  BY DEF WriteSteps
<1>1. ASSUME NEW text, files' = [files EXCEPT ![c] = text]
      PROVE  /\ DOMAIN files' = CaseIds /\ files'[c] = text
             /\ \A d \in CaseIds \ {c} : files'[d] = files[d]
  BY <1>a, <1>c, <1>1
<1>2. CASE Truncate(p, "open", "write") \/ Truncate(p, "reopen", "rewrite")
  <2>1. files' = [files EXCEPT ![c] = Truncated]
    BY <1>2 DEF Truncate
  <2>2. \/ writing[p].step = "open" /\ Step(p, "write")
        \/ writing[p].step = "reopen" /\ Step(p, "rewrite")
    BY <1>2 DEF Truncate
  <2> QED
    BY <1>b, <1>c, <1>d, <1>e, <1>1, <2>1, <2>2, StepEffect
<1>3. CASE WriteResult(p)
  <2>1. PICK text : /\ files' = [files EXCEPT ![c] = text]
                    /\ text \in {Result(writing[p].execution, NoExecution,
                                        writing[p].quality), Garbled}
    BY <1>3 DEF WriteResult, Written
  <2>2. writing[p].step = "write" /\ Step(p, "artifact")
    BY <1>3 DEF WriteResult
  <2> QED
    BY <1>b, <1>c, <1>d, <1>e, <1>1, <2>1, <2>2, StepEffect
<1>4. CASE ReadResult(p)
  <2> DEFINE body == IF File(p).text = "json" THEN File(p).body ELSE NoExecution
             r == [writing[p] EXCEPT !.body = body, !.step = "reopen"]
  <2>1. body \in Nat \cup {NoExecution}
    BY <1>c DEF FilesTypeOK, File
  <2>2. /\ writing[p].step = "link" /\ files' = files
        /\ writing' = [writing EXCEPT ![p] = r]
    BY <1>4, <1>a, <1>b DEF ReadResult
  <2> HIDE DEF body
  <2>3. /\ r \in Stretch /\ r.step = "reopen" /\ r.case = writing[p].case
        /\ r.execution = writing[p].execution /\ r.quality = writing[p].quality
    BY <1>b, <2>1 DEF Stretch, WriteSteps
  <2> HIDE DEF r
  <2>4. /\ writing'[p] = r /\ r # NotWriting
        /\ writing' \in [Processes -> Stretch \cup {NotWriting}]
        /\ \A q \in Processes \ {p} : writing'[q] = writing[q]
    BY <1>a, <2>2, <2>3
  <2> QED
    BY <1>a, <1>b, <1>c, <2>2, <2>3, <2>4 DEF IsWriting
<1>5. CASE WriteLink(p)
  <2>1. PICK text : /\ files' = [files EXCEPT ![c] = text]
                    /\ text \in {Result(writing[p].body, writing[p].execution,
                                        writing[p].quality), Garbled}
    BY <1>5 DEF WriteLink, Written
  <2>2. writing[p].step = "rewrite" /\ writing' = [writing EXCEPT ![p] = NotWriting]
    BY <1>5 DEF WriteLink
  <2>3. /\ writing'[p] = NotWriting
        /\ writing' \in [Processes -> Stretch \cup {NotWriting}]
        /\ \A q \in Processes \ {p} : writing'[q] = writing[q]
    BY <1>a, <2>2
  <2> QED
    BY <1>b, <1>c, <1>d, <1>1, <2>1, <2>2, <2>3
<1> QED
  BY <1>2, <1>3, <1>4, <1>5 DEF FileStep

-----------------------------------------------------------------------------
(* The result files say what was executed *)

\* Steps that leave the result files alone, and the entries of verdicts where
\* they are.
LEMMA FilesStay ==
  ASSUME FileInv, UNCHANGED <<files, writing, verdicts, artifacts>>,
         command' = command, rival' \in RivalBefore => rival \in RivalBefore,
         delivered' \in Nat, delivered' >= delivered,
         \A i \in Entries : stream'[i] = stream[i],
         \A w \in Workers :
           wpc'[w] \in {"leased", "running"} =>
             \/ wpc'[w] = wpc[w] /\ wentry'[w] = wentry[w]
             \/ wentry'[w] \notin DOMAIN verdicts
  PROVE  FilesOK'
<1>1. FilesTypeOK'
  BY DEF FileInv, FilesOK, FilesTypeOK, EntriesHeld
<1>2. WritesVerdict'
  <2>1. IsWriting("own") => writing["own"].execution \in Entries
    <3>1. ASSUME IsWriting("own")
          PROVE  /\ writing["own"].execution \in 0 .. delivered
                 /\ writing["own"].execution # 0
      BY <3>1 DEF FileInv, FilesOK, FilesTypeOK, WritesVerdict, Processes,
                  RivalExecution
    <3> QED
      BY <3>1 DEF FileInv, EntriesHeld, Entries
  <2> QED
    BY <2>1 DEF FileInv, FilesOK, WritesVerdict, IsWriting
<1>3. LinkAfterArtifact'
  BY DEF FileInv, FilesOK, LinkAfterArtifact, IsWriting, Links, Executed
<1>4. JudgedOnce'
  BY DEF FileInv, FilesOK, JudgedOnce, IsWriting, RivalBefore
<1>5. FilesOfFullStack' /\ QualityKnown' /\ LinkMatchesArtifact'
  BY DEF FileInv, FilesOK, FilesOfFullStack, QualityKnown, LinkMatchesArtifact,
         IsWriting
<1> QED
  BY <1>1, <1>2, <1>3, <1>4, <1>5 DEF FilesOK

\* A smoke run or a reliability proof writes no result file.
LEMMA PlainFiles ==
  ASSUME FileInv, command # "full_stack", command' = command, EntriesHeld',
         delivered' >= delivered, UNCHANGED fullStackVars
  PROVE  FilesOK'
<1>1. /\ UNCHANGED <<files, writing, verdicts, rival>> /\ DOMAIN verdicts = {}
      /\ \A p \in Processes : ~IsWriting(p)
      /\ \A c \in CaseIds : files[c].text # "json"
  BY DEF fullStackVars, FileInv, FilesOK, FilesOfFullStack, NoFile
<1>2. FilesTypeOK'
  BY <1>1 DEF FileInv, FilesOK, FilesTypeOK, EntriesHeld
<1>3. WritesVerdict' /\ LinkAfterArtifact'
  BY <1>1 DEF WritesVerdict, LinkAfterArtifact, IsWriting, Processes
<1>4. JudgedOnce' /\ QualityKnown' /\ LinkMatchesArtifact'
  BY <1>1 DEF JudgedOnce, QualityKnown, LinkMatchesArtifact
<1>5. FilesOfFullStack'
  BY <1>1 DEF FileInv, FilesOK, FilesOfFullStack, IsWriting
<1> QED
  BY <1>2, <1>3, <1>4, <1>5 DEF FilesOK

\* The two commands write result files in turns of single system calls.
LEMMA WriterFiles ==
  ASSUME FileInv, NEW p \in Processes, FileStep(p), command = "full_stack",
         NEW c, c = writing[p].case,
         UNCHANGED <<queueVars, workerVars, driverVars, setup, rival, verdicts>>
  PROVE  FilesOK'
<1>a. /\ IsWriting(p) /\ c \in CaseIds
      /\ writing' \in [Processes -> Stretch \cup {NotWriting}]
      /\ \A q \in Processes \ {p} : writing'[q] = writing[q]
      /\ DOMAIN files' = CaseIds
      /\ \A d \in CaseIds \ {c} : files'[d] = files[d]
  BY FileStepEffect DEF FileInv, FilesOK
<1>b. \/ writing[p].step = "rewrite" /\ writing'[p] = NotWriting
      \/ /\ IsWriting(p)'
         /\ writing'[p].case = c
         /\ writing'[p].execution = writing[p].execution
         /\ writing'[p].quality = writing[p].quality
         /\ <<writing[p].step, writing'[p].step>> \in
              {<<"open", "write">>, <<"write", "artifact">>,
               <<"link", "reopen">>, <<"reopen", "rewrite">>}
  BY FileStepEffect DEF FileInv, FilesOK
<1>c. \/ files'[c].text \in {"empty", "garbled"}
      \/ writing[p].step = "link" /\ files'[c] = files[c]
      \/ /\ writing[p].step = "write"
         /\ files'[c] = Result(writing[p].execution, NoExecution, writing[p].quality)
      \/ /\ writing[p].step = "rewrite"
         /\ files'[c] = Result(writing[p].body, writing[p].execution,
                               writing[p].quality)
  BY FileStepEffect DEF FileInv, FilesOK
<1>d. /\ UNCHANGED <<stream, delivered, wpc, wentry, artifacts, command, phase,
                     rival, verdicts>>
      /\ WritesVerdict /\ LinkAfterArtifact /\ JudgedOnce /\ LinkMatchesArtifact
      /\ p \in {"own", "rival"} /\ Processes = {"own", "rival"}
  BY DEF queueVars, workerVars, driverVars, FileInv, FilesOK, Processes
<1>e. /\ writing[p].execution \in Nat
      /\ writing[p].body \in Nat \cup {NoExecution}
      /\ \A b, l, q : /\ Result(b, l, q).body = b /\ Result(b, l, q).link = l
                      /\ Result(b, l, q).quality = q
                      /\ Result(b, l, q).text = "json"
  BY <1>a DEF FileInv, FilesOK, FilesTypeOK, IsWriting, Stretch, Result
<1>f. /\ writing[p].execution \in DOMAIN verdicts
      /\ writing[p].quality = verdicts[writing[p].execution].quality
  BY <1>a, <1>d DEF WritesVerdict
<1>1. FilesTypeOK'
  <2>1. ASSUME NEW d \in CaseIds, files'[d].text = "json"
        PROVE  files'[d].body \in Nat \cup {NoExecution}
    <3>1. CASE d = c
      BY <1>c, <1>e, <2>1, <3>1 DEF FileInv, FilesOK, FilesTypeOK
    <3>2. CASE d # c
      BY <1>a, <2>1, <3>2 DEF FileInv, FilesOK, FilesTypeOK
    <3> QED
      BY <3>1, <3>2
  <2> QED
    BY <1>a, <1>d, <2>1 DEF FileInv, FilesOK, FilesTypeOK
<1>2. WritesVerdict'
  <2>1. ASSUME NEW q \in Processes, IsWriting(q)'
        PROVE  /\ IsWriting(q)
               /\ writing'[q].execution = writing[q].execution
               /\ writing'[q].case = writing[q].case
               /\ writing'[q].quality = writing[q].quality
    BY <1>a, <1>b, <2>1 DEF IsWriting
  <2> QED
    BY <1>d, <2>1 DEF WritesVerdict
<1>3. LinkAfterArtifact'
  <2>1. ASSUME IsWriting("own")',
               writing'["own"].step \in {"link", "reopen", "rewrite"}
        PROVE  Executed(writing["own"].case, writing["own"].execution)'
    <3>1. IsWriting("own") /\ writing["own"].step \in {"link", "reopen", "rewrite"}
      BY <1>a, <1>b, <1>d, <2>1 DEF IsWriting
    <3>2. /\ writing'["own"].case = writing["own"].case
          /\ writing'["own"].execution = writing["own"].execution
      BY <1>a, <1>b, <1>d, <2>1 DEF IsWriting
    <3> QED
      BY <1>d, <3>1, <3>2 DEF LinkAfterArtifact, Executed
  <2>2. ASSUME IsWriting("own")', writing'["own"].step \in {"write", "artifact"}
        PROVE  Links(writing["own"].case)' \subseteq {RivalExecution}
    <3>1. CASE p = "own"
      <4>1. writing'["own"].case = c /\ writing["own"].step \in {"open", "write"}
        BY <1>b, <2>2, <3>1 DEF IsWriting
      <4>2. Links(c)' = {}
        BY <1>c, <1>e, <3>1, <4>1 DEF Links
      <4> QED
        BY <4>1, <4>2 DEF Links
    <3>2. CASE p = "rival"
      <4> DEFINE e == writing["own"].case
      <4>1. /\ writing'["own"] = writing["own"]
            /\ IF files[e].text = "json" THEN files[e].link \in {0, NoExecution}
               ELSE TRUE
        BY <1>a, <1>d, <2>2, <3>2 DEF IsWriting, LinkAfterArtifact, Links,
                                      RivalExecution
      <4>2. writing["rival"].execution = 0 /\ e \in CaseIds
        <5>1. IsWriting("own")
          BY <1>a, <1>d, <2>2, <3>2 DEF IsWriting
        <5> QED
          BY <1>a, <1>d, <3>2, <5>1
          DEF WritesVerdict, RivalExecution, FileInv, FilesOK, FilesTypeOK, Stretch,
              IsWriting
      <4> HIDE DEF e
      <4>3. CASE e = c
        BY <1>c, <1>e, <3>2, <4>1, <4>2, <4>3 DEF Links, e, RivalExecution
      <4>4. CASE e # c
        BY <1>a, <4>1, <4>2, <4>4 DEF Links, e, RivalExecution
      <4> QED
        BY <4>3, <4>4
    <3> QED
      BY <1>d, <3>1, <3>2
  <2> QED
    BY <2>1, <2>2 DEF LinkAfterArtifact
<1>4. JudgedOnce'
  <2>1. ASSUME IsWriting("own"), writing["own"].step \in {"open", "write", "artifact"}
        PROVE  /\ IsWriting("own")'
               /\ writing'["own"].execution = writing["own"].execution
               /\ writing'["own"].step \in {"open", "write", "artifact"}
    BY <1>a, <1>b, <1>d, <2>1 DEF IsWriting
  <2> QED
    BY <1>d, <2>1 DEF JudgedOnce
<1>5. FilesOfFullStack' /\ QualityKnown'
  BY <1>d DEF FilesOfFullStack, QualityKnown, FileInv, FilesOK
<1>6. LinkMatchesArtifact'
  <2> SUFFICES ASSUME NEW d \in CaseIds, files'[d].text = "json",
                      files'[d].link # NoExecution
               PROVE  /\ files'[d].link \in DOMAIN verdicts
                      /\ files'[d].quality = verdicts[files'[d].link].quality
                      /\ files'[d].link # RivalExecution =>
                           [job |-> d, attempt |-> 1, by |-> files'[d].link]
                             \in artifacts
    BY <1>d DEF LinkMatchesArtifact
  <2>1. CASE files'[d] = files[d]
    BY <1>d, <2>1 DEF LinkMatchesArtifact
  <2>2. CASE d = c /\ files'[d] # files[d]
    <3>1. /\ writing[p].step = "rewrite"
          /\ files'[d].link = writing[p].execution
          /\ files'[d].quality = writing[p].quality
      BY <1>c, <1>e, <2>2
    <3>2. writing[p].execution # RivalExecution => p = "own"
      BY <1>a, <1>d DEF WritesVerdict
    <3>3. writing[p].execution # RivalExecution =>
            [job |-> d, attempt |-> 1, by |-> writing[p].execution] \in artifacts
      BY <1>a, <1>d, <2>2, <3>1, <3>2 DEF LinkAfterArtifact, Executed
    <3> QED
      BY <1>f, <3>1, <3>3
  <2> QED
    BY <1>a, <2>1, <2>2
<1> QED
  BY <1>1, <1>2, <1>3, <1>4, <1>5, <1>6 DEF FilesOK

\* A case passes exactly if its answer was usable: of the stub by construction,
\* of a local agent by QualityIsUsability.
LEMMA VerdictsHonest ==
  ASSUME NEW live, NEW v \in PossibleVerdicts(live)
  PROVE  v \in Verdicts /\ (v.quality = "pass" <=> v.usable)
<1>1. CASE v \in StubVerdicts
  <2>1. v = [quality |-> "pass", usable |-> TRUE]
    BY <1>1 DEF StubVerdicts
  <2>2. v \in Verdicts
    BY <2>1 DEF Verdicts
  <2>3. v.quality = "pass" /\ v.usable
    BY <2>1
  <2> QED
    BY <2>2, <2>3
<1>2. CASE v \in LiveVerdicts
  <2>1. PICK r \in Responses :
          v = [quality |-> quality_status(normalize_live_response(r)),
               usable |-> Usable(r)]
    BY <1>2 DEF LiveVerdicts
  <2>2. /\ quality_status(normalize_live_response(r)) \in {"pass", "fail"}
        /\ quality_status(normalize_live_response(r)) = "pass" <=> Usable(r)
    BY QualityIsUsability DEF quality_status
  <2>3. Usable(r) \in BOOLEAN
    BY DEF Usable
  <2> QED
    BY <2>1, <2>2, <2>3 DEF Verdicts
<1> QED
  BY <1>1, <1>2 DEF PossibleVerdicts

\* A new verdict stands beside those that are known.
LEMMA NewVerdict ==
  ASSUME FilesTypeOK, QualityKnown, NEW i, NEW v \in Verdicts,
         v.quality = "pass" <=> v.usable,
         verdicts' = [k \in DOMAIN verdicts \cup {i} |->
                        IF k = i THEN v ELSE verdicts[k]]
  PROVE  /\ DOMAIN verdicts' = DOMAIN verdicts \cup {i}
         /\ verdicts' \in [DOMAIN verdicts' -> Verdicts]
         /\ verdicts'[i] = v
         /\ \A k \in DOMAIN verdicts : k # i => verdicts'[k] = verdicts[k]
         /\ QualityKnown'
<1>1. /\ DOMAIN verdicts' = DOMAIN verdicts \cup {i}
      /\ verdicts'[i] = v
      /\ \A k \in DOMAIN verdicts : k # i => verdicts'[k] = verdicts[k]
  OBVIOUS
<1>2. verdicts' \in [DOMAIN verdicts' -> Verdicts]
  BY DEF FilesTypeOK
<1> QED
  BY <1>1, <1>2 DEF QualityKnown

\* run_gdev_webhook_eval opens the file of its case.
LEMMA BeginEffect ==
  ASSUME FilesTypeOK, NEW p \in Processes, NEW c \in CaseIds, NEW i \in Nat,
         NEW v \in Verdicts, BeginResult(p, c, i, v)
  PROVE  /\ ~IsWriting(p)
         /\ writing' \in [Processes -> Stretch \cup {NotWriting}]
         /\ \A q \in Processes \ {p} : writing'[q] = writing[q]
         /\ IsWriting(p)'
         /\ writing'[p].step = "open" /\ writing'[p].case = c
         /\ writing'[p].execution = i /\ writing'[p].quality = v.quality
<1> DEFINE r == [step |-> "open", case |-> c, execution |-> i,
                 quality |-> v.quality, body |-> NoExecution]
<1>1. /\ r \in Stretch /\ r.step = "open" /\ r.case = c /\ r.execution = i
      /\ r.quality = v.quality
  BY DEF Stretch, Verdicts, WriteSteps
<1>2. writing[p] = NotWriting /\ writing' = [writing EXCEPT ![p] = r]
  BY DEF BeginResult
<1>3. NotWriting.step = "none" /\ writing \in [Processes -> Stretch \cup {NotWriting}]
  BY DEF NotWriting, FilesTypeOK
<1> HIDE DEF r
<1>4. writing'[p] = r /\ \A q \in Processes \ {p} : writing'[q] = writing[q]
  BY <1>2, <1>3
<1> QED
  BY <1>1, <1>2, <1>3, <1>4 DEF IsWriting

\* What the rival does between its writes.
LEMMA RivalFiles ==
  ASSUME FileInv, command = "full_stack",
         UNCHANGED <<queueVars, workerVars, driverVars, files>>,
         writing' \in [Processes -> Stretch \cup {NotWriting}],
         writing'["own"] = writing["own"],
         IsWriting("rival")' =>
           /\ writing'["rival"].execution = RivalExecution
           /\ RivalExecution \in DOMAIN verdicts'
           /\ writing'["rival"].quality = verdicts'[RivalExecution].quality,
         verdicts' \in [DOMAIN verdicts' -> Verdicts], QualityKnown',
         DOMAIN verdicts \subseteq DOMAIN verdicts',
         DOMAIN verdicts' \subseteq DOMAIN verdicts \cup {RivalExecution},
         \A i \in DOMAIN verdicts : verdicts'[i] = verdicts[i],
         rival' \in RivalBefore => RivalExecution \notin DOMAIN verdicts'
  PROVE  FilesOK'
<1>a. /\ UNCHANGED <<stream, delivered, wpc, wentry, artifacts, command, phase>>
      /\ Processes = {"own", "rival"} /\ RivalExecution = 0
  BY DEF queueVars, workerVars, driverVars, Processes, RivalExecution
<1>1. FilesTypeOK'
  BY <1>a DEF FileInv, FilesOK, FilesTypeOK, EntriesHeld
<1>2. WritesVerdict'
  <2>1. IsWriting("own")' <=> IsWriting("own")
    BY DEF IsWriting
  <2>2. IsWriting("own") =>
          /\ writing["own"].execution # RivalExecution
          /\ stream[writing["own"].execution].job = writing["own"].case
          /\ writing["own"].execution \in DOMAIN verdicts
          /\ writing["own"].quality = verdicts[writing["own"].execution].quality
    BY <1>a DEF FileInv, FilesOK, WritesVerdict
  <2> QED
    BY <1>a, <2>1, <2>2 DEF WritesVerdict
<1>3. LinkAfterArtifact'
  BY <1>a DEF FileInv, FilesOK, LinkAfterArtifact, IsWriting, Links, Executed
<1>4. JudgedOnce'
  <2>1. \A w \in Workers : wpc[w] \in {"leased", "running"} => wentry[w] # 0
    BY DEF FileInv, EntriesHeld
  <2> QED
    BY <1>a, <2>1 DEF FileInv, FilesOK, JudgedOnce, IsWriting, RivalBefore
<1>5. FilesOfFullStack'
  BY <1>a DEF FilesOfFullStack
<1>6. LinkMatchesArtifact'
  BY <1>a DEF FileInv, FilesOK, LinkMatchesArtifact
<1> QED
  BY <1>1, <1>2, <1>3, <1>4, <1>5, <1>6 DEF FilesOK

\* The rival opens a file, leaves the code of the artifact or stops.
LEMMA RivalMoves ==
  ASSUME FileInv, FilesMove, ~WritesFile
  PROVE  FilesOK'
<1>a. /\ FilesTypeOK /\ QualityKnown /\ WritesVerdict /\ command = "full_stack"
      /\ verdicts \in [DOMAIN verdicts -> Verdicts]
      /\ Processes = {"own", "rival"} /\ RivalExecution \in Nat
      /\ writing \in [Processes -> Stretch \cup {NotWriting}]
  BY DEF FileInv, FilesOK, FilesTypeOK, FilesMove, Processes, RivalExecution
<1>1. CASE RivalAnswered
  <2>1. PICK n \in DOMAIN setup.dataset, verdict \in PossibleVerdicts(setup.live) :
          /\ setup.dataset[n].id # NoId
          /\ BeginResult("rival", setup.dataset[n].id, RivalExecution, verdict)
          /\ verdicts' = [i \in DOMAIN verdicts \cup {RivalExecution} |->
                            IF i = RivalExecution THEN verdict ELSE verdicts[i]]
    BY <1>1 DEF RivalAnswered
  <2>2. /\ rival \in RivalBefore /\ rival' \notin RivalBefore
        /\ UNCHANGED <<queueVars, workerVars, driverVars, files>>
    BY <1>1 DEF RivalAnswered, RivalBefore
  <2>3. setup.dataset[n].id \in CaseIds
    <3>1. setup.dataset \in Seq(Cases)
      BY DEF FileInv, Batched, Setup
    <3>2. setup.dataset[n] \in Cases
      BY <3>1
    <3> QED
      BY <2>1, <3>2 DEF Cases
  <2>4. verdict \in Verdicts /\ (verdict.quality = "pass" <=> verdict.usable)
    BY VerdictsHonest
  <2>5. RivalExecution \notin DOMAIN verdicts
    BY <2>2 DEF FileInv, FilesOK, JudgedOnce, RivalBefore
  <2>6. /\ DOMAIN verdicts' = DOMAIN verdicts \cup {RivalExecution}
        /\ verdicts' \in [DOMAIN verdicts' -> Verdicts]
        /\ verdicts'[RivalExecution] = verdict
        /\ \A k \in DOMAIN verdicts : verdicts'[k] = verdicts[k]
        /\ QualityKnown'
    BY <1>a, <2>1, <2>4, <2>5, NewVerdict
  <2>7. /\ writing' \in [Processes -> Stretch \cup {NotWriting}]
        /\ writing'["own"] = writing["own"]
        /\ writing'["rival"].execution = RivalExecution
        /\ writing'["rival"].quality = verdict.quality
    BY <1>a, <2>1, <2>3, <2>4, BeginEffect
  <2> QED
    BY <1>a, <2>2, <2>6, <2>7, RivalFiles
<1>2. CASE RivalWrites
  <2>1. CASE FileStep("rival")
    BY <1>a, <1>2, <2>1, WriterFiles DEF RivalWrites
  <2>2. CASE writing["rival"].step = "artifact" /\ Step("rival", "link")
             /\ UNCHANGED files
    <3>1. /\ UNCHANGED <<queueVars, workerVars, driverVars, files, rival, verdicts>>
          /\ NotWriting.step = "none" /\ "link" \in WriteSteps
      BY <1>2, <2>2 DEF RivalWrites, NotWriting, WriteSteps
    <3>2. IsWriting("rival")
      BY <2>2, <3>1 DEF IsWriting
    <3>3. /\ writing' \in [Processes -> Stretch \cup {NotWriting}]
          /\ writing'["own"] = writing["own"]
          /\ writing'["rival"].execution = writing["rival"].execution
          /\ writing'["rival"].quality = writing["rival"].quality
      BY <1>a, <2>2, <3>1, <3>2, StepEffect
    <3>4. /\ writing["rival"].execution = RivalExecution
          /\ RivalExecution \in DOMAIN verdicts
          /\ writing["rival"].quality = verdicts[RivalExecution].quality
      BY <1>a, <3>2 DEF WritesVerdict
    <3>5. /\ QualityKnown'
          /\ rival \in RivalBefore => RivalExecution \notin DOMAIN verdicts
      BY <1>a, <3>1 DEF QualityKnown, FileInv, FilesOK, JudgedOnce, RivalBefore
    <3> QED
      BY <1>a, <3>1, <3>3, <3>4, <3>5, RivalFiles
  <2> QED
    BY <1>2, <2>1, <2>2 DEF RivalWrites
<1>3. CASE RivalStops
  <2>1. /\ UNCHANGED <<queueVars, workerVars, driverVars, files, verdicts>>
        /\ writing' = [writing EXCEPT !["rival"] = NotWriting]
        /\ rival' \notin RivalBefore
    BY <1>3 DEF RivalStops, RivalBefore
  <2>2. /\ writing' \in [Processes -> Stretch \cup {NotWriting}]
        /\ writing'["own"] = writing["own"]
        /\ ~IsWriting("rival")'
    BY <1>a, <2>1 DEF IsWriting
  <2>3. QualityKnown'
    BY <1>a, <2>1 DEF QualityKnown
  <2> QED
    BY <1>a, <2>1, <2>2, <2>3, RivalFiles
<1> QED
  BY <1>1, <1>2, <1>3 DEF FilesMove

\* The command's own execution of a case: its verdict, its artifact, its end.
LEMMA CaseFiles ==
  ASSUME FileInv, EntriesHeld', command' = command, NEW w \in Workers, CaseMoves(w)
  PROVE  FilesOK'
<1>a. /\ EntriesHeld /\ Batched /\ FilesTypeOK /\ QualityKnown /\ WritesVerdict
      /\ LinkAfterArtifact /\ JudgedOnce /\ LinkMatchesArtifact
      /\ command = "full_stack"
      /\ Processes = {"own", "rival"} /\ RivalExecution = 0
      /\ writing \in [Processes -> Stretch \cup {NotWriting}]
  BY DEF FileInv, FilesOK, FilesTypeOK, CaseMoves, Processes, RivalExecution
<1>b. /\ stream' = stream
      /\ \A v \in Workers \ {w} : wpc'[v] = wpc[v] /\ wentry'[v] = wentry[v]
  BY <1>a, CaseWorkerEffect
<1>1. ASSUME UNCHANGED <<files, writing, verdicts, artifacts>>, rival' = rival,
             delivered' >= delivered,
             wpc'[w] \in {"leased", "running"} =>
               wentry'[w] \notin DOMAIN verdicts
      PROVE  FilesOK'
  <2>1. delivered' \in Nat
    BY DEF EntriesHeld
  <2> QED
    BY <1>a, <1>b, <1>1, <2>1, FilesStay
<1>c. /\ wpc \in [Workers -> WorkerPcs] /\ wentry \in [Workers -> Nat]
      /\ delivered \in Nat /\ DOMAIN verdicts \subseteq 0 .. delivered
  BY <1>a DEF EntriesHeld, FilesTypeOK
<1>2. CASE ProcessCase(w)
  <2>1. /\ WorkerStep(w) /\ wpc[w] # "running" /\ ~RunnerReturns(w)
        /\ UNCHANGED fullStackVars /\ ~IsWriting("own")
    BY <1>2 DEF ProcessCase, Process, RunnerReturns, LoopFree, IsWriting
  <2>2. artifacts' = artifacts /\ (delivered' = delivered \/ Lease(w))
    BY <1>a, <2>1, WorkerStepEffect
  <2>3. CASE Lease(w)
    <3>1. delivered' = delivered + 1 /\ wentry'[w] = delivered + 1
      BY <1>c, <2>3 DEF Lease, lease_jobs
    <3>2. wentry'[w] \notin DOMAIN verdicts
      BY <1>c, <3>1
    <3> QED
      BY <1>1, <1>c, <2>1, <2>2, <3>1, <3>2 DEF fullStackVars
  <2>4. CASE ~Lease(w)
    <3>1. wpc'[w] \in {"leased", "running"} =>
            wpc[w] = "leased" /\ wentry'[w] = wentry[w]
      BY <1>c, <2>1, <2>4
      DEF WorkerStep, LoadTerminal, AckTerminal, LoadBlocked, AckBlocked,
          CommitBlocked, record_running, RunnerReturns, record_completed,
          handle_policy_error, handle_timeout, handle_cancellation, FinalizeAs,
          record_retry_scheduled, PublishRetry, RetryOverBudget, RetriesExhausted,
          AckProcessed, GoTo, Return
    <3>2. wpc[w] = "leased" => wentry[w] \notin DOMAIN verdicts
      BY <1>a, <2>1 DEF JudgedOnce
    <3> QED
      BY <1>1, <1>c, <2>1, <2>2, <2>4, <3>1, <3>2 DEF fullStackVars
  <2> QED
    BY <2>3, <2>4
<1>3. CASE CaseAnswered(w)
  <2>1. PICK verdict \in PossibleVerdicts(setup.live) :
          /\ BeginResult("own", JobOf(w), wentry[w], verdict)
          /\ verdicts' = [i \in DOMAIN verdicts \cup {wentry[w]} |->
                            IF i = wentry[w] THEN verdict ELSE verdicts[i]]
    BY <1>3 DEF CaseAnswered
  <2>2. /\ wpc[w] = "running"
        /\ UNCHANGED <<stream, delivered, wpc, wentry, artifacts, phase, rival, files>>
    BY <1>3 DEF CaseAnswered, RunningCase, queueVars, workerVars, driverVars
  <2>3. /\ wentry[w] \in 1 .. delivered /\ wentry[w] \in Entries
        /\ JobOf(w) = stream[wentry[w]].job
    BY <1>a, <2>2, HeldMessage DEF JobOf
  <2>4. JobOf(w) \in CaseIds /\ wentry[w] \in Nat /\ wentry[w] # 0
    BY <1>a, <1>c, <2>3 DEF Batched
  <2>5. verdict \in Verdicts /\ (verdict.quality = "pass" <=> verdict.usable)
    BY VerdictsHonest
  <2>6. /\ ~IsWriting("own")
        /\ writing' \in [Processes -> Stretch \cup {NotWriting}]
        /\ writing'["rival"] = writing["rival"]
        /\ IsWriting("own")'
        /\ writing'["own"].step = "open"
        /\ writing'["own"].case = JobOf(w)
        /\ writing'["own"].execution = wentry[w]
        /\ writing'["own"].quality = verdict.quality
    BY <1>a, <2>1, <2>4, <2>5, BeginEffect
  <2>7. wentry[w] \notin DOMAIN verdicts
    BY <1>a, <2>2, <2>6 DEF JudgedOnce
  <2>8. /\ DOMAIN verdicts' = DOMAIN verdicts \cup {wentry[w]}
        /\ verdicts' \in [DOMAIN verdicts' -> Verdicts]
        /\ verdicts'[wentry[w]] = verdict
        /\ \A k \in DOMAIN verdicts : verdicts'[k] = verdicts[k]
        /\ QualityKnown'
    BY <1>a, <2>1, <2>5, <2>7, NewVerdict
  <2>9. FilesTypeOK'
    BY <1>a, <1>c, <2>2, <2>3, <2>6, <2>8 DEF FilesTypeOK
  <2>10. WritesVerdict'
    <3>1. IsWriting("rival")' <=> IsWriting("rival")
      BY <2>6 DEF IsWriting
    <3> QED
      BY <1>a, <2>2, <2>3, <2>4, <2>6, <2>8, <3>1 DEF WritesVerdict
  <2>11. LinkAfterArtifact'
    BY <2>6 DEF LinkAfterArtifact
  <2>12. JudgedOnce'
    <3>1. ASSUME NEW v \in Workers, wpc[v] \in {"leased", "running"},
                 wentry[v] \in DOMAIN verdicts'
          PROVE  v = w
      <4>1. wentry[v] \notin DOMAIN verdicts
        BY <1>a, <2>2, <2>6, <3>1 DEF JudgedOnce
      <4> QED
        BY <1>a, <2>2, <2>8, <3>1, <4>1 DEF EntriesHeld
    <3> QED
      BY <1>a, <2>2, <2>4, <2>6, <2>8, <3>1 DEF JudgedOnce
  <2>13. FilesOfFullStack' /\ LinkMatchesArtifact'
    BY <1>a, <2>2, <2>8 DEF FilesOfFullStack, LinkMatchesArtifact
  <2> QED
    BY <2>8, <2>9, <2>10, <2>11, <2>12, <2>13 DEF FilesOK
<1>4. CASE CaseArtifact(w)
  <2>1. /\ wpc[w] = "running" /\ phase' = phase
        /\ writing["own"].step = "artifact" /\ writing["own"].execution = wentry[w]
        /\ write_stub_job_artifact(JobOf(w), AttemptOf(w), wentry[w])
        /\ GoTo(w, "record") /\ Step("own", "link")
        /\ UNCHANGED <<delivered, rival, files, verdicts>>
    BY <1>4 DEF CaseArtifact, RunnerReturns, NoteProcessed, queueVars
  <2>2. IsWriting("own") /\ writing["own"] \in Stretch
    <3>1. NotWriting.step = "none"
      BY DEF NotWriting
    <3> QED
      BY <1>a, <2>1, <3>1 DEF IsWriting
  <2>3. /\ writing' \in [Processes -> Stretch \cup {NotWriting}]
        /\ writing'["rival"] = writing["rival"]
        /\ IsWriting("own")' /\ writing'["own"].step = "link"
        /\ writing'["own"].case = writing["own"].case
        /\ writing'["own"].execution = wentry[w]
        /\ writing'["own"].quality = writing["own"].quality
    BY <1>a, <2>1, <2>2, StepEffect DEF WriteSteps
  <2>4. JobOf(w) = writing["own"].case /\ AttemptOf(w) = 1
    <3>1. wentry[w] \in Entries
      BY <1>a, <2>1, HeldMessage
    <3> QED
      BY <1>a, <2>1, <2>2, <3>1 DEF WritesVerdict, Batched, JobOf, AttemptOf
  <2>5. /\ artifacts' = {f \in artifacts : ~(f.job = writing["own"].case
                                              /\ f.attempt = 1)}
                          \cup {[job |-> writing["own"].case, attempt |-> 1,
                                 by |-> wentry[w]]}
        /\ Links(writing["own"].case) \subseteq {RivalExecution}
    BY <1>a, <2>1, <2>2, <2>4 DEF write_stub_job_artifact, LinkAfterArtifact
  <2>6. FilesTypeOK'
    BY <1>a, <2>1, <2>3 DEF FilesTypeOK
  <2>7. WritesVerdict'
    <3>1. IsWriting("rival")' <=> IsWriting("rival")
      BY <2>3 DEF IsWriting
    <3> QED
      BY <1>a, <1>b, <2>1, <2>2, <2>3, <3>1 DEF WritesVerdict
  <2>8. LinkAfterArtifact'
    BY <2>3, <2>5 DEF LinkAfterArtifact, Executed
  <2>9. JudgedOnce'
    <3>1. ASSUME NEW v \in Workers, wpc'[v] \in {"leased", "running"}
          PROVE  wentry[v] \notin DOMAIN verdicts
      <4>1. v # w /\ wpc[v] = wpc'[v]
        BY <1>b, <1>c, <2>1, <3>1 DEF GoTo
      <4>2. wentry[v] # wentry[w]
        BY <1>a, <2>1, <3>1, <4>1 DEF EntriesHeld
      <4> QED
        BY <1>a, <2>1, <3>1, <4>1, <4>2 DEF JudgedOnce
    <3> QED
      BY <1>a, <2>1, <3>1 DEF JudgedOnce, GoTo
  <2>10. FilesOfFullStack' /\ QualityKnown'
    BY <1>a, <2>1 DEF FilesOfFullStack, QualityKnown
  <2>11. LinkMatchesArtifact'
    <3> SUFFICES ASSUME NEW c \in CaseIds, files[c].text = "json",
                        files[c].link # NoExecution,
                        files[c].link # RivalExecution
                 PROVE  [job |-> c, attempt |-> 1, by |-> files[c].link] \in artifacts'
      BY <1>a, <2>1 DEF LinkMatchesArtifact
    <3>1. c # writing["own"].case
      BY <2>5 DEF Links
    <3>2. [job |-> c, attempt |-> 1, by |-> files[c].link] \in artifacts
      BY <1>a DEF LinkMatchesArtifact
    <3> QED
      BY <2>5, <3>1, <3>2
  <2> QED
    BY <2>6, <2>7, <2>8, <2>9, <2>10, <2>11 DEF FilesOK
<1>5. CASE CaseFails(w) \/ Raises(w)
  <2>1. /\ UNCHANGED <<files, writing, verdicts, artifacts, rival, delivered>>
        /\ wpc'[w] \in {"idle", "ack"}
    BY <1>5, <1>c
    DEF CaseFails, RunningCase, handle_policy_error, handle_timeout, FinalizeAs,
        GoTo, queueVars, fullStackVars, Raises, WorkerRaises, Abort, Return
  <2> QED
    BY <1>1, <1>c, <2>1
<1>6. CASE CaseRaises(w)
  <2>1. /\ UNCHANGED <<files, verdicts, artifacts, rival, delivered>>
        /\ writing' = [writing EXCEPT !["own"] = NotWriting]
        /\ wpc[w] # "idle" /\ wpc'[w] = "idle"
        /\ IsWriting("own") => writing["own"].execution = wentry[w]
    BY <1>6, <1>c DEF CaseRaises, WorkerRaises, Abort, Return, queueVars, LoopFree,
                      IsWriting
  <2>2. /\ writing' \in [Processes -> Stretch \cup {NotWriting}]
        /\ writing'["rival"] = writing["rival"]
        /\ ~IsWriting("own")'
        /\ IsWriting("rival")' <=> IsWriting("rival")
    BY <1>a, <2>1 DEF IsWriting
  <2>3. FilesTypeOK'
    BY <1>a, <2>1, <2>2 DEF FilesTypeOK
  <2>4. WritesVerdict' /\ LinkAfterArtifact'
    BY <1>a, <1>b, <2>1, <2>2 DEF WritesVerdict, LinkAfterArtifact
  <2>5. FilesOfFullStack' /\ QualityKnown' /\ LinkMatchesArtifact'
    BY <1>a, <2>1 DEF FilesOfFullStack, QualityKnown, LinkMatchesArtifact
  <2>6. JudgedOnce'
    <3>1. ASSUME NEW v \in Workers, wpc'[v] \in {"leased", "running"}
          PROVE  wentry'[v] \notin DOMAIN verdicts
      <4>1. v # w /\ wpc[v] = wpc'[v] /\ wentry[v] = wentry'[v]
        BY <1>b, <2>1, <3>1
      <4>2. wentry[v] # wentry[w]
        BY <1>a, <2>1, <3>1, <4>1 DEF EntriesHeld
      <4> QED
        BY <1>a, <2>1, <3>1, <4>1, <4>2 DEF JudgedOnce
    <3> QED
      BY <1>a, <2>1, <3>1 DEF JudgedOnce
  <2> QED
    BY <2>3, <2>4, <2>5, <2>6 DEF FilesOK
<1> QED
  BY <1>2, <1>3, <1>4, <1>5, <1>6 DEF CaseMoves, CaseStep

\* Nothing a command or its rival does makes a result file lie.
LEMMA NextFiles ==
  ASSUME FileInv, [Next]_vars
  PROVE  FileInv'
<1>a. /\ EntriesHeld' /\ Batched' /\ command' = command
      /\ phase = "raised" => phase' = "raised"
  BY NextEntries, NextBatched, StepKinds DEF FileInv, FilesOK
<1> SUFFICES FilesOK'
  BY <1>a DEF FileInv
<1>b. delivered \in Nat /\ delivered' \in Nat
  BY <1>a DEF FileInv, EntriesHeld
<1>1. CASE Waits
  BY <1>a, <1>b, <1>1, FilesStay DEF Waits, queueVars, workerVars
<1>2. CASE PublishesNext
  <2>1. PICK j \in Jobs : publish_job(j, 1)
    BY <1>2 DEF PublishesNext
  <2>2. EntriesHeld /\ 1 \in Nat
    BY DEF FileInv
  <2>3. delivered' = delivered /\ \A i \in Entries : stream'[i] = stream[i]
    BY <2>1, <2>2, Published
  <2> QED
    BY <1>a, <1>b, <1>2, <2>3, FilesStay DEF PublishesNext, workerVars, fullStackVars
<1>3. CASE FilesMove
  <2>1. CASE WritesFile
    <3>1. FileStep("own") /\ command = "full_stack" /\ "own" \in Processes
      BY <1>3, <2>1 DEF FilesMove, WritesFile, Processes
    <3> QED
      BY <2>1, <3>1, WriterFiles DEF WritesFile
  <2> QED
    BY <1>3, <2>1, RivalMoves
<1>4. ASSUME NEW w \in Workers, PlainWorks(w)
      PROVE  FilesOK'
  <2>1. delivered' >= delivered
    BY <1>b, <1>4, WorkerStepEffect
    DEF PlainWorks, Abort, queueVars, Lease, lease_jobs, FileInv
  <2> QED
    BY <1>a, <1>4, <2>1, PlainFiles DEF PlainWorks
<1>5. ASSUME NEW w \in Workers, CaseMoves(w)
      PROVE  FilesOK'
  BY <1>a, <1>5, CaseFiles
<1> QED
  BY <1>1, <1>2, <1>3, <1>4, <1>5, StepKinds DEF FileInv, FilesOK

\* What the assumption on the plans says of the one that was chosen.
LEMMA CallOfBatch ==
  ASSUME plan \in Plans
  PROVE  /\ ReliabilityJobs \subseteq Jobs
         /\ IsFiniteSet(ReliabilityJobs) /\ ReliabilityJobs # {}
         /\ \A j \in ReliabilityJobs :
              /\ ModeOf[j] \in FailureModes
              /\ JobSpec[j] = ReliabilitySubmission(ModeOf[j])
  BY BatchAssumption DEF PlanHolds, ReliabilityJobs

\* A command starts with empty queues, idle workers and no result file.
LEMMA InitFiles == Init => FileInv
<1> SUFFICES ASSUME Init PROVE FileInv
  OBVIOUS
<1>a. /\ FullStackInit /\ StoreInit /\ QueueInit /\ WorkerInit /\ plan \in Plans
      /\ \/ /\ command = "smoke" /\ phase = "create"
            /\ todo \in Orderings(SmokeJobs)
         \/ /\ command = "reliability" /\ phase = "create" /\ todo \in BatchOrders
         \/ command = "full_stack" /\ phase = "start" /\ todo = setup.dataset
  BY DEF Init, DriverInit
<1>1. EntriesHeld
  BY <1>a DEF EntriesHeld, QueueInit, WorkerInit, WorkerPcs
<1>2. ASSUME NEW S \in {SmokeJobs, ReliabilityJobs}, NEW s \in Orderings(S)
      PROVE  s \in Seq(Jobs) /\ s # <<>>
  <2>1. IsFiniteSet(S) /\ S # {} /\ S \subseteq Jobs
    BY <1>a, SmokeAssumption, CallOfBatch
  <2>2. Cardinality(S) \in Nat /\ Cardinality(S) # 0
    BY <2>1, FS_CardinalityType, FS_EmptySet
  <2>3. s \in [1 .. Cardinality(S) -> S]
    BY DEF Orderings
  <2> QED
    BY <2>1, <2>2, <2>3
<1>3. Batched
  <2>1. setup \in Setup
    BY <1>a, CallsAssumption DEF FullStackInit
  <2>2. stream = <<>> /\ wpc = [w \in Workers |-> "idle"]
    BY <1>a DEF QueueInit, WorkerInit
  <2>3. command # "full_stack" => todo \in Seq(Jobs) /\ todo # <<>>
    BY <1>a, <1>2 DEF BatchOrders
  <2>4. setup.dataset \in Seq(Cases)
    BY <2>1 DEF Setup
  <2> QED
    BY <1>a, <2>1, <2>2, <2>3, <2>4
    DEF Batched, Commands, Phases, Submitting, Entries
<1>4. FilesOK
  <2>a. /\ files = [c \in CaseIds |-> NoFile]
        /\ writing = [p \in Processes |-> NotWriting]
        /\ verdicts = [i \in {} |-> {}] /\ delivered = 0
        /\ wpc = [w \in Workers |-> "idle"]
        /\ NoFile.text = "missing"
        /\ RivalExecution \notin {}
    BY <1>a DEF FullStackInit, QueueInit, WorkerInit, NoFile
  <2>1. DOMAIN verdicts = {}
    BY <2>a
  <2>2. FilesTypeOK
    BY <2>a, <2>1 DEF FilesTypeOK
  <2>3. \A p \in Processes : ~IsWriting(p)
    BY <2>a DEF IsWriting
  <2>4. WritesVerdict /\ LinkAfterArtifact
    BY <2>3 DEF WritesVerdict, LinkAfterArtifact, Processes
  <2>5. JudgedOnce /\ FilesOfFullStack /\ QualityKnown
    BY <2>a, <2>1, <2>3 DEF JudgedOnce, FilesOfFullStack, QualityKnown
  <2>6. LinkMatchesArtifact
    BY <2>a DEF LinkMatchesArtifact
  <2> QED
    BY <2>2, <2>4, <2>5, <2>6 DEF FilesOK
<1> QED
  BY <1>1, <1>3, <1>4 DEF FileInv

\* The invariant behind the theorems about result files.
THEOREM FilesInvariance == Spec => []FileInv
<1>1. FileInv /\ [Next]_vars => FileInv'
  BY NextFiles
<1> QED
  BY <1>1, InitFiles, PTL DEF Spec

\* Two full-stack proofs may truncate, read and rewrite one result file in any
\* order: the artifact it names is there, and carries its quality status.
THEOREM LinksAreTrue == Spec => []LinkMatchesArtifact
<1>1. FileInv => LinkMatchesArtifact
  BY DEF FileInv, FilesOK
<1> QED
  BY <1>1, FilesInvariance, PTL

\* A result file that links an execution passes exactly if the answer of the
\* agent in that execution could be used.
THEOREM PassesAreUsable == Spec => []PassMeansUsable
<1>1. FileInv => PassMeansUsable
  <2> SUFFICES ASSUME FileInv, NEW c \in CaseIds, files[c].text = "json",
                      files[c].link \in DOMAIN verdicts
               PROVE  files[c].quality = "pass" <=> verdicts[files[c].link].usable
    BY DEF PassMeansUsable
  <2>1. files[c].link # NoExecution
    BY DEF FileInv, EntriesHeld, FilesOK, FilesTypeOK, NoExecution
  <2>2. files[c].quality = verdicts[files[c].link].quality
    BY <2>1 DEF FileInv, FilesOK, LinkMatchesArtifact
  <2> QED
    BY <2>2 DEF FileInv, FilesOK, QualityKnown
<1> QED
  BY <1>1, FilesInvariance, PTL

-----------------------------------------------------------------------------
(* What has been decided *)

\* A job of the batch may come to the workers more than once.
Distinct == command = "full_stack" => ~RepeatedId

JobAt(n) == IF command = "full_stack" THEN todo[n].id ELSE todo[n]

\* The row of the first job to submit is there, its message is not.
Between == phase \in {"replay", "publish"}

Reported == {"report", "validate", "certified", "invalid"}

Working == {"leased", "running", "record", "publish", "blocked_ack",
            "blocked_commit"}

\* Entry i is still to be looked at, or a worker that holds it has yet to decide
\* its job.
Live(i) ==
  \/ i > delivered
  \/ \E w \in Workers : wentry[w] = i /\ wpc[w] \in Working

LiveEntry(j) == \E i \in Entries : stream[i].job = j /\ Live(i)

TablesOK ==
  /\ status \in [Jobs -> Statuses]
  /\ finalization \in [Jobs -> Finalization]
  /\ conflicts \in [Jobs -> Nat]
  /\ \A j \in Jobs : status[j] \in TERMINAL_STATUSES <=> Finalized(j)

\* Workers are busy in a round only, and while one is, or has been, its round is
\* not the last: that is why the queue is empty when the rounds stop.
RoundsOK ==
  /\ processed \in [Workers -> {"pending", "true", "false", "raised"}]
  /\ phase \notin {"round", "raised"} =>
       \A w \in Workers : processed[w] = "pending"
  /\ phase # "raised" =>
       /\ \A w \in Workers : wpc[w] # "idle" =>
            phase = "round" /\ w \in Pool /\ processed[w] = "pending"
       /\ \A i \in pel : \E w \in Workers :
            wpc[w] \notin {"idle", "blocked_commit"} /\ wentry[w] = i
       /\ delivered < Len(stream) /\ (\E w \in Pool : processed[w] = "false") =>
            \E w \in Pool : processed[w] = "true" \/ wpc[w] # "idle"
  /\ phase \in Reported => delivered = Len(stream) /\ pel = {}

\* Every row is decided, or somebody will decide it.
RowsCovered ==
  phase # "raised" =>
    \A j \in Jobs : status[j] # "absent" /\ ~Finalized(j) =>
      LiveEntry(j) \/ (Between /\ j = JobAt(1))

\* Unless a case comes twice, a job has one message at a time, and none that is
\* to be looked at once the job is decided.
OneLiveEntry ==
  Distinct =>
    /\ \A i, k \in Entries :
         Live(i) /\ Live(k) /\ stream[i].job = stream[k].job => i = k
    /\ \A i \in Entries : Live(i) => ~Finalized(stream[i].job)
    /\ \A j \in Jobs : conflicts[j] = 0

\* What is left to submit has not been submitted.
TodoUntouched ==
  /\ phase \in Reported \cup {"round", "raised"} => todo = <<>>
  /\ Distinct =>
       /\ \A n \in DOMAIN todo :
            /\ \A i \in Entries : stream[i].job # JobAt(n)
            /\ JobAt(n) \in Jobs => ~Finalized(JobAt(n))
       /\ \A m, n \in DOMAIN todo : JobAt(m) = JobAt(n) => m = n

\* No job of the batch is forgotten.
BatchCovered ==
  command # "full_stack" =>
    /\ \A j \in BatchOf(command) :
         status[j] # "absent" \/ \E n \in DOMAIN todo : todo[n] = j
    /\ Between => status[Head(todo)] # "absent"

DrainInv ==
  /\ FileInv
  /\ TablesOK /\ RoundsOK /\ RowsCovered /\ OneLiveEntry /\ TodoUntouched
  /\ BatchCovered

\* XREADGROUP hands an entry over: it is to be looked at as before.
LEMMA LiveAfterLease ==
  ASSUME EntriesHeld, NEW w \in Workers, Lease(w), NEW i \in Entries
  PROVE  Live(i)' <=> Live(i)
<1>1. /\ delivered' = delivered + 1 /\ wpc[w] = "idle"
      /\ wpc' = [wpc EXCEPT ![w] = "leased"]
      /\ wentry' = [wentry EXCEPT ![w] = delivered + 1]
  BY DEF Lease, lease_jobs
<1>2. /\ delivered \in Nat /\ wpc \in [Workers -> WorkerPcs]
      /\ wentry \in [Workers -> Nat] /\ i \in Nat
  BY DEF EntriesHeld, Entries
<1>3. /\ wpc'[w] = "leased" /\ wentry'[w] = delivered + 1
      /\ \A v \in Workers \ {w} : wpc'[v] = wpc[v] /\ wentry'[v] = wentry[v]
      /\ "leased" \in Working /\ "idle" \notin Working
  BY <1>1, <1>2 DEF Working
<1>4. CASE i > delivered + 1
  BY <1>1, <1>2, <1>4 DEF Live
<1>5. CASE i = delivered + 1
  BY <1>1, <1>2, <1>3, <1>5 DEF Live
<1>6. CASE i <= delivered
  <2>1. (\E v \in Workers : wentry'[v] = i /\ wpc'[v] \in Working) <=>
        (\E v \in Workers : wentry[v] = i /\ wpc[v] \in Working)
    BY <1>1, <1>2, <1>3, <1>6
  <2> QED
    BY <1>1, <1>2, <1>6, <2>1 DEF Live
<1> QED
  BY <1>2, <1>4, <1>5, <1>6

\* A worker that goes on, or returns, decides over its own entry only.
LEMMA LiveAfterMove ==
  ASSUME EntriesHeld, NEW w \in Workers, wpc[w] # "idle", delivered' = delivered,
         NEW pc, \/ GoTo(w, pc)
                 \/ Return(w) /\ pc = "idle",
         NEW e, e = wentry[w], NEW i \in Entries
  PROVE  /\ i # e => (Live(i)' <=> Live(i))
         /\ i = e => /\ Live(i) <=> wpc[w] \in Working
                     /\ Live(i)' <=> pc \in Working
<1>1. /\ delivered \in Nat /\ wpc \in [Workers -> WorkerPcs]
      /\ wentry \in [Workers -> Nat] /\ i \in Nat
      /\ e \in 1 .. delivered
      /\ \A v \in Workers : wpc[v] # "idle" /\ wentry[v] = e => v = w
      /\ "idle" \notin Working
  BY DEF EntriesHeld, Entries, Working
<1>2. /\ wpc'[w] = pc
      /\ \A v \in Workers \ {w} : wpc'[v] = wpc[v] /\ wentry'[v] = wentry[v]
      /\ pc \in Working => wentry'[w] = e
      /\ wentry'[w] = e \/ wpc'[w] \notin Working
  BY <1>1 DEF GoTo, Return
<1>3. CASE i # e
  <2>1. (\E v \in Workers : wentry'[v] = i /\ wpc'[v] \in Working) <=>
        (\E v \in Workers : wentry[v] = i /\ wpc[v] \in Working)
    BY <1>1, <1>2, <1>3
  <2> QED
    BY <1>3, <2>1 DEF Live
<1>4. CASE i = e
  <2>1. ~(i > delivered)
    BY <1>1, <1>4
  <2>2. Live(i) <=> wpc[w] \in Working
    BY <1>1, <1>4, <2>1 DEF Live
  <2>3. Live(i)' <=> pc \in Working
    <3>1. \A v \in Workers \ {w} : wentry'[v] = i => wpc'[v] \notin Working
      BY <1>1, <1>2, <1>4
    <3> QED
      BY <1>1, <1>2, <1>4, <2>1, <3>1 DEF Live
  <2> QED
    BY <1>4, <2>2, <2>3
<1> QED
  BY <1>3, <1>4

-----------------------------------------------------------------------------
(* What a step of process_one decides about the entry e and the job j *)

KeepsLive == \A i \in Entries : Live(i)' <=> Live(i)

EndsLive(e) == \A i \in Entries : Live(i)' <=> Live(i) /\ i # e

\* At most one event is appended, and it is one of j.
Logs(j) ==
  \/ events' = events
  \/ \E type \in EventTypes, a, b \in Nat : AppendEvent(j, type, a, b)

\* The job is looked at: it starts, waits for a retry, or nothing is written.
LooksAt(e, j) ==
  /\ UNCHANGED <<stream, finalization, conflicts>> /\ KeepsLive /\ Logs(j)
  /\ \/ status' = status
     \/ /\ status[j] \notin TERMINAL_STATUSES \cup {"absent"}
        /\ status' = [status EXCEPT ![j] = "running"]
     \/ /\ Live(e) /\ "transient" \in RunnerOutcomes(j)
        /\ status' = [status EXCEPT ![j] = "queued"]

\* There is nothing to do for it.
PassesOver(e, j) ==
  /\ UNCHANGED <<stream, status, finalization, conflicts, events>> /\ EndsLive(e)
  /\ status[j] \in TERMINAL_STATUSES \cup {"absent"}

Settles(e, j) ==
  /\ stream' = stream /\ Live(e) /\ EndsLive(e)
  /\ \E st \in TERMINAL_STATUSES, type \in TerminalEventTypes, a, b \in Nat :
       /\ finalize_job(j, st, type, a, b)
       /\ st = "completed" => type = "completed"

\* Its next attempt is published.
HandsOn(w, e, j) ==
  /\ UNCHANGED <<status, finalization, conflicts, events>>
  /\ Live(e) /\ EndsLive(e)
  /\ wpc[w] = "publish"
  /\ \E a \in Nat : publish_job(j, a)

\* Every step of process_one is of one of these kinds.
LEMMA WorkerDecides ==
  ASSUME EntriesHeld, NEW w \in Workers, WorkerStep(w)
  PROVE  \/ /\ Lease(w) /\ KeepsLive
            /\ UNCHANGED <<stream, status, finalization, conflicts, events>>
         \/ /\ wpc[w] # "idle"
            /\ \/ LooksAt(wentry[w], JobOf(w)) \/ PassesOver(wentry[w], JobOf(w))
               \/ Settles(wentry[w], JobOf(w)) \/ HandsOn(w, wentry[w], JobOf(w))
<1>1. CASE Lease(w)
  BY <1>1, LiveAfterLease DEF Lease, lease_jobs, KeepsLive, storeVars
<1> SUFFICES ASSUME ~Lease(w), NEW e, e = wentry[w], NEW j, j = JobOf(w)
             PROVE  LooksAt(e, j) \/ PassesOver(e, j) \/ Settles(e, j) \/ HandsOn(w, e, j)
  BY <1>1, WorkerStepEffect
<1>a. wpc[w] # "idle" /\ delivered' = delivered /\ e \in Entries
  BY WorkerStepEffect, HeldMessage
<1>b. AttemptOf(w) \in Nat /\ AttemptOf(w) + 1 \in Nat /\ e \in Nat
  BY <1>a, HeldMessage DEF Entries, EntriesHeld
<1>c. /\ Live(e) <=> wpc[w] \in Working
      /\ Working = {"leased", "running", "record", "publish", "blocked_ack",
                    "blocked_commit"}
  BY <1>a, LiveAfterMove, WorkerStepEffect DEF Working
<1>2. ASSUME NEW pc, GoTo(w, pc) \/ (Return(w) /\ pc = "idle")
      PROVE  /\ (pc \in Working <=> wpc[w] \in Working) => KeepsLive
             /\ pc \notin Working => EndsLive(e)
  <2>1. \A i \in Entries :
          /\ i # e => (Live(i)' <=> Live(i))
          /\ i = e => /\ Live(i) <=> wpc[w] \in Working
                      /\ Live(i)' <=> pc \in Working
    BY <1>a, <1>2, LiveAfterMove
  <2> QED
    BY <2>1 DEF KeepsLive, EndsLive
<1>3. CASE LoadTerminal(w)
  BY <1>2, <1>3, <1>c DEF LoadTerminal, queueVars, PassesOver
<1>4. CASE AckTerminal(w) \/ AckProcessed(w)
  <2>1. Return(w) /\ wpc[w] \notin Working
    BY <1>4, <1>c DEF AckTerminal, AckProcessed
  <2> QED
    BY <1>2, <1>4, <1>c, <2>1 DEF AckTerminal, AckProcessed, acknowledge, storeVars,
                                  LooksAt, Logs
<1>5. CASE LoadBlocked(w) \/ AckBlocked(w)
  BY <1>2, <1>5, <1>c DEF LoadBlocked, AckBlocked, acknowledge, storeVars, queueVars,
                          LooksAt, Logs
<1>d. /\ TERMINAL_STATUSES = {"completed", "failed", "timed_out", "cancelled"}
      /\ TERMINAL_STATUSES \cup {"budget_blocked"} = TerminalEventTypes
  BY DEF TERMINAL_STATUSES, TerminalEventTypes
<1>6. ASSUME NEW st \in TERMINAL_STATUSES, NEW type \in TerminalEventTypes,
             st = "completed" => type = "completed",
             finalize_job(j, st, type, AttemptOf(w), wentry[w]), stream' = stream,
             wpc[w] \in Working, GoTo(w, "ack") \/ Return(w)
      PROVE  Settles(e, j)
  <2>1. EndsLive(e)
    BY <1>2, <1>6, <1>c
  <2> QED
    BY <1>6, <1>b, <1>c, <2>1 DEF Settles
<1>7. CASE CommitBlocked(w)
  <2>1. finalize_job(j, "failed", "budget_blocked", AttemptOf(w), wentry[w])
    BY <1>7 DEF CommitBlocked
  <2>2. stream' = stream /\ wpc[w] \in Working /\ Return(w)
    BY <1>7, <1>c DEF CommitBlocked, queueVars
  <2> QED
    BY <1>6, <1>d, <2>1, <2>2
<1>8. CASE record_running(w)
  <2>1. AppendEvent(j, "running", AttemptOf(w), wentry[w]) /\ "running" \in EventTypes
    BY <1>8 DEF record_running, record_state_event, EventTypes
  <2>2. Logs(j)
    BY <1>b, <2>1 DEF Logs
  <2> QED
    BY <1>2, <1>8, <1>c, <2>2 DEF record_running, record_state_event, queueVars,
                                  LooksAt
<1>9. CASE RunnerReturns(w)
  BY <1>2, <1>9, <1>c DEF RunnerReturns, storeVars, queueVars, LooksAt, Logs
<1>10. CASE record_completed(w)
  <2>1. finalize_job(j, "completed", "completed", AttemptOf(w), wentry[w])
    BY <1>10 DEF record_completed
  <2>2. stream' = stream /\ wpc[w] \in Working /\ GoTo(w, "ack")
    BY <1>10, <1>c DEF record_completed, queueVars
  <2> QED
    BY <1>6, <1>d, <2>1, <2>2
<1>11. ASSUME NEW outcome, NEW st \in TERMINAL_STATUSES,
              NEW type \in TerminalEventTypes, FinalizeAs(w, outcome, st, type),
              st # "completed"
       PROVE  Settles(e, j)
  <2>1. finalize_job(j, st, type, AttemptOf(w), wentry[w])
    BY <1>11 DEF FinalizeAs
  <2>2. stream' = stream /\ wpc[w] \in Working /\ GoTo(w, "ack")
    BY <1>11, <1>c DEF FinalizeAs, queueVars
  <2> QED
    BY <1>6, <1>11, <2>1, <2>2
<1>12. CASE handle_policy_error(w) \/ RetriesExhausted(w)
  BY <1>11, <1>12, <1>d DEF handle_policy_error, RetriesExhausted
<1>13. CASE handle_timeout(w) \/ handle_cancellation(w) \/ RetryOverBudget(w)
  BY <1>11, <1>13, <1>d DEF handle_timeout, handle_cancellation, RetryOverBudget
<1>14. CASE record_retry_scheduled(w)
  <2>1. /\ AppendEvent(j, "retry_scheduled", AttemptOf(w), wentry[w])
        /\ "retry_scheduled" \in EventTypes
    BY <1>14 DEF record_retry_scheduled, record_state_event, EventTypes,
                 RetryEventTypes
  <2>2. Logs(j)
    BY <1>b, <2>1 DEF Logs
  <2> QED
    BY <1>2, <1>14, <1>c, <2>2
    DEF record_retry_scheduled, record_state_event, queueVars, LooksAt
<1>15. CASE PublishRetry(w)
  BY <1>2, <1>15, <1>b, <1>c DEF PublishRetry, storeVars, HandsOn
<1> QED
  BY <1>3, <1>4, <1>5, <1>7, <1>8, <1>9, <1>10, <1>12, <1>13, <1>14, <1>15
  DEF WorkerStep

-----------------------------------------------------------------------------
(* What a step of the command does to its jobs *)

QueueAndWorkersRest ==
  UNCHANGED <<stream, delivered, wpc, wentry, artifacts, cancelRequested>>

\* The command goes on with what it has to submit, or stops submitting.
GoesOn ==
  /\ todo' = todo
  /\ phase' # "raised" /\ Between => Between'
  /\ phase' \in Reported \cup {"round", "raised"} =>
       phase \in Reported \cup {"round", "raised"}

QuietStep ==
  /\ UNCHANGED <<status, finalization, conflicts, events>>
  /\ QueueAndWorkersRest /\ GoesOn
  /\ command # "full_stack" /\ Between' => Between

CreateStep ==
  /\ phase = "create" /\ Between' /\ todo' = todo /\ todo # <<>>
  /\ JobAt(1) \in Jobs /\ create_job(JobAt(1)) /\ QueueAndWorkersRest
  /\ command = "full_stack" => JobAt(1) \in CaseIds

DropStep ==
  /\ command = "full_stack" /\ DropTables /\ QueueAndWorkersRest /\ GoesOn

SubmitStep ==
  /\ phase = "publish" /\ todo # <<>> /\ todo' = Tail(todo)
  /\ phase' = IF Tail(todo) = <<>> THEN "round" ELSE "create"
  /\ JobAt(1) \in Jobs /\ publish_job(JobAt(1), 1)
  /\ UNCHANGED <<status, finalization, conflicts, events, wpc, wentry, artifacts,
                 cancelRequested>>

WorkStep(w) ==
  WorkerStep(w) /\ phase \in {"round", "raised"} /\ phase' = phase /\ todo' = todo

FailStep(w) ==
  Abort(w) /\ phase \in {"round", "raised"} /\ phase' = "raised" /\ todo' = todo

\* Every step of a command is of one of these kinds.
LEMMA StepShapes ==
  ASSUME FileInv, [Next]_vars
  PROVE  \/ QuietStep \/ CreateStep \/ DropStep \/ SubmitStep
         \/ \E w \in Workers : WorkStep(w) \/ FailStep(w)
<1> USE DEF GoesOn, Between, Reported, QueueAndWorkersRest
<1>a. /\ Batched /\ FilesOfFullStack
      /\ command # "full_stack" /\ phase \in {"create", "replay", "publish"} =>
           todo # <<>> /\ Head(todo) \in Jobs
      /\ todo # <<>> => Head(todo) = todo[1]
      /\ command = "full_stack" => todo \in Seq(Cases)
  BY DEF FileInv, FilesOK, Batched, Submitting
<1>1. CASE UNCHANGED vars
  BY <1>1 DEF vars, driverVars, storeVars, queueVars, workerVars, QuietStep
<1>2. CASE PlainStep
  <2>a. command # "full_stack"
    BY <1>2 DEF PlainStep, Plain
  <2>1. CASE CreateSmokeJob \/ CreateReliabilityJob
    <3>1. PICK next \in {"replay", "publish"} : Create(Head(todo), next)
      BY <2>1 DEF CreateSmokeJob, CreateReliabilityJob
    <3> QED
      BY <1>a, <2>a, <3>1 DEF Create, CreateStep, JobAt, queueVars, workerVars
  <2>2. CASE ReplaySubmission \/ validate_smoke_report \/ validate_reliability_proof
    BY <2>a, <2>2 DEF ReplaySubmission, validate_smoke_report,
                      validate_reliability_proof, Validate, storeVars, queueVars,
                      workerVars, QuietStep
  <2>3. CASE Publish(Head(todo))
    BY <1>a, <2>a, <2>3 DEF Publish, SubmitStep, JobAt, storeVars, workerVars
  <2> QED
    BY <1>2, <2>1, <2>2, <2>3 DEF PlainStep
<1>3. CASE FullStackStep
  <2>a. command = "full_stack"
    BY <1>3 DEF FullStackStep
  <2>1. CASE CreateCaseJob
    <3>1. Head(todo).id # NoId /\ todo # <<>> /\ Create(Head(todo).id, "publish")
      BY <2>1 DEF CreateCaseJob
    <3>2. Head(todo) \in Cases
      BY <1>a, <2>a, <3>1
    <3>3. Head(todo).id \in CaseIds /\ Head(todo).id \in Jobs
      BY <3>1, <3>2, CallsAssumption DEF Cases
    <3> QED
      BY <1>a, <2>a, <3>1, <3>3 DEF Create, CreateStep, JobAt, queueVars, workerVars
  <2>2. CASE PublishCaseJob
    <3>1. todo # <<>> /\ Head(todo).id \in Jobs
      BY <1>a, <2>a, <2>2, CallsAssumption DEF PublishCaseJob, Publish, Batched
    <3> QED
      BY <1>a, <2>a, <2>2, <3>1
      DEF PublishCaseJob, Publish, SubmitStep, JobAt, storeVars, workerVars
  <2>3. CASE ReturnCaseJob \/ DatasetRefused \/ validate_full_stack_report
             \/ WritesFile
    BY <2>a, <2>3
    DEF ReturnCaseJob, DatasetRefused, validate_full_stack_report, Validate,
        WritesFile, driverVars, storeVars, queueVars, workerVars, QuietStep
  <2>4. CASE TakeLock \/ SkipReset \/ ReleaseLock
    BY <2>a, <2>4 DEF TakeLock, SkipReset, ReleaseLock, driverVars, storeVars,
                      queueVars, workerVars, QuietStep
  <2>5. CASE ResetTables
    BY <2>a, <2>5 DEF ResetTables, queueVars, workerVars, DropStep
  <2> QED
    BY <1>3, <2>1, <2>2, <2>3, <2>4, <2>5 DEF FullStackStep
<1>4. CASE EndRound \/ build_smoke_report
  BY <1>4 DEF EndRound, build_smoke_report, storeVars, queueVars, workerVars, QuietStep
<1>5. ASSUME NEW w \in Workers, WorkerActs(w)
      PROVE  QuietStep \/ WorkStep(w) \/ FailStep(w)
  <2>1. CASE PlainProcess(w) \/ ProcessCase(w)
    BY <2>1 DEF PlainProcess, ProcessCase, Process, MayProcess, NoteProcessed, WorkStep
  <2>2. CASE CaseAnswered(w) \/ FindNothing(w)
    BY <2>2 DEF CaseAnswered, FindNothing, driverVars, storeVars, queueVars,
                workerVars, QuietStep
  <2>3. CASE CaseArtifact(w) \/ CaseFails(w)
    BY <2>3 DEF CaseArtifact, CaseFails, RunningCase, MayProcess, NoteProcessed,
                WorkerStep, WorkStep
  <2>4. CASE WorkerRaises(w) \/ Raises(w) \/ CaseRaises(w)
    BY <2>4 DEF Raises, CaseRaises, WorkerRaises, MayProcess, FailStep
  <2> QED
    BY <1>5, <2>1, <2>2, <2>3, <2>4, EarlyEnds DEF WorkerGoesOn, CaseStep
<1>6. CASE Rival
  <2>1. CASE RivalResets
    BY <1>6, <2>1 DEF Rival, RivalResets, driverVars, queueVars, workerVars, DropStep
  <2>2. CASE ~RivalResets
    BY <1>6, <2>2
    DEF Rival, RivalStep, RivalStarts, RivalAnswered, RivalWrites, RivalFails,
        RivalStops, driverVars, storeVars, queueVars, workerVars, QuietStep
  <2> QED
    BY <2>1, <2>2
<1> QED
  BY <1>1, <1>2, <1>3, <1>4, <1>5, <1>6 DEF Next, Drive, WorkerActs

-----------------------------------------------------------------------------
(* The rounds *)

\* An entry is pending as long as a worker has not acknowledged it.
LEMMA PendingAreHeld ==
  ASSUME EntriesHeld, NEW w \in Workers, WorkerStep(w),
         \A i \in pel : \E v \in Workers :
           wpc[v] \notin {"idle", "blocked_commit"} /\ wentry[v] = i
  PROVE  \A i \in pel' : \E v \in Workers :
           wpc'[v] \notin {"idle", "blocked_commit"} /\ wentry'[v] = i
<1>a. /\ wpc \in [Workers -> WorkerPcs] /\ wentry \in [Workers -> Nat]
      /\ \A v \in Workers :
           wpc[v] # "idle" /\ wpc[w] # "idle" /\ wentry[v] = wentry[w] => v = w
  BY DEF EntriesHeld
<1>1. CASE Lease(w)
  <2>1. /\ pel' = pel \cup {delivered + 1} /\ wpc[w] = "idle"
        /\ wpc' = [wpc EXCEPT ![w] = "leased"]
        /\ wentry' = [wentry EXCEPT ![w] = delivered + 1]
    BY <1>1 DEF Lease, lease_jobs
  <2>2. /\ wpc'[w] = "leased" /\ wentry'[w] = delivered + 1
        /\ \A v \in Workers : wpc[v] # "idle" =>
             wpc'[v] = wpc[v] /\ wentry'[v] = wentry[v]
    BY <1>a, <2>1
  <2> SUFFICES ASSUME NEW i \in pel'
               PROVE  \E v \in Workers :
                        wpc'[v] \notin {"idle", "blocked_commit"} /\ wentry'[v] = i
    OBVIOUS
  <2>3. CASE i = delivered + 1
    BY <2>2, <2>3
  <2>4. CASE i \in pel
    BY <2>2, <2>4
  <2> QED
    BY <2>1, <2>3, <2>4
<1>2. CASE ~Lease(w)
  <2>1. /\ wpc[w] # "idle"
        /\ pel' = pel \/ pel' = pel \ {wentry[w]}
        /\ \A v \in Workers \ {w} : wpc'[v] = wpc[v] /\ wentry'[v] = wentry[v]
        /\ wpc'[w] \in {"idle", "blocked_commit"} =>
             wpc[w] = "blocked_commit" \/ wentry[w] \notin pel'
        /\ wpc'[w] # "idle" => wentry'[w] = wentry[w]
    <3> USE DEF GoTo, Return, queueVars, acknowledge, FinalizeAs
    <3>1. CASE \/ LoadTerminal(w) \/ AckTerminal(w)
               \/ LoadBlocked(w) \/ AckBlocked(w) \/ CommitBlocked(w)
      BY <1>a, <3>1
      DEF LoadTerminal, AckTerminal, LoadBlocked, AckBlocked, CommitBlocked
    <3>2. CASE record_running(w) \/ RunnerReturns(w) \/ record_completed(w)
      BY <1>a, <3>2 DEF record_running, RunnerReturns, record_completed
    <3>3. CASE \/ handle_policy_error(w) \/ handle_timeout(w)
               \/ handle_cancellation(w)
               \/ RetryOverBudget(w) \/ RetriesExhausted(w)
      BY <1>a, <3>3 DEF handle_policy_error, handle_timeout, handle_cancellation,
                        RetryOverBudget, RetriesExhausted
    <3>4. CASE record_retry_scheduled(w) \/ PublishRetry(w) \/ AckProcessed(w)
      BY <1>a, <3>4 DEF record_retry_scheduled, PublishRetry, publish_job,
                        AckProcessed
    <3> QED
      BY <1>2, <3>1, <3>2, <3>3, <3>4 DEF WorkerStep
  <2> SUFFICES ASSUME NEW i \in pel'
               PROVE  \E v \in Workers :
                        wpc'[v] \notin {"idle", "blocked_commit"} /\ wentry'[v] = i
    OBVIOUS
  <2>2. PICK v \in Workers : wpc[v] \notin {"idle", "blocked_commit"} /\ wentry[v] = i
    BY <2>1
  <2>3. CASE v = w
    BY <2>1, <2>2, <2>3
  <2>4. CASE v # w
    BY <2>1, <2>2, <2>4
  <2> QED
    BY <2>3, <2>4
<1> QED
  BY <1>1, <1>2

\* The pool of a command is not empty.
LEMMA PoolWorkers ==
  ASSUME Batched
  PROVE  Pool \subseteq Workers /\ Pool # {}
<1>1. PoolOf[command] \in (SUBSET Workers) \ {{}}
  BY SmokeAssumption DEF Batched
<1> QED
  BY <1>1 DEF Pool

\* A worker's step within a round: the worker is busy, or has processed something.
LEMMA RoundsWork ==
  ASSUME EntriesHeld, Batched, RoundsOK, NEW w \in Workers, WorkerStep(w), MayProcess(w),
         processed' = IF wpc'[w] = "idle" THEN [processed EXCEPT ![w] = "true"]
                                          ELSE processed,
         phase' = phase, command' = command
  PROVE  RoundsOK'
<1>0. CASE phase = "raised"
  BY <1>0 DEF RoundsOK, Reported
<1> SUFFICES ASSUME phase = "round"
             PROVE  RoundsOK'
  BY <1>0 DEF MayProcess
<1>a. /\ phase = "round" /\ w \in Pool /\ processed[w] = "pending"
      /\ processed \in [Workers -> {"pending", "true", "false", "raised"}]
      /\ wpc \in [Workers -> WorkerPcs] /\ Pool' = Pool
  BY DEF MayProcess, RoundsOK, EntriesHeld, Pool
<1>1. processed' \in [Workers -> {"pending", "true", "false", "raised"}]
  BY <1>a
<1>2. wpc'[w] = "idle" => processed'[w] = "true"
  BY <1>a
<1>3. \A v \in Workers : wpc'[v] # "idle" => v \in Pool /\ processed'[v] = "pending"
  <2> SUFFICES ASSUME NEW v \in Workers, wpc'[v] # "idle"
               PROVE  v \in Pool /\ processed'[v] = "pending"
    OBVIOUS
  <2>1. CASE v = w
    BY <1>a, <2>1
  <2>2. CASE v # w
    <3>1. wpc'[v] = wpc[v]
      BY <1>a, <2>2, WorkerStepEffect DEF Lease, GoTo, Return
    <3>2. v \in Pool /\ processed[v] = "pending"
      BY <1>a, <3>1 DEF RoundsOK
    <3> QED
      BY <1>a, <2>2, <3>2
  <2> QED
    BY <2>1, <2>2
<1>4. \A i \in pel' : \E v \in Workers :
        wpc'[v] \notin {"idle", "blocked_commit"} /\ wentry'[v] = i
  BY <1>a, PendingAreHeld DEF RoundsOK
<1> QED
  BY <1>a, <1>1, <1>2, <1>3, <1>4 DEF RoundsOK, Reported

\* Every step of a command keeps the rounds in order.
LEMMA NextRounds ==
  ASSUME FileInv, RoundsOK, [Next]_vars
  PROVE  RoundsOK'
<1>a. /\ EntriesHeld /\ Batched /\ command' = command
      /\ processed \in [Workers -> {"pending", "true", "false", "raised"}]
      /\ phase \in Phases /\ phase' \in Phases
  BY StepKinds, TodoSteps DEF FileInv, FilesOK, Batched, RoundsOK
<1>b. Pool \subseteq Workers /\ Pool # {} /\ Pool' = Pool
  BY <1>a, PoolWorkers DEF Pool
<1>1. ASSUME UNCHANGED <<processed, stream, delivered, pel, wpc, wentry>>,
             \/ phase' = phase \/ phase' = "raised"
             \/ phase \in Submitting /\ phase' \in Submitting \cup {"refused"}
             \/ phase \in Reported /\ phase' \in Reported
      PROVE  RoundsOK'
  <2>1. CASE phase' = phase
    BY <1>a, <1>b, <1>1, <2>1 DEF RoundsOK
  <2>2. CASE phase' = "raised"
    BY <1>a, <1>1, <2>2 DEF RoundsOK, Reported
  <2>3. CASE phase \in Submitting /\ phase' \in Submitting \cup {"refused"}
    BY <1>a, <1>b, <1>1, <2>3 DEF RoundsOK, Reported, Submitting
  <2>4. CASE phase \in Reported /\ phase' \in Reported
    BY <1>a, <1>b, <1>1, <2>4 DEF RoundsOK, Reported
  <2> QED
    BY <1>1, <2>1, <2>2, <2>3, <2>4
<1> USE DEF queueVars, workerVars, driverVars
<1>2. CASE UNCHANGED vars
  BY <1>1, <1>2 DEF vars
<1>3. ASSUME NEW j, Publish(j)
      PROVE  RoundsOK'
  <2>1. /\ phase = "publish" /\ phase' \in {"round", "create"}
        /\ UNCHANGED <<delivered, pel, wpc, wentry, processed>>
    BY <1>3 DEF Publish, publish_job
  <2>2. /\ \A w \in Workers : wpc[w] = "idle" /\ processed[w] = "pending"
        /\ pel = {}
    BY <2>1 DEF RoundsOK
  <2> QED
    BY <1>a, <1>b, <2>1, <2>2 DEF RoundsOK, Reported
<1>4. CASE PlainStep /\ ~Publish(Head(todo))
  BY <1>1, <1>4
  DEF PlainStep, CreateSmokeJob, CreateReliabilityJob, Create, ReplaySubmission,
      validate_smoke_report, validate_reliability_proof, Validate, Submitting,
      Reported
<1>5. CASE FullStackStep /\ ~PublishCaseJob
  <2>1. CASE CreateCaseJob \/ ReturnCaseJob \/ DatasetRefused
    BY <1>1, <2>1 DEF CreateCaseJob, Create, ReturnCaseJob, DatasetRefused, Submitting
  <2>2. CASE WritesFile \/ validate_full_stack_report
    BY <1>1, <2>2 DEF WritesFile, validate_full_stack_report, Validate, Reported
  <2>3. CASE TakeLock \/ SkipReset \/ ResetTables \/ ReleaseLock
    BY <1>1, <2>3 DEF TakeLock, SkipReset, ResetTables, ReleaseLock, Submitting
  <2> QED
    BY <1>5, <2>1, <2>2, <2>3 DEF FullStackStep
<1>6. CASE build_smoke_report
  BY <1>1, <1>6 DEF build_smoke_report, Reported
<1>7. CASE EndRound
  <2>1. /\ phase = "round" /\ \A w \in Pool : processed[w] # "pending"
        /\ processed' = [w \in Workers |-> "pending"]
        /\ phase' = IF NothingProcessed THEN "report" ELSE "round"
        /\ UNCHANGED <<stream, delivered, pel, wpc, wentry>>
    BY <1>7 DEF EndRound
  <2>2. \A w \in Workers : wpc[w] = "idle"
    BY <1>b, <2>1 DEF RoundsOK
  <2>3. pel = {}
    BY <2>1, <2>2 DEF RoundsOK
  <2>4. NothingProcessed => delivered = Len(stream)
    <3>1. ASSUME NothingProcessed PROVE ~(delivered < Len(stream))
      BY <1>b, <2>1, <2>2, <3>1 DEF RoundsOK, NothingProcessed
    <3> QED
      BY <1>a, <3>1 DEF EntriesHeld
  <2> QED
    BY <1>b, <2>1, <2>2, <2>3, <2>4 DEF RoundsOK, Reported
<1>8. ASSUME NEW w \in Workers, WorkerActs(w)
      PROVE  RoundsOK'
  <2>1. CASE PlainProcess(w) \/ ProcessCase(w)
    BY <1>a, <2>1, RoundsWork DEF PlainProcess, ProcessCase, Process, NoteProcessed
  <2>2. CASE CaseArtifact(w) \/ CaseFails(w)
    BY <1>a, <2>2, RoundsWork
    DEF CaseArtifact, CaseFails, RunningCase, NoteProcessed, WorkerStep
  <2>3. CASE CaseAnswered(w)
    BY <1>1, <2>3 DEF CaseAnswered
  <2>4. CASE FindNothing(w)
    <3>1. /\ phase' = phase /\ phase \in {"round", "raised"} /\ wpc[w] = "idle"
          /\ delivered = Len(stream)
          /\ processed' = [processed EXCEPT ![w] = "false"]
          /\ UNCHANGED <<stream, delivered, pel, wpc, wentry>>
      BY <2>4 DEF FindNothing, MayProcess
    <3>2. ~(delivered < Len(stream))
      BY <1>a, <3>1 DEF EntriesHeld
    <3>3. /\ processed' \in [Workers -> {"pending", "true", "false", "raised"}]
          /\ \A v \in Workers \ {w} : processed'[v] = processed[v]
      BY <1>a, <3>1
    <3> QED
      BY <1>b, <3>1, <3>2, <3>3 DEF RoundsOK, Reported
  <2>5. CASE WorkerRaises(w) \/ Raises(w) \/ CaseRaises(w)
    <3>1. processed' = [processed EXCEPT ![w] = "raised"] /\ phase' = "raised"
      BY <2>5 DEF Raises, CaseRaises, WorkerRaises
    <3> QED
      BY <1>a, <3>1 DEF RoundsOK, Reported
  <2> QED
    BY <1>8, <2>1, <2>2, <2>3, <2>4, <2>5, EarlyEnds DEF WorkerGoesOn, CaseStep
<1>9. CASE Rival
  BY <1>1, <1>9 DEF Rival, RivalStep, RivalStarts, RivalResets, RivalAnswered,
                    RivalWrites, RivalFails, RivalStops
<1> QED
  BY <1>2, <1>3, <1>4, <1>5, <1>6, <1>7, <1>8, <1>9
  DEF Next, Drive, PlainStep, FullStackStep, PublishCaseJob, WorkerActs

-----------------------------------------------------------------------------
(* Every job is decided once *)

DecidedOK ==
  TablesOK /\ RowsCovered /\ OneLiveEntry /\ TodoUntouched /\ BatchCovered

\* A command is called once.
LEMMA SameCall ==
  ASSUME FileInv, [Next]_vars
  PROVE  /\ command' = command /\ setup' = setup /\ plan' = plan
         /\ Distinct' <=> Distinct
<1>1. command' = command /\ setup' = setup /\ plan' = plan
  BY StepKinds, SamePlan DEF FileInv, FilesOK
<1> QED
  BY <1>1 DEF Distinct, RepeatedId

\* Steps that move no message and write no row.
LEMMA QuietDecided ==
  ASSUME FileInv, DecidedOK, [Next]_vars, QuietStep
  PROVE  DecidedOK'
<1>a. /\ UNCHANGED <<status, finalization, conflicts, stream, delivered, wpc, wentry,
                     todo, command, plan>>
      /\ Distinct' <=> Distinct
      /\ phase' # "raised" /\ Between => Between'
      /\ phase' \in Reported \cup {"round", "raised"} =>
           phase \in Reported \cup {"round", "raised"}
      /\ command # "full_stack" /\ Between' => Between
      /\ phase = "raised" => phase' = "raised"
  BY SameCall, StepKinds DEF QuietStep, QueueAndWorkersRest, GoesOn, FileInv, FilesOK
<1>b. TablesOK /\ RowsCovered /\ OneLiveEntry /\ TodoUntouched /\ BatchCovered
  BY DEF DecidedOK
<1>1. TablesOK'
  BY <1>a, <1>b DEF TablesOK, Finalized
<1>2. RowsCovered'
  BY <1>a, <1>b DEF RowsCovered, Finalized, LiveEntry, Entries, Live, JobAt
<1>3. OneLiveEntry'
  BY <1>a, <1>b DEF OneLiveEntry, Finalized, Entries, Live
<1>4. TodoUntouched'
  BY <1>a, <1>b DEF TodoUntouched, Finalized, Entries, JobAt
<1>5. BatchCovered'
  BY <1>a, <1>b DEF BatchCovered, BatchOf, ReliabilityJobs
<1> QED
  BY <1>1, <1>2, <1>3, <1>4, <1>5 DEF DecidedOK

\* A row is created for the first job that is left to submit.
LEMMA CreateDecided ==
  ASSUME FileInv, DecidedOK, [Next]_vars, CreateStep
  PROVE  DecidedOK'
<1> SUFFICES ASSUME NEW j \in Jobs, j = JobAt(1)
             PROVE  DecidedOK'
  BY DEF CreateStep
<1>a. /\ UNCHANGED <<finalization, conflicts, stream, delivered, wpc, wentry, todo,
                     command, plan>>
      /\ status[j] = "absent" /\ status' = [status EXCEPT ![j] = "submitted"]
      /\ phase = "create" /\ Between' /\ ~Between /\ todo # <<>>
      /\ Distinct' <=> Distinct
  BY SameCall DEF CreateStep, QueueAndWorkersRest, create_job, Between
<1>b. TablesOK /\ RowsCovered /\ OneLiveEntry /\ TodoUntouched /\ BatchCovered
  BY DEF DecidedOK
<1>c. /\ status \in [Jobs -> Statuses] /\ "submitted" \in Statuses
      /\ {"submitted", "absent"} \cap TERMINAL_STATUSES = {}
  BY <1>b DEF TablesOK, Statuses, TERMINAL_STATUSES
<1>d. \A k \in Jobs : status'[k] = IF k = j THEN "submitted" ELSE status[k]
  BY <1>a, <1>c
<1>1. TablesOK'
  <2>1. status' \in [Jobs -> Statuses]
    BY <1>a, <1>c
  <2> QED
    BY <1>a, <1>b, <1>c, <1>d, <2>1 DEF TablesOK, Finalized
<1>2. RowsCovered'
  <2>1. JobAt(1)' = j
    BY <1>a DEF JobAt
  <2>2. phase # "raised"
    BY <1>a
  <2> QED
    BY <1>a, <1>b, <1>d, <2>1, <2>2
    DEF RowsCovered, Finalized, LiveEntry, Entries, Live
<1>3. OneLiveEntry'
  BY <1>a, <1>b DEF OneLiveEntry, Finalized, Entries, Live
<1>4. TodoUntouched'
  <2>1. phase' \notin Reported \cup {"round", "raised"}
    BY <1>a DEF Between, Reported
  <2> QED
    BY <1>a, <1>b, <2>1 DEF TodoUntouched, Finalized, Entries, JobAt
<1>5. BatchCovered'
  <2>1. command # "full_stack" => j = Head(todo)
    BY <1>a DEF JobAt
  <2>2. command # "full_stack" => BatchOf(command) \subseteq Jobs
    BY SmokeAssumption, CallOfBatch DEF FileInv, Batched, Commands, BatchOf
  <2> QED
    BY <1>a, <1>b, <1>d, <2>1, <2>2 DEF BatchCovered, BatchOf, ReliabilityJobs
<1> QED
  BY <1>1, <1>2, <1>3, <1>4, <1>5 DEF DecidedOK

\* The tables are dropped: nothing is owed any more.
LEMMA DropDecided ==
  ASSUME FileInv, DecidedOK, [Next]_vars, DropStep
  PROVE  DecidedOK'
<1>a. /\ UNCHANGED <<stream, delivered, wpc, wentry, todo, command>>
      /\ command = "full_stack"
      /\ status' = [j \in Jobs |-> "absent"]
      /\ finalization' = [j \in Jobs |-> NotFinalized]
      /\ conflicts' = [j \in Jobs |-> 0]
      /\ phase' \in Reported \cup {"round", "raised"} =>
           phase \in Reported \cup {"round", "raised"}
      /\ Distinct' <=> Distinct
  BY SameCall DEF DropStep, DropTables, QueueAndWorkersRest, GoesOn
<1>b. OneLiveEntry /\ TodoUntouched
  BY DEF DecidedOK
<1>c. \A j \in Jobs : ~Finalized(j)'
  BY <1>a DEF Finalized, NotFinalized
<1>1. TablesOK'
  <2>1. NotFinalized \in Finalization /\ "absent" \in Statuses
    BY DEF NotFinalized, Finalization, Statuses
  <2> QED
    BY <1>a, <1>c, <2>1 DEF TablesOK, TERMINAL_STATUSES
<1>2. RowsCovered'
  BY <1>a DEF RowsCovered
<1>3. OneLiveEntry'
  <2>1. \A i \in Entries : stream[i].job \in Jobs
    <3>1. \A i \in Entries : stream[i] \in QueueJobMessage
      BY DEF FileInv, EntriesHeld, Entries
    <3> QED
      BY <3>1 DEF QueueJobMessage
  <2> QED
    BY <1>a, <1>b, <1>c, <2>1 DEF OneLiveEntry, Entries, Live
<1>4. TodoUntouched'
  BY <1>a, <1>b, <1>c DEF TodoUntouched, Entries, JobAt
<1>5. BatchCovered'
  BY <1>a DEF BatchCovered
<1> QED
  BY <1>1, <1>2, <1>3, <1>4, <1>5 DEF DecidedOK

\* process_one raises: its entry is not looked at again.
LEMMA FailDecided ==
  ASSUME FileInv, DecidedOK, [Next]_vars, NEW w \in Workers, FailStep(w)
  PROVE  DecidedOK'
<1>a. /\ UNCHANGED <<status, finalization, conflicts, stream, delivered, todo,
                     command>>
      /\ wpc[w] # "idle" /\ Return(w)
      /\ phase \in {"round", "raised"} /\ phase' = "raised"
      /\ Distinct' <=> Distinct
  BY SameCall DEF FailStep, Abort, queueVars
<1>b. TablesOK /\ RowsCovered /\ OneLiveEntry /\ TodoUntouched /\ BatchCovered
  BY DEF DecidedOK
<1>c. \A i \in Entries : Live(i)' => Live(i)
  BY <1>a, LiveAfterMove DEF FileInv, Working
<1>1. TablesOK' /\ RowsCovered'
  BY <1>a, <1>b DEF TablesOK, RowsCovered, Finalized
<1>2. OneLiveEntry'
  BY <1>a, <1>b, <1>c DEF OneLiveEntry, Finalized, Entries
<1>3. TodoUntouched'
  BY <1>a, <1>b DEF TodoUntouched, Finalized, Entries, JobAt, Reported
<1>4. BatchCovered'
  BY <1>a, <1>b, SameCall DEF BatchCovered, BatchOf, ReliabilityJobs, Between
<1> QED
  BY <1>1, <1>2, <1>3, <1>4 DEF DecidedOK

\* The first job that is left to submit gets its message.
LEMMA SubmitDecided ==
  ASSUME FileInv, DecidedOK, [Next]_vars, SubmitStep
  PROVE  DecidedOK'
<1> SUFFICES ASSUME NEW j \in Jobs, j = JobAt(1), NEW n, n = Len(stream) + 1
             PROVE  DecidedOK'
  BY DEF SubmitStep
<1>a. /\ UNCHANGED <<status, finalization, conflicts, delivered, wpc, wentry, command>>
      /\ publish_job(j, 1) /\ EntriesHeld /\ 1 \in Nat
      /\ phase = "publish" /\ Between /\ ~Between' /\ phase # "raised"
      /\ todo # <<>> /\ todo' = Tail(todo)
      /\ phase' = IF Tail(todo) = <<>> THEN "round" ELSE "create"
      /\ Distinct' <=> Distinct
  BY SameCall, Published DEF SubmitStep, publish_job, Between, FileInv
<1>b. TablesOK /\ RowsCovered /\ OneLiveEntry /\ TodoUntouched /\ BatchCovered
  BY DEF DecidedOK
<1>c. /\ Entries' = Entries \cup {n} /\ n \notin Entries
      /\ \A i \in Entries : stream'[i] = stream[i]
      /\ stream'[n].job = j /\ n > delivered
  BY <1>a, Published DEF EntriesHeld, Entries
<1>d. /\ \A i \in Entries : Live(i)' <=> Live(i)
      /\ Live(n)'
  BY <1>a, <1>c DEF Live
<1>e. /\ todo \in Seq(Cases) \/ todo \in Seq(Jobs)
      /\ command # "full_stack" => todo \in Seq(Jobs)
  BY DEF FileInv, Batched
<1>f. /\ 1 \in DOMAIN todo /\ Head(todo) = todo[1]
      /\ \A m \in DOMAIN todo : m = 1 \/ (m - 1 \in DOMAIN Tail(todo)
                                          /\ Tail(todo)[m - 1] = todo[m])
      /\ \A m \in DOMAIN Tail(todo) :
           m + 1 \in DOMAIN todo /\ m + 1 # 1 /\ Tail(todo)[m] = todo[m + 1]
  <2>1. ASSUME NEW S, todo \in Seq(S)
        PROVE  <1>f!:
    BY <1>a, <2>1
  <2> QED
    BY <1>e, <2>1
<1>g. Distinct =>
        /\ \A i \in Entries : stream[i].job # j
        /\ ~Finalized(j)
  BY <1>b, <1>f DEF TodoUntouched
<1>1. TablesOK'
  BY <1>a, <1>b DEF TablesOK, Finalized
<1>2. RowsCovered'
  <2> SUFFICES ASSUME NEW k \in Jobs, status[k] # "absent", ~Finalized(k)
               PROVE  \E i \in Entries' : stream'[i].job = k /\ Live(i)'
    BY <1>a DEF RowsCovered, LiveEntry, Finalized
  <2>1. CASE k = j
    BY <1>c, <1>d, <2>1
  <2>2. CASE k # j
    <3>1. LiveEntry(k)
      BY <1>a, <1>b, <2>2 DEF RowsCovered
    <3> QED
      BY <1>c, <1>d, <3>1 DEF LiveEntry
  <2> QED
    BY <2>1, <2>2
<1>3. OneLiveEntry'
  <2> SUFFICES ASSUME Distinct
               PROVE  /\ \A i, k \in Entries' :
                           Live(i)' /\ Live(k)' /\ stream'[i].job = stream'[k].job
                             => i = k
                      /\ \A i \in Entries' : Live(i)' => ~Finalized(stream'[i].job)
                      /\ \A k \in Jobs : conflicts[k] = 0
    BY <1>a DEF OneLiveEntry, Finalized
  <2>1. \A i, k \in Entries' :
          Live(i)' /\ Live(k)' /\ stream'[i].job = stream'[k].job => i = k
    BY <1>b, <1>c, <1>d, <1>g DEF OneLiveEntry
  <2>2. \A i \in Entries' : Live(i)' => ~Finalized(stream'[i].job)
    BY <1>b, <1>c, <1>d, <1>g DEF OneLiveEntry
  <2> QED
    BY <1>b, <2>1, <2>2 DEF OneLiveEntry
<1>4. TodoUntouched'
  <2>1. \A m \in DOMAIN todo' : JobAt(m)' = JobAt(m + 1)
    BY <1>a, <1>f DEF JobAt
  <2>2. Distinct => \A m \in DOMAIN todo' : JobAt(m + 1) # j
    BY <1>a, <1>b, <1>f DEF TodoUntouched
  <2>3. ASSUME Distinct, NEW m \in DOMAIN todo'
        PROVE  /\ \A i \in Entries' : stream'[i].job # JobAt(m)'
               /\ JobAt(m)' \in Jobs => ~Finalized(JobAt(m + 1))
    BY <1>a, <1>b, <1>c, <1>f, <2>1, <2>2, <2>3 DEF TodoUntouched
  <2>4. ASSUME Distinct, NEW m \in DOMAIN todo', NEW k \in DOMAIN todo',
               JobAt(m)' = JobAt(k)'
        PROVE  m = k
    <3>1. m + 1 = k + 1
      BY <1>a, <1>b, <1>f, <2>1, <2>4 DEF TodoUntouched
    <3>2. m \in Int /\ k \in Int
      BY <1>a, <1>e, <2>4
    <3> QED
      BY <3>1, <3>2
  <2>5. phase' \in Reported \cup {"round"} => todo' = <<>>
    BY <1>a DEF Reported
  <2> QED
    BY <1>a, <2>1, <2>3, <2>4, <2>5 DEF TodoUntouched, Finalized
<1>5. BatchCovered'
  <2> SUFFICES ASSUME command # "full_stack", NEW k \in BatchOf(command),
                      status[k] = "absent"
               PROVE  \E m \in DOMAIN todo' : todo'[m] = k
    BY <1>a, SameCall DEF BatchCovered, BatchOf, ReliabilityJobs
  <2>1. PICK m \in DOMAIN todo : todo[m] = k
    BY <1>b DEF BatchCovered
  <2>2. m # 1
    BY <1>a, <1>b, <1>f, <2>1 DEF BatchCovered
  <2> QED
    BY <1>a, <1>f, <2>1, <2>2
<1> QED
  BY <1>1, <1>2, <1>3, <1>4, <1>5 DEF DecidedOK

\* While no worker has raised, every row is decided or has a message that will
\* decide it.
Covered ==
  phase = "round" =>
    \A k \in Jobs : status[k] # "absent" /\ ~Finalized(k) =>
      \E i \in Entries : stream[i].job = k /\ Live(i)

\* A worker decides its job, or leaves it to an entry that is to be looked at.
LEMMA WorkDecided ==
  ASSUME FileInv, DecidedOK, [Next]_vars, NEW w \in Workers, WorkStep(w)
  PROVE  DecidedOK'
<1>a. /\ todo' = todo /\ command' = command /\ phase' = phase
      /\ phase \in {"round", "raised"}
      /\ Distinct' <=> Distinct
      /\ ~Between /\ ~Between'
  BY SameCall DEF WorkStep, Between
<1>b. TablesOK /\ RowsCovered /\ OneLiveEntry /\ TodoUntouched /\ BatchCovered
  BY DEF DecidedOK
<1>c. EntriesHeld /\ todo = <<>>
  BY <1>a, <1>b DEF FileInv, TodoUntouched
<1>d. /\ stream \in Seq(QueueJobMessage)
      /\ \A i \in Entries : stream[i].job \in Jobs
  <2>1. \A i \in Entries : stream[i] \in QueueJobMessage
    BY <1>c DEF EntriesHeld, Entries
  <2> QED
    BY <1>c, <2>1 DEF QueueJobMessage, EntriesHeld
\* What has to be shown, with nothing left to submit
<1>0. ASSUME TablesOK',
             \A k \in Jobs : status'[k] = "absent" => status[k] = "absent",
             Covered',
             Distinct =>
               /\ \A i, k \in Entries' :
                    Live(i)' /\ Live(k)' /\ stream'[i].job = stream'[k].job => i = k
               /\ \A i \in Entries' : Live(i)' => ~Finalized(stream[i].job)'
               /\ \A k \in Jobs : conflicts'[k] = 0
      PROVE  DecidedOK'
  <2>1. RowsCovered'
    BY <1>0, <1>a DEF RowsCovered, LiveEntry, Covered
  <2>2. OneLiveEntry'
    BY <1>a, <1>0 DEF OneLiveEntry, Finalized
  <2>3. TodoUntouched'
    BY <1>a, <1>c DEF TodoUntouched
  <2>4. BatchCovered'
    <3>1. command # "full_stack" => BatchOf(command) \subseteq Jobs
      BY SmokeAssumption, CallOfBatch DEF FileInv, Batched, Commands, BatchOf
    <3> QED
      BY <1>0, <1>a, <1>b, <1>c, <3>1, SameCall DEF BatchCovered, BatchOf, ReliabilityJobs
  <2> QED
    BY <1>0, <2>1, <2>2, <2>3, <2>4 DEF DecidedOK
<1>e. Covered
  BY <1>a, <1>b DEF RowsCovered, LiveEntry, Covered
<1>1. CASE /\ Lease(w) /\ KeepsLive
           /\ UNCHANGED <<stream, status, finalization, conflicts, events>>
  <2>1. TablesOK'
    BY <1>b, <1>1 DEF TablesOK, Finalized
  <2> QED
    BY <1>0, <1>1, <1>a, <1>b, <1>e, <2>1 DEF Covered, Finalized, Entries, KeepsLive, OneLiveEntry
<1> SUFFICES ASSUME wpc[w] # "idle", NEW e, e = wentry[w], NEW j, j = JobOf(w),
                    LooksAt(e, j) \/ PassesOver(e, j) \/ Settles(e, j)
                      \/ HandsOn(w, e, j)
             PROVE  DecidedOK'
  BY <1>1, <1>c, WorkerDecides DEF WorkStep
<1>f. e \in Entries /\ j \in Jobs /\ stream[e].job = j
  BY <1>c, HeldMessage DEF JobOf
<1>g. /\ status \in [Jobs -> Statuses] /\ finalization \in [Jobs -> Finalization]
      /\ conflicts \in [Jobs -> Nat]
      /\ {"running", "queued"} \cup TERMINAL_STATUSES \subseteq Statuses
      /\ "running" \notin TERMINAL_STATUSES /\ "queued" \notin TERMINAL_STATUSES
      /\ "absent" \notin TERMINAL_STATUSES /\ "none" \notin TERMINAL_STATUSES
  BY <1>b DEF TablesOK, Statuses, TERMINAL_STATUSES
<1>2. CASE LooksAt(e, j)
  <2>a. UNCHANGED <<stream, finalization, conflicts>> /\ KeepsLive
    BY <1>2 DEF LooksAt
  <2>1. ASSUME NEW st \in {"running", "queued"}, ~Finalized(j), Live(e),
               status' = [status EXCEPT ![j] = st]
        PROVE  DecidedOK'
    <3>1. TablesOK'
      BY <1>b, <1>f, <1>g, <2>a, <2>1 DEF TablesOK, Finalized
    <3>2. \A k \in Jobs : status'[k] = IF k = j THEN st ELSE status[k]
      BY <1>g, <2>1
    <3>3. Covered'
      BY <1>a, <1>e, <1>f, <2>1, <2>a, <3>2 DEF Covered, Finalized, Entries, KeepsLive
    <3>4. Distinct =>
               /\ \A i, k \in Entries' :
                    Live(i)' /\ Live(k)' /\ stream'[i].job = stream'[k].job => i = k
               /\ \A i \in Entries' : Live(i)' => ~Finalized(stream[i].job)'
               /\ \A k \in Jobs : conflicts'[k] = 0
      BY <1>b, <2>a DEF Finalized, Entries, KeepsLive, OneLiveEntry
    <3> QED
      BY <1>0, <2>1, <3>1, <3>2, <3>3, <3>4
  <2>2. CASE status' = status
    <3>1. TablesOK'
      BY <1>b, <2>a, <2>2 DEF TablesOK, Finalized
    <3> QED
      BY <1>0, <1>a, <1>b, <1>e, <2>a, <2>2, <3>1
      DEF Covered, Finalized, Entries, KeepsLive, OneLiveEntry
  <2>3. CASE /\ status[j] \notin TERMINAL_STATUSES \cup {"absent"}
             /\ status' = [status EXCEPT ![j] = "running"]
    <3>1. ~Finalized(j)
      BY <1>b, <1>f, <2>3 DEF TablesOK
    <3>2. TablesOK'
      BY <1>b, <1>f, <1>g, <2>a, <2>3, <3>1 DEF TablesOK, Finalized
    <3>3. \A k \in Jobs : status'[k] # "absent" => status[k] # "absent"
      BY <1>g, <2>3
    <3>4. \A k \in Jobs : status'[k] = "absent" => status[k] = "absent"
      BY <1>g, <2>3
    <3> QED
      BY <1>0, <1>a, <1>b, <1>e, <2>a, <3>2, <3>3, <3>4
      DEF Covered, Finalized, Entries, KeepsLive, OneLiveEntry
  <2>4. CASE /\ Live(e) /\ "transient" \in RunnerOutcomes(j)
             /\ status' = [status EXCEPT ![j] = "queued"]
    <3>1. command # "full_stack"
      <4> SUFFICES ASSUME command = "full_stack"
                   PROVE  FALSE
        OBVIOUS
      <4>1. j \in CaseIds
        BY <1>f DEF FileInv, Batched
      <4>2. JobSpec[j].job_type = "gdev_webhook_eval"
        BY <4>1, CallsAssumption DEF CaseSubmission
      <4> QED
        BY <2>4, <4>2 DEF RunnerOutcomes
    <3>2. ~Finalized(j)
      BY <1>b, <1>f, <2>4, <3>1 DEF OneLiveEntry, Distinct
    <3> QED
      BY <2>1, <2>4, <3>2
  <2> QED
    BY <1>2, <2>2, <2>3, <2>4 DEF LooksAt
<1>3. CASE PassesOver(e, j)
  <2>a. /\ UNCHANGED <<stream, status, finalization, conflicts>> /\ EndsLive(e)
        /\ status[j] \in TERMINAL_STATUSES \cup {"absent"}
    BY <1>3 DEF PassesOver
  <2>1. TablesOK'
    BY <1>b, <2>a DEF TablesOK, Finalized
  <2>2. status[j] # "absent" => Finalized(j)
    BY <1>b, <1>f, <2>a DEF TablesOK
  <2>3. Covered'
    BY <1>a, <1>e, <1>f, <2>a, <2>2 DEF Covered, Finalized, Entries, EndsLive
  <2> QED
    BY <1>0, <1>b, <2>a, <2>1, <2>3 DEF Finalized, Entries, EndsLive, OneLiveEntry
<1>4. CASE Settles(e, j)
  <2>a. stream' = stream /\ Live(e) /\ EndsLive(e) /\ Entries' = Entries
    BY <1>4 DEF Settles, Entries
  <2>1. \/ /\ Finalized(j) /\ UNCHANGED <<status, finalization>>
           /\ conflicts' = [conflicts EXCEPT ![j] = @ + 1]
        \/ /\ ~Finalized(j) /\ conflicts' = conflicts
           /\ \E st \in TERMINAL_STATUSES, type \in TerminalEventTypes :
                /\ status' = [status EXCEPT ![j] = st]
                /\ finalization' = [finalization EXCEPT
                                      ![j] = [status |-> st, event_type |-> type]]
    BY <1>4 DEF Settles, finalize_job
  <2>2. /\ TablesOK'
        /\ Finalized(j)'
        /\ \A k \in Jobs \ {j} : status'[k] = status[k] /\ (Finalized(k)' <=> Finalized(k))
        /\ status'[j] = "absent" => status[j] = "absent"
    <3>1. CASE Finalized(j)
      BY <1>b, <1>f, <1>g, <2>1, <3>1 DEF TablesOK, Finalized
    <3>2. CASE ~Finalized(j)
      <4>1. PICK st \in TERMINAL_STATUSES, type \in TerminalEventTypes :
              /\ conflicts' = conflicts
              /\ status' = [status EXCEPT ![j] = st]
              /\ finalization' = [finalization EXCEPT
                                    ![j] = [status |-> st, event_type |-> type]]
        BY <2>1, <3>2
      <4> DEFINE row == [status |-> st, event_type |-> type]
      <4>2. row \in Finalization /\ row.status = st
        BY DEF Finalization
      <4>3. finalization' = [finalization EXCEPT ![j] = row]
        BY <4>1
      <4> HIDE DEF row
      <4>4. /\ finalization' \in [Jobs -> Finalization]
            /\ status' \in [Jobs -> Statuses]
            /\ finalization'[j].status = st /\ status'[j] = st
            /\ \A k \in Jobs \ {j} :
                 finalization'[k] = finalization[k] /\ status'[k] = status[k]
        BY <1>f, <1>g, <4>1, <4>2, <4>3
      <4> QED
        BY <1>b, <1>f, <1>g, <4>1, <4>4 DEF TablesOK, Finalized
    <3> QED
      BY <3>1, <3>2
  <2>3. Covered'
    BY <1>a, <1>e, <1>f, <2>a, <2>2 DEF Covered, EndsLive
  <2>4. ASSUME Distinct
        PROVE  /\ \A i, k \in Entries' :
                    Live(i)' /\ Live(k)' /\ stream'[i].job = stream'[k].job => i = k
               /\ \A i \in Entries' : Live(i)' => ~Finalized(stream[i].job)'
               /\ \A k \in Jobs : conflicts'[k] = 0
    <3>1. ~Finalized(j) /\ conflicts' = conflicts
      BY <1>b, <1>f, <2>1, <2>4, <2>a DEF OneLiveEntry
    <3>2. \A i \in Entries : Live(i)' => Live(i) /\ stream[i].job \in Jobs \ {j}
      BY <1>b, <1>d, <1>f, <2>4, <2>a DEF EndsLive, OneLiveEntry
    <3>3. \A k \in Jobs \ {j} : ~Finalized(k) => ~Finalized(k)'
      BY <2>2
    <3>4. \A i \in Entries' : Live(i)' => ~Finalized(stream[i].job)'
      BY <1>b, <2>4, <2>a, <3>2, <3>3 DEF OneLiveEntry, Finalized
    <3> QED
      BY <1>b, <2>4, <2>a, <3>1, <3>2, <3>4 DEF OneLiveEntry
  <2> QED
    BY <1>0, <2>2, <2>3, <2>4
<1>5. CASE HandsOn(w, e, j)
  <2> SUFFICES ASSUME NEW n, n = Len(stream) + 1
               PROVE  DecidedOK'
    OBVIOUS
  <2>a. /\ UNCHANGED <<status, finalization, conflicts>> /\ Live(e) /\ EndsLive(e)
        /\ \E a \in Nat : publish_job(j, a)
    BY <1>5 DEF HandsOn
  <2>b. /\ Entries' = Entries \cup {n} /\ n \notin Entries
        /\ \A i \in Entries : stream'[i] = stream[i]
        /\ stream'[n].job = j /\ n > delivered /\ delivered' = delivered
    BY <1>c, <1>f, <2>a, Published DEF EntriesHeld, Entries
  <2>c. Live(n)'
    BY <2>b DEF Live
  <2>1. TablesOK'
    BY <1>b, <2>a DEF TablesOK, Finalized
  <2>2. Covered'
    BY <1>a, <1>e, <1>f, <2>a, <2>b, <2>c DEF Covered, Finalized, EndsLive
  <2>3. ASSUME Distinct
        PROVE  /\ \A i, k \in Entries' :
                    Live(i)' /\ Live(k)' /\ stream'[i].job = stream'[k].job => i = k
               /\ \A i \in Entries' : Live(i)' => ~Finalized(stream[i].job)'
               /\ \A k \in Jobs : conflicts'[k] = 0
    <3>1. ~Finalized(j)
      BY <1>b, <1>f, <2>3, <2>a DEF OneLiveEntry
    <3>2. \A i \in Entries : Live(i)' => Live(i) /\ stream[i].job # j
      BY <1>b, <1>f, <2>3, <2>a DEF EndsLive, OneLiveEntry
    <3>3. \A i, k \in Entries' :
            Live(i)' /\ Live(k)' /\ stream'[i].job = stream'[k].job => i = k
      BY <1>b, <2>3, <2>b, <3>2 DEF OneLiveEntry
    <3>4. \A i \in Entries' : Live(i)' => ~Finalized(stream[i].job)'
      BY <1>b, <2>3, <2>a, <2>b, <3>1, <3>2 DEF OneLiveEntry, Finalized
    <3> QED
      BY <1>b, <2>3, <2>a, <3>3, <3>4 DEF OneLiveEntry
  <2> QED
    BY <1>0, <2>1, <2>2, <2>3, <2>a
<1> QED
  BY <1>2, <1>3, <1>4, <1>5

\* Every step of a command keeps what the report relies on.
LEMMA NextDrain ==
  ASSUME DrainInv, [Next]_vars
  PROVE  DrainInv'
<1>1. FileInv /\ DecidedOK /\ RoundsOK
  BY DEF DrainInv, DecidedOK
<1>2. FileInv' /\ RoundsOK'
  BY <1>1, NextFiles, NextRounds
<1>3. DecidedOK'
  BY <1>1, StepShapes, QuietDecided, CreateDecided, DropDecided, SubmitDecided,
     WorkDecided, FailDecided
<1> QED
  BY <1>2, <1>3 DEF DrainInv, DecidedOK

\* A batch is submitted in one of its orders: no job comes twice, none is left out.
LEMMA OrderedBatch ==
  ASSUME NEW S, IsFiniteSet(S), NEW s \in Orderings(S)
  PROVE  /\ \A m, n \in DOMAIN s : s[m] = s[n] => m = n
         /\ \A j \in S : \E n \in DOMAIN s : s[n] = j
<1> DEFINE D == 1 .. Cardinality(S)
<1>1. /\ s \in [D -> S]
      /\ \A m, n \in DOMAIN s : s[m] = s[n] => m = n
  BY DEF Orderings
<1>2. IsFiniteSet(D) /\ Cardinality(D) = Cardinality(S)
  <2>1. Cardinality(S) \in Nat
    BY FS_CardinalityType
  <2> QED
    BY <2>1, FS_Interval
<1> HIDE DEF D
<1>3. s \in Injection(D, S)
  BY <1>1 DEF Injection, IsInjective
<1>4. s \in Surjection(D, S)
  BY <1>2, <1>3, FS_Injection
<1> QED
  BY <1>1, <1>4 DEF Surjection

LEMMA InitDrain == Init => DrainInv
<1> SUFFICES ASSUME Init PROVE DrainInv
  OBVIOUS
<1>a. /\ FullStackInit /\ StoreInit /\ QueueInit /\ WorkerInit /\ plan \in Plans
      /\ processed = [w \in Workers |-> "pending"]
      /\ \/ /\ command = "smoke" /\ phase = "create"
            /\ todo \in Orderings(SmokeJobs)
         \/ /\ command = "reliability" /\ phase = "create"
            /\ todo \in Orderings(ReliabilityJobs)
         \/ command = "full_stack" /\ phase = "start" /\ todo = setup.dataset
  BY DEF Init, DriverInit, BatchOrders
<1>b. /\ stream = <<>> /\ delivered = 0 /\ pel = {} /\ Entries = {}
      /\ wpc = [w \in Workers |-> "idle"]
  BY <1>a DEF QueueInit, WorkerInit, Entries
<1>c. /\ status = [j \in Jobs |-> "absent"]
      /\ finalization = [j \in Jobs |-> NotFinalized]
      /\ conflicts = [j \in Jobs |-> 0]
      /\ \A j \in Jobs : ~Finalized(j)
  BY <1>a DEF StoreInit, Finalized, NotFinalized
<1>1. TablesOK
  <2>1. NotFinalized \in Finalization /\ "absent" \in Statuses
    BY DEF NotFinalized, Finalization, Statuses
  <2> QED
    BY <1>c, <2>1 DEF TablesOK, TERMINAL_STATUSES
<1>2. RoundsOK
  BY <1>a, <1>b DEF RoundsOK, Reported
<1>3. RowsCovered /\ OneLiveEntry
  BY <1>b, <1>c DEF RowsCovered, OneLiveEntry
<1>4. command = "full_stack" =>
        (Distinct => \A m, n \in DOMAIN todo : todo[m].id = todo[n].id => m = n)
  BY <1>a DEF Distinct, RepeatedId
<1>5. command # "full_stack" =>
        /\ \A m, n \in DOMAIN todo : todo[m] = todo[n] => m = n
        /\ \A j \in BatchOf(command) : \E n \in DOMAIN todo : todo[n] = j
  BY <1>a, OrderedBatch, SmokeAssumption, CallOfBatch DEF BatchOf
<1>6. TodoUntouched
  BY <1>a, <1>b, <1>c, <1>4, <1>5 DEF TodoUntouched, Reported, JobAt
<1>7. BatchCovered
  BY <1>a, <1>5 DEF BatchCovered, Between
<1> QED
  BY <1>1, <1>2, <1>3, <1>6, <1>7, InitFiles DEF DrainInv

\* The invariant behind the theorem about reports.
THEOREM DrainInvariance == Spec => []DrainInv
<1>1. DrainInv /\ [Next]_vars => DrainInv'
  BY NextDrain
<1> QED
  BY <1>1, InitDrain, PTL DEF Spec

\* Whatever retries workers publish while others find the queue empty, a command
\* builds its report over a drained queue, idle workers and decided jobs.
THEOREM ReportsAreDrained == Spec => []DrainedAtReport
<1>1. DrainInv => DrainedAtReport
  <2> SUFFICES ASSUME DrainInv, phase \in {"report", "validate", "certified"}
               PROVE  /\ delivered = Len(stream) /\ pel = {}
                      /\ \A w \in Workers : wpc[w] = "idle"
                      /\ \A j \in Jobs :
                           /\ j \in BatchOf(command) \/ status[j] # "absent"
                                => Finalized(j)
                           /\ conflicts[j] = 0
                                \/ (command = "full_stack" /\ RepeatedId)
    BY DEF DrainedAtReport
  <2>a. /\ phase \in Reported /\ phase \notin {"round", "raised"} /\ ~Between
        /\ command \in Commands /\ stream \in Seq(QueueJobMessage)
    BY DEF Reported, Between, DrainInv, FileInv, Batched, EntriesHeld
  <2>1. /\ delivered = Len(stream) /\ pel = {} /\ todo = <<>>
        /\ \A w \in Workers : wpc[w] = "idle"
    BY <2>a DEF DrainInv, RoundsOK, TodoUntouched
  <2>2. \A i \in Entries : ~Live(i)
    BY <2>a, <2>1 DEF Live, Entries, Working
  <2>3. ASSUME NEW j \in Jobs, status[j] # "absent"
        PROVE  Finalized(j)
    BY <2>a, <2>2, <2>3 DEF DrainInv, RowsCovered, LiveEntry
  <2>4. ASSUME NEW j \in BatchOf(command)
        PROVE  status[j] # "absent"
    <3>1. command # "full_stack"
      BY <2>4 DEF BatchOf
    <3> QED
      BY <2>1, <2>4, <3>1 DEF DrainInv, BatchCovered
  <2>5. ASSUME NEW j \in Jobs
        PROVE  conflicts[j] = 0 \/ (command = "full_stack" /\ RepeatedId)
    BY <2>5 DEF DrainInv, OneLiveEntry, Distinct
  <2> QED
    BY <2>1, <2>3, <2>4, <2>5
<1> QED
  BY <1>1, DrainInvariance, PTL

-----------------------------------------------------------------------------
(* What a certificate of a full-stack proof rests on *)

\* j is the id of a case of the dataset.
OfDataset(j) ==
  j \in CaseIds /\ \E n \in DOMAIN setup.dataset : setup.dataset[n].id = j

\* Rows and messages are those of cases.
CasesOnly ==
  command = "full_stack" =>
    /\ \A n \in DOMAIN todo : \E m \in DOMAIN setup.dataset :
         setup.dataset[m] = todo[n]
    /\ \A i \in Entries : OfDataset(stream[i].job)
    /\ \A j \in Jobs : status[j] # "absent" => OfDataset(j)

\* A job that is completed has an event that says so.
CompletedLogged ==
  /\ events \in [Jobs -> Seq(Event)]
  /\ \A j \in Jobs : status[j] = "completed" =>
       \E n \in DOMAIN events[j] : events[j][n].type = "completed"

\* Artifacts are those of first attempts that were answered.
ArtifactsKnown ==
  command = "full_stack" =>
    \A f \in artifacts :
      /\ f.attempt = 1
      /\ f.by \in Entries /\ f.by \in DOMAIN verdicts
      /\ stream[f.by].job = f.job

\* Unless a case comes twice, it has one message.
OneEntryPerCase ==
  command = "full_stack" /\ ~RepeatedId =>
    \A i, k \in Entries : stream[i].job = stream[k].job => i = k

\* Execution i is the only one of the case, and left its artifact.
ExecutedOnce(id, i) ==
  /\ i \in DOMAIN verdicts
  /\ Executed(id, i)
  /\ \A k \in DOMAIN verdicts \ {RivalExecution} : stream[k].job = id => k = i

AllExecuted ==
  /\ ~RepeatedId
  /\ \A n \in DOMAIN setup.dataset :
       /\ setup.dataset[n].id # NoId
       /\ \E i \in DOMAIN verdicts : ExecutedOnce(setup.dataset[n].id, i)

\* CertifiedIsSound, and what a report says that will be accepted
ReportSound ==
  command = "full_stack"
    /\ ((phase = "validate" /\ FullStackReportValid) \/ phase = "certified") =>
      AllExecuted

CertInv ==
  /\ DrainInv
  /\ CasesOnly /\ CompletedLogged /\ ArtifactsKnown /\ OneEntryPerCase
  /\ ReportSound

-----------------------------------------------------------------------------
(* Rows and events *)

\* Row j may get a new status; if that is "completed", an event says so.
WritesRow(j) ==
  /\ Logs(j)
  /\ \/ status' = status
     \/ \E st \in Statuses :
          /\ status' = [status EXCEPT ![j] = st]
          /\ st = "completed" =>
               \E a, b \in Nat : AppendEvent(j, "completed", a, b)

\* A step writes the row of one case or job, drops them all, or none.
LEMMA RowSteps ==
  ASSUME DrainInv, CasesOnly, [Next]_vars
  PROVE  \/ UNCHANGED <<status, events>>
         \/ DropTables
         \/ \E j \in Jobs : WritesRow(j) /\ (command = "full_stack" => OfDataset(j))
<1>a. FileInv /\ EntriesHeld /\ Batched
  BY DEF DrainInv, FileInv
<1>1. CASE QuietStep \/ SubmitStep
  BY <1>1 DEF QuietStep, SubmitStep
<1>2. CASE DropStep
  BY <1>2 DEF DropStep
<1>3. CASE CreateStep
  <2> SUFFICES ASSUME NEW j \in Jobs, j = JobAt(1)
               PROVE  WritesRow(j) /\ (command = "full_stack" => OfDataset(j))
    BY <1>3 DEF CreateStep
  <2>1. /\ status' = [status EXCEPT ![j] = "submitted"]
        /\ AppendEvent(j, "submitted", 0, 0)
        /\ "submitted" \in Statuses /\ "submitted" \in EventTypes
    BY <1>3 DEF CreateStep, create_job, Statuses, EventTypes
  <2>2. WritesRow(j)
    BY <2>1 DEF WritesRow, Logs
  <2>3. command = "full_stack" => OfDataset(j)
    <3> SUFFICES ASSUME command = "full_stack"
                 PROVE  OfDataset(j)
      OBVIOUS
    <3>1. j \in CaseIds /\ todo # <<>> /\ todo \in Seq(Cases) /\ j = todo[1].id
      BY <1>a, <1>3 DEF CreateStep, Batched, JobAt
    <3>2. 1 \in DOMAIN todo
      BY <3>1
    <3> QED
      BY <3>1, <3>2 DEF CasesOnly, OfDataset
  <2> QED
    BY <2>2, <2>3
<1>4. ASSUME NEW w \in Workers, WorkStep(w)
      PROVE  \/ UNCHANGED <<status, events>>
             \/ \E j \in Jobs :
                  WritesRow(j) /\ (command = "full_stack" => OfDataset(j))
  <2> SUFFICES ASSUME wpc[w] # "idle", NEW e, e = wentry[w], NEW j, j = JobOf(w),
                      LooksAt(e, j) \/ PassesOver(e, j) \/ Settles(e, j)
                        \/ HandsOn(w, e, j)
               PROVE  \/ UNCHANGED <<status, events>>
                      \/ WritesRow(j) /\ j \in Jobs
                           /\ (command = "full_stack" => OfDataset(j))
    BY <1>4, <1>a, WorkerDecides DEF WorkStep
  <2>1. e \in Entries /\ j \in Jobs /\ stream[e].job = j
    BY <1>a, HeldMessage DEF JobOf
  <2>2. command = "full_stack" => OfDataset(j)
    BY <2>1 DEF CasesOnly
  <2>3. /\ {"running", "queued"} \cup TERMINAL_STATUSES \subseteq Statuses
        /\ "completed" \notin {"running", "queued"}
        /\ TerminalEventTypes \subseteq EventTypes
    BY DEF Statuses, EventTypes
  <2>4. CASE LooksAt(e, j)
    <3>1. /\ Logs(j)
          /\ \/ status' = status
             \/ \E st \in {"running", "queued"} : status' = [status EXCEPT ![j] = st]
      BY <2>4 DEF LooksAt
    <3> QED
      BY <2>1, <2>2, <2>3, <3>1 DEF WritesRow
  <2>5. CASE PassesOver(e, j) \/ HandsOn(w, e, j)
    BY <2>5 DEF PassesOver, HandsOn
  <2>6. CASE Settles(e, j)
    <3>1. PICK st \in TERMINAL_STATUSES, type \in TerminalEventTypes, a \in Nat, b \in Nat :
            finalize_job(j, st, type, a, b) /\ (st = "completed" => type = "completed")
      BY <2>6 DEF Settles
    <3>2. CASE Finalized(j)
      BY <3>1, <3>2 DEF finalize_job
    <3>3. CASE ~Finalized(j)
      <4>1. /\ status' = [status EXCEPT ![j] = st]
            /\ AppendEvent(j, type, a, b)
        BY <3>1, <3>3 DEF finalize_job
      <4>2. Logs(j)
        BY <2>3, <4>1 DEF Logs
      <4> QED
        BY <2>1, <2>2, <2>3, <3>1, <4>1, <4>2 DEF WritesRow
    <3> QED
      BY <3>2, <3>3
  <2> QED
    BY <2>4, <2>5, <2>6
<1>5. ASSUME NEW w \in Workers, FailStep(w)
      PROVE  UNCHANGED <<status, events>>
  BY <1>5 DEF FailStep, Abort
<1> QED
  BY <1>1, <1>2, <1>3, <1>4, <1>5, <1>a, StepShapes

\* The messages of a full-stack proof are those it submits.
LEMMA EntrySteps ==
  ASSUME FileInv, command = "full_stack", [Next]_vars
  PROVE  stream' = stream \/ SubmitStep
<1>1. ASSUME NEW w \in Workers, WorkStep(w)
      PROVE  stream' = stream
  <2>1. wpc[w] # "publish" /\ EntriesHeld
    BY DEF FileInv, Batched
  <2> QED
    BY <1>1, <2>1, WorkerDecides DEF WorkStep, LooksAt, PassesOver, Settles, HandsOn
<1>2. ASSUME NEW w \in Workers, FailStep(w)
      PROVE  stream' = stream
  BY <1>2 DEF FailStep, Abort, queueVars
<1> QED
  BY <1>1, <1>2, StepShapes
  DEF QuietStep, CreateStep, DropStep, QueueAndWorkersRest

LEMMA NextCases ==
  ASSUME DrainInv, CasesOnly, [Next]_vars
  PROVE  CasesOnly'
<1> SUFFICES ASSUME command = "full_stack"
             PROVE  CasesOnly'
  BY SameCall DEF DrainInv, CasesOnly
<1>a. /\ FileInv /\ EntriesHeld /\ Batched /\ FilesOfFullStack
      /\ setup' = setup /\ command' = command
      /\ \A j : OfDataset(j)' <=> OfDataset(j)
  BY SameCall DEF DrainInv, FileInv, FilesOK, OfDataset
<1>b. /\ \A n \in DOMAIN todo : \E m \in DOMAIN setup.dataset :
           setup.dataset[m] = todo[n]
      /\ \A i \in Entries : OfDataset(stream[i].job)
      /\ \A j \in Jobs : status[j] # "absent" => OfDataset(j)
  BY DEF CasesOnly
<1>1. \A n \in DOMAIN todo' : \E m \in DOMAIN setup.dataset :
        setup.dataset[m] = todo'[n]
  <2>1. CASE todo' = todo
    BY <1>b, <2>1
  <2>2. CASE phase = "publish" /\ todo' = Tail(todo)
    <3>1. todo \in Seq(Cases) /\ todo # <<>>
      BY <1>a, <2>2 DEF Batched
    <3>2. \A n \in DOMAIN Tail(todo) :
            n + 1 \in DOMAIN todo /\ Tail(todo)[n] = todo[n + 1]
      BY <3>1
    <3> QED
      BY <1>b, <2>2, <3>2
  <2> QED
    BY <1>a, <2>1, <2>2, TodoSteps
<1>2. \A i \in Entries' : OfDataset(stream'[i].job)
  <2>1. CASE stream' = stream
    BY <1>b, <2>1 DEF Entries
  <2>2. CASE SubmitStep
    <3> SUFFICES ASSUME NEW j, j = JobAt(1)
                 PROVE  \A i \in Entries' : OfDataset(stream'[i].job)
      OBVIOUS
    <3>1. /\ j \in Jobs /\ publish_job(j, 1) /\ 1 \in Nat
          /\ todo \in Seq(Cases) /\ todo # <<>> /\ j = todo[1].id /\ j \in CaseIds
      BY <1>a, <2>2 DEF SubmitStep, Batched, JobAt
    <3>2. 1 \in DOMAIN todo
      BY <3>1
    <3>3. OfDataset(j)
      BY <1>b, <3>1, <3>2 DEF OfDataset
    <3>4. /\ Entries' = Entries \cup {Len(stream) + 1}
          /\ \A i \in Entries : stream'[i] = stream[i]
          /\ stream'[Len(stream) + 1].job = j
      BY <1>a, <3>1, Published
    <3> QED
      BY <1>b, <3>3, <3>4
  <2> QED
    BY <1>a, <2>1, <2>2, EntrySteps
<1>3. \A j \in Jobs : status'[j] # "absent" => OfDataset(j)
  <2>1. CASE status' = status \/ DropTables
    BY <1>b, <2>1 DEF DropTables
  <2>2. ASSUME NEW j \in Jobs, WritesRow(j), OfDataset(j)
        PROVE  \A k \in Jobs : status'[k] # "absent" => OfDataset(k)
    <3>1. status \in [Jobs -> Statuses]
      BY DEF DrainInv, TablesOK
    <3>2. \A k \in Jobs \ {j} : status'[k] = status[k]
      BY <2>2, <3>1 DEF WritesRow
    <3> QED
      BY <1>b, <2>2, <3>2
  <2> QED
    BY <2>1, <2>2, RowSteps
<1> QED
  BY <1>a, <1>1, <1>2, <1>3 DEF CasesOnly

\* An INSERT into job_events leaves the events that are there.
LEMMA Appended ==
  ASSUME events \in [Jobs -> Seq(Event)], NEW j \in Jobs, NEW type \in EventTypes,
         NEW a \in Nat, NEW b \in Nat, AppendEvent(j, type, a, b)
  PROVE  /\ events' \in [Jobs -> Seq(Event)]
         /\ \A k \in Jobs : \A n \in DOMAIN events[k] :
              n \in DOMAIN events'[k] /\ events'[k][n] = events[k][n]
         /\ \E n \in DOMAIN events'[j] : events'[j][n].type = type
<1> DEFINE ev == [type |-> type, attempt |-> a, by |-> b]
<1>1. ev \in Event /\ ev.type = type
  BY DEF Event
<1>2. events' = [events EXCEPT ![j] = Append(@, ev)]
  BY DEF AppendEvent
<1> HIDE DEF ev
<1>3. /\ events' \in [Jobs -> Seq(Event)]
      /\ events'[j] = Append(events[j], ev) /\ events[j] \in Seq(Event)
      /\ \A k \in Jobs \ {j} : events'[k] = events[k]
  BY <1>1, <1>2
<1>4. /\ \A n \in DOMAIN events[j] :
           n \in DOMAIN events'[j] /\ events'[j][n] = events[j][n]
      /\ Len(events[j]) + 1 \in DOMAIN events'[j]
      /\ events'[j][Len(events[j]) + 1] = ev
  BY <1>1, <1>3
<1> QED
  BY <1>1, <1>3, <1>4

LEMMA NextLogged ==
  ASSUME DrainInv, CasesOnly, CompletedLogged, [Next]_vars
  PROVE  CompletedLogged'
<1>a. /\ events \in [Jobs -> Seq(Event)] /\ status \in [Jobs -> Statuses]
      /\ \A j \in Jobs : status[j] = "completed" =>
           \E n \in DOMAIN events[j] : events[j][n].type = "completed"
  BY DEF DrainInv, TablesOK, CompletedLogged
<1>1. CASE UNCHANGED <<status, events>>
  BY <1>1 DEF CompletedLogged
<1>2. CASE DropTables
  BY <1>2 DEF DropTables, CompletedLogged
<1>3. ASSUME NEW j \in Jobs, WritesRow(j)
      PROVE  CompletedLogged'
  <2>1. /\ events' \in [Jobs -> Seq(Event)]
        /\ \A k \in Jobs : \A n \in DOMAIN events[k] :
             n \in DOMAIN events'[k] /\ events'[k][n] = events[k][n]
    BY <1>a, <1>3, Appended DEF WritesRow, Logs
  <2>2. \A k \in Jobs : status'[k] = "completed" /\ status[k] # "completed" =>
          k = j /\ \E a, b \in Nat : AppendEvent(j, "completed", a, b)
    BY <1>a, <1>3 DEF WritesRow
  <2>3. "completed" \in EventTypes
    BY DEF EventTypes, TerminalEventTypes, TERMINAL_STATUSES
  <2> SUFFICES ASSUME NEW k \in Jobs, status'[k] = "completed"
               PROVE  \E n \in DOMAIN events'[k] : events'[k][n].type = "completed"
    BY <2>1 DEF CompletedLogged
  <2>4. CASE status[k] = "completed"
    BY <1>a, <2>1, <2>4
  <2>5. CASE status[k] # "completed"
    <3>1. PICK a \in Nat, b \in Nat : AppendEvent(j, "completed", a, b)
      BY <2>2, <2>5
    <3> QED
      BY <1>a, <2>2, <2>3, <2>5, <3>1, Appended
  <2> QED
    BY <2>4, <2>5
<1> QED
  BY <1>1, <1>2, <1>3, RowSteps

-----------------------------------------------------------------------------
(* Executions and their artifacts *)

\* Executions of this command are those of the entries it was handed.
LEMMA ExecutionsAreEntries ==
  ASSUME FileInv
  PROVE  DOMAIN verdicts \ {RivalExecution} \subseteq Entries
  BY DEF FileInv, FilesOK, FilesTypeOK, EntriesHeld, Entries, RivalExecution

LEMMA NextArtifacts ==
  ASSUME FileInv, ArtifactsKnown, [Next]_vars
  PROVE  ArtifactsKnown'
<1> SUFFICES ASSUME command = "full_stack"
             PROVE  ArtifactsKnown'
  BY StepKinds DEF FileInv, FilesOK, ArtifactsKnown
<1>a. /\ EntriesHeld /\ Batched /\ FilesTypeOK /\ WritesVerdict
      /\ \A f \in artifacts :
           /\ f.attempt = 1
           /\ f.by \in Entries /\ f.by \in DOMAIN verdicts
           /\ stream[f.by].job = f.job
  BY DEF FileInv, FilesOK, ArtifactsKnown
\* Artifacts that stay are still known.
<1>0. ASSUME Entries \subseteq Entries', \A i \in Entries : stream'[i] = stream[i],
             DOMAIN verdicts \subseteq DOMAIN verdicts',
             NEW f \in artifacts
      PROVE  /\ f.attempt = 1
             /\ f.by \in Entries' /\ f.by \in DOMAIN verdicts'
             /\ stream'[f.by].job = f.job
  BY <1>a, <1>0
<1>1. CASE Waits
  BY <1>0, <1>1 DEF Waits, queueVars, workerVars, Entries, ArtifactsKnown
<1>2. CASE PublishesNext
  <2>1. PICK j \in Jobs : publish_job(j, 1)
    BY <1>2 DEF PublishesNext
  <2>2. artifacts' = artifacts /\ verdicts' = verdicts /\ 1 \in Nat
    BY <1>2 DEF PublishesNext, workerVars, fullStackVars
  <2> QED
    BY <1>0, <1>a, <2>1, <2>2, Published DEF ArtifactsKnown
<1>3. CASE FilesMove
  <2>1. /\ stream' = stream /\ artifacts' = artifacts
        /\ DOMAIN verdicts \subseteq DOMAIN verdicts'
    BY <1>3 DEF FilesMove, WritesFile, RivalAnswered, RivalWrites, RivalStops,
                queueVars, workerVars
  <2> QED
    BY <1>0, <2>1 DEF Entries, ArtifactsKnown
<1>4. ASSUME NEW w \in Workers, CaseMoves(w)
      PROVE  ArtifactsKnown'
  <2>a. stream' = stream /\ Entries' = Entries
    BY <1>4, <1>a, CaseWorkerEffect DEF Entries
  <2>1. CASE artifacts' = artifacts /\ DOMAIN verdicts \subseteq DOMAIN verdicts'
    BY <1>0, <2>a, <2>1 DEF ArtifactsKnown
  <2>2. CASE ProcessCase(w)
    <3>1. WorkerStep(w) /\ ~RunnerReturns(w) /\ verdicts' = verdicts
      BY <2>2 DEF ProcessCase, Process, RunnerReturns, fullStackVars
    <3> QED
      BY <1>a, <2>1, <3>1, WorkerStepEffect
  <2>3. CASE CaseAnswered(w)
    BY <2>1, <2>3 DEF CaseAnswered, workerVars
  <2>4. CASE CaseArtifact(w)
    <3>1. /\ wpc[w] = "running" /\ verdicts' = verdicts
          /\ write_stub_job_artifact(JobOf(w), AttemptOf(w), wentry[w])
          /\ writing["own"].step = "artifact"
          /\ writing["own"].execution = wentry[w]
      BY <2>4 DEF CaseArtifact, RunnerReturns
    <3>2. "own" \in Processes /\ IsWriting("own")
      BY <3>1 DEF Processes, IsWriting, NotWriting
    <3>3. wentry[w] \in DOMAIN verdicts
      BY <1>a, <3>1, <3>2 DEF WritesVerdict
    <3>4. /\ wentry[w] \in Entries /\ stream[wentry[w]].job = JobOf(w)
          /\ AttemptOf(w) = 1
      BY <1>a, <3>1, HeldMessage DEF Batched, JobOf, AttemptOf
    <3> SUFFICES ASSUME NEW f \in artifacts'
                 PROVE  /\ f.attempt = 1
                        /\ f.by \in Entries /\ f.by \in DOMAIN verdicts
                        /\ stream[f.by].job = f.job
      BY <2>a, <3>1 DEF ArtifactsKnown
    <3>5. f \in artifacts \/ f = [job |-> JobOf(w), attempt |-> AttemptOf(w),
                                 by |-> wentry[w]]
      BY <3>1 DEF write_stub_job_artifact
    <3> QED
      BY <1>a, <3>3, <3>4, <3>5
  <2>5. CASE CaseFails(w)
    BY <2>1, <2>5 DEF CaseFails, handle_policy_error, handle_timeout, FinalizeAs,
                      fullStackVars
  <2>6. CASE Raises(w) \/ CaseRaises(w)
    BY <2>1, <2>6 DEF Raises, CaseRaises, WorkerRaises, Abort, fullStackVars
  <2> QED
    BY <1>4, <2>2, <2>3, <2>4, <2>5, <2>6 DEF CaseMoves, CaseStep
<1>5. ASSUME NEW w \in Workers, PlainWorks(w)
      PROVE  FALSE
  BY <1>5 DEF PlainWorks
<1> QED
  BY <1>1, <1>2, <1>3, <1>4, <1>5, StepKinds DEF FileInv, FilesOK

LEMMA NextOneEntry ==
  ASSUME DrainInv, OneEntryPerCase, [Next]_vars
  PROVE  OneEntryPerCase'
<1>a. FileInv /\ EntriesHeld /\ Batched /\ TodoUntouched
  BY DEF DrainInv, FileInv
<1> SUFFICES ASSUME command = "full_stack", ~RepeatedId
             PROVE  \A i, k \in Entries' : stream'[i].job = stream'[k].job => i = k
  BY <1>a, SameCall DEF OneEntryPerCase, RepeatedId
<1>b. \A i, k \in Entries : stream[i].job = stream[k].job => i = k
  BY DEF OneEntryPerCase
<1>1. CASE stream' = stream
  BY <1>b, <1>1 DEF Entries
<1>2. CASE SubmitStep
  <2> SUFFICES ASSUME NEW j, j = JobAt(1), NEW n, n = Len(stream) + 1
               PROVE  \A i, k \in Entries' : stream'[i].job = stream'[k].job => i = k
    OBVIOUS
  <2>1. /\ j \in Jobs /\ publish_job(j, 1) /\ 1 \in Nat
        /\ todo \in Seq(Cases) /\ todo # <<>>
    BY <1>a, <1>2 DEF SubmitStep, Batched
  <2>2. 1 \in DOMAIN todo
    BY <2>1
  <2>3. \A i \in Entries : stream[i].job # j
    BY <1>a, <2>2 DEF TodoUntouched, Distinct
  <2>4. /\ Entries' = Entries \cup {n}
        /\ \A i \in Entries : stream'[i] = stream[i]
        /\ stream'[n].job = j
    BY <1>a, <2>1, Published
  <2> QED
    BY <1>b, <2>3, <2>4
<1> QED
  BY <1>a, <1>1, <1>2, EntrySteps

-----------------------------------------------------------------------------
(* The report and the certificate *)

\* A sequence of n elements with n different values repeats none, and has no other.
LEMMA AllDifferent ==
  ASSUME NEW A, NEW f \in Seq(A), NEW S, Cardinality(S) = Len(f),
         \A x \in S : \E n \in DOMAIN f : f[n] = x
  PROVE  /\ \A m, n \in DOMAIN f : f[m] = f[n] => m = n
         /\ \A n \in DOMAIN f : f[n] \in S
         /\ IsFiniteSet(S)
<1> DEFINE L == Len(f)
           D == 1 .. L
           I == {f[n] : n \in D}
<1>0. L \in Nat /\ DOMAIN f = D /\ Cardinality(S) = L
  OBVIOUS
<1> HIDE DEF L
<1>1. IsFiniteSet(D) /\ Cardinality(D) = L
  BY <1>0, FS_Interval
<1>2. S \subseteq I
  BY <1>0
<1>3. /\ f \in [D -> I]
      /\ \A x \in I : \E n \in D : f[n] = x
  BY <1>0
<1> SUFFICES /\ \A m, n \in D : f[m] = f[n] => m = n
             /\ I \subseteq S
             /\ IsFiniteSet(S)
  BY <1>0
<1> HIDE DEF D, I
<1>4. f \in Surjection(D, I)
  BY <1>3 DEF Surjection
<1>5. /\ IsFiniteSet(I) /\ Cardinality(I) <= L
      /\ Cardinality(I) = L => f \in Injection(D, I)
  BY <1>1, <1>4, FS_Surjection
<1>6. /\ IsFiniteSet(S) /\ L <= Cardinality(I)
      /\ L = Cardinality(I) => I = S
  BY <1>0, <1>2, <1>5, FS_Subset
<1>7. Cardinality(I) = L
  <2>1. Cardinality(I) \in Nat
    BY <1>5, FS_CardinalityType
  <2> QED
    BY <1>0, <1>5, <1>6, <2>1
<1> QED
  BY <1>5, <1>6, <1>7 DEF Injection, IsInjective

\* What the accepted counts of a report mean, with one message for each case
LEMMA ReportedAreExecuted ==
  ASSUME FileInv, CasesOnly, CompletedLogged, ArtifactsKnown, OneEntryPerCase,
         command = "full_stack",
         \A e \in EventsOf({"completed"}) : ArtifactIntact(e),
         Cardinality({j \in Jobs : status[j] # "absent"}) = Len(setup.dataset),
         Cardinality(WithStatus({"completed"})) = Len(setup.dataset)
  PROVE  AllExecuted
<1> DEFINE Rows == {j \in Jobs : status[j] # "absent"}
           Done == WithStatus({"completed"})
           L == Len(setup.dataset)
           ids == [n \in 1 .. L |-> setup.dataset[n].id]
<1>1. setup.dataset \in Seq(Cases)
  BY DEF FileInv, Batched, Setup
<1>2. /\ L \in Nat /\ DOMAIN setup.dataset = 1 .. L
      /\ \A n \in 1 .. L : setup.dataset[n] \in Cases
  BY <1>1
<1>3. /\ ids \in [1 .. L -> CaseIds \cup {NoId}]
      /\ \A n \in 1 .. L : ids[n] = setup.dataset[n].id
  BY <1>2 DEF Cases
<1>4. /\ \A j \in Rows : j \in CaseIds /\ \E n \in 1 .. L : ids[n] = j
      /\ Cardinality(Rows) = L
  BY <1>2, <1>3 DEF CasesOnly, OfDataset
<1>5. /\ \A j \in Done : j \in Jobs /\ status[j] = "completed"
      /\ Done \subseteq Rows /\ Cardinality(Done) = L
  BY DEF WithStatus
<1> HIDE DEF Rows, Done, L, ids
<1>6. /\ \A m, n \in 1 .. L : ids[m] = ids[n] => m = n
      /\ \A n \in 1 .. L : ids[n] \in Rows
      /\ IsFiniteSet(Rows)
  <2>1. ids \in Seq(CaseIds \cup {NoId}) /\ Len(ids) = L /\ DOMAIN ids = 1 .. L
    BY <1>2, <1>3
  <2>2. \A j \in Rows : \E n \in DOMAIN ids : ids[n] = j
    BY <1>4, <2>1
  <2> QED
    BY <1>4, <2>1, <2>2, AllDifferent
<1>7. Done = Rows
  BY <1>4, <1>5, <1>6, FS_Subset
<1>8. ~RepeatedId
  BY <1>2, <1>3, <1>6 DEF RepeatedId
<1>9. ASSUME NEW id \in Done
      PROVE  \E i \in DOMAIN verdicts : ExecutedOnce(id, i)
  <2>1. PICK n \in DOMAIN events[id] : events[id][n].type = "completed"
    BY <1>5, <1>9 DEF CompletedLogged
  <2>2. <<id, n>> \in EventsOf({"completed"})
    BY <1>5, <1>9, <2>1 DEF EventsOf
  <2>3. ArtifactIntact(<<id, n>>)
    BY <2>2
  <2>4. [job |-> id, attempt |-> events[id][n].attempt, by |-> events[id][n].by]
          \in artifacts
    BY <2>3 DEF ArtifactIntact
  <2> DEFINE i == events[id][n].by
  <2>5. /\ events[id][n].attempt = 1
        /\ i \in Entries /\ i \in DOMAIN verdicts /\ stream[i].job = id
    BY <2>4 DEF ArtifactsKnown
  <2>6. Executed(id, i)
    BY <2>4, <2>5 DEF Executed
  <2>7. \A k \in DOMAIN verdicts \ {RivalExecution} : stream[k].job = id => k = i
    BY <1>8, <2>5, ExecutionsAreEntries DEF OneEntryPerCase
  <2> QED
    BY <2>5, <2>6, <2>7 DEF ExecutedOnce
<1>10. \A n \in DOMAIN setup.dataset :
         setup.dataset[n].id # NoId /\ setup.dataset[n].id \in Done
  BY <1>2, <1>3, <1>4, <1>6, <1>7, CallsAssumption
<1> QED
  BY <1>8, <1>9, <1>10 DEF AllExecuted

\* After the report only the rival executes anything.
LEMMA ReportSteps ==
  ASSUME FileInv, command = "full_stack", [Next]_vars,
         phase' \in {"validate", "certified"}
  PROVE  \/ build_smoke_report /\ UNCHANGED fullStackVars
         \/ /\ phase \in {"validate", "certified"}
            /\ UNCHANGED <<stream, artifacts, report, setup>>
            /\ DOMAIN verdicts \subseteq DOMAIN verdicts'
            /\ DOMAIN verdicts' \subseteq DOMAIN verdicts \cup {RivalExecution}
            /\ phase' # phase => FullStackReportValid
<1> USE DEF queueVars, workerVars, driverVars, fullStackVars
<1>1. CASE UNCHANGED vars
  BY <1>1 DEF vars
<1>2. CASE FullStackStep
  <2>1. CASE \/ TakeLock \/ SkipReset \/ ResetTables \/ CreateCaseJob
             \/ ReturnCaseJob \/ DatasetRefused \/ PublishCaseJob
    BY <2>1 DEF TakeLock, SkipReset, ResetTables, CreateCaseJob, Create, ReturnCaseJob,
                DatasetRefused, PublishCaseJob, Publish
  <2>2. CASE ReleaseLock \/ WritesFile
    BY <2>2 DEF ReleaseLock, WritesFile, QuietFiles
  <2>3. CASE validate_full_stack_report
    BY <2>3 DEF validate_full_stack_report, Validate
  <2> QED
    BY <1>2, <2>1, <2>2, <2>3 DEF FullStackStep
<1>3. CASE (EndRound \/ build_smoke_report) /\ UNCHANGED fullStackVars
  BY <1>3 DEF EndRound
<1>4. ASSUME NEW w \in Workers, WorkerActs(w)
      PROVE  FALSE
  BY <1>4, EarlyEnds
  DEF WorkerGoesOn, PlainProcess, Plain, CaseStep, ProcessCase, Process,
      CaseAnswered, CaseArtifact, CaseFails, RunningCase, MayProcess, NoteProcessed,
      FindNothing, Raises, CaseRaises, WorkerRaises
<1>5. CASE Rival
  <2>1. CASE RivalStarts \/ RivalResets \/ RivalWrites \/ RivalFails \/ RivalStops
    BY <2>1 DEF RivalStarts, RivalResets, RivalWrites, RivalFails, RivalStops,
                QuietFiles
  <2>2. CASE RivalAnswered
    BY <2>2 DEF RivalAnswered
  <2> QED
    BY <1>5, <2>1, <2>2 DEF Rival, RivalStep
<1> QED
  BY <1>1, <1>2, <1>3, <1>4, <1>5 DEF Next, Drive, PlainStep, Plain, WorkerActs

LEMMA NextReport ==
  ASSUME CertInv, [Next]_vars
  PROVE  ReportSound'
<1>a. FileInv /\ DrainInv /\ command' = command /\ setup' = setup
  BY SameCall DEF CertInv, DrainInv
<1> SUFFICES ASSUME command = "full_stack",
                    (phase = "validate" /\ FullStackReportValid)' \/ phase' = "certified"
             PROVE  AllExecuted'
  BY <1>a DEF ReportSound
<1>1. CASE build_smoke_report /\ UNCHANGED fullStackVars
  <2>1. /\ \A e \in EventsOf({"completed"}) : ArtifactIntact(e)
        /\ report'.submitted = Cardinality({j \in Jobs : status[j] # "absent"})
        /\ report'.completed = Cardinality(WithStatus({"completed"}))
        /\ phase' = "validate"
        /\ UNCHANGED <<stream, artifacts>>
    BY <1>1 DEF build_smoke_report, queueVars, workerVars
  <2>2. {report'.submitted, report'.completed, report'.checked}
          = {Len(setup.dataset)}
    BY <1>a, <2>1 DEF FullStackReportValid
  <2>3. /\ Cardinality({j \in Jobs : status[j] # "absent"}) = Len(setup.dataset)
        /\ Cardinality(WithStatus({"completed"})) = Len(setup.dataset)
    BY <2>1, <2>2
  <2>4. AllExecuted
    BY <1>a, <2>1, <2>3, ReportedAreExecuted DEF CertInv
  <2> QED
    BY <1>1, <2>1, <2>4 DEF AllExecuted, RepeatedId, ExecutedOnce, Executed, fullStackVars
<1>2. CASE /\ phase \in {"validate", "certified"}
           /\ UNCHANGED <<stream, artifacts, report, setup>>
           /\ DOMAIN verdicts \subseteq DOMAIN verdicts'
           /\ DOMAIN verdicts' \subseteq DOMAIN verdicts \cup {RivalExecution}
           /\ phase' # phase => FullStackReportValid
  <2>1. phase = "certified" \/ FullStackReportValid
    BY <1>2 DEF FullStackReportValid
  <2>2. AllExecuted
    BY <1>2, <2>1 DEF CertInv, ReportSound
  <2>3. \A id, i : ExecutedOnce(id, i) => ExecutedOnce(id, i)'
    BY <1>2 DEF ExecutedOnce, Executed
  <2> QED
    BY <1>2, <2>2, <2>3 DEF AllExecuted, RepeatedId
<1> QED
  BY <1>a, <1>1, <1>2, ReportSteps

LEMMA InitCert == Init => CertInv
<1> SUFFICES ASSUME Init PROVE CertInv
  OBVIOUS
<1>a. /\ StoreInit /\ QueueInit /\ WorkerInit
      /\ phase \in {"create", "start"}
      /\ command = "full_stack" => todo = setup.dataset
  BY DEF Init, DriverInit
<1>b. Entries = {} /\ artifacts = {}
  BY <1>a DEF QueueInit, WorkerInit, Entries
<1>1. CasesOnly /\ ArtifactsKnown /\ OneEntryPerCase /\ ReportSound
  BY <1>a, <1>b DEF CasesOnly, ArtifactsKnown, OneEntryPerCase, ReportSound, StoreInit
<1>2. CompletedLogged
  BY <1>a DEF CompletedLogged, StoreInit
<1> QED
  BY <1>1, <1>2, InitDrain DEF CertInv

\* The invariant behind the theorem about certificates.
THEOREM CertInvariance == Spec => []CertInv
<1>1. CertInv /\ [Next]_vars => CertInv'
  BY NextDrain, NextCases, NextLogged, NextArtifacts, NextOneEntry, NextReport
  DEF CertInv, DrainInv
<1> QED
  BY <1>1, InitCert, PTL DEF Spec

\* Three equal counts and no duplicate are all a full-stack proof is certified
\* for; from them it follows that every case of the dataset is another one, was
\* executed once by this command and left its artifact, whatever the rival did.
THEOREM CertificatesAreSound == Spec => []CertifiedIsSound
<1>1. CertInv => CertifiedIsSound
  BY DEF CertInv, ReportSound, CertifiedIsSound, AllExecuted, ExecutedOnce, Executed
<1> QED
  BY <1>1, CertInvariance, PTL

-----------------------------------------------------------------------------
(* Commands that reset the database exclude each other *)

Ended == {"certified", "invalid", "refused", "raised"}

Exclusive ==
  command = "full_stack" /\ setup.clean_state /\ setup.rival = "resets"

HasLock == phase \notin {"start"} \cup Ended

\* The command holds the lock, and nobody who lost it still writes.
Alone == Exclusive /\ HasLock /\ ~RivalFailed

\* The rival writes nothing without the lock, unless it failed.
LockOK ==
  Exclusive =>
    /\ HasLock => lock = "own"
    /\ rival \notin {"start", "stopped"} /\ ~RivalFailed => lock = "rival"
    /\ rival \in {"start", "stopped"} => ~IsWriting("rival")

\* A result file is written while a worker runs its case, or is to record it.
WriterWorks ==
  command = "full_stack" /\ phase # "raised" /\ IsWriting("own") =>
    \E w \in Workers :
      /\ wentry[w] = writing["own"].execution
      /\ wpc[w] = IF writing["own"].step \in {"open", "write", "artifact"}
                  THEN "running" ELSE "record"

\* Nothing is handed out before everything is submitted.
NothingYet == phase \in Submitting => delivered = 0

\* The result file of a case is whole, and of an execution of this command.
Whole(c) ==
  /\ files[c].text = "json"
  /\ files[c].body = files[c].link
  /\ files[c].link \notin {NoExecution, RivalExecution}

\* What a command that is alone reads is what it wrote.
OwnText ==
  Alone /\ IsWriting("own") =>
    LET own == writing["own"] IN
    /\ own.step \in {"write", "rewrite"} => files[own.case] = Truncated
    /\ own.step \in {"artifact", "link", "reopen"} =>
         files[own.case].text = "json" /\ files[own.case].body = own.execution
    /\ own.step \in {"reopen", "rewrite"} => own.body = own.execution

\* Each of its executions leaves a whole file.
WholeFiles ==
  Alone =>
    \A i \in DOMAIN verdicts \ {RivalExecution} :
      \/ Whole(stream[i].job)
      \/ IsWriting("own") /\ writing["own"].case = stream[i].job

AloneInv ==
  /\ FileInv
  /\ RoundsOK /\ LockOK /\ WriterWorks /\ NothingYet /\ OwnText /\ WholeFiles

\* The rival takes the lock before it does anything, and leaves it when it stops.
LEMMA NextLock ==
  ASSUME FileInv, LockOK, [Next]_vars
  PROVE  LockOK'
<1>a. /\ Exclusive' <=> Exclusive
      /\ "own" \in Processes /\ "rival" \in Processes
      /\ FilesTypeOK /\ writing \in [Processes -> Stretch \cup {NotWriting}]
  BY SameCall DEF Exclusive, FileInv, FilesOK, FilesTypeOK, Processes
<1> SUFFICES ASSUME Exclusive
             PROVE  LockOK'
  BY <1>a DEF LockOK
<1>b. /\ command = "full_stack" /\ setup.clean_state /\ setup.rival = "resets"
      /\ HasLock => lock = "own"
      /\ rival \notin {"start", "stopped"} /\ ~RivalFailed => lock = "rival"
      /\ rival \in {"start", "stopped"} => ~IsWriting("rival")
  BY DEF LockOK, Exclusive
<1>0. ASSUME UNCHANGED <<lock, rival>>, writing'["rival"] = writing["rival"],
             phase' \in {"start"} \cup Ended \/ phase \notin {"start"} \cup Ended
      PROVE  LockOK'
  BY <1>a, <1>b, <1>0 DEF LockOK, HasLock, IsWriting, RivalFailed
<1>c. \A x : writing' = [writing EXCEPT !["own"] = x] => writing'["rival"] = writing["rival"]
  BY <1>a
<1> USE DEF Ended, RivalFailed
<1>1. CASE UNCHANGED vars
  BY <1>0, <1>1 DEF vars, driverVars, fullStackVars
<1>2. CASE FullStackStep
  <2>1. CASE TakeLock
    BY <1>a, <1>b, <2>1 DEF TakeLock, QuietFiles, LockOK, HasLock, IsWriting
  <2>2. CASE SkipReset
    BY <1>b, <2>2 DEF SkipReset
  <2>3. CASE \/ ResetTables \/ CreateCaseJob \/ ReturnCaseJob \/ DatasetRefused
             \/ PublishCaseJob \/ validate_full_stack_report
    BY <1>0, <2>3
    DEF ResetTables, QuietFiles, CreateCaseJob, Create, ReturnCaseJob, DatasetRefused,
        PublishCaseJob, Publish, validate_full_stack_report, Validate, fullStackVars
  <2>4. CASE WritesFile
    <3>1. writing'["rival"] = writing["rival"]
      BY <1>a, <2>4, FileStepEffect DEF WritesFile
    <3> QED
      BY <1>0, <2>4, <3>1 DEF WritesFile, driverVars
  <2>5. CASE ReleaseLock
    <3>1. /\ ~HasLock' /\ rival' = rival
          /\ rival \in {"start", "stopped"} \/ RivalFailed
          /\ writing' = writing
      BY <1>b, <2>5 DEF ReleaseLock, QuietFiles, driverVars, HasLock
    <3> QED
      BY <1>a, <1>b, <3>1 DEF LockOK, IsWriting
  <2> QED
    BY <1>2, <2>1, <2>2, <2>3, <2>4, <2>5 DEF FullStackStep
<1>3. CASE (EndRound \/ build_smoke_report) /\ UNCHANGED fullStackVars
  BY <1>0, <1>3 DEF EndRound, build_smoke_report, fullStackVars
<1>4. ASSUME NEW w \in Workers, WorkerActs(w)
      PROVE  LockOK'
  <2>1. CASE ProcessCase(w) \/ CaseFails(w) \/ (FindNothing(w) /\ UNCHANGED fullStackVars)
    BY <1>0, <2>1 DEF ProcessCase, Process, CaseFails, RunningCase, MayProcess,
                      NoteProcessed, FindNothing, fullStackVars
  <2>2. CASE CaseAnswered(w)
    BY <1>0, <1>c, <2>2 DEF CaseAnswered, BeginResult, driverVars
  <2>3. CASE CaseArtifact(w)
    <3>1. UNCHANGED <<lock, rival, phase>> /\ Step("own", "link")
      BY <2>3 DEF CaseArtifact, NoteProcessed
    <3>2. writing'["rival"] = writing["rival"]
      BY <1>a, <3>1 DEF Step
    <3> QED
      BY <1>0, <3>1, <3>2
  <2>4. CASE Raises(w) \/ CaseRaises(w)
    BY <1>0, <1>c, <2>4 DEF Raises, CaseRaises, WorkerRaises, fullStackVars
  <2>5. ~PlainProcess(w)
    BY <1>b DEF PlainProcess, Plain
  <2> QED
    BY <1>4, <1>b, <2>1, <2>2, <2>3, <2>4, <2>5, EarlyEnds DEF WorkerGoesOn, CaseStep
<1>5. CASE Rival
  <2>1. CASE RivalStarts
    <3>1. /\ lock = "none" /\ lock' = "rival" /\ rival' = "reset" /\ phase' = phase
      BY <1>b, <2>1 DEF RivalStarts, driverVars
    <3> QED
      BY <1>a, <1>b, <3>1 DEF LockOK, HasLock
  <2>2. CASE RivalResets \/ RivalAnswered
    <3>1. /\ rival \notin {"start", "stopped"} /\ rival' \notin {"start", "stopped"}
          /\ RivalFailed' <=> RivalFailed
          /\ lock' = lock /\ phase' = phase
      BY <2>2 DEF RivalResets, RivalAnswered, driverVars
    <3> QED
      BY <1>a, <1>b, <3>1 DEF LockOK, HasLock
  <2>3. CASE RivalWrites
    <3>1. IsWriting("rival") /\ UNCHANGED <<lock, rival, phase>>
      <4>1. NotWriting.step = "none"
        BY DEF NotWriting
      <4> QED
        BY <1>a, <2>3, <4>1, FileStepEffect DEF RivalWrites, IsWriting, driverVars
    <3> QED
      BY <1>a, <1>b, <3>1 DEF LockOK, HasLock
  <2>4. CASE RivalStops
    <3>1. /\ RivalFailed \/ lock = "rival"
          /\ lock' = IF lock = "rival" THEN "none" ELSE lock
          /\ rival' = IF RivalFailed THEN "failed" ELSE "stopped"
          /\ phase' = phase
          /\ writing' = [writing EXCEPT !["rival"] = NotWriting]
      BY <1>b, <2>4 DEF RivalStops, driverVars
    <3>2. writing'["rival"] = NotWriting
      BY <1>a, <3>1
    <3> QED
      BY <1>a, <1>b, <3>1, <3>2 DEF LockOK, HasLock, IsWriting
  <2>5. CASE RivalFails
    <3>1. /\ lock = "rival" /\ RivalFailed' /\ phase' = phase
          /\ rival' \notin {"start", "stopped"}
      BY <1>b, <2>5 DEF RivalFails, driverVars
    <3> QED
      BY <1>a, <1>b, <3>1 DEF LockOK, HasLock
  <2> QED
    BY <1>5, <2>1, <2>2, <2>3, <2>4, <2>5 DEF Rival, RivalStep
<1>6. ~PlainStep
  BY <1>b DEF PlainStep, Plain
<1> QED
  BY <1>1, <1>2, <1>3, <1>4, <1>5, <1>6 DEF Next, Drive, WorkerActs

LEMMA NextNothingYet ==
  ASSUME FileInv, NothingYet, [Next]_vars
  PROVE  NothingYet'
<1>1. phase' \in Submitting => phase \in Submitting
  BY TodoSteps DEF FileInv, FilesOK, Submitting
<1>2. delivered' = delivered \/ phase' \notin Submitting
  BY StepShapes
  DEF QuietStep, CreateStep, DropStep, SubmitStep, QueueAndWorkersRest, publish_job,
      WorkStep, FailStep, Submitting
<1> QED
  BY <1>1, <1>2 DEF NothingYet

LEMMA NextWriter ==
  ASSUME FileInv, WriterWorks, [Next]_vars
  PROVE  WriterWorks'
<1>a. /\ EntriesHeld /\ FilesTypeOK /\ command' = command
      /\ phase = "raised" => phase' = "raised"
      /\ "own" \in Processes /\ "rival" \in Processes
      /\ writing \in [Processes -> Stretch \cup {NotWriting}]
      /\ wpc \in [Workers -> WorkerPcs]
  BY StepKinds DEF FileInv, FilesOK, FilesTypeOK, Processes, EntriesHeld
<1>0. ASSUME writing'["own"] = writing["own"], UNCHANGED <<wpc, wentry>>
      PROVE  WriterWorks'
  BY <1>a, <1>0 DEF WriterWorks, IsWriting
<1>1. CASE Waits \/ PublishesNext
  BY <1>0, <1>1 DEF Waits, PublishesNext, workerVars, fullStackVars
<1>2. CASE FilesMove
  <2>1. CASE WritesFile
    <3>1. IsWriting("own")' =>
            /\ IsWriting("own")
            /\ writing'["own"].execution = writing["own"].execution
            /\ writing["own"].step \in {"open", "write", "artifact"}
                 <=> writing'["own"].step \in {"open", "write", "artifact"}
      BY <1>a, <2>1, FileStepEffect DEF WritesFile, IsWriting
    <3>2. UNCHANGED <<wpc, wentry>>
      BY <2>1 DEF WritesFile, workerVars
    <3> QED
      BY <1>a, <3>1, <3>2 DEF WriterWorks
  <2>2. CASE RivalAnswered \/ RivalStops
    <3>1. \A x : writing' = [writing EXCEPT !["rival"] = x] =>
                  writing'["own"] = writing["own"]
      BY <1>a
    <3> QED
      BY <1>0, <2>2, <3>1 DEF RivalAnswered, BeginResult, RivalStops, workerVars
  <2>3. CASE RivalWrites
    <3>1. CASE FileStep("rival")
      BY <1>0, <1>a, <2>3, <3>1, FileStepEffect DEF RivalWrites, Processes, workerVars
    <3>2. CASE Step("rival", "link")
      <4>1. writing'["own"] = writing["own"]
        BY <1>a, <3>2 DEF Step
      <4> QED
        BY <1>0, <2>3, <4>1 DEF RivalWrites, workerVars
    <3> QED
      BY <2>3, <3>1, <3>2 DEF RivalWrites
  <2> QED
    BY <1>2, <2>1, <2>2, <2>3 DEF FilesMove
<1>3. ASSUME NEW w \in Workers, CaseMoves(w)
      PROVE  WriterWorks'
  <2>1. CASE ProcessCase(w) \/ CaseFails(w)
    <3>1. writing'["own"] = NotWriting
      BY <2>1 DEF ProcessCase, CaseFails, RunningCase, LoopFree, fullStackVars
    <3> QED
      BY <3>1 DEF WriterWorks, IsWriting
  <2>2. CASE CaseAnswered(w)
    <3>1. PICK verdict : BeginResult("own", JobOf(w), wentry[w], verdict)
      BY <2>2 DEF CaseAnswered
    <3>2. /\ writing'["own"].step = "open" /\ writing'["own"].execution = wentry[w]
          /\ wpc[w] = "running" /\ UNCHANGED <<wpc, wentry>>
      BY <1>a, <2>2, <3>1 DEF CaseAnswered, BeginResult, RunningCase, workerVars
    <3> QED
      BY <3>2 DEF WriterWorks
  <2>3. CASE CaseArtifact(w)
    <3>1. /\ writing["own"].step = "artifact" /\ Step("own", "link")
          /\ writing["own"].execution = wentry[w] /\ GoTo(w, "record")
      BY <2>3 DEF CaseArtifact, RunnerReturns
    <3>2. IsWriting("own") /\ "link" \in WriteSteps
      BY <3>1 DEF IsWriting, NotWriting, WriteSteps
    <3>3. writing'["own"].step = "link" /\ writing'["own"].execution = wentry[w]
      BY <1>a, <3>1, <3>2, StepEffect
    <3>4. wpc'[w] = "record" /\ wentry'[w] = wentry[w]
      BY <1>a, <3>1 DEF GoTo
    <3> QED
      BY <3>3, <3>4 DEF WriterWorks
  <2>4. CASE Raises(w) \/ CaseRaises(w)
    BY <2>4 DEF Raises, CaseRaises, WorkerRaises, WriterWorks
  <2> QED
    BY <1>3, <2>1, <2>2, <2>3, <2>4 DEF CaseMoves, CaseStep
<1>4. ASSUME NEW w \in Workers, PlainWorks(w)
      PROVE  WriterWorks'
  BY <1>4, <1>a DEF PlainWorks, WriterWorks
<1> QED
  BY <1>1, <1>2, <1>3, <1>4, StepKinds DEF FileInv, FilesOK

\* A command that has ended stays so.
LEMMA EndedStays ==
  ASSUME [Next]_vars, command = "full_stack", phase \in Ended
  PROVE  phase' = phase
<1> USE DEF Ended
<1>1. CASE UNCHANGED vars
  BY <1>1 DEF vars, driverVars
<1>2. CASE FullStackStep
  <2>1. CASE \/ TakeLock \/ SkipReset \/ ResetTables \/ CreateCaseJob
             \/ ReturnCaseJob \/ DatasetRefused \/ PublishCaseJob
    BY <2>1 DEF TakeLock, SkipReset, ResetTables, CreateCaseJob, Create, ReturnCaseJob,
                DatasetRefused, PublishCaseJob, Publish
  <2>2. CASE ReleaseLock \/ WritesFile
    BY <2>2 DEF ReleaseLock, WritesFile, driverVars
  <2>3. CASE validate_full_stack_report
    BY <2>3 DEF validate_full_stack_report, Validate
  <2> QED
    BY <1>2, <2>1, <2>2, <2>3 DEF FullStackStep
<1>3. CASE EndRound \/ build_smoke_report
  BY <1>3 DEF EndRound, build_smoke_report
<1>4. ASSUME NEW w \in Workers, WorkerActs(w)
      PROVE  phase' = phase
  BY <1>4, EarlyEnds
  DEF WorkerGoesOn, PlainProcess, Plain, CaseStep, ProcessCase, Process,
      CaseAnswered, CaseArtifact, CaseFails, RunningCase, MayProcess, NoteProcessed,
      FindNothing, Raises, CaseRaises, WorkerRaises, driverVars
<1>5. CASE Rival
  BY <1>5 DEF Rival, RivalStep, RivalStarts, RivalResets, RivalAnswered, RivalWrites,
              RivalFails, RivalStops, driverVars
<1> QED
  BY <1>1, <1>2, <1>3, <1>4, <1>5 DEF Next, Drive, PlainStep, Plain, WorkerActs

\* A rival that failed does not recover.
LEMMA FailedStays ==
  ASSUME [Next]_vars, RivalFailed
  PROVE  RivalFailed'
<1> USE DEF RivalFailed, fullStackVars
<1>1. CASE UNCHANGED vars
  BY <1>1 DEF vars
<1>2. CASE PlainStep
  BY <1>2 DEF PlainStep, Plain
<1>3. CASE FullStackStep
  BY <1>3
  DEF FullStackStep, TakeLock, SkipReset, ResetTables, CreateCaseJob, ReturnCaseJob,
      DatasetRefused, PublishCaseJob, WritesFile, validate_full_stack_report,
      ReleaseLock
<1>4. CASE (EndRound \/ build_smoke_report) /\ UNCHANGED fullStackVars
  BY <1>4
<1>5. ASSUME NEW w \in Workers, WorkerActs(w)
      PROVE  rival' = rival
  BY <1>5, EarlyEnds
  DEF WorkerGoesOn, PlainProcess, Plain, CaseStep, ProcessCase, CaseAnswered,
      CaseArtifact, CaseFails, Raises, CaseRaises
<1>6. CASE Rival
  BY <1>6 DEF Rival, RivalStep, RivalStarts, RivalResets, RivalAnswered, RivalWrites,
              RivalFails, RivalStops
<1> QED
  BY <1>1, <1>2, <1>3, <1>4, <1>5, <1>6 DEF Next, Drive, WorkerActs

\* A command that is alone reads what it wrote, and leaves a whole file.
LEMMA OwnFileStep ==
  ASSUME FileInv, OwnText, Alone, FileStep("own"), NEW c, c = writing["own"].case,
         NEW e, e = writing["own"].execution
  PROVE  /\ IsWriting("own")' =>
              /\ writing'["own"].step \in {"write", "rewrite"} => files'[c] = Truncated
              /\ writing'["own"].step \in {"artifact", "link", "reopen"} =>
                   files'[c].text = "json" /\ files'[c].body = e
              /\ writing'["own"].step \in {"reopen", "rewrite"} =>
                   writing'["own"].body = e
         /\ ~IsWriting("own")' =>
              /\ files'[c].text = "json" /\ files'[c].body = files'[c].link
              /\ files'[c].link \notin {NoExecution, RivalExecution}
<1>a. /\ FilesTypeOK /\ WritesVerdict /\ "own" \in Processes
      /\ writing \in [Processes -> Stretch \cup {NotWriting}]
      /\ DOMAIN files = CaseIds
  BY DEF FileInv, FilesOK, FilesTypeOK, Processes
<1>b. IsWriting("own") /\ c \in CaseIds /\ writing["own"] \in Stretch
  BY <1>a, FileStepEffect DEF IsWriting
<1>c. /\ writing["own"].step \in {"write", "rewrite"} => files[c] = Truncated
      /\ writing["own"].step \in {"artifact", "link", "reopen"} =>
           files[c].text = "json" /\ files[c].body = e
      /\ writing["own"].step \in {"reopen", "rewrite"} => writing["own"].body = e
  BY <1>b DEF OwnText
<1>d. e \notin {NoExecution, RivalExecution} /\ File("own") = files[c]
  BY <1>a, <1>b DEF WritesVerdict, Stretch, NoExecution, File
<1>e. \A text : files' = [files EXCEPT ![c] = text] => files'[c] = text
  BY <1>a, <1>b
<1>f. ASSUME NEW s, Step("own", s)
      PROVE  writing'["own"].step = s /\ writing'["own"].body = writing["own"].body
  <2> DEFINE r == [writing["own"] EXCEPT !.step = s]
  <2>1. writing' = [writing EXCEPT !["own"] = r]
    BY <1>f DEF Step
  <2>2. r.step = s /\ r.body = writing["own"].body
    BY <1>b DEF Stretch
  <2> HIDE DEF r
  <2> QED
    BY <1>a, <2>1, <2>2
<1>1. CASE Truncate("own", "open", "write")
  BY <1>1, <1>a, <1>e, <1>f, FileStepEffect DEF Truncate
<1>2. CASE WriteResult("own")
  <2>1. /\ writing["own"].step = "write" /\ Step("own", "artifact")
        /\ files' = [files EXCEPT ![c] = Result(e, NoExecution, writing["own"].quality)]
    BY <1>2, <1>c, <1>d DEF WriteResult, Written
  <2>2. files'[c].text = "json" /\ files'[c].body = e
    BY <1>e, <2>1 DEF Result
  <2> QED
    BY <1>a, <1>b, <1>f, <2>1, <2>2, FileStepEffect
<1>3. CASE ReadResult("own")
  <2>1. writing["own"].step = "link" /\ files' = files
    BY <1>3 DEF ReadResult
  <2>2. writing'["own"].body = e /\ writing'["own"].step = "reopen"
    <3> DEFINE body == IF File("own").text = "json" THEN File("own").body
                       ELSE NoExecution
               r == [writing["own"] EXCEPT !.body = body, !.step = "reopen"]
    <3>1. body = e
      BY <1>c, <1>d, <2>1
    <3>2. writing' = [writing EXCEPT !["own"] = r]
      BY <1>3 DEF ReadResult
    <3> HIDE DEF body
    <3>3. r.body = e /\ r.step = "reopen"
      BY <1>b, <3>1 DEF Stretch
    <3> HIDE DEF r
    <3> QED
      BY <1>a, <3>2, <3>3
  <2> QED
    BY <1>a, <1>c, <2>1, <2>2, FileStepEffect
<1>4. CASE Truncate("own", "reopen", "rewrite")
  <2>1. /\ files' = [files EXCEPT ![c] = Truncated]
        /\ writing["own"].step = "reopen" /\ Step("own", "rewrite")
    BY <1>4 DEF Truncate
  <2> QED
    BY <1>a, <1>c, <1>e, <1>f, <2>1, FileStepEffect
<1>5. CASE WriteLink("own")
  <2>1. /\ writing' = [writing EXCEPT !["own"] = NotWriting]
        /\ files' = [files EXCEPT ![c] = Result(e, e, writing["own"].quality)]
    BY <1>5, <1>c, <1>d DEF WriteLink, Written
  <2>2. ~IsWriting("own")'
    BY <1>a, <2>1 DEF IsWriting
  <2>3. files'[c].text = "json" /\ files'[c].body = e /\ files'[c].link = e
    BY <1>e, <2>1 DEF Result
  <2> QED
    BY <1>d, <2>2, <2>3
<1> QED
  BY <1>1, <1>2, <1>3, <1>4, <1>5 DEF FileStep

\* Between taking the lock and giving it back a command is the only one that writes,
\* and each of its executions leaves a whole file.
LEMMA NextAlone ==
  ASSUME AloneInv, [Next]_vars
  PROVE  OwnText' /\ WholeFiles'
<1> DEFINE AtEntry(i) ==
             \/ Whole(stream[i].job)
             \/ IsWriting("own") /\ writing["own"].case = stream[i].job
<1>a. /\ FileInv /\ EntriesHeld /\ FilesTypeOK /\ WritesVerdict
      /\ setup' = setup /\ command' = command
      /\ "own" \in Processes /\ "rival" \in Processes
      /\ writing \in [Processes -> Stretch \cup {NotWriting}]
  BY SameCall DEF AloneInv, FileInv, FilesOK, FilesTypeOK, Processes
<1> SUFFICES ASSUME Alone'
             PROVE  OwnText' /\ WholeFiles'
  BY DEF OwnText, WholeFiles
<1>b. /\ Exclusive /\ command = "full_stack" /\ ~RivalFailed
      /\ phase' \notin {"start"} \cup Ended
  BY <1>a, FailedStays DEF Alone, Exclusive, HasLock
<1>c. phase \notin Ended
  BY <1>b, EndedStays
<1>d. /\ DOMAIN verdicts \ {RivalExecution} \subseteq Entries
      /\ DOMAIN verdicts \subseteq 0 .. delivered /\ RivalExecution = 0
  BY <1>a, ExecutionsAreEntries DEF FilesTypeOK, RivalExecution
<1>1. CASE phase = "start"
  <2>1. ~IsWriting("own")
    <3> SUFFICES ASSUME NEW w \in Workers, wpc[w] \in {"running", "record"}
                 PROVE  FALSE
      BY <1>1, <1>b DEF AloneInv, WriterWorks
    <3> QED
      BY <1>1 DEF AloneInv, RoundsOK
  <2>2. DOMAIN verdicts \ {RivalExecution} = {}
    BY <1>1, <1>d DEF AloneInv, NothingYet, Submitting
  <2>3. Waits
    <3>1. ~PublishesNext
      BY <1>1 DEF PublishesNext
    <3>2. ~FilesMove
      BY <1>1, <1>b DEF FilesMove, WritesFile, RivalAnswered, RivalWrites, RivalStops,
                        driverVars
    <3>3. ASSUME NEW w \in Workers, PlainWorks(w) \/ CaseMoves(w)
          PROVE  FALSE
      BY <1>1, <1>b, <3>3
      DEF PlainWorks, CaseMoves, CaseStep, ProcessCase, Process, CaseAnswered,
          CaseArtifact, CaseFails, RunningCase, MayProcess, Raises, CaseRaises,
          WorkerRaises
    <3> QED
      BY <1>a, <3>1, <3>2, <3>3, StepKinds DEF FileInv, FilesOK
  <2> QED
    BY <2>1, <2>2, <2>3 DEF Waits, IsWriting, OwnText, WholeFiles
<1>2. CASE phase # "start"
  <2>a. /\ Alone /\ rival \in {"start", "stopped"} /\ ~IsWriting("rival")
        /\ OwnText
        /\ \A i \in DOMAIN verdicts \ {RivalExecution} : AtEntry(i)
    BY <1>2, <1>b, <1>c DEF AloneInv, LockOK, Alone, HasLock, WholeFiles
  <2>0. ASSUME UNCHANGED <<files, writing, verdicts>>,
               \A i \in Entries : stream'[i] = stream[i]
        PROVE  OwnText' /\ WholeFiles'
    BY <1>d, <2>a, <2>0 DEF OwnText, WholeFiles, Whole, IsWriting
  <2>1. CASE Waits
    BY <2>0, <2>1 DEF Waits, queueVars
  <2>2. CASE PublishesNext
    <3>1. PICK j \in Jobs : publish_job(j, 1)
      BY <2>2 DEF PublishesNext
    <3>2. \A i \in Entries : stream'[i] = stream[i]
      <4>1. 1 \in Nat
        OBVIOUS
      <4> QED
        BY <1>a, <3>1, <4>1, Published
    <3> QED
      BY <2>0, <2>2, <3>2 DEF PublishesNext, fullStackVars
  <2>3. CASE FilesMove
    <3>1. CASE WritesFile
      <4> SUFFICES ASSUME NEW c, c = writing["own"].case,
                          NEW e, e = writing["own"].execution
                   PROVE  OwnText' /\ WholeFiles'
        OBVIOUS
      <4>1. FileStep("own") /\ stream' = stream /\ verdicts' = verdicts
        BY <3>1 DEF WritesFile, queueVars
      <4>2. /\ IsWriting("own") /\ c \in CaseIds
            /\ \A d \in CaseIds \ {c} : files'[d] = files[d]
            /\ IsWriting("own")' => writing'["own"].case = c
                                    /\ writing'["own"].execution = e
        BY <1>a, <4>1, FileStepEffect DEF IsWriting
      <4>3. OwnText'
        BY <1>a, <2>a, <4>1, <4>2, OwnFileStep DEF OwnText
      <4>4. ASSUME NEW i \in DOMAIN verdicts \ {RivalExecution}
            PROVE  \/ Whole(stream[i].job)'
                   \/ IsWriting("own")' /\ writing'["own"].case = stream[i].job
        <5>1. stream[i].job \in CaseIds
          BY <1>a, <1>b, <1>d DEF FileInv, Batched
        <5>2. CASE stream[i].job = c
          <6>1. ~IsWriting("own")' =>
                  /\ files'[c].text = "json" /\ files'[c].body = files'[c].link
                  /\ files'[c].link \notin {NoExecution, RivalExecution}
            BY <1>a, <2>a, <4>1, OwnFileStep
          <6> QED
            BY <4>1, <4>2, <5>2, <6>1 DEF Whole
        <5>3. CASE stream[i].job # c
          BY <2>a, <4>1, <4>2, <5>1, <5>3 DEF Whole
        <5> QED
          BY <5>2, <5>3
      <4> QED
        BY <4>1, <4>3, <4>4 DEF WholeFiles
    <3>2. ~RivalAnswered /\ ~RivalStops /\ ~RivalWrites
      <4>1. NotWriting.step = "none"
        BY DEF NotWriting
      <4>2. ~RivalWrites
        BY <1>a, <2>a, <4>1, FileStepEffect DEF RivalWrites, IsWriting
      <4> QED
        BY <2>a, <4>2 DEF RivalAnswered, RivalStops
    <3> QED
      BY <2>3, <3>1, <3>2 DEF FilesMove
  <2>4. ASSUME NEW w \in Workers, CaseMoves(w)
        PROVE  OwnText' /\ WholeFiles'
    <3>a. stream' = stream
      BY <1>a, <2>4, CaseWorkerEffect DEF FileInv
    <3>1. CASE ProcessCase(w) \/ CaseFails(w)
      BY <2>0, <3>1, <3>a DEF ProcessCase, CaseFails, fullStackVars
    <3>2. CASE CaseAnswered(w)
      <4>1. PICK verdict :
              /\ BeginResult("own", JobOf(w), wentry[w], verdict)
              /\ verdicts' = [i \in DOMAIN verdicts \cup {wentry[w]} |->
                                IF i = wentry[w] THEN verdict ELSE verdicts[i]]
        BY <3>2 DEF CaseAnswered
      <4>2. /\ writing'["own"].step = "open" /\ writing'["own"].case = JobOf(w)
            /\ IsWriting("own")' /\ ~IsWriting("own") /\ files' = files
        BY <1>a, <3>2, <4>1 DEF CaseAnswered, BeginResult, IsWriting, NotWriting
      <4>3. JobOf(w) = stream[wentry[w]].job
        BY DEF JobOf
      <4>4. DOMAIN verdicts' = DOMAIN verdicts \cup {wentry[w]}
        BY <4>1
      <4> QED
        BY <2>a, <3>a, <4>2, <4>3, <4>4 DEF OwnText, WholeFiles, Whole
    <3>3. CASE CaseArtifact(w)
      <4>1. /\ writing["own"].step = "artifact" /\ Step("own", "link")
            /\ UNCHANGED <<files, verdicts>>
        BY <3>3 DEF CaseArtifact
      <4>2. IsWriting("own") /\ "link" \in WriteSteps
        BY <4>1 DEF IsWriting, NotWriting, WriteSteps
      <4>3. /\ writing'["own"].step = "link" /\ IsWriting("own")'
            /\ writing'["own"].execution = writing["own"].execution
            /\ writing'["own"].case = writing["own"].case
        BY <1>a, <4>1, <4>2, StepEffect
      <4>4. OwnText'
        BY <2>a, <4>1, <4>2, <4>3 DEF OwnText
      <4> QED
        BY <2>a, <3>a, <4>1, <4>3, <4>4 DEF WholeFiles, Whole
    <3>4. ~Raises(w) /\ ~CaseRaises(w)
      BY <1>b DEF Raises, CaseRaises, WorkerRaises, Ended
    <3> QED
      BY <2>4, <3>1, <3>2, <3>3, <3>4 DEF CaseMoves, CaseStep
  <2>5. ASSUME NEW w \in Workers, PlainWorks(w)
        PROVE  FALSE
    BY <1>b, <2>5 DEF PlainWorks
  <2> QED
    BY <2>1, <2>2, <2>3, <2>4, <2>5, StepKinds, <1>a DEF FileInv, FilesOK
<1> QED
  BY <1>1, <1>2

LEMMA InitAlone == Init => AloneInv
<1> SUFFICES ASSUME Init PROVE AloneInv
  OBVIOUS
<1>a. /\ FullStackInit /\ delivered = 0
      /\ command = "full_stack" => phase = "start"
  BY DEF Init, DriverInit, QueueInit
<1>b. ~IsWriting("own") /\ ~IsWriting("rival")
  BY <1>a DEF FullStackInit, IsWriting, Processes
<1>1. LockOK /\ WriterWorks /\ NothingYet /\ OwnText /\ WholeFiles
  BY <1>a, <1>b DEF LockOK, WriterWorks, NothingYet, OwnText, WholeFiles, Alone,
                    HasLock, Exclusive, RivalFailed, FullStackInit
<1> QED
  BY <1>1, InitDrain DEF AloneInv, DrainInv

\* The invariant behind the theorem about the lock.
THEOREM AloneInvariance == Spec => []AloneInv
<1>1. AloneInv /\ [Next]_vars => AloneInv'
  BY NextFiles, NextRounds, NextLock, NextWriter, NextNothingYet, NextAlone
  DEF AloneInv
<1> QED
  BY <1>1, InitAlone, PTL DEF Spec

\* A command that holds the lock from the reset to the end of its run is certified
\* over result files that are whole and its own, although the other command writes
\* the same files before and after it.  If the other failed while it had the lock,
\* workers of its last round may write when the lock is no longer its own.
THEOREM LockKeepsFilesWhole == Spec => ExclusiveCaseFiles
<1>1. CertInv /\ AloneInv /\ [Next]_vars =>
        [command = "full_stack" /\ setup.clean_state /\ setup.rival = "resets"
         /\ ~RivalFailed
         /\ phase = "validate" /\ phase' = "certified" => CaseFilesWhole]_vars
  <2> SUFFICES ASSUME CertInv, AloneInv, [Next]_vars, command = "full_stack",
                      setup.clean_state, setup.rival = "resets",
                      ~RivalFailed, phase = "validate", phase' = "certified"
               PROVE  CaseFilesWhole
    OBVIOUS
  <2>a. FileInv /\ Alone
    BY DEF AloneInv, Alone, HasLock, Exclusive, Ended
  <2>1. AllExecuted
    <3>1. ~build_smoke_report
      BY DEF build_smoke_report
    <3>2. FullStackReportValid
      BY <2>a, <3>1, ReportSteps
    <3> QED
      BY <3>2 DEF CertInv, ReportSound
  <2>2. ~IsWriting("own")
    BY DEF AloneInv, WriterWorks, RoundsOK
  <2>3. ASSUME NEW n \in DOMAIN setup.dataset, NEW id, id = setup.dataset[n].id
        PROVE  Whole(id)
    <3>1. PICK i \in DOMAIN verdicts : Executed(id, i)
      BY <2>1, <2>3 DEF AllExecuted, ExecutedOnce
    <3>2. i \in Entries /\ stream[i].job = id
      BY <3>1 DEF CertInv, ArtifactsKnown, Executed
    <3>3. i # RivalExecution
      BY <3>2 DEF Entries, RivalExecution
    <3> QED
      BY <2>a, <2>2, <3>1, <3>2, <3>3 DEF AloneInv, WholeFiles
  <2> QED
    BY <2>3 DEF CaseFilesWhole, Whole
<1> QED
  BY <1>1, CertInvariance, AloneInvariance, PTL DEF Spec, ExclusiveCaseFiles

-----------------------------------------------------------------------------
(* Why a command without a rival rejects what it ran *)

\* There are at least as many failures as failure modes.
EveryModePlanned == plan.failure_count >= Len(PlannedModes(plan.include_timeouts))

Batch == BatchOf(command)

\* A retry of j was recorded.
Shown(j) == \E n \in DOMAIN events[j] : events[j][n].type = "retry_scheduled"

\* The artifact of execution i, of attempt a of j, is there.
Kept(j, a, i) == [job |-> j, attempt |-> a, by |-> i] \in artifacts

\* Rows and messages are those of the batch, and nobody asks for cancellation.
BatchOnly ==
  /\ cancelRequested = {}
  /\ \A n \in DOMAIN todo : todo[n] \in Batch
  /\ \A i \in Entries : stream[i].job \in Batch /\ status[stream[i].job] # "absent"
  /\ \A j \in Jobs : j \notin Batch => status[j] = "absent" /\ events[j] = <<>>

\* A later attempt follows a recorded retry.
RetriesShown ==
  /\ \A i \in Entries : stream[i].attempt > 1 => Shown(stream[i].job)
  /\ \A w \in Workers : wpc[w] = "publish" => Shown(JobOf(w))

\* No dispatch is blocked, and what is to be recorded has its artifact.
WorkersFit ==
  \A w \in Workers :
    /\ wpc[w] \notin {"blocked_ack", "blocked_commit"}
    /\ wpc[w] = "record" =>
         /\ "completed" \in RunnerOutcomes(JobOf(w))
         /\ Kept(JobOf(w), AttemptOf(w), wentry[w])

\* A job has at most one event of a terminal type, and that of its status.
EventsFit ==
  \A j \in Jobs :
    /\ \A n \in DOMAIN events[j] :
         /\ events[j][n].type \in TERMINAL_STATUSES =>
              Finalized(j) /\ status[j] = events[j][n].type
         /\ events[j][n].type = "completed" =>
              Kept(j, events[j][n].attempt, events[j][n].by)
    /\ \A m, n \in DOMAIN events[j] :
         {events[j][m].type, events[j][n].type} \subseteq TERMINAL_STATUSES => m = n

\* A job can end with status st: as its payload says, or for want of retries.
EndsAs(j, st) ==
  \/ st = "completed" /\ "completed" \in RunnerOutcomes(j)
  \/ st = "failed" /\ "policy" \in RunnerOutcomes(j)
  \/ st = "timed_out" /\ "timed_out" \in RunnerOutcomes(j)
  \/ st = "failed" /\ "transient" \in RunnerOutcomes(j) /\ Shown(j)

OutcomesFit ==
  \A j \in Jobs : Finalized(j) =>
    finalization[j].status = status[j] /\ EndsAs(j, status[j])

\* The second submission of a job that is submitted twice is counted.
ReplaysCounted ==
  /\ replays \in Nat
  /\ command = "reliability" /\ plan.repeat_idempotency_submissions =>
       \A j \in ReliabilityJobs : ModeOf[j] = "duplicate_submission" =>
         \/ status[j] = "absent"
         \/ replays > 0
         \/ phase = "replay" /\ Head(todo) = j

PlainRun ==
  command # "full_stack" =>
    BatchOnly /\ RetriesShown /\ WorkersFit /\ EventsFit /\ OutcomesFit /\ ReplaysCounted

TimeoutsCompleted ==
  plan.include_timeouts /\ \A j \in ReliabilityJobs :
    ModeOf[j] = "timeout" => finalization[j].status = "completed"

\* No job of the plan can show a retry or a replay that is insisted on.
Unplanned ==
  \/ plan.failure_rate > 0 /\ ~Planned("transient")
  \/ plan.repeat_idempotency_submissions /\ ~Planned("duplicate_submission")

\* Only evidence that was not planned, and a timeout that did not happen, keep a
\* report from being accepted.
ReportFits ==
  phase = "validate" =>
    /\ command = "smoke" => SmokeReportValid
    /\ command = "reliability" =>
         ReliabilityReportValid \/ Unplanned \/ TimeoutsCompleted

CauseInv ==
  /\ CertInv
  /\ PlainRun /\ ReportFits
  /\ RejectedForCause

-----------------------------------------------------------------------------
(* How the jobs of a batch can end *)

LEMMA BatchJobs ==
  ASSUME command \in {"smoke", "reliability"}, plan \in Plans, NEW j \in Batch
  PROVE  /\ j \in Jobs /\ JobSpec[j].job_type = "stub"
         /\ JobSpec[j].mode \in {"success", "transient_error", "policy_error", "sleep"}
         /\ JobSpec[j].mode = "transient_error" => MaxRetries(j) = 1
         /\ DispatchAllowed(j)
         /\ command = "smoke" => JobSpec[j].mode = "success"
         /\ command = "reliability" =>
              JobSpec[j].mode = payload_for_failure(ModeOf[j])
<1>1. Policy = StubPolicy
  BY SmokeAssumption
<1>2. CASE command = "smoke"
  <2>1. j \in Jobs /\ JobSpec[j] = SmokeSubmission
    BY <1>2, SmokeAssumption DEF Batch, BatchOf
  <2> QED
    BY <1>1, <1>2, <2>1
    DEF SmokeSubmission, DispatchAllowed, validate_dispatch, StubPolicy
<1>3. CASE command = "reliability"
  <2>1. /\ j \in Jobs /\ JobSpec[j] = ReliabilitySubmission(ModeOf[j])
        /\ ModeOf[j] \in FailureModes
    BY <1>3, CallOfBatch DEF Batch, BatchOf
  <2>2. payload_for_failure(ModeOf[j])
          \in {"success", "transient_error", "policy_error", "sleep"}
    BY DEF payload_for_failure
  <2>3. payload_for_failure(ModeOf[j]) = "transient_error" => ModeOf[j] = "transient"
    BY DEF payload_for_failure
  <2> QED
    BY <1>1, <1>3, <2>1, <2>2, <2>3
    DEF ReliabilitySubmission, DispatchAllowed, validate_dispatch, StubPolicy,
        MaxRetries
<1> QED
  BY <1>2, <1>3

\* The stub runner does what its payload says.
LEMMA StubOutcomes ==
  ASSUME NEW j, JobSpec[j].job_type = "stub", cancelRequested = {},
         JobSpec[j].mode \in {"success", "transient_error", "policy_error", "sleep"}
  PROVE  /\ "completed" \in RunnerOutcomes(j) <=> JobSpec[j].mode \in {"success", "sleep"}
         /\ "policy" \in RunnerOutcomes(j) <=> JobSpec[j].mode = "policy_error"
         /\ "timed_out" \in RunnerOutcomes(j) <=> JobSpec[j].mode = "sleep"
         /\ "transient" \in RunnerOutcomes(j) <=> JobSpec[j].mode = "transient_error"
         /\ "cancelled" \notin RunnerOutcomes(j)
<1>1. CASE JobSpec[j].mode = "success"
  <2>1. RunnerOutcomes(j) = {"completed"}
    BY <1>1 DEF RunnerOutcomes
  <2> QED
    BY <1>1, <2>1
<1>2. CASE JobSpec[j].mode = "transient_error"
  <2>1. RunnerOutcomes(j) = {"transient"}
    BY <1>2 DEF RunnerOutcomes
  <2> QED
    BY <1>2, <2>1
<1>3. CASE JobSpec[j].mode = "policy_error"
  <2>1. RunnerOutcomes(j) = {"policy"}
    BY <1>3 DEF RunnerOutcomes
  <2> QED
    BY <1>3, <2>1
<1>4. CASE JobSpec[j].mode = "sleep"
  <2>1. RunnerOutcomes(j) = {"completed", "timed_out"} \cup {}
    BY <1>4 DEF RunnerOutcomes
  <2> QED
    BY <1>4, <2>1
<1> QED
  BY <1>1, <1>2, <1>3, <1>4

-----------------------------------------------------------------------------
(* What a worker does to the jobs of a batch *)

\* Worker w moves on to pc, and nobody else moves.
Moves(w, pc) ==
  /\ wpc' = [wpc EXCEPT ![w] = pc]
  /\ \A v \in Workers \ {w} : wentry'[v] = wentry[v]

\* It takes an entry, or is done with one.
Handles(w) ==
  /\ UNCHANGED <<stream, status, finalization, events, artifacts>>
  /\ \E pc \in {"idle", "leased", "noop_ack"} : Moves(w, pc)

\* It records that its job runs, or is to be tried again.
Records(w) ==
  /\ wpc[w] # "idle" /\ UNCHANGED <<stream, finalization, artifacts, wentry>>
  /\ ~Finalized(JobOf(w))
  /\ \E st \in {"running", "queued"} : status' = [status EXCEPT ![JobOf(w)] = st]
  /\ \/ Moves(w, "running") /\ AppendEvent(JobOf(w), "running", AttemptOf(w), wentry[w])
     \/ /\ Moves(w, "publish")
        /\ AppendEvent(JobOf(w), "retry_scheduled", AttemptOf(w), wentry[w])

\* It finalizes its job.
Ends(w, st) ==
  /\ wpc[w] # "idle" /\ UNCHANGED <<stream, artifacts>>
  /\ ~Finalized(JobOf(w)) /\ EndsAs(JobOf(w), st)
  /\ st = "completed" => Kept(JobOf(w), AttemptOf(w), wentry[w])
  /\ finalization' = [finalization EXCEPT
                        ![JobOf(w)] = [status |-> st, event_type |-> st]]
  /\ status' = [status EXCEPT ![JobOf(w)] = st]
  /\ AppendEvent(JobOf(w), st, AttemptOf(w), wentry[w])
  /\ Moves(w, "ack")

LEMMA PlainWork ==
  ASSUME CertInv, PlainRun, command # "full_stack", NEW w \in Workers, WorkStep(w)
  PROVE  /\ cancelRequested' = cancelRequested
         /\ \/ Handles(w) \/ Records(w)
            \/ RunnerReturns(w) /\ Live(wentry[w])
            \/ \E st \in TERMINAL_STATUSES : Ends(w, st)
            \/ PublishRetry(w)
<1>a. /\ EntriesHeld /\ TablesOK /\ OneLiveEntry /\ Distinct
      /\ command \in {"smoke", "reliability"} /\ plan \in Plans
      /\ BatchOnly /\ RetriesShown /\ WorkersFit
      /\ wpc \in [Workers -> WorkerPcs] /\ wentry \in [Workers -> Nat]
  BY DEF CertInv, DrainInv, FileInv, Batched, Commands, Distinct, PlainRun, EntriesHeld
<1> SUFFICES ASSUME NEW j, j = JobOf(w), NEW a, a = AttemptOf(w)
             PROVE  /\ cancelRequested' = cancelRequested
                    /\ \/ Handles(w) \/ Records(w)
                       \/ RunnerReturns(w) /\ Live(wentry[w])
                       \/ \E st \in TERMINAL_STATUSES : Ends(w, st)
                       \/ PublishRetry(w)
  OBVIOUS
<1>b. wpc[w] # "idle" =>
        /\ wentry[w] \in Entries /\ stream[wentry[w]].job = j
        /\ j \in Batch /\ j \in Jobs /\ a \in Nat
        /\ wpc[w] \in Working => Live(wentry[w]) /\ ~Finalized(j)
  <2> SUFFICES ASSUME wpc[w] # "idle"
               PROVE  /\ wentry[w] \in Entries /\ stream[wentry[w]].job = j
                      /\ j \in Batch /\ j \in Jobs /\ a \in Nat
                      /\ wpc[w] \in Working => Live(wentry[w]) /\ ~Finalized(j)
    OBVIOUS
  <2>1. wentry[w] \in Entries /\ j \in Jobs /\ a \in Nat /\ stream[wentry[w]].job = j
    BY <1>a, HeldMessage DEF JobOf
  <2>2. wpc[w] \in Working => Live(wentry[w])
    BY DEF Live
  <2> QED
    BY <1>a, <2>1, <2>2 DEF BatchOnly, OneLiveEntry
<1>c. /\ "running" \in Working /\ "record" \in Working /\ "leased" \in Working
      /\ "completed" \in TERMINAL_STATUSES /\ "failed" \in TERMINAL_STATUSES
      /\ "timed_out" \in TERMINAL_STATUSES
  BY DEF Working, TERMINAL_STATUSES
<1>1. CASE Lease(w)
  BY <1>a, <1>1 DEF Lease, lease_jobs, storeVars, Handles, Moves
<1> SUFFICES ASSUME ~Lease(w)
             PROVE  /\ cancelRequested' = cancelRequested
                    /\ \/ Handles(w) \/ Records(w)
                       \/ RunnerReturns(w) /\ Live(wentry[w])
                       \/ \E st \in TERMINAL_STATUSES : Ends(w, st)
                       \/ PublishRetry(w)
  BY <1>1
<1>d. wpc[w] # "idle"
  BY <1>a, WorkerStepEffect DEF WorkStep
<1>e. /\ DispatchAllowed(j)
      /\ "cancelled" \notin RunnerOutcomes(j)
      /\ "transient" \in RunnerOutcomes(j) => MaxRetries(j) = 1
  <2>1. /\ JobSpec[j].job_type = "stub" /\ DispatchAllowed(j)
        /\ JobSpec[j].mode \in {"success", "transient_error", "policy_error", "sleep"}
        /\ JobSpec[j].mode = "transient_error" => MaxRetries(j) = 1
    BY <1>a, <1>b, <1>d, BatchJobs
  <2> QED
    BY <1>a, <2>1, StubOutcomes DEF BatchOnly
<1>2. CASE LoadTerminal(w) \/ AckTerminal(w) \/ AckProcessed(w)
  BY <1>a, <1>2 DEF LoadTerminal, AckTerminal, AckProcessed, acknowledge, GoTo, Return,
                    storeVars, queueVars, Handles, Moves
<1>3. CASE LoadBlocked(w) \/ AckBlocked(w) \/ CommitBlocked(w)
  BY <1>a, <1>e, <1>3 DEF LoadBlocked, AckBlocked, CommitBlocked, WorkersFit
<1>4. CASE record_running(w)
  <2>1. wpc[w] = "leased"
    BY <1>4 DEF record_running
  <2>2. ~Finalized(j)
    BY <1>b, <1>c, <1>d, <2>1
  <2> QED
    BY <1>4, <1>d, <2>2 DEF record_running, record_state_event, GoTo, queueVars, Records, Moves
<1>5. CASE RunnerReturns(w)
  BY <1>5, <1>b, <1>c, <1>d DEF RunnerReturns
<1>6. ASSUME NEW st \in {"completed", "failed", "timed_out"},
             finalize_job(j, st, st, a, wentry[w]), wpc[w] \in Working, EndsAs(j, st),
             st = "completed" => Kept(j, a, wentry[w]),
             GoTo(w, "ack"), UNCHANGED <<stream, artifacts, cancelRequested>>
      PROVE  cancelRequested' = cancelRequested
             /\ \E s \in TERMINAL_STATUSES : Ends(w, s)
  <2>1. ~Finalized(j)
    BY <1>b, <1>d, <1>6
  <2> QED
    BY <1>6, <1>c, <1>d, <2>1 DEF finalize_job, GoTo, Ends, Moves
<1>7. CASE record_completed(w)
  <2>1. /\ wpc[w] = "record" /\ finalize_job(j, "completed", "completed", a, wentry[w])
        /\ GoTo(w, "ack") /\ UNCHANGED <<stream, artifacts, cancelRequested>>
    BY <1>7 DEF record_completed, queueVars
  <2>2. Kept(j, a, wentry[w]) /\ EndsAs(j, "completed")
    BY <1>a, <2>1 DEF WorkersFit, EndsAs
  <2> QED
    BY <1>6, <1>c, <2>1, <2>2
<1>8. ASSUME NEW outcome, NEW st \in {"failed", "timed_out"},
             FinalizeAs(w, outcome, st, st),
             "failed" = st => \/ outcome = "policy"
                              \/ outcome = "transient" /\ Shown(j),
             "timed_out" = st => outcome = "timed_out"
      PROVE  cancelRequested' = cancelRequested
             /\ \E s \in TERMINAL_STATUSES : Ends(w, s)
  <2>1. /\ wpc[w] = "running" /\ outcome \in RunnerOutcomes(j)
        /\ finalize_job(j, st, st, a, wentry[w])
        /\ GoTo(w, "ack") /\ UNCHANGED <<stream, artifacts, cancelRequested>>
    BY <1>8 DEF FinalizeAs, queueVars
  <2>2. EndsAs(j, st)
    BY <1>8, <2>1 DEF EndsAs
  <2> QED
    BY <1>6, <1>8, <1>c, <2>1, <2>2
<1>9. CASE handle_policy_error(w) \/ handle_timeout(w)
  BY <1>8, <1>9 DEF handle_policy_error, handle_timeout
<1>10. CASE handle_cancellation(w)
  BY <1>10, <1>e DEF handle_cancellation, FinalizeAs
<1>11. CASE record_retry_scheduled(w)
  <2>1. wpc[w] = "running"
    BY <1>11 DEF record_retry_scheduled
  <2>2. ~Finalized(j)
    BY <1>b, <1>c, <1>d, <2>1
  <2> QED
    BY <1>11, <1>d, <2>2 DEF record_retry_scheduled, record_state_event, GoTo, queueVars,
                       Records, Moves
<1>12. CASE PublishRetry(w)
  BY <1>12 DEF PublishRetry
<1>13. CASE RetryOverBudget(w)
  <2>1. /\ a <= MaxRetries(j) /\ "transient" \in RunnerOutcomes(j)
        /\ ~validate_retry(Policy, a + 1)
    BY <1>13 DEF RetryOverBudget, FinalizeAs
  <2>2. a <= 1 /\ a \in Nat
    BY <1>b, <1>d, <1>e, <2>1
  <2>3. Policy.retry_budget = 2
    BY SmokeAssumption DEF StubPolicy
  <2> QED
    BY <2>1, <2>2, <2>3 DEF validate_retry
<1>14. CASE RetriesExhausted(w)
  <2>1. /\ a > MaxRetries(j) /\ "transient" \in RunnerOutcomes(j)
        /\ FinalizeAs(w, "transient", "failed", "failed")
    BY <1>14 DEF RetriesExhausted, FinalizeAs
  <2>2. a > 1
    BY <1>b, <1>d, <1>e, <2>1
  <2>3. Shown(j)
    BY <1>a, <1>b, <1>d, <2>2 DEF RetriesShown, AttemptOf
  <2> QED
    BY <1>8, <2>1, <2>3
<1> QED
  BY <1>2, <1>3, <1>4, <1>5, <1>7, <1>9, <1>10, <1>11, <1>12, <1>13, <1>14
  DEF WorkStep, WorkerStep

-----------------------------------------------------------------------------
(* The rows and events of a batch *)

\* Job j gets an event and a status, and is finalized if that is a terminal one.
Writes(j, type, a, b) ==
  /\ ~Finalized(j)
  /\ artifacts' = artifacts
  /\ AppendEvent(j, type, a, b)
  /\ \E st \in Statuses \ {"absent"} :
       /\ status' = [status EXCEPT ![j] = st]
       /\ \/ type \notin TERMINAL_STATUSES /\ finalization' = finalization
          \/ /\ type = st /\ EndsAs(j, st)
             /\ st = "completed" => Kept(j, a, b)
             /\ finalization' = [finalization EXCEPT
                                   ![j] = [status |-> st, event_type |-> st]]

\* That happens to a job of the batch, which has a row or gets it now.
RowWritten ==
  \E j \in Batch, type \in EventTypes, a, b \in Nat :
    Writes(j, type, a, b) /\ (status[j] # "absent" \/ (CreateStep /\ j = todo[1]))

NothingWritten ==
  /\ UNCHANGED <<status, finalization, events>>
  /\ \/ artifacts' = artifacts
     \/ \E w \in Workers : RunnerReturns(w) /\ Live(wentry[w])

\* A step of a command without a rival writes the row of one job, or none.
LEMMA PlainWrites ==
  ASSUME CertInv, PlainRun, command # "full_stack", [Next]_vars
  PROVE  /\ cancelRequested' = cancelRequested /\ Batch' = Batch
         /\ NothingWritten \/ RowWritten
<1>a. /\ FileInv /\ DrainInv /\ EntriesHeld /\ Batched /\ TablesOK /\ BatchOnly
  BY DEF CertInv, DrainInv, FileInv, PlainRun
<1>0. Batch' = Batch
  BY <1>a, SameCall DEF Batch, BatchOf, ReliabilityJobs
<1>b. /\ \A st \in {"submitted", "running", "queued"} :
           st \in Statuses \ {"absent"} /\ st \notin TERMINAL_STATUSES
      /\ \A type \in {"submitted", "running", "retry_scheduled"} :
           type \in EventTypes /\ type \notin TERMINAL_STATUSES
      /\ \A st \in TERMINAL_STATUSES : st \in Statuses \ {"absent"} /\ st \in EventTypes
      /\ "absent" \notin TERMINAL_STATUSES
  BY DEF Statuses, EventTypes, TERMINAL_STATUSES, RetryEventTypes, TerminalEventTypes
<1>1. CASE QuietStep \/ SubmitStep
  BY <1>0, <1>1 DEF QuietStep, SubmitStep, QueueAndWorkersRest, NothingWritten
<1>2. CASE CreateStep
  <2> SUFFICES ASSUME NEW j, j = todo[1]
               PROVE  /\ cancelRequested' = cancelRequested
                      /\ j \in Batch /\ Writes(j, "submitted", 0, 0)
    BY <1>0, <1>2, <1>b DEF RowWritten
  <2>1. /\ create_job(j) /\ QueueAndWorkersRest /\ todo # <<>> /\ j \in Jobs
        /\ todo \in Seq(Jobs)
    BY <1>a, <1>2 DEF CreateStep, JobAt, Batched
  <2>2. 1 \in DOMAIN todo
    BY <2>1
  <2>3. j \in Batch
    BY <1>a, <2>2 DEF BatchOnly
  <2>4. ~Finalized(j)
    BY <1>a, <1>b, <2>1 DEF create_job, TablesOK
  <2> QED
    BY <1>b, <2>1, <2>3, <2>4 DEF create_job, QueueAndWorkersRest, Writes
<1>3. ASSUME NEW w \in Workers, WorkStep(w)
      PROVE  /\ cancelRequested' = cancelRequested
             /\ NothingWritten \/ RowWritten
  <2>1. /\ cancelRequested' = cancelRequested
        /\ \/ Handles(w) \/ Records(w)
           \/ RunnerReturns(w) /\ Live(wentry[w])
           \/ \E st \in TERMINAL_STATUSES : Ends(w, st)
           \/ PublishRetry(w)
    BY <1>3, PlainWork
  <2>2. CASE Handles(w) \/ PublishRetry(w) \/ (RunnerReturns(w) /\ Live(wentry[w]))
    BY <2>1, <2>2 DEF Handles, RunnerReturns, PublishRetry, storeVars, NothingWritten
  <2> SUFFICES ASSUME Records(w) \/ \E st \in TERMINAL_STATUSES : Ends(w, st)
               PROVE  RowWritten
    BY <2>1, <2>2
  <2> SUFFICES ASSUME NEW j, j = JobOf(w), NEW a, a = AttemptOf(w),
                      NEW b, b = wentry[w]
               PROVE  RowWritten
    OBVIOUS
  <2>3. wpc[w] # "idle"
    BY DEF Records, Ends
  <2>4. /\ b \in Entries /\ stream[b].job = j /\ a \in Nat /\ b \in Nat
        /\ j \in Batch /\ status[j] # "absent"
    BY <1>a, <2>3, HeldMessage DEF JobOf, Entries, BatchOnly, EntriesHeld
  <2>5. CASE Records(w)
    <3>1. PICK st \in {"running", "queued"} : status' = [status EXCEPT ![j] = st]
      BY <2>5 DEF Records
    <3>2. PICK type \in {"running", "retry_scheduled"} : AppendEvent(j, type, a, b)
      BY <2>5 DEF Records
    <3>3. Writes(j, type, a, b) /\ type \in EventTypes
      BY <1>b, <2>5, <3>1, <3>2 DEF Records, Writes
    <3> QED
      BY <2>4, <3>3 DEF RowWritten
  <2>6. ASSUME NEW st \in TERMINAL_STATUSES, Ends(w, st)
        PROVE  RowWritten
    <3>1. /\ ~Finalized(j) /\ artifacts' = artifacts /\ AppendEvent(j, st, a, b)
          /\ status' = [status EXCEPT ![j] = st] /\ EndsAs(j, st)
          /\ st = "completed" => Kept(j, a, b)
          /\ finalization' = [finalization EXCEPT
                                ![j] = [status |-> st, event_type |-> st]]
      BY <2>6 DEF Ends
    <3>2. st \in Statuses \ {"absent"}
      BY <1>b
    <3>3. Writes(j, st, a, b)
      BY <3>1, <3>2 DEF Writes
    <3> QED
      BY <1>b, <2>4, <3>3 DEF RowWritten
  <2> QED
    BY <2>5, <2>6
<1>4. ASSUME NEW w \in Workers, FailStep(w)
      PROVE  cancelRequested' = cancelRequested /\ NothingWritten
  BY <1>4 DEF FailStep, Abort, NothingWritten
<1>5. ~DropStep
  BY DEF DropStep
<1> QED
  BY <1>0, <1>1, <1>2, <1>3, <1>4, <1>5, <1>a, StepShapes

LEMMA WriteEffect ==
  ASSUME CertInv, NEW j \in Jobs, NEW type \in EventTypes, NEW a \in Nat, NEW b \in Nat,
         Writes(j, type, a, b), NEW n, n = Len(events[j]) + 1
  PROVE  /\ \A k \in Jobs \ {j} : /\ status'[k] = status[k] /\ events'[k] = events[k]
                                  /\ finalization'[k] = finalization[k]
         /\ status'[j] # "absent"
         /\ DOMAIN events'[j] = DOMAIN events[j] \cup {n} /\ n \notin DOMAIN events[j]
         /\ \A m \in DOMAIN events[j] : events'[j][m] = events[j][m]
         /\ events'[j][n].type = type
         /\ events'[j][n].attempt = a /\ events'[j][n].by = b
         /\ Finalized(j)' <=> type \in TERMINAL_STATUSES
         /\ type \in TERMINAL_STATUSES =>
              /\ status'[j] = type /\ finalization'[j].status = type
              /\ EndsAs(j, type) /\ (type = "completed" => Kept(j, a, b))
<1> DEFINE ev == [type |-> type, attempt |-> a, by |-> b]
<1>1. ev \in Event /\ ev.type = type /\ ev.attempt = a /\ ev.by = b
  BY DEF Event
<1>2. /\ events' = [events EXCEPT ![j] = Append(@, ev)]
      /\ events \in [Jobs -> Seq(Event)]
  BY DEF Writes, AppendEvent, CertInv, CompletedLogged
<1> HIDE DEF ev
<1>3. /\ events'[j] = Append(events[j], ev) /\ events[j] \in Seq(Event)
      /\ \A k \in Jobs \ {j} : events'[k] = events[k]
  BY <1>2
<1>4. /\ DOMAIN events'[j] = DOMAIN events[j] \cup {n} /\ n \notin DOMAIN events[j]
      /\ \A m \in DOMAIN events[j] : events'[j][m] = events[j][m]
      /\ events'[j][n] = ev
  BY <1>1, <1>3
<1>5. /\ status \in [Jobs -> Statuses] /\ finalization \in [Jobs -> Finalization]
      /\ "none" \notin TERMINAL_STATUSES
  BY DEF CertInv, DrainInv, TablesOK, TERMINAL_STATUSES
<1>6. PICK st \in Statuses \ {"absent"} :
        /\ status' = [status EXCEPT ![j] = st]
        /\ \/ type \notin TERMINAL_STATUSES /\ finalization' = finalization
           \/ /\ type = st /\ EndsAs(j, st)
              /\ st = "completed" => Kept(j, a, b)
              /\ finalization' = [finalization EXCEPT
                                    ![j] = [status |-> st, event_type |-> st]]
  BY DEF Writes
<1>7. ~Finalized(j) /\ (EndsAs(j, type) => type \in TERMINAL_STATUSES)
  BY DEF Writes, EndsAs, TERMINAL_STATUSES
<1>8. CASE type \notin TERMINAL_STATUSES /\ finalization' = finalization
  BY <1>1, <1>3, <1>4, <1>5, <1>6, <1>7, <1>8 DEF Finalized
<1>9. CASE /\ type = st /\ EndsAs(j, st)
           /\ st = "completed" => Kept(j, a, b)
           /\ finalization' = [finalization EXCEPT
                                 ![j] = [status |-> st, event_type |-> st]]
  BY <1>1, <1>3, <1>4, <1>5, <1>6, <1>7, <1>9 DEF Finalized
<1> QED
  BY <1>6, <1>8, <1>9

\* What was recorded of a job stays.
LEMMA ShownStays ==
  ASSUME CertInv, PlainRun, command # "full_stack", [Next]_vars,
         NEW k \in Jobs, Shown(k)
  PROVE  Shown(k)'
<1>1. CASE NothingWritten
  BY <1>1 DEF NothingWritten, Shown
<1>2. ASSUME NEW j \in Batch, NEW type \in EventTypes, NEW a \in Nat, NEW b \in Nat,
             Writes(j, type, a, b)
      PROVE  Shown(k)'
  <2>1. j \in Jobs
    BY BatchJobs DEF CertInv, DrainInv, FileInv, Batched, Commands
  <2>2. /\ DOMAIN events[k] \subseteq DOMAIN events'[k]
        /\ \A m \in DOMAIN events[k] : events'[k][m] = events[k][m]
    <3> SUFFICES ASSUME NEW n, n = Len(events[j]) + 1
                 PROVE  /\ DOMAIN events[k] \subseteq DOMAIN events'[k]
                        /\ \A m \in DOMAIN events[k] : events'[k][m] = events[k][m]
      OBVIOUS
    <3>1. /\ \A l \in Jobs \ {j} : events'[l] = events[l]
          /\ DOMAIN events'[j] = DOMAIN events[j] \cup {n}
          /\ \A m \in DOMAIN events[j] : events'[j][m] = events[j][m]
      BY <1>2, <2>1, WriteEffect
    <3> QED
      BY <3>1
  <2> QED
    BY <2>2 DEF Shown
<1> QED
  BY <1>1, <1>2, PlainWrites DEF RowWritten

\* An artifact is written again only for a job that is not decided, by the one
\* worker that executes it.
LEMMA KeptStays ==
  ASSUME CertInv, PlainRun, command # "full_stack", [Next]_vars,
         NEW k \in Jobs, NEW a, NEW i, Kept(k, a, i),
         \/ Finalized(k)
         \/ \E v \in Workers : wpc[v] = "record" /\ JobOf(v) = k
  PROVE  Kept(k, a, i)'
<1>a. EntriesHeld /\ OneLiveEntry /\ Distinct
  BY DEF CertInv, DrainInv, FileInv, Distinct
<1>1. CASE artifacts' = artifacts
  BY <1>1 DEF Kept
<1>2. ASSUME NEW w \in Workers, RunnerReturns(w), Live(wentry[w])
      PROVE  Kept(k, a, i)'
  <2>1. wpc[w] = "running" /\ wentry[w] \in Entries /\ stream[wentry[w]].job = JobOf(w)
    BY <1>a, <1>2, HeldMessage DEF RunnerReturns, JobOf
  <2>2. ~Finalized(JobOf(w))
    BY <1>a, <1>2, <2>1 DEF OneLiveEntry
  <2>3. ASSUME NEW v \in Workers, wpc[v] = "record", JobOf(v) = JobOf(w)
        PROVE  FALSE
    <3>1. wentry[v] \in Entries /\ stream[wentry[v]].job = JobOf(w) /\ Live(wentry[v])
      BY <1>a, <2>3, HeldMessage DEF JobOf, Live, Working
    <3>2. wentry[v] = wentry[w]
      BY <1>a, <1>2, <2>1, <3>1 DEF OneLiveEntry
    <3> QED
      BY <1>a, <2>1, <2>3, <3>2 DEF EntriesHeld
  <2>4. k # JobOf(w)
    BY <2>2, <2>3
  <2> QED
    BY <1>2, <2>4 DEF RunnerReturns, write_stub_job_artifact, Kept
<1> QED
  BY <1>1, <1>2, PlainWrites DEF NothingWritten, RowWritten, Writes

-----------------------------------------------------------------------------
(* What holds of a batch goes on holding *)

LEMMA NextBatchOnly ==
  ASSUME CertInv, PlainRun, command # "full_stack", [Next]_vars
  PROVE  BatchOnly'
<1>a. /\ FileInv /\ EntriesHeld /\ Batched /\ FilesOfFullStack /\ BatchCovered
      /\ BatchOnly /\ TablesOK
      /\ cancelRequested' = cancelRequested /\ Batch' = Batch
      /\ command \in {"smoke", "reliability"}
  BY PlainWrites
  DEF CertInv, DrainInv, FileInv, FilesOK, Batched, Commands, PlainRun
<1>b. Batch \subseteq Jobs
  BY <1>a, BatchJobs DEF Batched
<1>1. \A n \in DOMAIN todo' : todo'[n] \in Batch
  <2>1. CASE todo' = todo
    BY <1>a, <2>1 DEF BatchOnly
  <2>2. CASE phase = "publish" /\ todo' = Tail(todo)
    <3>1. todo \in Seq(Jobs) /\ todo # <<>>
      BY <1>a, <2>2 DEF Batched, Submitting
    <3>2. \A n \in DOMAIN Tail(todo) :
            n + 1 \in DOMAIN todo /\ Tail(todo)[n] = todo[n + 1]
      BY <3>1
    <3> QED
      BY <1>a, <2>2, <3>2 DEF BatchOnly
  <2> QED
    BY <1>a, <2>1, <2>2, TodoSteps
<1>2. /\ \A j \in Jobs : status[j] # "absent" => status'[j] # "absent"
      /\ \A j \in Jobs \ Batch : status'[j] = status[j] /\ events'[j] = events[j]
  <2>1. CASE NothingWritten
    BY <2>1 DEF NothingWritten
  <2>2. ASSUME NEW j \in Batch, NEW type \in EventTypes, NEW a \in Nat, NEW b \in Nat,
               Writes(j, type, a, b), NEW n, n = Len(events[j]) + 1
        PROVE  /\ \A k \in Jobs \ {j} : status'[k] = status[k] /\ events'[k] = events[k]
               /\ status'[j] # "absent"
    BY <1>b, <2>2, WriteEffect
  <2>3. ASSUME NEW j \in Batch, NEW type \in EventTypes, NEW a \in Nat, NEW b \in Nat,
               Writes(j, type, a, b)
        PROVE  <1>2!:
    BY <2>2, <2>3
  <2> QED
    BY <2>1, <2>3, PlainWrites DEF RowWritten
<1>3. ASSUME NEW j \in Batch, NEW a \in Nat, publish_job(j, a), status[j] # "absent"
      PROVE  \A i \in Entries' : stream'[i].job \in Batch /\ status'[stream'[i].job] # "absent"
  <2>1. /\ Entries' = Entries \cup {Len(stream) + 1}
        /\ \A i \in Entries : stream'[i] = stream[i]
        /\ stream'[Len(stream) + 1].job = j
    BY <1>a, <1>b, <1>3, Published
  <2> QED
    BY <1>a, <1>b, <1>2, <1>3, <2>1 DEF BatchOnly
<1>4. \A i \in Entries' : stream'[i].job \in Batch /\ status'[stream'[i].job] # "absent"
  <2>1. CASE stream' = stream
    BY <1>a, <1>b, <1>2, <2>1 DEF BatchOnly, Entries
  <2>2. CASE SubmitStep
    <3>1. /\ publish_job(todo[1], 1) /\ todo # <<>> /\ phase = "publish"
          /\ todo \in Seq(Jobs)
      BY <1>a, <2>2 DEF SubmitStep, JobAt, Batched
    <3>2. 1 \in DOMAIN todo /\ Head(todo) = todo[1]
      BY <3>1
    <3> QED
      BY <1>a, <1>3, <3>1, <3>2 DEF BatchOnly, BatchCovered, Between
  <2>3. ASSUME NEW w \in Workers, PublishRetry(w)
        PROVE  <1>4!:
    <3>1. publish_job(JobOf(w), AttemptOf(w) + 1) /\ wpc[w] = "publish"
      BY <2>3 DEF PublishRetry
    <3>2. /\ JobOf(w) = stream[wentry[w]].job /\ wentry[w] \in Entries
          /\ AttemptOf(w) + 1 \in Nat
      BY <1>a, <3>1, HeldMessage DEF JobOf
    <3> QED
      BY <1>a, <1>3, <3>1, <3>2 DEF BatchOnly
  <2>4. ASSUME NEW w \in Workers, WorkStep(w)
        PROVE  stream' = stream \/ PublishRetry(w)
    BY <1>a, <2>4, WorkerStepEffect DEF WorkStep
  <2>5. ASSUME NEW w \in Workers, FailStep(w)
        PROVE  stream' = stream
    BY <2>5 DEF FailStep, Abort, queueVars
  <2>6. CASE QuietStep \/ CreateStep \/ DropStep
    BY <2>1, <2>6 DEF QuietStep, CreateStep, DropStep, QueueAndWorkersRest
  <2> QED
    BY <1>a, <2>1, <2>2, <2>3, <2>4, <2>5, <2>6, StepShapes
<1> QED
  BY <1>a, <1>1, <1>2, <1>4 DEF BatchOnly

LEMMA NextEventsFit ==
  ASSUME CertInv, PlainRun, command # "full_stack", [Next]_vars
  PROVE  EventsFit'
<1>a. /\ EventsFit /\ TablesOK /\ command \in {"smoke", "reliability"} /\ plan \in Plans
      /\ events \in [Jobs -> Seq(Event)]
  BY DEF CertInv, DrainInv, FileInv, Batched, Commands, PlainRun, CompletedLogged
<1>1. \A k \in Jobs : \A n \in DOMAIN events[k] : events[k][n].type = "completed" =>
        [job |-> k, attempt |-> events[k][n].attempt, by |-> events[k][n].by]
          \in artifacts'
  <2> SUFFICES ASSUME NEW k \in Jobs, NEW n \in DOMAIN events[k],
                      events[k][n].type = "completed",
                      NEW a, a = events[k][n].attempt, NEW i, i = events[k][n].by
               PROVE  Kept(k, a, i)'
    BY DEF Kept
  <2>1. Finalized(k) /\ Kept(k, a, i)
    BY <1>a DEF EventsFit, TERMINAL_STATUSES
  <2> QED
    BY <2>1, KeptStays
<1>2. CASE NothingWritten
  <2>1. UNCHANGED <<status, finalization, events>>
    BY <1>2 DEF NothingWritten
  <2> QED
    BY <1>a, <1>1, <2>1 DEF EventsFit, Finalized, Kept
<1>3. ASSUME NEW j \in Batch, NEW type \in EventTypes, NEW a \in Nat, NEW b \in Nat,
             Writes(j, type, a, b), NEW n, n = Len(events[j]) + 1
      PROVE  EventsFit'
  <2>1. j \in Jobs /\ ~Finalized(j) /\ artifacts' = artifacts
    BY <1>a, <1>3, BatchJobs DEF Writes
  <2>2. /\ \A k \in Jobs \ {j} : /\ status'[k] = status[k] /\ events'[k] = events[k]
                                 /\ finalization'[k] = finalization[k]
        /\ DOMAIN events'[j] = DOMAIN events[j] \cup {n} /\ n \notin DOMAIN events[j]
        /\ \A m \in DOMAIN events[j] : events'[j][m] = events[j][m]
        /\ events'[j][n].type = type
        /\ events'[j][n].attempt = a /\ events'[j][n].by = b
        /\ Finalized(j)' <=> type \in TERMINAL_STATUSES
        /\ type \in TERMINAL_STATUSES =>
             status'[j] = type /\ (type = "completed" => Kept(j, a, b))
    BY <1>3, <2>1, WriteEffect
  <2>3. \A m \in DOMAIN events[j] : events[j][m].type \notin TERMINAL_STATUSES
    BY <1>a, <2>1 DEF EventsFit
  <2>4. "completed" \in TERMINAL_STATUSES
    BY DEF TERMINAL_STATUSES
  <2> SUFFICES ASSUME NEW k \in Jobs
               PROVE  /\ \A m \in DOMAIN events'[k] :
                           /\ events'[k][m].type \in TERMINAL_STATUSES =>
                                Finalized(k)' /\ status'[k] = events'[k][m].type
                           /\ events'[k][m].type = "completed" =>
                                [job |-> k, attempt |-> events'[k][m].attempt,
                                 by |-> events'[k][m].by] \in artifacts'
                      /\ \A l, m \in DOMAIN events'[k] :
                           {events'[k][l].type, events'[k][m].type}
                             \subseteq TERMINAL_STATUSES => l = m
    BY DEF EventsFit, Finalized, Kept
  <2>5. CASE k # j
    <3>1. /\ status'[k] = status[k] /\ events'[k] = events[k]
          /\ Finalized(k)' <=> Finalized(k)
      BY <2>2, <2>5 DEF Finalized
    <3> QED
      BY <1>a, <2>1, <3>1 DEF EventsFit, Kept
  <2>6. CASE k = j
    BY <2>1, <2>2, <2>3, <2>4, <2>6 DEF Kept
  <2> QED
    BY <2>5, <2>6
<1>4. ASSUME NEW j \in Batch, NEW type \in EventTypes, NEW a \in Nat, NEW b \in Nat,
             Writes(j, type, a, b)
      PROVE  EventsFit'
  BY <1>3, <1>4
<1> QED
  BY <1>2, <1>4, PlainWrites DEF RowWritten

LEMMA NextOutcomes ==
  ASSUME CertInv, PlainRun, command # "full_stack", [Next]_vars
  PROVE  OutcomesFit'
<1>a. /\ OutcomesFit /\ command \in {"smoke", "reliability"} /\ plan \in Plans
      /\ \A k : RunnerOutcomes(k)' = RunnerOutcomes(k)
  <2>1. cancelRequested' = cancelRequested
    BY PlainWrites
  <2>2. \A k : RunnerOutcomes(k)' = RunnerOutcomes(k)
    BY <2>1 DEF RunnerOutcomes
  <2> QED
    BY <2>2 DEF CertInv, DrainInv, FileInv, Batched, Commands, PlainRun
<1>b. ASSUME NEW k \in Jobs, NEW st, EndsAs(k, st), status'[k] = st,
             finalization'[k].status = st
      PROVE  (finalization[k].status = status[k] /\ EndsAs(k, status[k]))'
  <2>1. Shown(k) => Shown(k)'
    BY ShownStays
  <2>2. RunnerOutcomes(k)' = RunnerOutcomes(k)
    BY <1>a
  <2> QED
    BY <1>b, <2>1, <2>2 DEF EndsAs
<1>1. CASE NothingWritten
  <2> SUFFICES ASSUME NEW k \in Jobs, Finalized(k)'
               PROVE  (finalization[k].status = status[k] /\ EndsAs(k, status[k]))'
    BY DEF OutcomesFit
  <2>1. Finalized(k) /\ status' = status /\ finalization' = finalization
    BY <1>1 DEF NothingWritten, Finalized
  <2> QED
    BY <1>a, <1>b, <2>1 DEF OutcomesFit
<1>2. ASSUME NEW j \in Batch, NEW type \in EventTypes, NEW a \in Nat, NEW b \in Nat,
             Writes(j, type, a, b), NEW n, n = Len(events[j]) + 1, NEW k \in Jobs,
             Finalized(k)'
      PROVE  (finalization[k].status = status[k] /\ EndsAs(k, status[k]))'
  <2>1. j \in Jobs
    BY <1>a, BatchJobs
  <2>2. /\ \A l \in Jobs \ {j} : /\ status'[l] = status[l]
                                 /\ finalization'[l] = finalization[l]
        /\ Finalized(j)' <=> type \in TERMINAL_STATUSES
        /\ type \in TERMINAL_STATUSES =>
             status'[j] = type /\ finalization'[j].status = type /\ EndsAs(j, type)
    BY <1>2, <2>1, WriteEffect
  <2>3. CASE k = j
    BY <1>2, <1>b, <2>2, <2>3
  <2>4. CASE k # j
    <3>1. Finalized(k) /\ status'[k] = status[k] /\ finalization'[k] = finalization[k]
      BY <1>2, <2>2, <2>4 DEF Finalized
    <3> QED
      BY <1>a, <1>b, <3>1 DEF OutcomesFit
  <2> QED
    BY <2>3, <2>4
<1>3. ASSUME NEW j \in Batch, NEW type \in EventTypes, NEW a \in Nat, NEW b \in Nat,
             Writes(j, type, a, b)
      PROVE  OutcomesFit'
  <2>1. \A k \in Jobs : Finalized(k)' =>
          (finalization[k].status = status[k] /\ EndsAs(k, status[k]))'
    BY <1>2, <1>3
  <2> QED
    BY <2>1 DEF OutcomesFit
<1> QED
  BY <1>1, <1>3, PlainWrites DEF RowWritten

\* A worker that has something to record or to publish had it before, or gets it
\* with this step.
LEMMA WorkerCarries ==
  ASSUME CertInv, PlainRun, command # "full_stack", [Next]_vars, NEW v \in Workers
  PROVE  /\ wpc'[v] \notin {"blocked_ack", "blocked_commit"}
         /\ wpc'[v] \in {"record", "publish"} =>
              \/ /\ wpc[v] = wpc'[v] /\ wentry'[v] = wentry[v]
                 /\ JobOf(v)' = JobOf(v) /\ AttemptOf(v)' = AttemptOf(v)
              \/ wpc'[v] = "record" /\ RunnerReturns(v)
              \/ wpc'[v] = "publish" /\ Records(v)
         /\ \A i \in Entries' :
              \/ i \in Entries /\ stream'[i] = stream[i]
              \/ stream'[i].attempt = 1
              \/ \E w \in Workers : wpc[w] = "publish" /\ stream'[i].job = JobOf(w)
<1>a. /\ FileInv /\ EntriesHeld /\ Batched /\ WorkersFit
      /\ wpc \in [Workers -> WorkerPcs] /\ wentry \in [Workers -> Nat]
  BY DEF CertInv, DrainInv, FileInv, PlainRun, EntriesHeld
<1>b. wpc[v] \in {"record", "publish"} => wentry[v] \in Entries
  BY <1>a, HeldMessage
<1>1. ASSUME stream' = stream
      PROVE  \A i \in Entries' : i \in Entries /\ stream'[i] = stream[i]
  BY <1>1 DEF Entries
<1>2. ASSUME NEW j \in Jobs, NEW a \in Nat, publish_job(j, a)
      PROVE  /\ \A i \in Entries : stream'[i] = stream[i]
             /\ \A i \in Entries' :
                  \/ i \in Entries /\ stream'[i] = stream[i]
                  \/ stream'[i].attempt = a /\ stream'[i].job = j
  BY <1>a, <1>2, Published
<1>3. CASE QuietStep \/ CreateStep
  BY <1>1, <1>3, <1>a DEF QuietStep, CreateStep, QueueAndWorkersRest, WorkersFit,
                          JobOf, AttemptOf
<1>4. CASE SubmitStep
  <2>1. publish_job(todo[1], 1) /\ todo[1] \in Jobs /\ wpc' = wpc /\ wentry' = wentry
    BY <1>4 DEF SubmitStep, JobAt
  <2> QED
    BY <1>2, <1>a, <1>b, <2>1 DEF WorkersFit, JobOf, AttemptOf
<1>5. ASSUME NEW w \in Workers, FailStep(w)
      PROVE  /\ stream' = stream /\ wpc'[w] = "idle"
             /\ v # w => wpc'[v] = wpc[v] /\ wentry'[v] = wentry[v]
  BY <1>5, <1>a DEF FailStep, Abort, Return, queueVars
<1>6. ASSUME NEW w \in Workers, WorkStep(w)
      PROVE  /\ \A u \in Workers \ {w} : wpc'[u] = wpc[u] /\ wentry'[u] = wentry[u]
             /\ wpc'[w] \notin {"blocked_ack", "blocked_commit"}
             /\ wpc'[w] \in {"record", "publish"} =>
                  \/ wpc'[w] = "record" /\ RunnerReturns(w)
                  \/ wpc'[w] = "publish" /\ Records(w)
             /\ \/ stream' = stream
                \/ /\ wpc[w] = "publish" /\ JobOf(w) \in Jobs /\ AttemptOf(w) + 1 \in Nat
                   /\ publish_job(JobOf(w), AttemptOf(w) + 1)
  <2>1. CASE Handles(w)
    BY <1>a, <2>1 DEF Handles, Moves
  <2>2. CASE Records(w)
    BY <1>a, <2>2 DEF Records, Moves
  <2>3. CASE RunnerReturns(w)
    BY <1>a, <2>3 DEF RunnerReturns, GoTo, queueVars
  <2>4. CASE \E st \in TERMINAL_STATUSES : Ends(w, st)
    BY <1>a, <2>4 DEF Ends, Moves
  <2>5. CASE PublishRetry(w)
    <3>1. /\ wpc[w] = "publish" /\ GoTo(w, "ack")
          /\ publish_job(JobOf(w), AttemptOf(w) + 1)
      BY <2>5 DEF PublishRetry
    <3>2. JobOf(w) \in Jobs /\ AttemptOf(w) + 1 \in Nat
      BY <1>a, <3>1, HeldMessage
    <3> QED
      BY <1>a, <3>1, <3>2 DEF GoTo
  <2> QED
    BY <1>6, <2>1, <2>2, <2>3, <2>4, <2>5, PlainWork
<1>7. ASSUME NEW w \in Workers, FailStep(w) \/ WorkStep(w)
      PROVE  /\ \A i \in Entries : stream'[i] = stream[i]
             /\ \A i \in Entries' :
                  \/ i \in Entries /\ stream'[i] = stream[i]
                  \/ wpc[w] = "publish" /\ stream'[i].job = JobOf(w)
  <2>1. CASE stream' = stream
    BY <1>1, <2>1
  <2>2. CASE /\ wpc[w] = "publish" /\ JobOf(w) \in Jobs /\ AttemptOf(w) + 1 \in Nat
             /\ publish_job(JobOf(w), AttemptOf(w) + 1)
    BY <1>2, <2>2
  <2> QED
    BY <1>5, <1>6, <1>7, <2>1, <2>2
<1>8. ASSUME NEW w \in Workers, FailStep(w) \/ WorkStep(w)
      PROVE  /\ wpc'[v] \notin {"blocked_ack", "blocked_commit"}
             /\ wpc'[v] \in {"record", "publish"} =>
                  \/ /\ wpc[v] = wpc'[v] /\ wentry'[v] = wentry[v]
                     /\ JobOf(v)' = JobOf(v) /\ AttemptOf(v)' = AttemptOf(v)
                  \/ wpc'[v] = "record" /\ RunnerReturns(v)
                  \/ wpc'[v] = "publish" /\ Records(v)
  <2>1. CASE v = w
    BY <1>5, <1>6, <1>8, <2>1
  <2>2. CASE v # w
    <3>1. wpc'[v] = wpc[v] /\ wentry'[v] = wentry[v]
      BY <1>5, <1>6, <1>8, <2>2
    <3> QED
      BY <1>a, <1>b, <1>7, <1>8, <3>1 DEF WorkersFit, JobOf, AttemptOf
  <2> QED
    BY <2>1, <2>2
<1>9. ~DropStep
  BY DEF DropStep
<1> QED
  BY <1>3, <1>4, <1>7, <1>8, <1>9, <1>a, StepShapes

LEMMA NextRetries ==
  ASSUME CertInv, PlainRun, command # "full_stack", [Next]_vars
  PROVE  RetriesShown' /\ WorkersFit'
<1>a. /\ EntriesHeld /\ BatchOnly /\ RetriesShown /\ WorkersFit
      /\ \A k : RunnerOutcomes(k)' = RunnerOutcomes(k)
  <2>1. cancelRequested' = cancelRequested
    BY PlainWrites
  <2> QED
    BY <2>1 DEF CertInv, DrainInv, FileInv, PlainRun, RunnerOutcomes
<1>b. \A w \in Workers : wpc[w] # "idle" => JobOf(w) \in Jobs /\ wentry[w] \in Entries
  BY <1>a, HeldMessage
<1>c. \A i \in Entries : stream[i].job \in Jobs
  <2>1. \A i \in Entries : stream[i] \in QueueJobMessage
    BY <1>a DEF EntriesHeld, Entries
  <2> QED
    BY <2>1 DEF QueueJobMessage
<1>1. ASSUME NEW i \in Entries', stream'[i].attempt > 1
      PROVE  Shown(stream[i].job)'
  <2> SUFFICES ASSUME NEW k, k = stream'[i].job
               PROVE  Shown(k)'
    BY DEF Shown
  <2>1. k \in Jobs /\ Shown(k)
    <3>1. CASE i \in Entries /\ stream'[i] = stream[i]
      BY <1>a, <1>c, <1>1, <3>1 DEF RetriesShown
    <3>2. CASE \E w \in Workers : wpc[w] = "publish" /\ stream'[i].job = JobOf(w)
      BY <1>a, <1>b, <3>2 DEF RetriesShown
    <3>3. stream'[i].attempt # 1
      BY <1>1
    <3>4. Workers # {}
      BY PoolWorkers DEF CertInv, DrainInv, FileInv
    <3> QED
      BY <3>1, <3>2, <3>3, <3>4, WorkerCarries
  <2> QED
    BY <2>1, ShownStays
<1>2. ASSUME NEW v \in Workers, wpc'[v] = "publish"
      PROVE  Shown(JobOf(v))'
  <2> SUFFICES ASSUME NEW k, k = JobOf(v)'
               PROVE  Shown(k)'
    BY DEF Shown
  <2>1. CASE wpc[v] = "publish" /\ JobOf(v)' = JobOf(v)
    BY <1>a, <1>b, <2>1, ShownStays DEF RetriesShown
  <2>2. CASE Records(v)
    <3>1. /\ wpc[v] # "idle" /\ k = JobOf(v)
          /\ AppendEvent(k, "retry_scheduled", AttemptOf(v), wentry[v])
      BY <1>2, <1>a, <2>2 DEF Records, Moves, JobOf, EntriesHeld
    <3>2. /\ k \in Jobs /\ AttemptOf(v) \in Nat /\ wentry[v] \in Nat
          /\ "retry_scheduled" \in EventTypes /\ events \in [Jobs -> Seq(Event)]
      BY <1>a, <3>1, HeldMessage
      DEF EntriesHeld, EventTypes, RetryEventTypes, CertInv, CompletedLogged
    <3> QED
      BY <3>1, <3>2, Appended DEF Shown
  <2> QED
    BY <1>2, <2>1, <2>2, WorkerCarries
<1>3. ASSUME NEW v \in Workers, wpc'[v] = "record"
      PROVE  "completed" \in RunnerOutcomes(JobOf(v))'
             /\ Kept(JobOf(v), AttemptOf(v), wentry[v])'
  <2>1. CASE /\ wpc[v] = "record" /\ wentry'[v] = wentry[v]
             /\ JobOf(v)' = JobOf(v) /\ AttemptOf(v)' = AttemptOf(v)
    <3> SUFFICES ASSUME NEW k, k = JobOf(v), NEW a, a = AttemptOf(v),
                        NEW i, i = wentry[v]
                 PROVE  /\ "completed" \in RunnerOutcomes(k)
                        /\ Kept(k, a, i)'
      BY <1>a, <2>1 DEF Kept
    <3>1. k \in Jobs /\ "completed" \in RunnerOutcomes(k) /\ Kept(k, a, i)
      BY <1>a, <1>b, <2>1 DEF WorkersFit
    <3>2. Kept(k, a, i)'
      BY <2>1, <3>1, KeptStays
    <3> QED
      BY <3>1, <3>2
  <2>2. CASE RunnerReturns(v)
    <3>1. /\ "completed" \in RunnerOutcomes(JobOf(v))
          /\ JobOf(v)' = JobOf(v) /\ AttemptOf(v)' = AttemptOf(v) /\ wentry' = wentry
          /\ write_stub_job_artifact(JobOf(v), AttemptOf(v), wentry[v])
      BY <2>2 DEF RunnerReturns, GoTo, queueVars, JobOf, AttemptOf
    <3> QED
      BY <1>a, <3>1 DEF write_stub_job_artifact, Kept
  <2> QED
    BY <1>3, <2>1, <2>2, WorkerCarries
<1>4. RetriesShown'
  BY <1>1, <1>2 DEF RetriesShown
<1>5. WorkersFit'
  BY <1>3, WorkerCarries DEF WorkersFit
<1> QED
  BY <1>4, <1>5

\* Nobody but a replayed submission leaves the phase in which a job is submitted
\* again, and each counts.
LEMMA ReplaySteps ==
  ASSUME FileInv, RoundsOK, command # "full_stack", [Next]_vars
  PROVE  \/ replays' = replays /\ CreateReliabilityJob
         \/ replays' = replays /\ ~CreateStep /\ (phase = "replay" => phase' = "replay" /\ todo' = todo)
         \/ replays' = replays + 1 /\ phase = "replay" /\ status' = status /\ todo' = todo
         \/ replays' = replays /\ command = "smoke"
<1>a. Batched /\ \A w \in Workers : phase = "replay" => wpc[w] = "idle"
  BY DEF FileInv, RoundsOK
<1>1. CASE UNCHANGED vars
  BY <1>1 DEF vars, driverVars, proofVars, CreateStep, Between
<1>2. CASE PlainStep
  <2>1. CASE CreateSmokeJob /\ UNCHANGED proofVars
    BY <2>1 DEF CreateSmokeJob, proofVars
  <2>2. CASE CreateReliabilityJob
    BY <2>2 DEF CreateReliabilityJob, proofVars
  <2>3. CASE ReplaySubmission
    BY <2>3 DEF ReplaySubmission, storeVars
  <2>4. CASE Publish(Head(todo)) /\ UNCHANGED proofVars
    BY <2>4 DEF Publish, CreateStep, proofVars
  <2>5. CASE (validate_smoke_report /\ UNCHANGED proofVars) \/ validate_reliability_proof
    BY <2>5 DEF validate_smoke_report, validate_reliability_proof, Validate, CreateStep,
                proofVars
  <2> QED
    BY <1>2, <2>1, <2>2, <2>3, <2>4, <2>5 DEF PlainStep
<1>3. CASE (EndRound \/ build_smoke_report) /\ UNCHANGED <<proofVars, fullStackVars>>
  BY <1>3 DEF EndRound, build_smoke_report, CreateStep, proofVars
<1>4. ASSUME NEW w \in Workers, WorkerActs(w)
      PROVE  replays' = replays /\ phase # "replay" /\ phase # "create"
  <2>a. replays' = replays
    BY <1>4, EarlyEnds
  <2>1. CASE PlainProcess(w) \/ FindNothing(w) \/ CaseStep(w)
    BY <2>a, <2>1 DEF PlainProcess, Process, FindNothing, MayProcess, CaseStep, ProcessCase,
                CaseAnswered, CaseArtifact, RunningCase, CaseFails
  <2>2. CASE WorkerRaises(w) \/ Raises(w) \/ CaseRaises(w)
    BY <2>a, <2>2 DEF Raises, CaseRaises, WorkerRaises
  <2> QED
    BY <1>4, <2>1, <2>2, EarlyEnds DEF WorkerGoesOn
<1> QED
  BY <1>1, <1>2, <1>3, <1>4
  DEF Next, Drive, FullStackStep, Rival, CreateStep, WorkerActs

LEMMA NextReplays ==
  ASSUME CertInv, PlainRun, command # "full_stack", [Next]_vars
  PROVE  ReplaysCounted'
<1>a. /\ FileInv /\ RoundsOK /\ Batched /\ ReplaysCounted
      /\ command \in {"smoke", "reliability"} /\ command' = command
      /\ plan \in Plans /\ plan' = plan
      /\ TablesOK
  BY SameCall DEF CertInv, DrainInv, FileInv, Batched, Commands, PlainRun
<1>b. ReliabilityJobs \subseteq Jobs
  BY <1>a, CallOfBatch
<1>1. ~CreateStep => \A j \in Jobs : status[j] = "absent" => status'[j] = "absent"
  <2>1. CASE NothingWritten
    BY <2>1 DEF NothingWritten
  <2>2. ASSUME NEW j \in Batch, NEW type \in EventTypes, NEW a \in Nat, NEW b \in Nat,
               Writes(j, type, a, b), status[j] # "absent",
               NEW n, n = Len(events[j]) + 1, NEW k \in Jobs, status[k] = "absent"
        PROVE  status'[k] = "absent"
    <3>1. j \in Jobs /\ k # j
      BY <1>a, <2>2, BatchJobs DEF Batched
    <3>2. \A l \in Jobs \ {j} : status'[l] = status[l]
      BY <2>2, <3>1, WriteEffect
    <3> QED
      BY <2>2, <3>1, <3>2
  <2> QED
    BY <2>1, <2>2, PlainWrites DEF RowWritten
<1>2. replays' \in Nat
  BY <1>a, ReplaySteps DEF ReplaysCounted
<1> SUFFICES ASSUME command = "reliability", plan.repeat_idempotency_submissions,
                    NEW j \in ReliabilityJobs, ModeOf[j] = "duplicate_submission"
             PROVE  \/ status'[j] = "absent" \/ replays' > 0
                    \/ phase' = "replay" /\ Head(todo') = j
  BY <1>a, <1>2 DEF ReplaysCounted, ReliabilityJobs
<1>3. \/ status[j] = "absent" \/ replays > 0
      \/ phase = "replay" /\ Head(todo) = j
  BY <1>a DEF ReplaysCounted
<1>4. CASE replays' = replays /\ CreateReliabilityJob
  <2>1. /\ phase = "create" /\ create_job(Head(todo)) /\ todo' = todo
        /\ phase' = IF plan.repeat_idempotency_submissions
                         /\ ModeOf[Head(todo)] = "duplicate_submission"
                    THEN "replay" ELSE "publish"
    BY <1>4 DEF CreateReliabilityJob, Create
  <2>2. CASE Head(todo) = j
    BY <2>1, <2>2
  <2>3. CASE Head(todo) # j
    <3>1. status'[j] = status[j]
      BY <1>a, <1>b, <2>1, <2>3 DEF create_job, TablesOK
    <3> QED
      BY <1>3, <1>4, <2>1, <3>1
  <2> QED
    BY <2>2, <2>3
<1>5. CASE /\ replays' = replays /\ ~CreateStep
           /\ phase = "replay" => phase' = "replay" /\ todo' = todo
  BY <1>1, <1>3, <1>5, <1>b
<1>6. CASE replays' = replays + 1
  BY <1>a, <1>6 DEF ReplaysCounted
<1> QED
  BY <1>4, <1>5, <1>6, <1>a, ReplaySteps

-----------------------------------------------------------------------------
(* The report over a batch *)

\* With or without timeouts, transient jobs come first and repeated ones third.
LEMMA ModesOfPlan ==
  ASSUME NEW timeouts
  PROVE  /\ Len(PlannedModes(timeouts)) \in {3, 4}
         /\ PlannedModes(timeouts)[1] = "transient"
         /\ PlannedModes(timeouts)[3] = "duplicate_submission"
<1> DEFINE Modes == {"transient", "permanent", "duplicate_submission", "timeout"}
           always == <<"transient", "permanent", "duplicate_submission">>
           added == IF timeouts THEN <<"timeout">> ELSE <<>>
<1>1. /\ always \in Seq(Modes) /\ Len(always) = 3
      /\ always[1] = "transient" /\ always[3] = "duplicate_submission"
  OBVIOUS
<1>2. added \in Seq(Modes) /\ Len(added) \in {0, 1}
  <2>1. CASE timeouts
    <3>1. added = <<"timeout">> /\ <<"timeout">> \in Seq(Modes) /\ Len(<<"timeout">>) = 1
      BY <2>1
    <3> QED
      BY <3>1
  <2>2. CASE ~timeouts
    <3>1. added = <<>> /\ <<>> \in Seq(Modes) /\ Len(<<>>) = 0
      BY <2>2
    <3> QED
      BY <3>1
  <2> QED
    BY <2>1, <2>2
<1>3. ASSUME NEW S, NEW s \in Seq(S), NEW t \in Seq(S)
      PROVE  /\ Len(s \o t) = Len(s) + Len(t)
             /\ \A i \in 1 .. Len(s) : (s \o t)[i] = s[i]
  OBVIOUS
<1>4. PlannedModes(timeouts) = always \o added
  BY DEF PlannedModes
<1> HIDE DEF Modes, always, added
<1>5. /\ Len(always \o added) \in {3, 4}
      /\ (always \o added)[1] = "transient" /\ (always \o added)[3] = "duplicate_submission"
  <2>1. /\ Len(always \o added) = Len(always) + Len(added)
        /\ \A i \in 1 .. Len(always) : (always \o added)[i] = always[i]
    BY <1>1, <1>2, <1>3
  <2>2. Len(always \o added) \in {3, 4}
    <3>1. CASE Len(added) = 0
      BY <1>1, <2>1, <3>1
    <3>2. CASE Len(added) = 1
      BY <1>1, <2>1, <3>2
    <3> QED
      BY <1>2, <3>1, <3>2
  <2>3. 1 \in 1 .. Len(always) /\ 3 \in 1 .. Len(always)
    BY <1>1
  <2> QED
    BY <1>1, <2>1, <2>2, <2>3
<1> QED
  BY <1>4, <1>5

\* A plan for as many failures as there are modes has a job for each mode.
LEMMA ModesOccur ==
  ASSUME plan \in Plans, EveryModePlanned, NEW mode \in {"transient", "duplicate_submission"}
  PROVE  Planned(mode)
<1> DEFINE modes == PlannedModes(plan.include_timeouts)
           P == {n \in 0 .. (plan.failure_count - 1) :
                   PlannedMode(plan.include_timeouts, n) = mode}
           M == {j \in ReliabilityJobs : ModeOf[j] = mode}
<1>a. PlanHolds(plan)
  BY BatchAssumption
<1>1. /\ Len(modes) \in {3, 4}
      /\ modes[1] = "transient" /\ modes[3] = "duplicate_submission"
  BY ModesOfPlan
<1>2. plan.failure_count \in Int /\ plan.failure_count >= 3
  <2>1. plan.failure_count \in Nat
    BY <1>a DEF PlanHolds, PossibleFailureCounts
  <2> QED
    BY <1>1, <2>1 DEF EveryModePlanned
<1>3. /\ PlannedMode(plan.include_timeouts, 0) = "transient"
      /\ PlannedMode(plan.include_timeouts, 2) = "duplicate_submission"
  <2>1. 0 % Len(modes) = 0 /\ 2 % Len(modes) = 2
    BY <1>1
  <2> QED
    BY <1>1, <2>1 DEF PlannedMode
<1>4. \E n \in 0 .. (plan.failure_count - 1) : n \in P
  BY <1>2, <1>3
<1>5. Cardinality(P) # 0
  <2>1. IsFiniteSet(0 .. (plan.failure_count - 1))
    BY <1>2, FS_Interval
  <2>2. IsFiniteSet(P)
    BY <2>1, FS_Subset
  <2> QED
    BY <1>4, <2>2, FS_EmptySet
<1>6. Cardinality(M) = Cardinality(P)
  BY <1>a DEF PlanHolds, FailureModes, ReliabilityJobs
<1>7. M # {}
  BY <1>5, <1>6, FS_EmptySet
<1> QED
  BY <1>7 DEF Planned

\* A completed job has one event that says so.
LEMMA CompletedOnce ==
  ASSUME CompletedLogged, EventsFit, IsFiniteSet(WithStatus({"completed"}))
  PROVE  Cardinality(EventsOf({"completed"})) = Cardinality(WithStatus({"completed"}))
<1> DEFINE D == WithStatus({"completed"})
           E == EventsOf({"completed"})
           Says(j, n) == n \in DOMAIN events[j] /\ events[j][n].type = "completed"
           f == [j \in D |-> <<j, CHOOSE n \in DOMAIN events[j] : Says(j, n)>>]
<1>1. D = {j \in Jobs : status[j] = "completed"}
  BY DEF WithStatus
<1>2. \A e : e \in E <=> \E j \in Jobs : \E n \in DOMAIN events[j] :
        e = <<j, n>> /\ Says(j, n)
  BY DEF EventsOf
<1>3. \A j \in D : \E n \in DOMAIN events[j] : Says(j, n)
  BY <1>1 DEF CompletedLogged
<1>4. ASSUME NEW j \in Jobs, NEW m, NEW n, Says(j, m), Says(j, n)
      PROVE  m = n /\ j \in D
  BY <1>1, <1>4 DEF EventsFit, TERMINAL_STATUSES
<1> HIDE DEF D, E, Says
<1>5. \A j \in D : j \in Jobs /\ f[j] = <<j, f[j][2]>> /\ f[j] \in E /\ Says(j, f[j][2])
  BY <1>1, <1>2, <1>3
<1>6. f \in [D -> E]
  BY <1>5
<1>7. \A e \in E : \E j \in D : f[j] = e
  <2> SUFFICES ASSUME NEW e \in E
               PROVE  \E j \in D : f[j] = e
    OBVIOUS
  <2>1. PICK j \in Jobs : \E n \in DOMAIN events[j] : e = <<j, n>> /\ Says(j, n)
    BY <1>2
  <2>2. PICK n \in DOMAIN events[j] : e = <<j, n>> /\ Says(j, n)
    BY <2>1
  <2>3. j \in D
    BY <1>4, <2>2
  <2>4. f[j] = <<j, f[j][2]>> /\ Says(j, f[j][2])
    BY <1>5, <2>3
  <2>5. f[j][2] = n
    BY <1>4, <2>2, <2>4
  <2> QED
    BY <2>2, <2>3, <2>4, <2>5
<1>8. \A i, j \in D : f[i] = f[j] => i = j
  <2> SUFFICES ASSUME NEW i \in D, NEW j \in D, f[i] = f[j]
               PROVE  i = j
    OBVIOUS
  <2>1. f[i][1] = i /\ f[j][1] = j
    OBVIOUS
  <2> QED
    BY <2>1
<1> HIDE DEF f
<1>9. f \in Surjection(D, E) /\ f \in Injection(D, E)
  BY <1>6, <1>7, <1>8 DEF Surjection, Injection, IsInjective
<1>10. IsFiniteSet(D)
  BY DEF D
<1>11. Cardinality(E) = Cardinality(D)
  BY <1>9, <1>10, FS_Surjection
<1> QED
  BY <1>11 DEF D, E

\* A run has finitely many events.
LEMMA FiniteEvents ==
  ASSUME CompletedLogged, BatchOnly, IsFiniteSet(Batch), Batch \subseteq Jobs, NEW S
  PROVE  IsFiniteSet(EventsOf(S))
<1> DEFINE All(j) == {<<j, n>> : n \in DOMAIN events[j]}
           T == {All(j) : j \in Batch}
           f == [j \in Batch |-> All(j)]
<1>1. ASSUME NEW j \in Batch
      PROVE  IsFiniteSet(All(j))
  <2> DEFINE g == [n \in DOMAIN events[j] |-> <<j, n>>]
  <2>1. events[j] \in Seq(Event)
    BY DEF CompletedLogged
  <2>2. Len(events[j]) \in Nat /\ DOMAIN events[j] = 1 .. Len(events[j])
    BY <2>1
  <2>3. IsFiniteSet(DOMAIN events[j])
    BY <2>2, FS_Interval
  <2>4. g \in Surjection(DOMAIN events[j], All(j))
    BY DEF Surjection
  <2> QED
    BY <2>3, <2>4, FS_Surjection
<1>2. EventsOf(S) \subseteq UNION T
  <2> SUFFICES ASSUME NEW e \in EventsOf(S)
               PROVE  \E j \in Batch : e \in All(j)
    OBVIOUS
  <2>1. PICK j \in Jobs : \E n \in DOMAIN events[j] : e = <<j, n>>
    BY DEF EventsOf
  <2>2. j \in Batch
    BY <2>1 DEF BatchOnly
  <2> QED
    BY <2>1, <2>2
<1>3. f \in Surjection(Batch, T)
  BY DEF Surjection
<1> HIDE DEF f
<1>4. IsFiniteSet(T)
  BY <1>3, FS_Surjection
<1>5. IsFiniteSet(UNION T)
  BY <1>1, <1>4, FS_UNION
<1> QED
  BY <1>2, <1>5, FS_Subset

\* What a report is built over: every job of the batch, decided once.
LEMMA ReportedBatch ==
  ASSUME CertInv, PlainRun, command # "full_stack", phase = "report"
  PROVE  /\ IsFiniteSet(Batch) /\ Batch \subseteq Jobs
         /\ {j \in Jobs : status[j] # "absent"} = Batch
         /\ \A j \in Batch : Finalized(j)
         /\ WithStatus(TERMINAL_STATUSES) = Batch
         /\ duplicate_terminal_events = {}
<1>a. /\ DrainInv /\ FileInv /\ Batched /\ TablesOK /\ BatchOnly /\ EventsFit
      /\ command \in {"smoke", "reliability"}
  BY DEF CertInv, DrainInv, FileInv, Batched, Commands, PlainRun
<1>1. IsFiniteSet(Batch) /\ Batch \subseteq Jobs
  BY <1>a, SmokeAssumption, CallOfBatch DEF Batched, Batch, BatchOf
<1>2. /\ todo = <<>> /\ delivered = Len(stream) /\ ~Between
      /\ \A w \in Workers : wpc[w] = "idle"
  BY <1>a DEF DrainInv, RoundsOK, TodoUntouched, Reported, Between
<1>3. \A j \in Batch : status[j] # "absent"
  BY <1>a, <1>2 DEF DrainInv, BatchCovered, Batch
<1>4. {j \in Jobs : status[j] # "absent"} = Batch
  BY <1>1, <1>3, <1>a DEF BatchOnly
<1>5. \A i \in Entries : ~Live(i)
  <2>1. Len(stream) \in Nat
    BY <1>a DEF FileInv, EntriesHeld
  <2> QED
    BY <1>2, <2>1 DEF Live, Entries, Working
<1>6. \A j \in Batch : Finalized(j)
  BY <1>1, <1>2, <1>3, <1>5, <1>a DEF DrainInv, RowsCovered, LiveEntry
<1>7. WithStatus(TERMINAL_STATUSES) = Batch
  <2>1. "absent" \notin TERMINAL_STATUSES
    BY DEF TERMINAL_STATUSES
  <2> QED
    BY <1>1, <1>4, <1>6, <1>a, <2>1 DEF WithStatus, TablesOK
<1>8. duplicate_terminal_events = {}
  <2> SUFFICES ASSUME NEW j \in Jobs, NEW e \in EventsOf(TERMINAL_STATUSES),
                      NEW f \in EventsOf(TERMINAL_STATUSES),
                      e # f, e[1] = j, f[1] = j
               PROVE  FALSE
    BY DEF duplicate_terminal_events
  <2>1. ASSUME NEW g \in EventsOf(TERMINAL_STATUSES), g[1] = j
        PROVE  \E n \in DOMAIN events[j] :
                 g = <<j, n>> /\ events[j][n].type \in TERMINAL_STATUSES
    <3>1. PICK k \in Jobs : \E n \in DOMAIN events[k] :
            g = <<k, n>> /\ events[k][n].type \in TERMINAL_STATUSES
      BY DEF EventsOf
    <3> QED
      BY <2>1, <3>1
  <2>2. PICK m \in DOMAIN events[j] :
          e = <<j, m>> /\ events[j][m].type \in TERMINAL_STATUSES
    BY <2>1
  <2>3. PICK n \in DOMAIN events[j] :
          f = <<j, n>> /\ events[j][n].type \in TERMINAL_STATUSES
    BY <2>1
  <2>4. m = n
    BY <1>a, <2>2, <2>3 DEF EventsFit
  <2> QED
    BY <2>2, <2>3, <2>4
<1> QED
  BY <1>1, <1>4, <1>6, <1>7, <1>8

\* The artifact of every completed event is there.
LEMMA ReportedArtifacts ==
  ASSUME EventsFit
  PROVE  \A e \in EventsOf({"completed"}) : ArtifactIntact(e)
<1> SUFFICES ASSUME NEW e \in EventsOf({"completed"})
             PROVE  ArtifactIntact(e)
  OBVIOUS
<1>1. PICK j \in Jobs : \E n \in DOMAIN events[j] :
        e = <<j, n>> /\ events[j][n].type = "completed"
  BY DEF EventsOf
<1>2. PICK n \in DOMAIN events[j] : e = <<j, n>> /\ events[j][n].type = "completed"
  BY <1>1
<1>3. Kept(j, events[j][n].attempt, events[j][n].by)
  BY <1>2 DEF EventsFit
<1>4. e[1] = j /\ e[2] = n
  BY <1>2
<1> QED
  BY <1>3, <1>4 DEF ArtifactIntact, Kept

LEMMA BuiltReport ==
  ASSUME CertInv, PlainRun, command # "full_stack", build_smoke_report,
         UNCHANGED <<replays, command, plan>>
  PROVE  phase' = "validate" /\ ReportFits'
<1>a. /\ CompletedLogged /\ TablesOK /\ BatchOnly /\ EventsFit /\ OutcomesFit
      /\ ReplaysCounted /\ cancelRequested = {}
      /\ command \in {"smoke", "reliability"} /\ phase = "report" /\ plan \in Plans
      /\ UNCHANGED <<status, finalization>>
  BY DEF CertInv, DrainInv, FileInv, Batched, Commands, PlainRun, BatchOnly,
         build_smoke_report, storeVars
<1>b. /\ IsFiniteSet(Batch) /\ Batch \subseteq Jobs
      /\ {j \in Jobs : status[j] # "absent"} = Batch
      /\ \A j \in Batch : Finalized(j)
      /\ WithStatus(TERMINAL_STATUSES) = Batch
      /\ duplicate_terminal_events = {}
  BY <1>a, ReportedBatch
<1>1. /\ phase' = "validate"
      /\ report'.submitted = Cardinality(Batch)
      /\ report'.terminal = Cardinality(Batch)
      /\ report'.completed = Cardinality(WithStatus({"completed"}))
      /\ report'.timed_out = Cardinality(WithStatus({"timed_out"}))
      /\ report'.duplicates = 0
      /\ report'.retries = Cardinality(EventsOf({"retry_scheduled"}))
      /\ report'.checked = Cardinality(EventsOf({"completed"}))
  BY <1>a, <1>b, ReportedArtifacts, FS_EmptySet DEF build_smoke_report
<1>2. ASSUME NEW S, S \in {"completed", "timed_out"}
      PROVE  WithStatus({S}) \subseteq Batch /\ IsFiniteSet(WithStatus({S}))
  <2>1. WithStatus({S}) \subseteq Batch
    BY <1>b, <1>2 DEF WithStatus
  <2> QED
    BY <1>b, <2>1, FS_Subset
<1>3. report'.checked = report'.completed
  BY <1>a, <1>1, <1>2, CompletedOnce
<1>c. ASSUME NEW j \in Batch
      PROVE  /\ JobSpec[j].job_type = "stub"
             /\ JobSpec[j].mode
                  \in {"success", "transient_error", "policy_error", "sleep"}
             /\ command = "smoke" => JobSpec[j].mode = "success"
             /\ command = "reliability" =>
                  JobSpec[j].mode = payload_for_failure(ModeOf[j])
             /\ j \in Jobs /\ status[j] = finalization[j].status /\ EndsAs(j, status[j])
  BY <1>a, <1>b, <1>c, BatchJobs DEF OutcomesFit
<1>4. CASE command = "smoke"
  <2>1. ASSUME NEW j \in Batch
        PROVE  status[j] = "completed"
    <3>1. JobSpec[j].mode = "success" /\ EndsAs(j, status[j]) /\ JobSpec[j].job_type = "stub"
      BY <1>4, <1>c, <2>1
    <3> QED
      BY <1>a, <3>1, StubOutcomes DEF EndsAs
  <2>2. WithStatus({"completed"}) = Batch
    BY <1>b, <1>2, <2>1 DEF WithStatus
  <2>3. Batch = SmokeJobs
    BY <1>4 DEF Batch, BatchOf
  <2>4. SmokeReportValid'
    BY <1>1, <1>3, <2>2, <2>3 DEF SmokeReportValid
  <2> QED
    BY <1>1, <1>4, <1>a, <2>4 DEF ReportFits
<1>5. CASE command = "reliability"
  <2>a. Batch = ReliabilityJobs
    BY <1>5 DEF Batch, BatchOf
  <2> SUFFICES ASSUME ~Unplanned, ~TimeoutsCompleted
               PROVE  ReliabilityReportValid'
    BY <1>1, <1>5, <1>a
    DEF ReportFits, TimeoutsCompleted, Unplanned, Planned, ReliabilityJobs
  <2>1. plan.failure_rate > 0 => report'.retries > 0
    <3> SUFFICES ASSUME plan.failure_rate > 0
                 PROVE  report'.retries > 0
      OBVIOUS
    <3>1. PICK j \in Batch : ModeOf[j] = "transient"
      BY <2>a DEF Unplanned, Planned
    <3>2. JobSpec[j].mode = "transient_error"
      BY <1>5, <1>c, <3>1 DEF payload_for_failure
    <3>3. Shown(j)
      BY <1>a, <1>c, <3>2, StubOutcomes DEF EndsAs
    <3>4. PICK n \in DOMAIN events[j] : events[j][n].type = "retry_scheduled"
      BY <3>3 DEF Shown
    <3>5. <<j, n>> \in EventsOf({"retry_scheduled"})
      BY <1>b, <3>4 DEF EventsOf
    <3>6. IsFiniteSet(EventsOf({"retry_scheduled"}))
      BY <1>a, <1>b, FiniteEvents
    <3>7. /\ Cardinality(EventsOf({"retry_scheduled"})) \in Nat
          /\ Cardinality(EventsOf({"retry_scheduled"})) # 0
      BY <3>5, <3>6, FS_CardinalityType, FS_EmptySet
    <3> QED
      BY <1>1, <3>7
  <2>2. plan.include_timeouts => report'.timed_out > 0
    <3> SUFFICES ASSUME plan.include_timeouts
                 PROVE  report'.timed_out > 0
      OBVIOUS
    <3>1. PICK j \in Batch :
            ModeOf[j] = "timeout" /\ finalization[j].status # "completed"
      BY <2>a DEF TimeoutsCompleted
    <3>2. JobSpec[j].mode = "sleep"
      BY <1>5, <1>c, <3>1 DEF payload_for_failure
    <3>3. status[j] = "timed_out" /\ j \in Jobs
      BY <1>a, <1>c, <3>1, <3>2, StubOutcomes DEF EndsAs
    <3>4. j \in WithStatus({"timed_out"})
      BY <3>3 DEF WithStatus
    <3>5. /\ Cardinality(WithStatus({"timed_out"})) \in Nat
          /\ Cardinality(WithStatus({"timed_out"})) # 0
      BY <1>2, <3>4, FS_CardinalityType, FS_EmptySet
    <3> QED
      BY <1>1, <3>5
  <2>3. plan.repeat_idempotency_submissions => replays > 0
    <3> SUFFICES ASSUME plan.repeat_idempotency_submissions
                 PROVE  replays > 0
      OBVIOUS
    <3>1. PICK j \in Batch : ModeOf[j] = "duplicate_submission"
      BY <2>a DEF Unplanned, Planned
    <3>2. status[j] # "absent"
      BY <1>b
    <3> QED
      BY <1>5, <1>a, <2>a, <3>1, <3>2 DEF ReplaysCounted
  <2> QED
    BY <1>1, <1>3, <2>a, <2>1, <2>2, <2>3 DEF ReliabilityReportValid, ReliabilityJobs
<1> QED
  BY <1>1, <1>4, <1>5, <1>a

-----------------------------------------------------------------------------
(* Nothing else rejects a batch *)

\* A command without a rival comes to its verdict by building its report and
\* validating it; all that the verdict depends on is settled by then.
LEMMA PlainPhases ==
  ASSUME command \in {"smoke", "reliability"}, [Next]_vars
  PROVE  \/ build_smoke_report /\ UNCHANGED <<replays, command, plan>>
         \/ phase' \notin {"validate", "invalid"}
         \/ /\ UNCHANGED <<command, finalization, plan>>
            /\ phase = "validate" /\ phase' = "invalid"
            /\ command = "smoke" => ~SmokeReportValid
            /\ command = "reliability" => ~ReliabilityReportValid
         \/ UNCHANGED <<command, plan, phase, report, replays, finalization>>
<1>1. CASE UNCHANGED vars
  BY <1>1 DEF vars, storeVars, driverVars, proofVars
<1>2. CASE PlainStep
  <2>1. CASE CreateSmokeJob \/ CreateReliabilityJob
    BY <2>1 DEF CreateSmokeJob, CreateReliabilityJob, Create
  <2>2. CASE ReplaySubmission \/ Publish(Head(todo))
    BY <2>2 DEF ReplaySubmission, Publish
  <2>3. CASE validate_smoke_report /\ UNCHANGED proofVars
    BY <2>3 DEF validate_smoke_report, Validate, storeVars, proofVars
  <2>4. CASE validate_reliability_proof
    BY <2>4 DEF validate_reliability_proof, Validate, storeVars, proofVars
  <2> QED
    BY <1>2, <2>1, <2>2, <2>3, <2>4 DEF PlainStep
<1>3. CASE (EndRound \/ build_smoke_report) /\ UNCHANGED <<proofVars, fullStackVars>>
  BY <1>3 DEF EndRound, build_smoke_report, proofVars
<1>4. ASSUME NEW w \in Workers, WorkerActs(w)
      PROVE  phase' \notin {"validate", "invalid"}
  <2>1. CASE PlainProcess(w)
    BY <2>1 DEF PlainProcess, Process, NoteProcessed, MayProcess
  <2>2. CASE FindNothing(w)
    BY <2>2 DEF FindNothing, MayProcess
  <2>3. CASE WorkerRaises(w) \/ Raises(w) \/ CaseRaises(w)
    BY <2>3 DEF Raises, CaseRaises, WorkerRaises
  <2>4. CASE CaseArtifact(w)
    BY <2>4 DEF CaseArtifact, NoteProcessed, MayProcess
  <2> QED
    BY <1>4, <2>1, <2>2, <2>3, <2>4, EarlyEnds
    DEF WorkerGoesOn, CaseStep, ProcessCase, CaseAnswered, RunningCase, CaseFails
<1> QED
  BY <1>1, <1>2, <1>3, <1>4 DEF Next, Drive, FullStackStep, Rival, WorkerActs

LEMMA NextCause == CauseInv /\ [Next]_vars => CauseInv'
<1> SUFFICES ASSUME CauseInv, [Next]_vars
             PROVE  CauseInv'
  OBVIOUS
<1>a. CertInv /\ PlainRun /\ ReportFits
  BY DEF CauseInv
<1>1. CertInv'
  BY <1>a, NextDrain, NextCases, NextLogged, NextArtifacts, NextOneEntry, NextReport
  DEF CertInv, DrainInv
<1>2. command' = command
  BY <1>a, SameCall DEF CertInv, DrainInv, FileInv
<1>3. CASE command = "full_stack"
  BY <1>1, <1>2, <1>3 DEF CauseInv, PlainRun, ReportFits, RejectedForCause
<1>4. CASE command # "full_stack"
  <2>1. command \in {"smoke", "reliability"}
    BY <1>4, <1>a DEF CertInv, DrainInv, FileInv, Batched, Commands
  <2>2. PlainRun'
    BY <1>a, <1>4, NextBatchOnly, NextRetries, NextEventsFit, NextOutcomes, NextReplays
    DEF PlainRun
  <2>3. ReportFits' /\ RejectedForCause'
    <3>1. CASE build_smoke_report /\ UNCHANGED <<replays, command, plan>>
      <4>1. phase' = "validate" /\ ReportFits'
        BY <1>a, <1>4, <3>1, BuiltReport
      <4> QED
        BY <4>1 DEF RejectedForCause
    <3>2. CASE phase' \notin {"validate", "invalid"}
      BY <3>2 DEF ReportFits, RejectedForCause
    <3>3. CASE /\ UNCHANGED <<command, finalization, plan>>
               /\ phase = "validate" /\ phase' = "invalid"
               /\ command = "smoke" => ~SmokeReportValid
               /\ command = "reliability" => ~ReliabilityReportValid
      BY <1>a, <2>1, <3>3
      DEF ReportFits, RejectedForCause, TimeoutsCompleted, Unplanned, Planned,
          ReliabilityJobs
    <3>4. CASE UNCHANGED <<command, plan, phase, report, replays, finalization>>
      BY <3>4
      DEF CauseInv, ReportFits, RejectedForCause, TimeoutsCompleted, Unplanned,
          Planned, SmokeReportValid, ReliabilityReportValid, ReliabilityJobs
    <3> QED
      BY <2>1, <3>1, <3>2, <3>3, <3>4, PlainPhases
  <2> QED
    BY <1>1, <2>2, <2>3 DEF CauseInv
<1> QED
  BY <1>3, <1>4

LEMMA InitCause == Init => CauseInv
<1> SUFFICES ASSUME Init
             PROVE  CauseInv
  OBVIOUS
<1>a. /\ StoreInit /\ QueueInit /\ WorkerInit /\ replays = 0 /\ plan \in Plans
      /\ phase \notin {"validate", "invalid"}
      /\ \/ command = "smoke" /\ todo \in Orderings(SmokeJobs)
         \/ command = "reliability" /\ todo \in Orderings(ReliabilityJobs)
         \/ command = "full_stack"
  BY DEF Init, DriverInit, BatchOrders
<1>1. CertInv
  BY InitCert
<1>2. /\ Entries = {} /\ cancelRequested = {}
      /\ \A j \in Jobs : status[j] = "absent" /\ events[j] = <<>> /\ ~Finalized(j)
      /\ \A w \in Workers : wpc[w] = "idle"
  BY <1>a DEF StoreInit, NotFinalized, QueueInit, WorkerInit, Entries, Finalized
<1>3. command # "full_stack" => \A n \in DOMAIN todo : todo[n] \in Batch
  BY <1>a DEF Orderings, Batch, BatchOf
<1>4. PlainRun
  <2>1. command # "full_stack" => BatchOnly
    BY <1>2, <1>3 DEF BatchOnly
  <2>2. RetriesShown /\ WorkersFit
    BY <1>2 DEF RetriesShown, WorkersFit
  <2>3. EventsFit /\ OutcomesFit
    BY <1>2 DEF EventsFit, OutcomesFit
  <2>4. ReplaysCounted
    BY <1>a, <1>2, CallOfBatch DEF ReplaysCounted
  <2> QED
    BY <2>1, <2>2, <2>3, <2>4 DEF PlainRun
<1> QED
  BY <1>1, <1>4, <1>a DEF CauseInv, ReportFits, RejectedForCause

\* The invariant behind the theorem about rejections.
THEOREM CauseInvariance == Spec => []CauseInv
<1> QED
  BY InitCause, NextCause, PTL DEF Spec

\* A command without a rival accepts what it ran.  A smoke run is never rejected: its
\* rows are those of its batch, each of them is completed, the completed events are
\* as many as the completed rows, and each names an artifact that is there.  A
\* reliability proof is rejected only for evidence that its plan has no job for, or
\* if every job that was to time out was faster than its timeout: a transient job
\* fails for want of retries only after one was recorded, and a repeated submission
\* is counted before its job is published.
THEOREM RejectionsHaveCauses == Spec => []RejectedForCause
<1>1. CauseInv => RejectedForCause
  BY DEF CauseInv
<1> QED
  BY <1>1, CauseInvariance, PTL

\* With at least as many failures as failure modes, only timeouts that did not
\* happen keep a reliability proof from being certified.
THEOREM FullPlansAreAccepted ==
  Spec => [](command = "reliability" /\ phase = "invalid" /\ EveryModePlanned =>
               TimeoutsCompleted)
<1>1. CauseInv =>
        (command = "reliability" /\ phase = "invalid" /\ EveryModePlanned =>
           TimeoutsCompleted)
  BY ModesOccur
  DEF CauseInv, RejectedForCause, TimeoutsCompleted, CertInv, DrainInv, FileInv, Batched
<1> QED
  BY <1>1, CauseInvariance, PTL

=============================================================================
