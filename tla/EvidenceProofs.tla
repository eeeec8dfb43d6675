--------------------------- MODULE EvidenceProofs ---------------------------
(***************************************************************************)
(* When the commands that write to a report path take turns, a bundle that *)
(* verifies is the bundle of one run, the writer's own verification never  *)
(* rejects it, and once write_evidence_bundle has returned it is durable   *)
(* in a durable directory: for any number of commands, verifiers and power *)
(* losses, and also when the command has to make the directory.            *)
(***************************************************************************)
EXTENDS EvidenceBundle, TLAPS

\* Report and data of a manifest belong to one run.
Uniform(m) == m.md = m.json

FileStep(r) == pc[r] \in {"temp", "replace", "sync"}

\* What is on disk, and what is durable, at each place of write_evidence_bundle.
Progress(r) ==
  /\ latest = r
  /\ ~FileStep(r) => target[r] = "manifest"
  /\ target[r] # "md" => disk.md = r /\ durable.md = r
  /\ target[r] = "manifest" => disk.json = r /\ durable.json = r
  /\ pc[r] = "hash_json" => digests[r].md = r
  /\ FileStep(r) /\ target[r] = "manifest" => digests[r] = ManifestOf(r)
  /\ pc[r] = "sync" => disk[target[r]] = Rendered(r, target[r])
  /\ pc[r] \in VerifyPcs => disk = Bundle(r) /\ durable = Bundle(r)
  /\ pc[r] \in VerifyPcs \ {"read_manifest"} => manifest[r] = ManifestOf(r)

RunInv(r) ==
  /\ pc[r] \notin {"rejected", "read_data"}
  /\ pc[r] = "idle" => target[r] = "md"
  /\ Writing(r) => Progress(r) /\ directory # "missing"
  /\ pc[r] = "ok" =>
       /\ manifest[r] = ManifestOf(r)
       /\ latest = r /\ directory # "missing" =>
            disk = Bundle(r) /\ durable = Bundle(r)

\* Every manifest in the system is uniform, the ones verifiers hold included.
ManifestInv ==
  /\ Uniform(disk.manifest) /\ Uniform(durable.manifest)
  /\ \A p \in Procs : Uniform(manifest[p])

\* Without a directory there are no files.
DirectoryInv ==
  directory = "missing" => disk = Bundle(None) /\ durable = Bundle(None)

IInv ==
  /\ TypeOK
  /\ ManifestInv
  /\ DirectoryInv
  /\ \A r \in Runs : RunInv(r)

-----------------------------------------------------------------------------
\* The constants as the provers need them.
LEMMA ContentFacts ==
  /\ None \in Contents /\ Release \in Contents /\ Runs \subseteq Contents
  /\ \A c \in Contents : ManifestOf(c) \in Manifests /\ Bundle(c) \in Files
  /\ Runs \subseteq Procs /\ Readers \subseteq Procs /\ Auditors \subseteq Procs
  /\ \A r \in Runs : r \notin Readers /\ r \notin Auditors /\ r # None
  BY EvidenceAssumption DEF Contents, ManifestOf, Bundle, Manifests, Files, Procs

\* Replacing one file by bytes of its kind gives files again.
LEMMA ReplacedFiles ==
  ASSUME NEW d \in Files, NEW name \in Names, NEW x,
         name = "manifest" => x \in Manifests,
         name # "manifest" => x \in Contents
  PROVE  /\ [d EXCEPT ![name] = x] \in Files
         /\ [d EXCEPT ![name] = x][name] = x
         /\ name # "md" => [d EXCEPT ![name] = x].md = d.md
         /\ name # "json" => [d EXCEPT ![name] = x].json = d.json
         /\ name # "manifest" => [d EXCEPT ![name] = x].manifest = d.manifest
  <1>1. CASE name = "md" BY <1>1 DEF Files
  <1>2. CASE name = "json" BY <1>2 DEF Files
  <1>3. CASE name = "manifest" BY <1>3 DEF Files
  <1> QED BY <1>1, <1>2, <1>3 DEF Names

\* The files of a directory are determined by the three of them.
LEMMA FilesEqual ==
  ASSUME NEW d \in Files, NEW c, d.md = c, d.json = c, d.manifest = ManifestOf(c)
  PROVE  d = Bundle(c)
  BY DEF Files, Bundle

\* Initially nobody has written anything.
LEMMA InitInv == Init => IInv
  <1> SUFFICES ASSUME Init PROVE IInv OBVIOUS
  <1> USE ContentFacts, EvidenceAssumption
  <1>1. disk \in Files /\ durable \in Files BY DEF Init
  <1>2. TypeOK BY <1>1 DEF Init, TypeOK, Names
  <1>3. ManifestInv BY DEF Init, ManifestInv, Uniform, Bundle, ManifestOf
  <1>d. DirectoryInv BY DEF Init, DirectoryInv, Bundle
  <1>4. ASSUME NEW r \in Runs PROVE RunInv(r)
    BY DEF Init, RunInv, Writing, WritePcs, VerifyPcs
  <1> QED BY <1>2, <1>3, <1>4, <1>d DEF IInv

\* Each step keeps the types.
LEMMA TypeStep == TypeOK /\ [Next]_vars => TypeOK'
  <1> SUFFICES ASSUME TypeOK, [Next]_vars PROVE TypeOK' OBVIOUS
  <1> USE ContentFacts, EvidenceAssumption
  <1> USE DEF TypeOK, WritePcs, VerifyPcs, GoTo
  <1>1. CASE UNCHANGED vars BY <1>1 DEF vars
  <1>2. ASSUME NEW r \in Runs, WriteStep(r) PROVE TypeOK'
    <2>1. CASE BeginBundle(r) BY <2>1 DEF BeginBundle
    <2>2. CASE WriteTemp(r) BY <2>2 DEF WriteTemp
    <2>3. CASE WriteFails(r) BY <2>3 DEF WriteFails
    <2>4. CASE ReplaceFile(r)
      <3>1. disk' \in Files
        BY <2>4, ReplacedFiles DEF ReplaceFile, Rendered
      <3> QED BY <2>4, <3>1 DEF ReplaceFile
    <2>5. CASE SyncDirectory(r)
      <3>1. /\ AfterFile(target[r]).pc \in {"temp", "hash_md", "read_manifest"}
            /\ AfterFile(target[r]).target \in Names
        BY DEF AfterFile, Names
      <3> QED BY <2>5, <3>1 DEF SyncDirectory
    <2>6. CASE HashReport(r) BY <2>6 DEF HashReport, Files, Manifests
    <2>7. CASE HashData(r) BY <2>7 DEF HashData, Files, Manifests
    <2>8. CASE Kill(r) BY <2>8 DEF Kill
    <2> QED BY <1>2, <2>1, <2>2, <2>3, <2>4, <2>5, <2>6, <2>7, <2>8 DEF WriteStep
  <1>3. ASSUME NEW p \in Readers, StartReader(p) PROVE TypeOK'
    BY <1>3 DEF StartReader
  <1>4. ASSUME NEW p \in Procs, VerifyStep(p) PROVE TypeOK'
    <2>1. CASE ReadManifest(p) BY <2>1 DEF ReadManifest, Files
    <2>2. CASE CheckReport(p) BY <2>2 DEF CheckReport
    <2>3. CASE CheckData(p) BY <2>3 DEF CheckData
    <2>4. CASE CheckSidecars(p) BY <2>4 DEF CheckSidecars, Verified
    <2> QED BY <1>4, <2>1, <2>2, <2>3, <2>4 DEF VerifyStep
  <1>5. ASSUME NEW a \in Auditors, PinManifest(a) PROVE TypeOK'
    BY <1>5 DEF PinManifest
  <1>6. ASSUME NEW a \in Auditors, ReadReleaseData(a) PROVE TypeOK'
    BY <1>6 DEF ReadReleaseData, Files
  <1>7. ASSUME NEW name \in Names, WriteBack(name) PROVE TypeOK'
    <2>1. /\ name = "manifest" => disk[name] \in Manifests
          /\ name # "manifest" => disk[name] \in Contents
      BY DEF Files, Names
    <2>2. durable' \in Files BY <1>7, <2>1, ReplacedFiles DEF WriteBack
    <2> QED BY <1>7, <2>2 DEF WriteBack
  <1>8. CASE PowerLoss BY <1>8 DEF PowerLoss, FilesFoundAgain, DirectoryGone
  <1>9. CASE DirectoryEntryReachesDisk BY <1>9 DEF DirectoryEntryReachesDisk
  <1> QED
    BY <1>1, <1>2, <1>3, <1>4, <1>5, <1>6, <1>7, <1>8, <1>9 DEF Next

\* Files are written where there is a directory, and go with it.
LEMMA DirectoryStep == IInv /\ [Next]_vars => DirectoryInv'
  <1> SUFFICES ASSUME IInv, [Next]_vars PROVE DirectoryInv' OBVIOUS
  <1>t. DirectoryInv /\ \A r \in Runs : RunInv(r) BY DEF IInv
  <1>0. ASSUME UNCHANGED <<disk, durable, directory>> PROVE DirectoryInv'
    BY <1>0, <1>t DEF DirectoryInv
  <1>1. CASE UNCHANGED vars BY <1>0, <1>1 DEF vars
  <1>2. ASSUME NEW r \in Runs, WriteStep(r) PROVE DirectoryInv'
    <2>1. CASE BeginBundle(r) BY <2>1 DEF BeginBundle, DirectoryInv
    <2>2. CASE ~BeginBundle(r)
      <3>1. Writing(r) /\ directory' = directory
        BY <1>2, <2>2
        DEF WriteStep, WriteTemp, WriteFails, ReplaceFile, SyncDirectory, HashReport,
            HashData, Kill, Writing, WritePcs
      <3> QED BY <1>t, <3>1 DEF RunInv, DirectoryInv
    <2> QED BY <2>1, <2>2
  <1>3. ASSUME NEW p \in Procs,
               \/ StartReader(p) \/ VerifyStep(p)
               \/ PinManifest(p) \/ ReadReleaseData(p)
        PROVE  DirectoryInv'
    BY <1>0, <1>3
    DEF StartReader, VerifyStep, ReadManifest, CheckReport, CheckData, CheckSidecars,
        PinManifest, ReadReleaseData
  <1>4. ASSUME NEW name \in Names, WriteBack(name) PROVE DirectoryInv'
    BY <1>4, <1>t DEF WriteBack, DirectoryInv
  <1>5. CASE DirectoryEntryReachesDisk
    BY <1>5 DEF DirectoryEntryReachesDisk, DirectoryInv
  <1>6. CASE PowerLoss
    BY <1>6, <1>t DEF PowerLoss, FilesFoundAgain, DirectoryGone, DirectoryInv
  <1> QED
    BY <1>1, <1>2, <1>3, <1>4, <1>5, <1>6, ContentFacts DEF Next

\* What a step of r must leave alone in the state of another command q, and why
\* that is enough: while r writes or has begun to, q does not, and q's bundle is
\* no longer the latest.
LEMMA OtherRun ==
  ASSUME TypeOK, NEW r \in Runs, NEW q \in Runs, q # r, RunInv(q), ~Writing(q),
         latest' = r, pc'[q] = pc[q], target'[q] = target[q],
         manifest'[q] = manifest[q]
  PROVE  RunInv(q)'
  BY DEF RunInv, Writing

\* Only the latest command writes.
LEMMA OneWriter ==
  ASSUME NEW r \in Runs, NEW q \in Runs, RunInv(r), RunInv(q), Writing(r), q # r
  PROVE  ~Writing(q) /\ latest = r
  BY DEF RunInv, Progress

\* A writing step of r.
LEMMA WriteStepInv ==
  ASSUME ~Overlap, IInv, TypeOK', DirectoryInv', NEW r \in Runs, WriteStep(r)
  PROVE  IInv'
  <1> USE ContentFacts
  <1>t. TypeOK /\ ManifestInv /\ RunInv(r) /\ r \in Procs
    BY DEF IInv
  <1>1. CASE BeginBundle(r)
    <2>1. ManifestInv' BY <1>1, <1>t DEF BeginBundle, ManifestInv
    <2>2. ASSUME NEW q \in Runs PROVE RunInv(q)'
      <3>1. CASE q = r
        BY <1>1, <1>t, <3>1
        DEF BeginBundle, GoTo, TypeOK, RunInv, Writing, Progress, FileStep, WritePcs,
            VerifyPcs
      <3>2. CASE q # r
        <4>1. pc'[q] = pc[q] /\ ~Writing(q)
          BY <1>1, <1>t, <3>2 DEF BeginBundle, GoTo, TypeOK
        <4> QED BY <1>1, <1>t, <3>2, <4>1, OtherRun DEF BeginBundle, IInv
      <3> QED BY <3>1, <3>2
    <2> QED BY <2>1, <2>2 DEF IInv
  <1>2. CASE Writing(r) /\ latest' = latest
    <2>1. ASSUME NEW q \in Runs, q # r, pc'[q] = pc[q], target'[q] = target[q],
                 manifest'[q] = manifest[q]
          PROVE  RunInv(q)'
      BY <1>2, <1>t, <2>1, OtherRun, OneWriter DEF IInv
    <2>p. /\ Progress(r) /\ directory # "missing"
          /\ pc[r] \in WritePcs \cup VerifyPcs
          /\ target[r] \in Names /\ disk \in Files /\ durable \in Files
          /\ digests[r] \in Manifests
      BY <1>2, <1>t DEF RunInv, Writing, TypeOK
    <2>2. CASE WriteTemp(r)
      <3>1. RunInv(r)'
        BY <1>t, <2>p, <2>2
        DEF WriteTemp, GoTo, TypeOK, RunInv, Writing, Progress, FileStep, WritePcs,
            VerifyPcs
      <3>2. \A q \in Runs : q # r => RunInv(q)'
        BY <2>1, <2>2, <1>t DEF WriteTemp, GoTo, TypeOK
      <3>3. ManifestInv' BY <2>2, <1>t DEF WriteTemp, ManifestInv
      <3> QED BY <3>1, <3>2, <3>3 DEF IInv
    <2>3. CASE WriteFails(r) \/ Kill(r)
      <3>1. RunInv(r)'
        BY <1>t, <2>p, <2>3
        DEF WriteFails, Kill, GoTo, TypeOK, RunInv, Writing, WritePcs, VerifyPcs
      <3>2. \A q \in Runs : q # r => RunInv(q)'
        BY <2>1, <2>3, <1>t DEF WriteFails, Kill, GoTo, TypeOK
      <3>3. ManifestInv' BY <2>3, <1>t DEF WriteFails, Kill, ManifestInv
      <3> QED BY <3>1, <3>2, <3>3 DEF IInv
    <2>4. CASE ReplaceFile(r)
      <3> DEFINE name == target[r]
      <3>1. /\ disk' = [disk EXCEPT ![name] = Rendered(r, name)]
            /\ UNCHANGED <<durable, directory, target, digests, manifest, latest>>
            /\ pc' = [pc EXCEPT ![r] = "sync"] /\ pc[r] = "replace"
        BY <2>4 DEF ReplaceFile, GoTo
      <3>2. /\ name = "manifest" => Rendered(r, name) = ManifestOf(r)
            /\ name # "manifest" => Rendered(r, name) = r
        BY <2>p, <3>1 DEF Rendered, Progress, FileStep
      <3>3. /\ disk'[name] = Rendered(r, name)
            /\ name # "md" => disk'.md = disk.md
            /\ name # "json" => disk'.json = disk.json
            /\ name # "manifest" => disk'.manifest = disk.manifest
        BY <2>p, <3>1, <3>2, ReplacedFiles
      <3>4. pc'[r] = "sync" /\ \A q \in Runs : q # r => pc'[q] = pc[q]
        BY <3>1, <1>t DEF TypeOK
      <3>5. RunInv(r)'
        BY <2>p, <3>1, <3>2, <3>3, <3>4
        DEF RunInv, Writing, Progress, FileStep, WritePcs, VerifyPcs, Rendered, Names
      <3>6. \A q \in Runs : q # r => RunInv(q)' BY <2>1, <3>1, <3>4
      <3>7. ManifestInv'
        BY <1>t, <3>1, <3>2, <3>3 DEF ManifestInv, Uniform, ManifestOf
      <3> QED BY <3>5, <3>6, <3>7 DEF IInv
    <2>5. CASE SyncDirectory(r)
      <3>1. /\ durable' = disk
            /\ UNCHANGED <<disk, directory, digests, manifest, latest>>
            /\ pc[r] = "sync"
            /\ pc'[r] = AfterFile(target[r]).pc
            /\ target'[r] = AfterFile(target[r]).target
            /\ \A q \in Runs : q # r => pc'[q] = pc[q] /\ target'[q] = target[q]
        BY <2>5, <1>t DEF SyncDirectory, GoTo, TypeOK
      <3>2. RunInv(r)'
        <4>1. CASE target[r] = "md"
          <5>1. pc'[r] = "temp" /\ target'[r] = "json"
            BY <3>1, <4>1 DEF AfterFile
          <5>2. disk.md = r BY <2>p, <3>1, <4>1 DEF Progress, Rendered
          <5> QED
            BY <2>p, <3>1, <5>1, <5>2
            DEF RunInv, Writing, Progress, FileStep, WritePcs, VerifyPcs
        <4>2. CASE target[r] = "json"
          <5>1. pc'[r] = "hash_md" /\ target'[r] = "manifest"
            BY <3>1, <4>2 DEF AfterFile
          <5>2. disk.md = r /\ disk.json = r
            BY <2>p, <3>1, <4>2 DEF Progress, Rendered
          <5> QED
            BY <2>p, <3>1, <5>1, <5>2
            DEF RunInv, Writing, Progress, FileStep, WritePcs, VerifyPcs
        <4>3. CASE target[r] = "manifest"
          <5>1. pc'[r] = "read_manifest" /\ target'[r] = "manifest"
            BY <3>1, <4>3 DEF AfterFile
          <5>2. disk.md = r /\ disk.json = r /\ disk.manifest = ManifestOf(r)
            BY <2>p, <3>1, <4>3 DEF Progress, Rendered, FileStep
          <5>3. disk = Bundle(r) BY <2>p, <5>2, FilesEqual
          <5> QED
            BY <2>p, <3>1, <5>1, <5>2, <5>3
            DEF RunInv, Writing, Progress, FileStep, WritePcs, VerifyPcs
        <4> QED BY <2>p, <4>1, <4>2, <4>3 DEF Names
      <3>3. \A q \in Runs : q # r => RunInv(q)' BY <2>1, <3>1
      <3>4. ManifestInv' BY <1>t, <3>1 DEF ManifestInv
      <3> QED BY <3>2, <3>3, <3>4 DEF IInv
    <2>6. CASE HashReport(r)
      <3>1. RunInv(r)'
        BY <1>t, <2>p, <2>6
        DEF HashReport, GoTo, TypeOK, RunInv, Writing, Progress, FileStep, WritePcs,
            VerifyPcs, Manifests
      <3>2. \A q \in Runs : q # r => RunInv(q)'
        BY <2>1, <2>6, <1>t DEF HashReport, GoTo, TypeOK
      <3>3. ManifestInv' BY <2>6, <1>t DEF HashReport, ManifestInv
      <3> QED BY <3>1, <3>2, <3>3 DEF IInv
    <2>7. CASE HashData(r)
      <3>1. digests'[r] = ManifestOf(r)
        BY <1>t, <2>p, <2>7
        DEF HashData, TypeOK, Progress, FileStep, Manifests, ManifestOf
      <3>2. RunInv(r)'
        BY <1>t, <2>p, <2>7, <3>1
        DEF HashData, GoTo, TypeOK, RunInv, Writing, Progress, FileStep, WritePcs,
            VerifyPcs
      <3>3. \A q \in Runs : q # r => RunInv(q)'
        BY <2>1, <2>7, <1>t DEF HashData, GoTo, TypeOK
      <3>4. ManifestInv' BY <2>7, <1>t DEF HashData, ManifestInv
      <3> QED BY <3>2, <3>3, <3>4 DEF IInv
    <2>8. ~BeginBundle(r)
      BY <1>2 DEF BeginBundle, Writing, WritePcs, VerifyPcs
    <2> QED BY <2>2, <2>3, <2>4, <2>5, <2>6, <2>7, <2>8 DEF WriteStep
  <1>3. BeginBundle(r) \/ (Writing(r) /\ latest' = latest)
    BY DEF WriteStep, WriteTemp, WriteFails, ReplaceFile, SyncDirectory, HashReport,
       HashData, Kill, Writing, WritePcs
  <1> QED BY <1>1, <1>2, <1>3

\* A step that leaves the files and every writing command alone.
LEMMA RunsUntouched ==
  ASSUME IInv, TypeOK', DirectoryInv',
         UNCHANGED <<disk, durable, directory, target, digests, latest>>,
         \A q \in Runs : pc'[q] = pc[q] /\ manifest'[q] = manifest[q]
  PROVE  \A q \in Runs : RunInv(q)'
  <1> SUFFICES ASSUME NEW q \in Runs PROVE RunInv(q)' OBVIOUS
  <1>1. RunInv(q) BY DEF IInv
  <1> QED BY <1>1 DEF RunInv, Writing, Progress, FileStep, Rendered

\* A verification step of p, which may be the writer itself.
LEMMA VerifyStepInv ==
  ASSUME IInv, TypeOK', DirectoryInv', NEW p \in Procs, VerifyStep(p)
  PROVE  IInv'
  <1> USE ContentFacts
  <1>t. TypeOK /\ ManifestInv BY DEF IInv
  <1>1. UNCHANGED <<disk, durable, directory, temps, target, digests, latest>>
    BY DEF VerifyStep, ReadManifest, CheckReport, CheckData, CheckSidecars
  <1>2. \A q \in Procs : q # p => pc'[q] = pc[q] /\ manifest'[q] = manifest[q]
    BY <1>t
    DEF VerifyStep, ReadManifest, CheckReport, CheckData, CheckSidecars, GoTo, TypeOK
  <1>3. manifest'[p] = manifest[p] \/ manifest'[p] = disk.manifest
    BY <1>t DEF VerifyStep, ReadManifest, CheckReport, CheckData, CheckSidecars, TypeOK
  <1>4. ManifestInv' BY <1>t, <1>1, <1>2, <1>3 DEF ManifestInv
  <1>5. CASE p \notin Runs
    BY <1>1, <1>2, <1>4, <1>5, RunsUntouched DEF IInv
  <1>6. CASE p \in Runs
    <2>1. pc[p] \in VerifyPcs
      BY DEF VerifyStep, ReadManifest, CheckReport, CheckData, CheckSidecars, VerifyPcs
    <2>2. Writing(p) /\ Progress(p) /\ directory # "missing"
      BY <1>6, <2>1 DEF IInv, RunInv, Writing
    <2>3. /\ disk = Bundle(p) /\ durable = Bundle(p) /\ latest = p
          /\ target[p] = "manifest"
          /\ pc[p] # "read_manifest" => manifest[p] = ManifestOf(p)
      BY <2>1, <2>2 DEF Progress, FileStep, VerifyPcs
    <2>4. /\ disk.md = p /\ disk.json = p /\ disk.manifest = ManifestOf(p)
          /\ p # None /\ p \notin Auditors /\ ManifestOf(p) # ManifestOf(None)
      BY <1>6, <2>3 DEF Bundle, ManifestOf
    <2>5. /\ pc'[p] \in {"check_md", "check_json", "check_sidecars", "ok"}
          /\ manifest'[p] = ManifestOf(p)
      <3>1. CASE ReadManifest(p)
        BY <1>t, <2>4, <3>1 DEF ReadManifest, GoTo, TypeOK
      <3>2. CASE CheckReport(p)
        BY <1>t, <2>3, <2>4, <3>2 DEF CheckReport, GoTo, TypeOK, ManifestOf
      <3>3. CASE CheckData(p)
        BY <1>t, <2>3, <2>4, <3>3 DEF CheckData, GoTo, TypeOK, ManifestOf
      <3>4. CASE CheckSidecars(p)
        BY <1>t, <2>3, <2>4, <3>4
        DEF CheckSidecars, UnexpectedSidecars, TempPrefix, StemPrefix, Verified, GoTo,
            TypeOK
      <3> QED BY <3>1, <3>2, <3>3, <3>4 DEF VerifyStep
    <2>6. RunInv(p)'
      BY <1>1, <2>2, <2>3, <2>4, <2>5
      DEF RunInv, Writing, Progress, FileStep, WritePcs, VerifyPcs
    <2>7. ASSUME NEW q \in Runs, q # p PROVE RunInv(q)'
      BY <1>1, <1>2, <1>6, <2>2, <2>3, <2>7, OtherRun, OneWriter, <1>t DEF IInv
    <2> QED BY <1>4, <2>6, <2>7 DEF IInv
  <1> QED BY <1>5, <1>6

\* Renames that become durable, in whatever order.
LEMMA WriteBackInv ==
  ASSUME IInv, TypeOK', DirectoryInv', NEW name \in Names, WriteBack(name)
  PROVE  IInv'
  <1> USE ContentFacts
  <1>t. TypeOK /\ ManifestInv BY DEF IInv
  <1>1. /\ durable' = [durable EXCEPT ![name] = disk[name]]
        /\ UNCHANGED <<disk, directory, pc, target, digests, manifest, latest>>
    BY DEF WriteBack
  <1>2. /\ disk \in Files /\ durable \in Files /\ durable' \in Files
        /\ name = "manifest" => disk[name] \in Manifests
        /\ name # "manifest" => disk[name] \in Contents
    BY <1>t DEF TypeOK, Files, Names
  <1>3. /\ durable'.md \in {durable.md, disk.md}
        /\ durable'.json \in {durable.json, disk.json}
        /\ durable'.manifest \in {durable.manifest, disk.manifest}
    BY <1>1, <1>2, ReplacedFiles DEF Names
  <1>4. ManifestInv' BY <1>t, <1>1, <1>3 DEF ManifestInv
  <1>5. ASSUME NEW q \in Runs PROVE RunInv(q)'
    <2>1. RunInv(q) BY DEF IInv
    <2>2. disk = Bundle(q) /\ durable = Bundle(q) => durable' = Bundle(q)
      <3> SUFFICES ASSUME disk = Bundle(q), durable = Bundle(q)
                   PROVE  durable' = Bundle(q)
        OBVIOUS
      <3>1. durable'.md = q /\ durable'.json = q /\ durable'.manifest = ManifestOf(q)
        BY <1>3 DEF Bundle
      <3> QED BY <1>2, <3>1, FilesEqual
    <2> QED
      BY <1>1, <1>3, <2>1, <2>2 DEF RunInv, Writing, Progress, FileStep, Rendered
  <1> QED BY <1>4, <1>5 DEF IInv

\* A power loss: nobody writes any more, and what was durable is there.
LEMMA PowerLossInv ==
  ASSUME IInv, TypeOK', DirectoryInv', PowerLoss
  PROVE  IInv'
  <1> USE ContentFacts
  <1>t. TypeOK /\ ManifestInv BY DEF IInv
  <1>1. /\ UNCHANGED <<target, manifest, latest>>
        /\ \/ directory' = "missing" /\ disk' = Bundle(None) /\ durable' = Bundle(None)
           \/ directory' = directory /\ disk' = durable /\ durable' = durable
        /\ \A p \in Procs : pc'[p] = IF Running(p) THEN "dead" ELSE pc[p]
    BY DEF PowerLoss, FilesFoundAgain, DirectoryGone
  <1>2. ManifestInv'
    BY <1>t, <1>1 DEF ManifestInv, Uniform, Bundle, ManifestOf
  <1>3. ASSUME NEW q \in Runs PROVE RunInv(q)'
    <2>1. RunInv(q) BY DEF IInv
    <2>2. CASE Running(q)
      <3>1. pc'[q] = "dead" BY <1>1, <2>2
      <3> QED BY <3>1 DEF RunInv, Writing, WritePcs, VerifyPcs
    <2>3. CASE ~Running(q)
      <3>1. pc'[q] = pc[q] /\ ~Writing(q) BY <1>1, <2>3 DEF Running, Writing
      <3> QED BY <1>1, <2>1, <3>1 DEF RunInv, Writing
    <2> QED BY <2>2, <2>3
  <1> QED BY <1>2, <1>3 DEF IInv

\* The entry of the new directory that becomes durable.
LEMMA DirectoryEntryInv ==
  ASSUME IInv, TypeOK', DirectoryInv', DirectoryEntryReachesDisk
  PROVE  IInv'
  <1>1. /\ UNCHANGED <<disk, durable, pc, target, digests, manifest, latest>>
        /\ directory # "missing" /\ directory' # "missing"
    BY DEF DirectoryEntryReachesDisk
  <1>2. ManifestInv' BY <1>1 DEF IInv, ManifestInv
  <1>3. ASSUME NEW q \in Runs PROVE RunInv(q)'
    BY <1>1 DEF IInv, RunInv, Writing, Progress, FileStep, Rendered
  <1> QED BY <1>2, <1>3 DEF IInv

\* The starts of verifiers and the last step of an audit.
LEMMA VerifierEndsInv ==
  ASSUME IInv, TypeOK', DirectoryInv', NEW p \in Readers \cup Auditors,
         StartReader(p) \/ PinManifest(p) \/ ReadReleaseData(p)
  PROVE  IInv'
  <1> USE ContentFacts
  <1>t. TypeOK /\ ManifestInv BY DEF IInv
  <1>1. UNCHANGED <<disk, durable, directory, target, digests, manifest, latest>>
    BY DEF StartReader, PinManifest, ReadReleaseData
  <1>2. \A q \in Runs : pc'[q] = pc[q]
    BY <1>t DEF StartReader, PinManifest, ReadReleaseData, GoTo, TypeOK
  <1>3. ManifestInv' BY <1>t, <1>1 DEF ManifestInv
  <1> QED BY <1>1, <1>2, <1>3, RunsUntouched DEF IInv

\* The invariant is inductive when writers take turns.
LEMMA NextInv == ~Overlap /\ IInv /\ [Next]_vars => IInv'
  <1> SUFFICES ASSUME ~Overlap, IInv, [Next]_vars PROVE IInv' OBVIOUS
  <1>t. TypeOK' /\ DirectoryInv' BY TypeStep, DirectoryStep DEF IInv
  <1>1. CASE UNCHANGED vars
    <2>1. ManifestInv' BY <1>1 DEF vars, IInv, ManifestInv
    <2> QED BY <1>1, <1>t, <2>1, RunsUntouched DEF vars, IInv
  <1>2. CASE Next
    BY <1>2, <1>t, WriteStepInv, VerifyStepInv, WriteBackInv, PowerLossInv,
       VerifierEndsInv, DirectoryEntryInv
    DEF Next
  <1> QED BY <1>1, <1>2

-----------------------------------------------------------------------------
\* The types of the evidence model hold for all commands and crashes, whether
\* or not commands overlap.
THEOREM EvidenceTypes == Spec => []TypeOK
  <1>1. Init => TypeOK BY InitInv DEF IInv
  <1> QED BY <1>1, TypeStep, PTL DEF Spec

\* The inductive invariant.
THEOREM EvidenceInvariance == ASSUME ~Overlap PROVE Spec => []IInv
  <1>1. IInv /\ [Next]_vars => IInv' BY NextInv
  <1> QED BY <1>1, InitInv, PTL DEF Spec

\* verify_evidence_manifest accepts only the report and the data of one run.
THEOREM VerifiedBundles == ASSUME ~Overlap PROVE Spec => []VerifiedIsOneRun
  <1>1. IInv => VerifiedIsOneRun
    BY DEF IInv, ManifestInv, RunInv, Uniform, VerifiedIsOneRun
  <1> QED BY <1>1, EvidenceInvariance, PTL

\* The verification that ends write_evidence_bundle never fails.
THEOREM WritersAccept == ASSUME ~Overlap PROVE Spec => []WriterNeverRejected
  <1>1. IInv => WriterNeverRejected BY DEF IInv, RunInv, WriterNeverRejected
  <1> QED BY <1>1, EvidenceInvariance, PTL

\* A bundle survives a power loss once write_evidence_bundle has returned, unless
\* the directory was made for it and its entry is lost: then all of it is gone.
THEOREM ReturnedBundles == ASSUME ~Overlap PROVE Spec => []ReturnedIsDurable
  <1>1. IInv => ReturnedIsDurable
    BY DEF IInv, DirectoryInv, RunInv, ReturnedIsDurable
  <1> QED BY <1>1, EvidenceInvariance, PTL

=============================================================================
