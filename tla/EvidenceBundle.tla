--------------------------- MODULE EvidenceBundle ---------------------------
(***************************************************************************)
(* The evidence bundle of one report path: a rendered report, its JSON     *)
(* data and a manifest with the SHA-256 of both, written one after another *)
(* by write_evidence_bundle.  Commands may be killed, the machine may lose *)
(* power, and verifiers read the three files while they change.            *)
(*                                                                         *)
(* The bytes of a report or of its data are told apart by the run they     *)
(* belong to, and so are their digests.  A manifest is a pair of digests.  *)
(* Besides the three files and temporary ones, the directory holds nothing *)
(* whose name begins like the report's.                                    *)
(***************************************************************************)
EXTENDS Naturals, FiniteSets

CONSTANTS
  Runs,         \* commands that write a bundle to the path
  Readers,      \* verify-evidence commands
  Auditors,     \* verify-committed-evidence commands
  Release,      \* the run whose manifest digest is pinned in the code
  LikeRelease,  \* runs whose data passes the pinned release's semantic checks
  None,         \* no such file
  Overlap,      \* whether two commands may write to the path at once
  MaxCrashes    \* bound: how often the machine loses power

VARIABLES
  disk,      \* the files as every process sees them
  durable,   \* the files as a power loss leaves them, if it leaves the directory
  directory, \* the directory of the files: missing, or its own entry in the
             \* parent directory not yet synced (fresh), or synced
  temps,     \* temporary files of _atomic_write
  pc,        \* where each command is
  target,    \* the file a command is writing
  digests,   \* the digests a writing command has computed for its manifest
  manifest,  \* the manifest a verifying command has read
  latest,    \* the command that started writing last
  crashes    \* how often the machine lost power

vars == <<disk, durable, directory, temps, pc, target, digests, manifest, latest,
          crashes>>

Procs == Runs \cup Readers \cup Auditors

Contents == Runs \cup {Release, None}

ASSUME EvidenceAssumption ==
  /\ Runs \cap (Readers \cup Auditors) = {}
  /\ Readers \cap Auditors = {}
  /\ Release \notin Runs
  /\ None \notin Runs \cup {Release}
  /\ LikeRelease \subseteq Runs
  /\ Overlap \in BOOLEAN
  /\ MaxCrashes \in Nat

Names == {"md", "json", "manifest"}

Manifests == [md : Contents, json : Contents]

Files == [md : Contents, json : Contents, manifest : Manifests]

\* The manifest that names the files of c only, and c's complete bundle.
ManifestOf(c) == [md |-> c, json |-> c]

Bundle(c) == [md |-> c, json |-> c, manifest |-> ManifestOf(c)]

VerifyPcs == {"read_manifest", "check_md", "check_json", "check_sidecars"}

WritePcs == {"temp", "replace", "sync", "hash_md", "hash_json"}

\* The path is unused, with or without its directory, or it is the one at which
\* the release was committed.
Init ==
  /\ disk \in {Bundle(None), Bundle(Release)}
  /\ durable = disk
  /\ directory \in (IF disk = Bundle(None) THEN {"missing", "synced"} ELSE {"synced"})
  /\ temps = {}
  /\ pc = [p \in Procs |-> "idle"]
  /\ target = [r \in Runs |-> "md"]
  /\ digests = [r \in Runs |-> ManifestOf(None)]
  /\ manifest = [p \in Procs |-> ManifestOf(None)]
  /\ latest = None
  /\ crashes = 0

-----------------------------------------------------------------------------
(* write_evidence_bundle *)

\* r has started and neither returned, raised nor died.
Writing(r) == pc[r] \in WritePcs \cup VerifyPcs

GoTo(p, next) == pc' = [pc EXCEPT ![p] = next]

\* mkdir makes the directory, and its parents, where they are missing; nothing
\* syncs the directories that hold their entries.
BeginBundle(r) ==
  /\ pc[r] = "idle"
  /\ Overlap \/ ~\E q \in Runs : Writing(q)
  /\ directory' = IF directory = "missing" THEN "fresh" ELSE directory
  /\ GoTo(r, "temp")
  /\ latest' = r
  /\ UNCHANGED <<disk, durable, temps, target, digests, manifest, crashes>>

\* Mutant: the digests go to the data path.
digests_as_data(r, name) == IF name = "json" THEN digests[r] ELSE r

\* The bytes r puts into a file.
Rendered(r, name) == IF name = "manifest" THEN digests[r] ELSE r

\* _atomic_write: a complete, synced temporary file ...
WriteTemp(r) ==
  /\ pc[r] = "temp"
  /\ temps' = temps \cup {<<r, target[r]>>}
  /\ GoTo(r, "replace")
  /\ UNCHANGED <<disk, durable, directory, target, digests, manifest, latest,
                 crashes>>

\* ... which is removed if writing it fails (a full disk, an interrupt) ...
WriteFails(r) ==
  /\ pc[r] = "temp"
  /\ GoTo(r, "failed")
  /\ UNCHANGED <<disk, durable, directory, temps, target, digests, manifest,
                 latest, crashes>>

\* ... takes the place of the file in one step ...
ReplaceFile(r) ==
  /\ pc[r] = "replace"
  /\ disk' = [disk EXCEPT ![target[r]] = Rendered(r, target[r])]
  /\ temps' = temps \ {<<r, target[r]>>}
  /\ GoTo(r, "sync")
  /\ UNCHANGED <<durable, directory, target, digests, manifest, latest, crashes>>

\* Mutant: the data file is forgotten.
after_file_without_data(name) ==
  IF name = "md" THEN [pc |-> "hash_md", target |-> "manifest"]
                 ELSE [pc |-> "read_manifest", target |-> "manifest"]

\* ... and the directory is synced before the next file is begun.
AfterFile(name) ==
  CASE name = "md"       -> [pc |-> "temp", target |-> "json"]
    [] name = "json"     -> [pc |-> "hash_md", target |-> "manifest"]
    [] name = "manifest" -> [pc |-> "read_manifest", target |-> "manifest"]

\* Mutant: the directory is not synced.
skip_directory_sync(r) ==
  /\ pc[r] = "sync"
  /\ GoTo(r, AfterFile(target[r]).pc)
  /\ target' = [target EXCEPT ![r] = AfterFile(target[r]).target]
  /\ UNCHANGED <<disk, durable, directory, temps, digests, manifest, latest,
                 crashes>>

SyncDirectory(r) ==
  /\ pc[r] = "sync"
  /\ durable' = disk
  /\ GoTo(r, AfterFile(target[r]).pc)
  /\ target' = [target EXCEPT ![r] = AfterFile(target[r]).target]
  /\ UNCHANGED <<disk, directory, temps, digests, manifest, latest, crashes>>

\* The manifest's digests are those of the files that are there now.
HashReport(r) ==
  /\ pc[r] = "hash_md"
  /\ digests' = [digests EXCEPT ![r].md = disk.md]
  /\ GoTo(r, "hash_json")
  /\ UNCHANGED <<disk, durable, directory, temps, target, manifest, latest,
                 crashes>>

HashData(r) ==
  /\ pc[r] = "hash_json"
  /\ digests' = [digests EXCEPT ![r].json = disk.json]
  /\ GoTo(r, "temp")
  /\ UNCHANGED <<disk, durable, directory, temps, target, manifest, latest,
                 crashes>>

-----------------------------------------------------------------------------
(* verify_evidence_manifest, called by the writer itself and by commands *)

\* Where a verifier goes when all checks passed: an audit reads the data again.
Verified(p) == IF p \in Auditors THEN "read_data" ELSE "ok"

StartReader(p) ==
  /\ p \in Readers
  /\ pc[p] = "idle"
  /\ GoTo(p, "read_manifest")
  /\ UNCHANGED <<disk, durable, directory, temps, target, digests, manifest,
                 latest, crashes>>

ReadManifest(p) ==
  /\ pc[p] = "read_manifest"
  /\ IF disk.manifest = ManifestOf(None)
     THEN GoTo(p, "rejected") /\ UNCHANGED manifest
     ELSE GoTo(p, "check_md") /\ manifest' = [manifest EXCEPT ![p] = disk.manifest]
  /\ UNCHANGED <<disk, durable, directory, temps, target, digests, latest,
                 crashes>>

\* The entries are hashed one by one; a missing file matches no digest.
CheckReport(p) ==
  /\ pc[p] = "check_md"
  /\ GoTo(p, IF disk.md # None /\ disk.md = manifest[p].md
             THEN "check_json" ELSE "rejected")
  /\ UNCHANGED <<disk, durable, directory, temps, target, digests, manifest,
                 latest, crashes>>

CheckData(p) ==
  /\ pc[p] = "check_json"
  /\ GoTo(p, IF disk.json # None /\ disk.json = manifest[p].json
             THEN "check_sidecars" ELSE "rejected")
  /\ UNCHANGED <<disk, durable, directory, temps, target, digests, manifest,
                 latest, crashes>>

\* Mutant: temporary files are named after the file they replace.
visible_temp_prefix == "stem."

\* How the names of temporary files begin, and how those of the bundle's files.
TempPrefix == "."

StemPrefix == "stem."

\* Files that share the stem of the report and are none of its three.
UnexpectedSidecars == {t \in temps : TempPrefix = StemPrefix}

CheckSidecars(p) ==
  /\ pc[p] = "check_sidecars"
  /\ GoTo(p, IF UnexpectedSidecars = {} THEN Verified(p) ELSE "rejected")
  /\ UNCHANGED <<disk, durable, directory, temps, target, digests, manifest,
                 latest, crashes>>

-----------------------------------------------------------------------------
(* verify_committed_release_evidence *)

\* The manifest's own digest is compared with the one in the code.
PinManifest(a) ==
  /\ a \in Auditors
  /\ pc[a] = "idle"
  /\ GoTo(a, IF disk.manifest = ManifestOf(Release)
             THEN "read_manifest" ELSE "rejected")
  /\ UNCHANGED <<disk, durable, directory, temps, target, digests, manifest,
                 latest, crashes>>

\* _verify_committed_release_semantics
SemanticsHold(c) == c \in {Release} \cup LikeRelease

\* The data is read once more, after it was hashed.
ReadReleaseData(a) ==
  /\ pc[a] = "read_data"
  /\ GoTo(a, IF SemanticsHold(disk.json) THEN "ok" ELSE "rejected")
  /\ UNCHANGED <<disk, durable, directory, temps, target, digests, manifest,
                 latest, crashes>>

-----------------------------------------------------------------------------
(* Failures *)

Running(p) == pc[p] \in WritePcs \cup VerifyPcs \cup {"read_data"}

\* A command is killed, or os.replace or the sync of the directory raises: what
\* was written stays, the temporary file too.
Kill(r) ==
  /\ Writing(r)
  /\ GoTo(r, "dead")
  /\ UNCHANGED <<disk, durable, directory, temps, target, digests, manifest,
                 latest, crashes>>

\* The file system may make a rename durable at any time and in any order.
WriteBack(name) ==
  /\ durable[name] # disk[name]
  /\ durable' = [durable EXCEPT ![name] = disk[name]]
  /\ UNCHANGED <<disk, directory, temps, pc, target, digests, manifest, latest,
                 crashes>>

\* So does the entry of a new directory.
DirectoryEntryReachesDisk ==
  /\ directory = "fresh"
  /\ directory' = "synced"
  /\ UNCHANGED <<disk, durable, temps, pc, target, digests, manifest, latest,
                 crashes>>

\* What the disk holds of the directory is there again.
FilesFoundAgain ==
  /\ directory # "fresh"
  /\ disk' = durable
  /\ UNCHANGED <<durable, directory, temps>>

\* A directory whose own entry was not durable is gone with all that was in it,
\* the synced files too.
DirectoryGone ==
  /\ directory = "fresh"
  /\ directory' = "missing"
  /\ disk' = Bundle(None) /\ durable' = Bundle(None)
  /\ temps' = {}

\* Everything that is not durable is gone, and so are the running commands.
PowerLoss ==
  /\ crashes < MaxCrashes
  /\ crashes' = crashes + 1
  /\ FilesFoundAgain \/ DirectoryGone
  /\ pc' = [p \in Procs |-> IF Running(p) THEN "dead" ELSE pc[p]]
  /\ UNCHANGED <<target, digests, manifest, latest>>

-----------------------------------------------------------------------------
WriteStep(r) ==
  \/ BeginBundle(r) \/ WriteTemp(r) \/ WriteFails(r) \/ ReplaceFile(r)
  \/ SyncDirectory(r) \/ HashReport(r) \/ HashData(r) \/ Kill(r)

VerifyStep(p) ==
  \/ ReadManifest(p) \/ CheckReport(p) \/ CheckData(p) \/ CheckSidecars(p)

Next ==
  \/ \E r \in Runs : WriteStep(r)
  \/ \E p \in Readers : StartReader(p)
  \/ \E p \in Procs : VerifyStep(p)
  \/ \E a \in Auditors : PinManifest(a) \/ ReadReleaseData(a)
  \/ \E name \in Names : WriteBack(name)
  \/ DirectoryEntryReachesDisk
  \/ PowerLoss

Spec == Init /\ [][Next]_vars

-----------------------------------------------------------------------------
(* Properties.  All but the type invariant need that the commands that write   *)
(* to a path take turns (Overlap = FALSE).                                     *)

\* Every variable has the values the code can give it.
TypeOK ==
  /\ disk \in Files /\ durable \in Files
  /\ directory \in {"missing", "fresh", "synced"}
  /\ temps \subseteq Runs \X Names
  /\ pc \in [Procs -> {"idle", "failed", "dead", "rejected", "read_data", "ok"}
                      \cup WritePcs \cup VerifyPcs]
  /\ target \in [Runs -> Names]
  /\ digests \in [Runs -> Manifests]
  /\ manifest \in [Procs -> Manifests]
  /\ latest \in Runs \cup {None}
  /\ crashes \in 0 .. MaxCrashes

\* What verify_evidence_manifest accepts is the report and the data of one run,
\* even if files were replaced between its reads, and whatever commands were
\* killed between their writes before.
VerifiedIsOneRun ==
  \A p \in Procs : pc[p] \in {"ok", "read_data"} =>
    /\ manifest[p].md = manifest[p].json
    /\ p \in Runs => manifest[p] = ManifestOf(p)

\* The verification at the end of write_evidence_bundle never rejects the bundle
\* it follows: remains of killed commands do not count as sidecars.
WriterNeverRejected == \A r \in Runs : pc[r] # "rejected"

\* Once write_evidence_bundle has returned, its three files are what is on disk
\* and what a power loss leaves of the directory, until the next command begins.
\* A bundle goes only as a whole, with a directory that the command had to make
\* and whose own entry nobody synced: then nothing of it is left to verify.
ReturnedIsDurable ==
  \A r \in Runs : pc[r] = "ok" /\ latest = r =>
    IF directory = "missing" THEN disk = Bundle(None)
    ELSE disk = Bundle(r) /\ durable = Bundle(r)

=============================================================================
