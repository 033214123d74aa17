------------------------------- MODULE Matrix -------------------------------
(***************************************************************************)
(* The clean-VM matrix (scripts/test-r0-clean-vm-matrix.sh and             *)
(* scripts/generate-r0-matrix-summary.py): a run withdraws what the last   *)
(* one published, lets a virtual machine of every variant pass the release *)
(* gate, and publishes a summary and a status for the rest of the release. *)
(*                                                                         *)
(* A file is its content, and a digest is the content it is of.  The files *)
(* whose name has the run's identifier in it are written by that run only. *)
(* A run may fail at every command (set -e, a signal) and be killed.       *)
(***************************************************************************)
EXTENDS Naturals, Sequences, FiniteSets

CONSTANTS
  Runs,         \* invocations of the script, each with its RUN_ID
  Commits,
  Manifests,    \* release manifests (GA-R0-002)
  About,        \* manifest -> what it says
  Repository,   \* the one that is trusted
  Order,        \* the variants, in the order of MATRIX and EXPECTED_VARIANTS
  KeepVms,      \* AIOPS_R0_KEEP_VMS
  None,
  MaxFaults      \* bound on the failures, signals and kills

Variants == {Order[i] : i \in DOMAIN Order}

ASSUME MatrixAssumption ==
  /\ DOMAIN About = Manifests /\ KeepVms \in BOOLEAN /\ MaxFaults \in Nat
  /\ Order \in Seq(Variants) /\ Order # <<>> /\ \A i, j \in DOMAIN Order : Order[i] = Order[j] => i = j
  /\ None \notin Manifests \cup Runs \cup Commits

VARIABLES
  summary,    \* matrix-summary.json
  status,     \* matrix-status.json
  vm,         \* variant -> its manifest, at a path every run uses
  copy,       \* run -> the release manifest and the receipts it stored
  leftovers,  \* a run directory or a machine is left: no run starts
  faults,     \* failures, signals and kills so far
  run         \* run -> where it is and what it holds

publication == <<summary, status, vm>>
matrixVars == <<summary, status, vm, copy, leftovers, faults, run>>

Waiting == [pc |-> "idle", commit |-> None, release |-> None, gated |-> 0,
            staged |-> None, owns |-> FALSE]

AtWork == {"source", "invalidate", "mark", "own", "gate", "stage", "cleanup",
           "publish_summary", "publish_status", "verify", "withdraw", "disowned"}
Trap == {"trap", "rm_summary", "rm_status"}
Locked(r) == run[r].pc \in AtWork \cup Trap

MatrixInit ==
  /\ summary = None /\ status = None
  /\ vm = [v \in Variants |-> None] /\ copy = [r \in Runs |-> None]
  /\ leftovers = FALSE /\ faults = 0
  /\ run = [r \in Runs |-> Waiting]

-----------------------------------------------------------------------------
(* Release manifests and summaries *)

\* validate_manifest of validate-ga-manifest.py, of a release manifest: the fixed fields, and
\* everything in it is of one repository, one tag and one pair of images.
ValidateReleaseManifest(m) ==
  LET a == About[m] IN
  /\ a.fixed_fields
  /\ a.repository = Repository
  /\ a.workflow_ref = <<a.repository, a.release_tag>> /\ a.certificate_identity = a.workflow_ref
  /\ a.release_digest = a.release_digests.backend /\ a.images = a.release_digests
  /\ a.tag_signature = "verified"

\* validate_runs: four manifests of one run, for one commit, release and pair of images.  What
\* the gate itself writes as it has checked it is not repeated here.
ValidateRuns(manifests, context) ==
  /\ \A v \in Variants :
       /\ manifests[v] # None
       /\ manifests[v].context = context /\ manifests[v].variant = v
       /\ manifests[v].driver \in {"overlay2", "overlayfs"}
  /\ Cardinality({manifests[v].release : v \in Variants}) = 1
  /\ Cardinality({About[manifests[v].tested].images : v \in Variants}) = 1

\* evidence_hashes: the receipts of the run are the ones its manifests name.
EvidenceHashes(manifests, context) ==
  [runs |-> manifests, receipts |-> copy[context.run]]
ReceiptsMatch(manifests, context) ==
  \A v \in Variants : manifests[v].release = copy[context.run]

BuildSummary(manifests, hashes, context) ==
  [context |-> context, release |-> manifests[Order[1]].release,
   tested |-> manifests[Order[1]].tested, runs |-> manifests, evidence |-> hashes]

Context(r) == [run |-> r, commit |-> run[r].commit]

-----------------------------------------------------------------------------
(* main *)
At(r, place) == run[r].pc = place
Goto(r, place) == run' = [run EXCEPT ![r].pc = place]
\* What the process held goes with it.
End(r, result) == run' = [run EXCEPT ![r].pc = result, ![r].owns = FALSE, ![r].staged = None]
Fault == faults < MaxFaults /\ faults' = faults + 1

\* prepare_state: the lock, nothing left of another run, a run directory.  A run
\* that is refused here changes nothing.
PrepareState(r) ==
  /\ At(r, "idle") /\ ~leftovers /\ \A q \in Runs : ~Locked(q)
  /\ \E c \in Commits : run' = [run EXCEPT ![r].pc = "source", ![r].commit = c]
  /\ leftovers' = TRUE
  /\ UNCHANGED <<summary, status, vm, copy, faults>>

\* What prepare_signed_release demands of the fields that it reads itself.
FieldsAreFit(m, commit) ==
  /\ About[m].commit_sha = commit /\ About[m].repository = Repository
  /\ About[m].tag_signature = "verified"

\* prepare_source and prepare_signed_release.  The release manifest comes from outside the
\* repository and is read three times, by the validator, for its fields, and by cp; that it is
\* replaced in between counts as a fault.
PrepareSignedRelease(r) ==
  /\ At(r, "source")
  /\ \E valid, m, stored \in Manifests :
       /\ ValidateReleaseManifest(valid) /\ FieldsAreFit(m, run[r].commit)
       /\ IF valid = m /\ m = stored THEN UNCHANGED faults ELSE Fault
       /\ copy' = [copy EXCEPT ![r] = stored]
       /\ run' = [run EXCEPT ![r].pc = "invalidate", ![r].release = m]
  /\ UNCHANGED <<summary, status, vm, leftovers>>

\* invalidate_summary: first the summary goes, with anything that was staged ...
InvalidateSummary(r) ==
  /\ At(r, "invalidate")
  /\ summary' = None
  /\ Goto(r, "mark")
  /\ UNCHANGED <<status, vm, copy, leftovers, faults>>

InProgress(r) == [result |-> "in_progress", run |-> r, commit |-> None, of |-> None]

\* Mutant: the status of the last run stays until it is replaced.
MarkLater(r) ==
  /\ At(r, "mark")
  /\ Goto(r, "own")
  /\ UNCHANGED <<publication, copy, leftovers, faults>>

\* ... then the status says that a run is in progress.
MarkInProgress(r) ==
  /\ At(r, "mark")
  /\ status' = InProgress(r)
  /\ Goto(r, "own")
  /\ UNCHANGED <<summary, vm, copy, leftovers, faults>>

\* MATRIX_OWNS_STATUS=1
Own(r) ==
  /\ At(r, "own")
  /\ run' = [run EXCEPT ![r].pc = "gate", ![r].owns = TRUE]
  /\ UNCHANGED <<publication, copy, leftovers, faults>>

\* run_vm_gate: the next variant's machine passes and its manifest is fetched.  The driver of
\* its Docker is what the image brings; an unsupported one counts as a fault.
RunVmGate(r) ==
  /\ At(r, "gate")
  /\ LET v == Order[run[r].gated + 1] IN
     \E driver \in {"overlay2", "btrfs"} :
       /\ IF driver = "overlay2" THEN UNCHANGED faults ELSE Fault
       /\ vm' = [vm EXCEPT ![v] = [context |-> Context(r), variant |-> v, release |-> copy[r],
                                tested |-> run[r].release, driver |-> driver]]
  /\ run' = [run EXCEPT ![r].gated = @ + 1,
                        ![r].pc = IF run[r].gated + 1 = Len(Order) THEN "stage" ELSE "gate"]
  /\ UNCHANGED <<summary, status, copy, leftovers>>

\* The log and the secret scan, then generate_matrix_summary with --stage.
GenerateMatrixSummary(r) ==
  /\ At(r, "stage")
  /\ ValidateRuns(vm, Context(r)) /\ ReceiptsMatch(vm, Context(r))
  /\ run' = [run EXCEPT ![r].pc = "cleanup",
       ![r].staged = BuildSummary(vm, EvidenceHashes(vm, Context(r)), Context(r))]
  /\ UNCHANGED <<publication, copy, leftovers, faults>>

\* cleanup_success_run_artifacts, and the second scan
CleanupSuccess(r) ==
  /\ At(r, "cleanup")
  /\ leftovers' = KeepVms
  /\ Goto(r, "publish_summary")
  /\ UNCHANGED <<publication, copy, faults>>

\* publish_staged_matrix_summary: two renames
PublishSummary(r) ==
  /\ At(r, "publish_summary")
  /\ summary' = run[r].staged
  /\ Goto(r, "publish_status")
  /\ UNCHANGED <<status, vm, copy, leftovers, faults>>

PublishStatus(r) ==
  /\ At(r, "publish_status")
  /\ status' = [result |-> "passed", run |-> r, commit |-> run[r].commit, of |-> run[r].staged]
  /\ Goto(r, "verify")
  /\ UNCHANGED <<summary, vm, copy, leftovers, faults>>

\* The second rename fails: the summary is taken back.
PublishStatusFails(r) ==
  /\ At(r, "publish_status") /\ Fault
  /\ summary' = None
  /\ Goto(r, "trap")
  /\ UNCHANGED <<status, vm, copy, leftovers>>

\* The last scan, and MATRIX_OWNS_STATUS=0.  A secret that appeared withdraws the publication.
VerifyPublished(r) ==
  /\ At(r, "verify")
  /\ \/ run' = [run EXCEPT ![r].pc = "disowned", ![r].owns = FALSE] /\ UNCHANGED faults
     \/ Goto(r, "withdraw") /\ Fault
  /\ UNCHANGED <<publication, copy, leftovers>>

\* main is over.  A signal that comes before the process ends is Kill here: the exit trap has
\* nothing to withdraw, and the publication stays with a run that ended with an error.
Exit(r) ==
  /\ At(r, "disowned")
  /\ End(r, "passed")
  /\ UNCHANGED <<publication, copy, leftovers, faults>>

\* invalidate_published_matrix_summary, in main
Withdraw(r) ==
  /\ At(r, "withdraw")
  /\ summary' = None /\ status' = None
  /\ Goto(r, "trap")
  /\ UNCHANGED <<vm, copy, leftovers, faults>>

-----------------------------------------------------------------------------
(* cleanup_on_exit *)

\* A command fails or a signal comes: the exit trap.
Fail(r) ==
  /\ run[r].pc \in AtWork \ {"disowned"} /\ Fault
  /\ Goto(r, "trap")
  /\ UNCHANGED <<publication, copy, leftovers>>

\* Mutant: a run that has a summary staged is taken for one that passed.
CleanupEarly(r) ==
  /\ At(r, "trap")
  /\ IF run[r].owns /\ run[r].staged = None THEN Goto(r, "rm_summary") ELSE End(r, "failed")
  /\ UNCHANGED <<publication, copy, leftovers, faults>>

\* The trap stops the machine and the registry and appends to the log; it ends by
\* withdrawing what this run owns.
CleanupOnExit(r) ==
  /\ At(r, "trap")
  /\ IF run[r].owns THEN Goto(r, "rm_summary") ELSE End(r, "failed")
  /\ UNCHANGED <<publication, copy, leftovers, faults>>

RemoveSummary(r) ==
  /\ At(r, "rm_summary")
  /\ summary' = None
  /\ Goto(r, "rm_status")
  /\ UNCHANGED <<status, vm, copy, leftovers, faults>>

RemoveStatus(r) ==
  /\ At(r, "rm_status")
  /\ status' = None
  /\ End(r, "failed")
  /\ UNCHANGED <<summary, vm, copy, leftovers, faults>>

\* The trap itself ends early: set -e is on in it and appending to the log is not guarded,
\* and a second signal is not held off.
TrapBreaks(r) ==
  /\ run[r].pc \in Trap
  /\ End(r, "dead")
  /\ UNCHANGED <<publication, copy, leftovers, faults>>

Kill(r) ==
  /\ Locked(r) /\ Fault
  /\ End(r, "dead")
  /\ UNCHANGED <<publication, copy, leftovers>>

\* The operator looks into the forensic run and clears it away.
ClearLeftovers ==
  /\ leftovers /\ \A r \in Runs : ~Locked(r)
  /\ leftovers' = FALSE
  /\ UNCHANGED <<publication, copy, faults, run>>

MatrixNext ==
  \/ \E r \in Runs :
       \/ PrepareState(r) \/ PrepareSignedRelease(r) \/ InvalidateSummary(r)
       \/ MarkInProgress(r) \/ Own(r) \/ RunVmGate(r) \/ GenerateMatrixSummary(r)
       \/ CleanupSuccess(r) \/ PublishSummary(r) \/ PublishStatus(r) \/ PublishStatusFails(r)
       \/ VerifyPublished(r) \/ Withdraw(r) \/ Exit(r)
       \/ Fail(r) \/ CleanupOnExit(r) \/ RemoveSummary(r) \/ RemoveStatus(r)
       \/ TrapBreaks(r) \/ Kill(r)
  \/ ClearLeftovers

MatrixSpec == MatrixInit /\ [][MatrixNext]_matrixVars

-----------------------------------------------------------------------------
(***************************************************************************)
(* Properties.                                                             *)
(***************************************************************************)

Summarised == summary # None
Passed == status # None /\ status.result = "passed"
Published == Summarised /\ Passed

\* What a reader finds when the status says "passed" is whole: the summary, if it is there, is
\* the one that the status is about, and the manifests it lists are still the ones on disk,
\* whichever runs started, failed or were killed since (invalidate_summary,
\* publish_staged_matrix_summary).
PassedIsEvidenced ==
  Published =>
    /\ status.of = summary /\ status.run = summary.context.run
    /\ summary.evidence.runs = vm /\ summary.evidence.receipts = copy[status.run]

\* A run that failed and whose exit trap came to its end leaves nothing published, also when it
\* had published both files before the last scan (cleanup_on_exit).  A run that a signal hits
\* after that scan has not failed, whatever its exit status says (Exit).
FailedRunLeavesNothing ==
  \A r \in Runs : At(r, "failed") =>
    /\ Summarised => summary.context.run # r
    /\ Passed => status.run # r
=============================================================================
