# Verification of the agent ops platform

TLA+ modules, model checking and proofs for the control plane in
`backend/app` (FastAPI, SQLite) and for the scripts that probe its LLM provider,
test its release, assemble the release's evidence and deploy it, kept beside the
code.

## 1. The system

The control plane serves a browser client. Every handler but one is a synchronous
function that FastAPI runs on a thread pool, so handlers overlap; `invoke`
(`main.py:346`) is a coroutine, waits for nothing but the request's body, and
overlaps the others from the event loop's thread. Every `db.*`
call opens its own SQLite connection and commits on its own
(`storage/db.py:34-47`): a handler is a sequence of transactions, and between two
of them any other handler may run, the next call may fail, or the process may be
killed. Start-up (`main.py:66-77`) repairs no row.

| Component | State | Operations | Interacts with | What is hard | What makes it correct |
| --- | --- | --- | --- | --- | --- |
| Approvals | `approvals`, linked `ops_tasks`, `audit_records` | create, approve, deny, cancel the task | registry, sessions, file writes | overlapping decisions, a failure in the middle, a kill after the claim, lazy expiry | the tool runs at most once, for its owner, only if enabled; both rows agree in the end; what ran is audited |
| Tasks and event log | `ops_tasks`, `ops_events` | create, run a diagnosis or a command, cancel, add and list events | runner, registry | cancel against the handler, two-transaction sequence numbers | no task is left running, the log is complete and in order |
| Sessions and passwords | `users`, `sessions`, CSRF cookie | login, logout, change password | every handler | checked once per request; overlapping changes; restarts with another secret | only a live session acts, a secret is earned by the password, a bootstrap password opens nothing |
| First-boot enrollment | `setup_state`, `users` | enroll once with a token | configuration | concurrent enrollments, kill in between | exactly one first admin, audited |
| Diagnosis orchestrators | `diagnosis_sessions`, `diagnosis_events` | mock and LLM diagnosis | LLM client, registry, approvals | a model that loops, names unknown evidence, or fails | a session ends; claims cite kept evidence; nothing mutating runs |
| LLM provider client | none | `chat_completion` with retries | provider | timeouts, late answers | bounded attempts |
| Tool registry | constants | `invoke_tool`, capability metadata | adapters, runner | the release boundary | a disabled tool never runs |
| Command runner | child process | `execute_argv` with deadline and cancel token | event sink | polling loop against the process | no child is left behind |
| File writes and backups | files | diff, write, backup, restore | approvals | dormant: the registry disables `file.write` | the branch is not taken |
| Remote agents | `AGENT_HEARTBEATS` | register, heartbeat, simulate loss | clients | late and lost heartbeats | a silent agent is offline |
| Configuration | environment, secret files | load and validate | start-up, evidence checks | combinations of settings | production refuses unsafe settings; what the probe accepts, the server accepts |
| Frontend | React state, CSRF token | polling, approve, deny | API | stale views | the user decides on what is shown |
| Deployment scripts | the Compose project, the files of a release | check, verify, start, look again, stop | cosign, Docker Compose | files that change under the checks, overlapping runs, a failure after the start | what runs was verified, what was not seen running is stopped |
| LLM contract probe, evidence checks | policy, snapshots, the evidence file | check, bound the cost, ask the provider, publish; verify at every look | provider, configuration, orchestrators | retries that are billed without an answer, pages and files that change, windows that run out | the cap holds and is reported; only what a probe published is trusted |
| Clean-VM matrix | summary, status, the machines' manifests | withdraw, test every variant, publish, exit trap | release manifest, assembler | failures, signals and kills between any two commands | what says passed is whole; a failed run leaves nothing |
| Assembler, validator | the aggregate manifest, reviews, signatures | read, compare, bind, pin, write; hash, verify | matrix, probe, reviewers | files read several times while they are replaced | what is accepted was tested and is of one piece |

`PROJECT.json` lists the same components with their status, and under `hazards`
what is hard to test in each, at its line.

## 2. Modules

| Module | What it is |
| --- | --- |
| `Approvals.tla` | the approval endpoints, one action per transaction |
| `OneTimeGrant.tla` | abstract: a grant is open, then closed or claimed, used once, and never open again |
| `MCApprovals.tla` | constants and symmetry for TLC |
| `ApprovalsProofs.tla` | the theorems about `Approvals`, proofs checked by TLAPS |
| `Tasks.tla` | tasks without approval, their cancellation, the event log |
| `MCTasks.tla` | symmetry for TLC |
| `Runner.tla` | one call of `execute_argv`, its child and its sink |
| `CommandProofs.tla` | the theorems about `Tasks` and `Runner` |
| `Setup.tla` | start-up and enrollment, statement by statement |
| `SetupProofs.tla` | the theorems about `Setup` |
| `Diagnosis.tla` | one diagnosis, by the LLM or the mock, call by call |
| `DiagnosisProofs.tla` | the theorems about `Diagnosis` |
| `Sessions.tla` | login, logout, password change, and the identity of every other route |
| `MCSessions.tla` | symmetry for TLC |
| `SessionsProofs.tla` | the theorems about `Sessions` |
| `Deploy.tla` | `deploy-production.sh`, command by command |
| `MCDeploy.tla` | three releases for TLC |
| `DeployProofs.tla` | the theorems about `Deploy` |
| `Config.tla` | operators: how the server reads its environment, and when it boots |
| `Evidence.tla` | operators: what the server demands of a probe's manifest |
| `Probe.tla` | `probe-llm-contract.py`, request by request, and the server's look at what it wrote; extends the two |
| `MCProbe.tla` | a good environment and policy, and each with one thing changed |
| `ProbeProofs.tla` | the theorems about `Probe` |
| `Matrix.tla` | the clean-VM matrix, command by command, with its exit trap |
| `Release.tla` | composes `Matrix` with reviewers, assembler, signer and validator |
| `MCRelease.tla` | two builds of one commit, three reviewers, symmetry |
| `MatrixProofs.tla` | the theorems about `Matrix` and `Release` |

Each module, or its `MC` module, is checked with the `.cfg` files that bear its
name in lower case. `Config` and `Evidence` have no state and are checked through
`Probe`; `Matrix` is checked through `Release`. The other modules do not share
variables: `Tasks` has one step
`Progress` for what a run reports, whose inside is `Runner`; `Approvals` has one
step for a tool; `Diagnosis` counts the approvals that it creates, which are
then `Approvals`' to decide; and `Sessions` has one step `Act` for what a route
does once it is let in. Definitions marked `Mutant` are wrong variants of the action
that follows them; no specification uses them. They document which bug each
property would notice, and `PROJECT.json` pairs them with the properties.

### Approvals and the code

A request is a record: `pc`, the approval it works on (`ap`), the session it was
admitted under (`by`), and the locals that later steps read (`linked`, `ok`,
`saw`). The prefix of `pc` names the function it is in.

| Code | Model |
| --- | --- |
| `create_approval_task`, `_approval_for` | `CreateApproval`, `CreateTask`; the second creates no task |
| `approve` up to the claim | `ReadForApprove`, `MarkExpired`, `Claim` (`transition_approval_status`) |
| `approve`, the `try` block | `FindTask`, `Invoke`, `StoreResult`, `WriteFile`, `FinishTask`, `MarkApproved`, `Record` |
| `mark_approval_failed` | `MarkFailed`, `FailTask`, `Record`: at `x_` inside the `try` block for a disabled tool, at `f_` from the `except` clauses |
| `deny` | `ReadForDeny`, `MarkDenied`, `FindTask`, `CancelDeniedTask`, `Record` |
| `cancel_task` on a linked task | `ReadForCancel`, `UpdateCancelled` |
| a call that raises; `except Exception` | `Fault`: to `f_status` inside the `try` block, out of the request elsewhere |
| a kill and a restart | `Crash`: every request is gone, every row stays |
| logout or the eight hours; the ten minutes | `EndSession`, `PassDeadline` |

Abstractions. The kind of an approval is what `approve` tells apart: a linked
task of type `file.write`, or any other, for which `systemd.approval` stands. A
tool's adapter is one step that runs it, with any outcome: success, an error
result, an exception. A fault happens before the call it hits has changed
anything. The events and subtasks that the handlers write on the way are left
out, because no handler reads them; they fail like the step they precede.

`interrupted` is a ghost: the approvals whose decision was cut short by a crash,
or by an exception outside the `try` block. `executions` counts the runs of the
adapter.

### Tasks and the code

| Code | Model |
| --- | --- |
| `create_ops_task` | `CreateTask`, then the event `task_created` |
| `create_task`, `docker_diagnose`, `nginx_diagnose_502`, `terminal_run` | the flows `plain`, `simulated`, `diagnosis`, `terminal`: `MarkRunning`, up to `MaxEvents` times `Progress`, `EndWork`, the event `final_report`, `FinishTask`, `Audit` |
| `except AgentCommandRejected` | `EndWork` to `w_rejected`, `RejectCommand` |
| `cancel_task` | `ReadForCancel`, `UpdateCancelled`, the event `cancel_requested`, `Audit` |
| `add_ops_event` | `ReadSequence`, `InsertEvent` |
| an uncaught exception, a kill | `Fault`, `Crash` |

A request is served once, which makes the runs finite without a counter. The
events between start and report differ only in wording and are all `progress`.

### Runner and the code

| Code | Model |
| --- | --- |
| `_normalize_argv`, the token before the start, `shutil.which` | `Normalize`, `CheckBeforeStart`, `FindExecutable` |
| the event `command_started`, `Popen`, the deadline | `EmitStarted`, `StartChild` |
| the polling loop: token, clock, one slice of `communicate` | `CheckToken`, `CheckClock`, `Communicated` or `SliceOver` |
| `_terminate` and the event after it | `Terminate`, `Reap`, `Kill`, `KillFails`, `EmitEnding` |
| the lines, `command_finished`, the result | `EmitLine`, `EmitFinished`, `ReturnResult` (no data, if no line has text) |
| an event sink that raises | the second disjunct of `Emit` |
| the child, what it starts, another thread, the clock | `ChildEnds`, `ChildForks`, `HelperEnds`, `Cancel`, `Tick` |

The child is the environment: its `nature` says which signals end it, it may
exit by itself at any time, and a helper that it left behind may hold the output
open after it. `clock`, `waited` and `since` (the time since the cancel) are
counted in ticks; time passes only while the caller waits.

### Setup and the code

| Code | Model |
| --- | --- |
| `lifespan`, `validate_static` | `Start`, under any settings that it accepts |
| `init_db` | `ReadAdmin`, `DrawPassword` (the file), `InsertBootstrapAdmin` (the row) |
| `validate_initialization(has_users())` | `ValidateInitialization` |
| `setup_enroll` up to the transaction | `Submit`, `CheckUsers`, `CheckConsumed`, `CheckToken` |
| `complete_initial_setup` | `Begin`, `Recheck`, `InsertUser`, `InsertMarker`, `InsertAudit`, `Commit`, `Reply` |
| an exception in a connection; a kill | `Fault` and `Crash`, which undo the open transaction |

`staged` holds the tables the open transaction inserted into, and `Commit` makes
exactly those visible. `has_users` and `setup_consumed` answer `False` when the
read fails, so each may take the branch of an empty database. Of the settings
only those about the first admin are there; a start that another one refuses
changes nothing.

### Diagnosis and the code

| Code | Model |
| --- | --- |
| `create_diagnosis`, the provider, the plan, the settings | `CreateDiagnosis`, `MakeProvider`, `AddPlan`, `ReadSettings`: not in the `try` block |
| one turn: `chat_completion` and its retries, the reply | `StartTurn`, `Post`, `ReadReply`; `ReadFinalReply` for `_structured_final_content` |
| one tool call | `UnknownTool`, or `CallTool`, then `CreateApproval`, `AnnounceApproval`, or `InvokeTool`, `StoreResult`, `InsertAudit`, `AddResult` |
| report, final answer, `finish_diagnosis`, the return | `CreateReport`, `AddAnswer`, `Finish`, `Return` |
| the `except` clause | `CreateReport`, `AddError`, `AddErrorAnswer`, `FinishError`, `Return` |
| `run_mock_diagnosis` | the same steps without provider and without `except` clause, then `AskForDocker` |

The provider's reply is any sequence of reads, mutating calls and unknown names,
or a conclusion that is JSON or not. Messages, arguments and the payload of the
conclusion are left out. `invoked`, `refs`, `audits`, `approvals`, `announced`
and `posts` count rows and requests of one session.

### Sessions and the code

| Code | Model |
| --- | --- |
| `require_identity` | `ReadSession` (signature and row), `CheckExpiry`, `ReadIdentity` (the user's row and the debug switch) |
| `require_csrf`, `require_ready_identity` | `RequireCsrf`, `RequireReady` |
| `login` | `RequireCsrf`, `ReadAccount`, `VerifyLogin`, `InsertSession`, `SetCookie` |
| `change_password` | `RequireCsrf`, `ReadAccount`, `VerifyChange`, `StorePassword` |
| `logout` | `RequireCsrf`, `RevokeSession` |
| every other route | up to `ReadIdentity`, `RequireCsrf` or `RequireReady`, then `Act` |
| `lifespan`, a kill | `Start`, `Stop`; rows stay, the secret and the switch may change |

A cookie is the session's id and the secret that signed it; a client presents one
that it was given, or none. A password is compared as itself, since hashing keeps
equality. `past` is a ghost, the passwords the account has had; `since`, `late`
and `earned` remember what was true when a request came in.

### Deploy and the code

| Code | Model |
| --- | --- |
| arguments, `compose config` | `Begin` |
| the embedded check, `assert-production-topology.py compose` | `AssertCompose`: the release is in `Sound` |
| `verify_image`, backend then frontend | `VerifyImage`: the pair is in `Signed` |
| `STARTED=1`, `compose up` | `Up` (which reads the files again), `CreateContainer` service by service (`up`), `FinishUp` |
| `compose ps`, `docker ps` | `ListContainers` |
| `docker inspect`, `assert-production-topology.py runtime` | `Inspect` |
| `cleanup`, `compose down` | `Fail`, `Down`; `Kill` is SIGKILL, after which no trap runs |

A release is all that the environment file, the Compose files and the secrets
say; `Edit` puts another one in their place between any two commands. Runs share
one Compose project. The other scripts beside it are not modelled.

### Probe, Config, Evidence and the code

| Code | Model |
| --- | --- |
| `load_settings`, `validate_static`, `validate_initialization` (`config.py`) | `ServiceLoads`, `ModelLoads`, `ServiceBoots`, `Boots`, `Settings` |
| `provider_manifest_contract_complete`, `provider_manifest_validation_error` (`verification.py`) | the `...Complete` operators, `EvidenceIsCurrent`, `ProviderManifestValidationError` |
| `validate_provider_evidence` | `ValidateProviderEvidence`, an operator of the settings, the file and the clock, as the server keeps nothing of it |
| the probe's environment, `_load_policy`, the preflight | `EnvironmentIsFit`, `LoadPolicy`, `WithinBudget`, all in the guard of `Start`: nobody is asked before they hold |
| `_verify_live_snapshot`, twice | `VerifyPolicyPage`, `VerifySourcePage`; `PageChanges` is the provider |
| `_request_json` with its retries | `Discover`, `CallTool`, `Again` |
| the stream | `StreamEvent`, `StreamDone`, `StreamBreaks`: not tried again |
| costs, the manifest, the file, the printed digest | `Report`, `Manifest`, `Publish`, `PrintDigest` |
| a kill; the clock; somebody edits the file | `Kill`, `Tick`, `EditOutput` |

`billed` is a ghost, what the provider charges for the run. An attempt that ended in an error may have been
billed in full or not at all. The model assumes of the provider that it bills at
most one token for a byte of the payload and at most the reply that was asked
for, and reports no fewer tokens than it bills. Not modelled: the redaction
self-test, the normal form of the events, the last look for the key in the
serialized manifest, and a total timeout of the stream, which the code does not
have either (so no liveness is claimed).

### Matrix, Release and the code

| Code | Model |
| --- | --- |
| `prepare_state` with its lock, `prepare_signed_release` | `PrepareState`, `PrepareSignedRelease`: the validator, the fields (`FieldsAreFit`) and `cp` each read the manifest |
| `invalidate_summary`, `MATRIX_OWNS_STATUS=1` | `InvalidateSummary`, `MarkInProgress`, `Own` |
| `run_vm_gate`, once a variant | `RunVmGate` |
| `generate-r0-matrix-summary.py --stage` | `GenerateMatrixSummary`: `ValidateRuns`, `ReceiptsMatch`, `BuildSummary` |
| the two renames, the last scan, the end of `main` | `PublishSummary`, `PublishStatus` (or `PublishStatusFails`), `VerifyPublished`, `Withdraw`, `Exit` |
| `cleanup_on_exit` | `CleanupOnExit`, `RemoveSummary`, `RemoveStatus`; `TrapBreaks` ends it early |
| `assemble`: each file that is read, in order | `ReadRelease`, `ReadSummary`, `ReadStatus`, `CompareRelease`, `CompareStatus`, `RebuildRuns`, `RebuildHashes`, `ReadLlm`, `ReadReviews`, `Bind`, `CheckArchitecture`, `CheckSecurity`, `Pin`, `Write` |
| `validate-ga-manifest.py` | `Load`, `Hash`, `VerifySignature`, `Accept` |
| people and other programs | `Review`, `Sign`, `ReplaceRelease`, `ReplaceLlm`, `ClearLeftovers`; the matrix runs themselves |

A file is its content, and a digest is the content it is of. An entry of
`review.json`, its statement and its signature are written as one value and read
at two moments: the statement that the assembler finds for an entry is the entry's own
or a later one. The assembler drops
from `assembly` what it does not use again. `disturbed` is a ghost: some evidence
was replaced while the assembler was at work. The trap may break at any step,
because it runs under `set -e` and holds off no second signal. An unsupported
storage driver counts as a failure, and so does a release manifest that is replaced
between two of its reads. A signal between `MATRIX_OWNS_STATUS=0` and the end of
the process is a `Kill`: the trap has nothing left to withdraw, and the run ends
with an error although what it published stays. Left out: dates (the expiry of the LLM
evidence, the dates of reviews), paths and symbolic links.

## 3. Model checking

All runs end in minutes with two workers. Deadlock is not an error: when every session has
ended, every request is served, or every edit and run is used up, nothing is left to do.

| Run | Instance | Shows |
| --- | --- | --- |
| `approvals` | 1 approval, 2 sessions, 2 requests, only `file.write` enabled, 1 fault, 1 crash | `AtMostOnce`, `OwnerOnly`, `FailClosed`, `DecisionReachesTask`, `ExecutionIsAudited`, `DecisionsSettle`; the handlers implement `OneTimeGrant` |
| `approvals_denied_task` | nothing enabled, 2 requests, no faults | `DeniedTaskIsCancelled` is violated |
| `tasks` | 1 task, 3 requests, 1 event, 1 fault, 1 crash | `TablesAreSound` (with `TypeOK`), `RunsAreRecorded`, `RunningIsServed`, `FinishedOnce`, `RunningEnds` |
| `tasks_sequences` | 1 task, 2 requests, no faults | `SequencesAreUnique` is violated |
| `tasks_cancel` | 1 task, 2 requests, no faults | `CancelledIsNotUndone` is violated |
| `runner` | timeout 3, minimum 1, slice, grace and kill wait 2, 2 lines | `NoChildLeft`, `ReturnsInTime`, `ResultIsTold`, `CallEnds` |
| `setup` | 2 requests, 2 tokens, 2 names, clock to 1, 3 starts | `FirstAdminOnly`, `EnrollmentIsWhole`, `AnswerIsTrue`, `FileHoldsPassword`, `EnrollEnds` |
| `diagnosis` | 2 turns, 1 retry, 2 calls a message, 3 mock calls | `LogIsSound`, `StatusIsTrue`, `ActionsAreRecorded`, `PostsAreBounded`, `DiagnosisEnds` |
| `sessions` | 2 requests, 2 sessions, passwords `boot` (short) and `long`, 2 secrets, lifetime 1, clock to 2, 2 changes | `ClosedIsRefused`, `SecretsAreShown`, `ReadyGate` |
| `deploy` | 3 runs, 3 releases (good, an unsigned image, a drifted topology), 2 edits | `OnlyVerifiedStarts`, `UnseenIsStopped` |
| `probe` | a good case and some seventy with one input changed, 1 run, 1 retry, clock to 5, windows 1, 2, 2 and 3 | `SpendIsCapped`, `ReportCoversSpend`, `VerifiedByAProbe`, `PassedProbeIsAccepted`, `EditIsNoticed` |
| `release` | 2 matrix runs, 2 variants, 2 builds of one commit, 3 reviewers' hands, 1 signer, 3 edits, 1 aggregate, 1 fault | `PassedIsEvidenced`, `FailedRunLeavesNothing`, `ReleaseIsTested`, `AcceptedIsCrossBound` |

`TypeOK` is proved wherever it is not a part of a property that is checked. A property with several
parts joins the ones about the same tables or answers; its definition names them.

Bounds. Approvals share no row, so one is enough to see what overlapping
requests do to it; two requests give every pair of an approver, a denier and a
cancel, and what needs more of them (one use, one owner, no disabled tool, the
grant) is proved for any number. Two sessions give an owner and a
stranger. One fault and one crash suffice for a fault inside the clean-up of
another only where the clean-up starts without a fault, which a disabled tool and
a raising adapter both provide. Enabling one kind of two exercises both branches
of the registry in one run. In `Tasks` three requests allow a handler and two
cancels, which is where a cancel writes back what another one read. In `Runner`
a timeout of one slice and a half puts the deadline inside a slice. In `Setup`
two requests race for one transaction; three starts are a production one, one in
the other environment, and one after that, or two that are killed and one that
is not. In `Diagnosis` two turns of two calls let every kind of call follow every
other, within a message and across messages, and one retry separates the first
attempt from the last. A session fails or is killed at any call, any number of
times as the `except` clause fails too. In `Sessions` two requests are a login or
a change overlapped by another change, and a route overtaken by the logout of its
session; two changes let a password come back, and two ticks let a session expire
between any two steps. In `Probe` one
input at a time is wrong, so that each check is the one that decides; two events
of the stream let marker and usage come in either order, and the clock passes
every window. In `Release` two variants stand for four, of which the code
speaks in turn only; three edits are two reviews and one replacement, or one
review signed again over files that were replaced; the second matrix run
overwrites what the first one published; one aggregate is written, after any number of
refusals. All reviewers of the instance are different people with keys of their own: that two
reviews of one person, or by one key, are refused rests on
`AcceptedIsCrossBoundHolds` alone. In `Deploy` two edits let the files change and change
back under one run, and three runs leave one that finds what the others, killed or
still going, have left.

Fairness. `LiveSpec` (in `Runner`, `RunnerLiveSpec`) assumes weak fairness of a request's own steps: the thread
pool and SQLite serve what was started. Nothing is assumed of clients, of the
clock, of faults or of crashes. `Setup` does not lean on SQLite's busy timeout:
the lock is released because its holder goes on. `Runner` assumes that its thread
runs, that time passes while it waits, and that a signal that cannot be escaped
works; its child owes nothing. `Diagnosis` assumes that a started request is
served; every `Post` returns because `httpx.post` has a timeout. `Probe`, `Matrix` and `Release`
claim safety only and assume nothing.

### What the code does that its documents do not say

* `deny` writes `denied` without a compare-and-set (`main.py:1363`). When it
  overlaps an `approve`, the approval ends denied while the claimed tool goes on
  and its task ends failed (or succeeded, were the tool enabled), not cancelled
  as `backend/tests/test_phase1_api.py:631-633` has it. The tool still runs at
  most once: `ImplementsOneTimeGrant` holds across it.
* Sequence numbers of events repeat when two requests add to one task
  (`db.py:650-691`). They never skip, and those of one request are in order.
* No handler passes a `CancelToken` to the runner: the cancel of a task does not
  reach its command, which ends by itself or by its deadline. `Runner` is about
  the function as it is written, with a token that may be set at any time.
* A process that a command started outlives a call that was cancelled or timed
  out: only the command itself is signalled (`runner/agent.py:294`).
* A `finish_diagnosis` that fails is caught by the `except` clause after the final
  answer: the error takes the final answer's sequence number again, and there is
  a second report (`agent_orchestrator.py:291`). `LogIsSound` and
  `StatusIsTrue` state this exception and no other.
* A diagnosis that fails outside the `try` block, or in the mock, leaves its row
  `running` for ever.
* A kill after the commit of the enrollment leaves an instance whose operator was
  told of an error. A production database that is started in the other
  environment, with an enrolled admin of another name, gets the bootstrap admin
  as a second one (`db.py:186`).
* `change_password` revokes no session (`main.py:265`): those that the old
  password opened go on until they expire. A login or a change whose password
  was read before another change still takes effect after it; `SecretsAreShown`
  says how old that password may be.
* "production Compose started from verified image digests"
  (`deploy-production.sh:213`) holds if the files stay as they are during the
  run: `compose up` reads them again, and the runtime assertions do not compare
  with the digests that were verified. `OnlyVerifiedStarts` states this exception.
* The probe's preflight, whose byte bound the runbook calls conservative
  (`docs/runbooks/README.md:127-130`), prices every input token at the cache-miss
  rate; nothing refuses a snapshot in which cached input is dearer. `SpendIsCapped` and `ReportCoversSpend` state the
  exception (`CachedIsCheaper`).
* Probe and server read the same contract in code written apart, and the probe is
  laxer: it lower-cases the digests that it compares and writes them as it found
  them, allows a fourth approval, further quota fields and a region that is no
  text, strips the model, takes an empty key variable for none, and checks the
  age of the reviews at its start. `PassedProbeIsAccepted` lists these under
  `ReadAlike`; outside of them a passed probe is accepted.
* A commit is 7 to 64 hexadecimal digits to `config.py` and 40 to the verifier.
* Evidence that is replaced after the assembler read it, and before it hashes it,
  is pinned unseen; the signed statements bind three of the files,
  `matrix-status.json` none. `AcceptedIsCrossBound` is therefore about evidence
  that lay still, and `ReleaseIsTested` about any.
* A cancel of a running task is written over by the handler's last update
  (`main.py:882`, `1145`), and by a second cancel that read the success.

## 4. Proofs

`ApprovalsProofs.tla`, for every value of the constants, from
`ConstantsAssumption` alone (`None` is no id, the bounds are numbers, what is
enabled is a kind):

* `TypeCorrect`: `TypeOK`.
* `GrantInvariant`: `GrantInv`. `AtMostOnce` is not inductive: it says nothing of
  who may still run the tool. `GrantInv` adds that an approval without a row is
  known to the one request that creates it, that one request at most is past the
  claim, that a claimed approval is never pending, and that a used one has no
  claim. `RunsAtMostOnce` is a corollary.
* `OwnerDecides`: `OwnerOnly`, from the owner comparison being carried from the
  read to the decision (`OwnerInv`); a row's owner never changes, because only its
  creator writes it and the id is fresh.
* `DisabledNeverRuns`: `FailClosed`, from `EnabledInv`: past the disabled branch
  the tool is enabled, and a cancel that copies a `succeeded` back saw one.
* `GrantRefinement`: `Spec => OneTime!Spec`. A grant is `claimed` while a request
  is between the claim and the tool, and otherwise what the row says. Creating an
  approval issues the grant; `expired` and `denied` close it if it is pending and
  change nothing otherwise; a disabled tool, a fault and a crash lose it.
* `LinksAreTrue`: `LinkInv`. A decision reaches the linked task through a chain of
  looks at rows: whether there is a task, then its status, then the write.
  `NewIsUnknown` keeps an approval out of everybody's reach until its rows are all
  there, so what a request found of the link stays so (`LinksStay`); and a task
  that was decided never waits again (`WrittenIsSettled`): the one decider writes
  it, or a cancel copies back what it has seen. `DecisionIsTold`
  (`DecisionReachesTask`) and `ExecutionLeavesTrail` (`ExecutionIsAudited`) are
  corollaries.

Each proof has one step per action. `GotoFields`, `ReturnFields` and
`SetStatusFields` state what the small steps do field by field.

`CommandProofs.tla`, for any number of tasks, requests, events, faults and
crashes:

* `TasksInvariant`: `TasksInv`. A request writes some steps after it has read, so
  the invariant says what of the reading is still good. `LogInv`: a number that
  was read is at most one above the log, which therefore grows without a gap even
  when two requests add the same number, and above all that its reader has added.
  `Works`: a task has one handler (`WorkersAreApart`), and a cancel, which may
  write between any two of the handler's steps, never writes `running` and an end
  only when the handler is through. `Cancels`: an end that a cancel has read is
  still there or was overwritten by another cancel, and `CancelsAgree` on it. The
  invariants that the run checks are not inductive without these: `RunningIsServed`
  needs to know that `w_audit` comes after the end, `RunsAreAudited` that a refused
  command has not run.
* `TablesAreSoundHolds`, `RunsAreRecordedHolds` and `RunningIsServedHolds` are
  corollaries; `FinishedOnceHolds` is a property of its steps.

and for any timeout, slice, grace and number of lines, from `TimesAssumption`:

* `RunnerInvariant`: `RunnerInv`. `NoChildLeft` speaks of the end only;
  `ChildInv`, `TimeInv` and `EndingInv` say of every place before it what the
  child may be, how much of the deadline and of the grace is used, and why it is
  being ended. `ChildIsGone`, `CallIsInTime` and `ResultIsHonest` are corollaries,
  `KillIsLast` a property of its steps.
* `EventsAgree`: `EventInv` on top of it, since the events agree with a result
  that is not there yet. `ResultAndEvents` joins the two as `ResultIsTold`.

`SetupProofs.tla`, for any number of requests, tokens and starts:

* `SetupInvariant`: `SetupInv`. That the admin is alone is decided by a look that
  is some steps older than the insert; `LockInv` carries it across them: who
  holds the lock is in the transaction, alone, and after the second look the
  database is empty. `AnswerInv` ties marker and answer, `BootInv` says what a
  start knows between the file and the row. `FirstAdminIsEnrolled`,
  `EnrollmentIsAtomic`, `AnswersAreTrue`, `SetupIsPossible` and `PasswordIsKept`
  are corollaries; `ProductionOnlyEnrolls` is a property of its steps.

`DiagnosisProofs.tla`, for any number of turns, retries, tool calls, and whatever
the provider answers:

* `DiagnosisInvariant`: `DiagnosisInv`. At each place it says what the log ends
  with (`LastInv`), how far the local `sequence` is and that no error or final
  answer came before (`NumberInv`), how far the tool in hand is recorded
  (`EvidenceInv`, `PermitInv`) and how many requests were sent (`PostsInv`).
  `NumberFits` and `EventFits` say when an event may be added to a log that is
  numbered and reads as a dialogue. `LogIsADialogue`, `SessionIsTrue`,
  `EvidenceAndApprovals` and `ProviderIsSpared` are corollaries.

`SessionsProofs.tla`, for any number of requests, ids, passwords, secrets, changes
and any lifetime:

* `SessionsInvariant`: `Inv`. What a request knows was read some steps ago;
  `ByCookie`, `ByPassword` and `ByKind` say at each place what the look still
  proves: the cookie's session was not closed on arrival, the password it read was
  the account's at some time since, an identity that is not bound to change its
  password was read when there was no such duty. `KnownStays` shows that later changes
  only lengthen `past` and so disturb none of it. `ClosedSessionsStayOut`,
  `SecretsAreEarned` and `BootstrapOpensNothing` are corollaries.

`DeployProofs.tla`, for any number of runs, releases and edits:

* `DeployInvariant`: `Inv`. `Knows` says what a run has established of its
  release at each place, and that `compose.json` agrees with the files unless the
  run is marked as edited; `Answered` says of each container that its run is still
  to answer for it, has seen it running, was killed or could not stop it.
  `OnlyVerifiedReleasesRun` and `UnseenContainersStop` are corollaries.

`ProbeProofs.tla`, for any prices, retries, payloads, answers and clocks:

* `SpendFollowsPhases`: `IInv`. The cap is compared once, before the first
  request; `SpendByPhase` says at each later place how many attempts may have been
  billed, what each can cost, and that what is still to come fits in the rest of
  the preflight. The arithmetic is in lemmas of its own (`CostGrows`,
  `CostIsLinear`, `AttemptFits`), since products of unknowns are hard for the
  solver. `SpendIsCappedHolds` and `ReportCoversSpendHolds` are corollaries.

* `ManifestIsEarned`: `EvidenceInv`. A manifest speaks of checks that were made
  some requests earlier. `CheckedFirst` keeps what they found, at a moment no later
  than `executed_at`; `AnswersAreValid` says place by place which answers have been
  checked; `PublishedAsIs` says that the file is the run's own from its writing
  until its digest is printed.
* `VerifiedByAProbeHolds` is a corollary: whatever a server takes for live
  verified is a manifest some run printed, of its own release, not expired.
* `PassedProbeIsAcceptedHolds`: each conjunct of
  `provider_manifest_contract_complete` follows from a check of `_load_policy`, of
  the environment or of the run, given that the two programs read the documents
  alike (`ReadAlike` lists where they do not). The proof goes conjunct by conjunct. `MarksAreApart` is its
  hypothesis on the model values: `Unset` and `NoFile` are no texts and no files.
* `EditIsNoticedHolds`: one case per edit, in four groups, each with the conjunct
  that the edit breaks.

The assumptions are on the environments and documents a run may find
(`InputsAssumption`, `EnvironmentsAssumption`: numbers where the code demands
numbers before it compares, texts where it reads environment variables),
on the payloads (never empty) and on the windows, which are numbers. The proof
corrected the model in two places that TLC's inputs did not reach: a digest that is
no SHA-256 is kept as it is, so that comparing it means something, and an owner
that is not a string is no owner.

`MatrixProofs.tla`, for any number of runs, variants, builds, failures and kills:

* `PublicationFollowsPhases`: `IInv` of `MatrixSpec`. `PassedIsEvidenced` alone is
  not inductive: `Phase` adds, place by place, what is published while a run has
  the lock (`OneAtATime`), and that nothing published is a run's own before it
  published it.
* `ImplementsMatrix`: `Spec => MatrixSpec`. Nobody else in the release writes the
  matrix's files, so what holds of the matrix holds of the whole:
  `PassedIsEvidencedHolds` and `FailedRunLeavesNothingHolds`.
* `TestsAreKept`: `TestInv`. A run's release and commit are fixed once every
  variant passed, so what a summary says of its run stays true wherever it is kept:
  on disk, staged, or in the assembler after the file was replaced. From
  `CompareRelease` on the assembler holds a manifest with the images and the tag of
  some such run, and this is what it writes. `ReleaseIsTestedHolds` is a corollary.
* `BindingsAreKept`: `BoundInv`. The assembler reads six files one after another,
  hashes them at two later places, and any may be replaced in between. `Established`
  says at each place what holds of the files as they lie, unless one was replaced
  while the assembler worked (`disturbed`, a ghost); so the hashes it writes are
  those of the files it has read and compared. `Written` and `Checked` carry this
  to the aggregate and to what the validator holds, whatever is replaced
  afterwards. `AcceptedIsCrossBoundHolds` is a corollary.

Every invariant and every action property of a passing run is a theorem. Only
model-checked are the liveness properties, which are out of the prover's reach under
fairness: `DecisionsSettle`, `RunningEnds`, `CallEnds`, `EnrollEnds` and
`DiagnosisEnds`. `KillComesLast` (SIGKILL follows
SIGTERM and the grace period), `EmptyIsEnrollable` (a production server without
users has a token) and `ProductionEnrolls` (in production users come by enrollment
only) are proved and not among the runs.

## 5. Plan

Done: `Approvals`, `Tasks`, `Runner`, `Setup`, `Diagnosis`, `Sessions`, `Deploy`,
`Config`, `Evidence`, `Probe`, `Matrix`, `Release`, and the theorems of section 4.
Next, in this order:

1. The attestation checks behind a release manifest
   (`verify-release-attestations.py`) as operators of `Release`.
2. An abstract enrollment (nobody, then one admin, and a token that is used up)
   that `Setup` implements.

## 6. Not modelled

* Adapters that read the host (I/O), redaction and other text processing.
  Fingerprints and nonces are stored with an approval and compared by no code.
* File writes, backups and `database.restore`: the registry disables `file.write`
  (`tools/registry.py:434-446`), so `approve` returns before
  `execute_approved_file_write`, and `backend/tests/test_phase1_api.py:578` asserts
  that no backup is made. `Approvals` keeps one step for the write and its run
  enables the kind, to exercise the enabled path of `approve`.
* Heartbeats: one row per agent that the last one overwrites; there is no protocol.
* The frontend renders what the API answers. Its requests are among the ones that
  `Approvals` and `Sessions` allow; its CSRF token is fetched once per tab, and two
  polls may be answered out of order.
* `list_ops_events` returns the 200 oldest rows; subtasks and timestamps of tasks.
* What happens inside a virtual machine, `publish_summary` without `--stage`, the
  copy of the matrix that runs on a development box, and the cosign and GitHub
  attestations, which are part of a manifest's being valid.
* The development scripts, and the Compose, evidence and image scripts that run
  once, alone, over files.
