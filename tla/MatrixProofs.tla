--------------------------- MODULE MatrixProofs ---------------------------
(***************************************************************************)
(* What the matrix has published is evidenced, a run that failed has       *)
(* published nothing, and an aggregate names a release that the matrix     *)
(* passed and, if its evidence lay still, is of one piece, for every       *)
(* number of runs, variants, manifests and reviewers.                      *)
(*                                                                         *)
(* The first invariant says, place by place, what is published while a run *)
(* holds the lock: first no summary, then no summary and no "passed", then *)
(* its own summary and no "passed".  The manifests of the machines change  *)
(* only in between, and what a run stored only before it owns the status.  *)
(* The second says of every summary, wherever it is kept, that its run     *)
(* passed every variant, with the release that the machines name: a run's  *)
(* release and commit are fixed by then.                                   *)
(* The third says, place by place, what the assembler has established of   *)
(* the files as they are, unless one was replaced under its hands; so its  *)
(* hashes are of the files that it has read and compared.                  *)
(***************************************************************************)
EXTENDS Release, FiniteSetTheorems, TLAPS

Fields == {"pc", "commit", "release", "gated", "staged", "owns"}
IsRun(x) == x = [f \in Fields |-> x[f]]

Shape == run = [r \in Runs |-> run[r]] /\ \A r \in Runs : IsRun(run[r])

OneAtATime == \A r, q \in Runs : Locked(r) /\ Locked(q) => r = q

\* Nothing that is published is r's.
Gone(r) ==
  /\ Summarised => summary.context.run # r
  /\ Passed => status.run # r

\* The summary that r has staged is of the machines as they are, and of what r stored.
Whole(r) ==
  LET s == run[r].staged IN
  /\ s.context.run = r
  /\ s.evidence.runs = vm /\ s.evidence.receipts = copy[r]

Unowned == {"idle", "source", "invalidate", "mark", "own"}
Testing == {"own", "gate", "stage", "cleanup", "publish_summary"}
Staged  == {"cleanup", "publish_summary", "publish_status"}
Owned   == {"gate", "stage", "cleanup", "publish_summary", "publish_status", "verify", "withdraw"}

Phase(r) ==
  /\ run[r].owns \in BOOLEAN
  /\ At(r, "mark") => ~Summarised
  /\ run[r].pc \in Testing => ~Summarised /\ ~Passed
  /\ At(r, "publish_status") => ~Passed /\ summary = run[r].staged
  /\ run[r].pc \in Staged => Whole(r)
  /\ At(r, "rm_status") => ~Summarised
  /\ run[r].pc \in Unowned => ~run[r].owns
  /\ run[r].pc \in Owned => run[r].owns
  /\ run[r].pc \in {"failed"} \cup Unowned => Gone(r)
  /\ At(r, "trap") /\ ~run[r].owns => Gone(r)

Phases == \A r \in Runs : Phase(r)

IInv == Shape /\ OneAtATime /\ Phases /\ PassedIsEvidenced

-----------------------------------------------------------------------------
(* Steps of one run *)

\* Run r takes a step that leaves the others alone.
Becomes(r, pc, staged, owns) ==
  /\ Shape'
  /\ \A q \in Runs \ {r} : run'[q] = run[q]
  /\ run'[r].pc = pc /\ run'[r].staged = staged /\ run'[r].owns = owns

LEMMA Updated ==
  ASSUME Shape, NEW r \in Runs, NEW x, IsRun(x), run' = [run EXCEPT ![r] = x]
  PROVE  Shape' /\ run'[r] = x /\ \A q \in Runs \ {r} : run'[q] = run[q]
BY DEF Shape

LEMMA GotoBecomes ==
  ASSUME Shape, NEW r \in Runs, NEW place, Goto(r, place)
  PROVE  Becomes(r, place, run[r].staged, run[r].owns)
<1> DEFINE x == [run[r] EXCEPT !.pc = place]
<1>1. IsRun(x) /\ x.pc = place /\ x.staged = run[r].staged /\ x.owns = run[r].owns
  BY DEF Shape, IsRun, Fields
<1>2. run' = [run EXCEPT ![r] = x]
  BY DEF Goto
<1> HIDE DEF x
<1>3. Shape' /\ run'[r] = x /\ \A q \in Runs \ {r} : run'[q] = run[q]
  BY <1>1, <1>2, Updated
<1> QED  BY <1>1, <1>3 DEF Becomes

LEMMA EndBecomes ==
  ASSUME Shape, NEW r \in Runs, NEW result, End(r, result)
  PROVE  Becomes(r, result, None, FALSE)
<1> DEFINE x == [run[r] EXCEPT !.pc = result, !.owns = FALSE, !.staged = None]
<1>1. IsRun(x) /\ x.pc = result /\ x.staged = None /\ x.owns = FALSE
  BY DEF Shape, IsRun, Fields
<1>2. run' = [run EXCEPT ![r] = x]
  BY DEF End
<1> HIDE DEF x
<1>3. Shape' /\ run'[r] = x /\ \A q \in Runs \ {r} : run'[q] = run[q]
  BY <1>1, <1>2, Updated
<1> QED  BY <1>1, <1>3 DEF Becomes

LEMMA OwnBecomes ==
  ASSUME Shape, NEW r \in Runs, run' = [run EXCEPT ![r].pc = "gate", ![r].owns = TRUE]
  PROVE  Becomes(r, "gate", run[r].staged, TRUE)
<1> DEFINE x == [run[r] EXCEPT !.pc = "gate", !.owns = TRUE]
<1>1. IsRun(x) /\ x.pc = "gate" /\ x.staged = run[r].staged /\ x.owns = TRUE
  BY DEF Shape, IsRun, Fields
<1>2. run' = [run EXCEPT ![r] = x]
  OBVIOUS
<1> HIDE DEF x
<1>3. Shape' /\ run'[r] = x /\ \A q \in Runs \ {r} : run'[q] = run[q]
  BY <1>1, <1>2, Updated
<1> QED  BY <1>1, <1>3 DEF Becomes


\* A step of the run that holds the lock keeps the lock with it, or gives it up.
LEMMA LockIsKept ==
  ASSUME OneAtATime, NEW r \in Runs, Locked(r), NEW pc, NEW staged, NEW owns,
         Becomes(r, pc, staged, owns)
  PROVE  OneAtATime' /\ \A q \in Runs \ {r} : ~Locked(q) /\ ~Locked(q)'
<1>1. \A q \in Runs \ {r} : ~Locked(q)
  BY DEF OneAtATime
<1>2. \A q \in Runs \ {r} : ~Locked(q)'
  BY <1>1 DEF Locked, Becomes
<1>3. OneAtATime'
  BY <1>2 DEF OneAtATime
<1> QED  BY <1>1, <1>2, <1>3

\* A run without the lock only cares for what is published about it.
LEMMA OthersAreApart ==
  ASSUME NEW r \in Runs, NEW q \in Runs \ {r}, Phase(q), ~Locked(q), run'[q] = run[q],
         Gone(q) => Gone(q)'
  PROVE  Phase(q)'
<1>1. run[q].pc \notin Testing \cup Staged \cup Owned \cup {"mark", "publish_status", "rm_status", "trap"}
  BY DEF Locked, AtWork, Trap, Testing, Staged, Owned
<1>2. run'[q].pc = run[q].pc /\ run'[q].owns = run[q].owns
  OBVIOUS
<1>3. run'[q].owns \in BOOLEAN
  BY <1>2 DEF Phase
<1>4. run'[q].pc \in {"failed"} \cup Unowned => Gone(q)'
  BY <1>2 DEF Phase
<1>5. run'[q].pc \in Unowned => ~run'[q].owns
  BY <1>2 DEF Phase
<1> QED  BY <1>1, <1>2, <1>3, <1>4, <1>5 DEF Phase, At

\* What a step of the run that holds the lock has to show.
LEMMA OwnStep ==
  ASSUME IInv, NEW r \in Runs, Locked(r), NEW pc, NEW staged, NEW owns,
         Becomes(r, pc, staged, owns),
         \A q \in Runs \ {r} : Gone(q) => Gone(q)',
         Phase(r)', PassedIsEvidenced'
  PROVE  IInv'
<1>1. OneAtATime' /\ \A q \in Runs \ {r} : ~Locked(q)
  BY LockIsKept DEF IInv
<1>2. \A q \in Runs \ {r} : Phase(q)'
  BY <1>1, OthersAreApart DEF IInv, Phases, Becomes
<1>3. Phases'
  BY <1>2 DEF Phases
<1> QED  BY <1>1, <1>3 DEF IInv, Becomes

\* A step that publishes nothing, and stores nothing.
LEMMA QuietStep ==
  ASSUME IInv, NEW r \in Runs, Locked(r), NEW pc, NEW staged, NEW owns,
         Becomes(r, pc, staged, owns), UNCHANGED <<publication, copy>>,
         Phase(r)'
  PROVE  IInv'
<1>1. UNCHANGED <<summary, status, vm, copy>>
  BY DEF publication
<1>2. \A q \in Runs : Gone(q) => Gone(q)'
  BY <1>1 DEF Gone, Summarised, Passed
<1>3. PassedIsEvidenced'
  BY <1>1 DEF IInv, PassedIsEvidenced, Published, Summarised, Passed
<1> QED  BY <1>2, <1>3, OwnStep

\* A step that takes the summary away, or the status, or marks the status.
LEMMA WithdrawStep ==
  ASSUME IInv, NEW r \in Runs, Locked(r), NEW pc, NEW staged, NEW owns,
         Becomes(r, pc, staged, owns), UNCHANGED <<vm, copy>>,
         summary' \in {None, summary}, status' = status \/ ~Passed',
         Phase(r)'
  PROVE  IInv'
<1>1. Summarised' => Summarised /\ summary' = summary
  BY DEF Summarised
<1>2. Passed' => Passed /\ status' = status
  BY DEF Passed
<1>3. \A q \in Runs : Gone(q) => Gone(q)'
  BY <1>1, <1>2 DEF Gone
<1>4. PassedIsEvidenced'
  BY <1>1, <1>2 DEF IInv, PassedIsEvidenced, Published
<1> QED  BY <1>3, <1>4, OwnStep

-----------------------------------------------------------------------------
(* One lemma per action *)

LEMMA InvalidateSummaryKeeps ==
  ASSUME IInv, NEW r \in Runs, InvalidateSummary(r)
  PROVE  IInv'
<1>1. Locked(r) /\ Phase(r)
  BY DEF InvalidateSummary, At, Locked, AtWork, Trap, IInv, Phases
<1>2. Becomes(r, "mark", run[r].staged, run[r].owns)
  BY GotoBecomes DEF InvalidateSummary, IInv
<1>3. Phase(r)'
  BY <1>1, <1>2 DEF InvalidateSummary, Phase, Whole, Becomes, At, Gone, Summarised, Passed, Testing, Staged, Owned, Unowned, publication
<1>4. UNCHANGED <<vm, copy>> /\ summary' \in {None, summary} /\ (status' = status \/ ~Passed')
  BY DEF InvalidateSummary, publication, Passed
<1> QED  BY <1>1, <1>2, <1>3, <1>4, WithdrawStep

LEMMA MarkInProgressKeeps ==
  ASSUME IInv, NEW r \in Runs, MarkInProgress(r)
  PROVE  IInv'
<1>1. Locked(r) /\ Phase(r)
  BY DEF MarkInProgress, At, Locked, AtWork, Trap, IInv, Phases
<1>2. Becomes(r, "own", run[r].staged, run[r].owns)
  BY GotoBecomes DEF MarkInProgress, IInv
<1>3. Phase(r)'
  BY <1>1, <1>2 DEF MarkInProgress, Phase, Whole, Becomes, At, Gone, Summarised, Passed, Testing, Staged, Owned, Unowned, publication, InProgress
<1>4. UNCHANGED <<vm, copy>> /\ summary' \in {None, summary} /\ (status' = status \/ ~Passed')
  BY DEF MarkInProgress, publication, Passed, InProgress
<1> QED  BY <1>1, <1>2, <1>3, <1>4, WithdrawStep

LEMMA OwnKeeps ==
  ASSUME IInv, NEW r \in Runs, Own(r)
  PROVE  IInv'
<1>1. Locked(r) /\ Phase(r)
  BY DEF Own, At, Locked, AtWork, Trap, IInv, Phases
<1>2. Becomes(r, "gate", run[r].staged, TRUE)
  BY OwnBecomes DEF Own, IInv
<1>3. Phase(r)'
  BY <1>1, <1>2 DEF Own, Phase, Whole, Becomes, At, Gone, Summarised, Passed, Testing, Staged, Owned, Unowned, publication
<1> QED  BY <1>1, <1>2, <1>3, QuietStep DEF Own

LEMMA CleanupSuccessKeeps ==
  ASSUME IInv, NEW r \in Runs, CleanupSuccess(r)
  PROVE  IInv'
<1>1. Locked(r) /\ Phase(r)
  BY DEF CleanupSuccess, At, Locked, AtWork, Trap, IInv, Phases
<1>2. Becomes(r, "publish_summary", run[r].staged, run[r].owns)
  BY GotoBecomes DEF CleanupSuccess, IInv
<1>3. Phase(r)'
  BY <1>1, <1>2 DEF CleanupSuccess, Phase, Whole, Becomes, At, Gone, Summarised, Passed, Testing, Staged, Owned, Unowned, publication
<1> QED  BY <1>1, <1>2, <1>3, QuietStep DEF CleanupSuccess

LEMMA PublishStatusFailsKeeps ==
  ASSUME IInv, NEW r \in Runs, PublishStatusFails(r)
  PROVE  IInv'
<1>1. Locked(r) /\ Phase(r)
  BY DEF PublishStatusFails, At, Locked, AtWork, Trap, IInv, Phases
<1>2. Becomes(r, "trap", run[r].staged, run[r].owns)
  BY GotoBecomes DEF PublishStatusFails, IInv
<1>3. Phase(r)'
  BY <1>1, <1>2 DEF PublishStatusFails, Phase, Whole, Becomes, At, Gone, Summarised, Passed, Testing, Staged, Owned, Unowned, publication
<1>4. UNCHANGED <<vm, copy>> /\ summary' \in {None, summary} /\ (status' = status \/ ~Passed')
  BY DEF PublishStatusFails, publication, Passed
<1> QED  BY <1>1, <1>2, <1>3, <1>4, WithdrawStep

LEMMA WithdrawKeeps ==
  ASSUME IInv, NEW r \in Runs, Withdraw(r)
  PROVE  IInv'
<1>1. Locked(r) /\ Phase(r)
  BY DEF Withdraw, At, Locked, AtWork, Trap, IInv, Phases
<1>2. Becomes(r, "trap", run[r].staged, run[r].owns)
  BY GotoBecomes DEF Withdraw, IInv
<1>3. Phase(r)'
  BY <1>1, <1>2 DEF Withdraw, Phase, Whole, Becomes, At, Gone, Summarised, Passed, Testing, Staged, Owned, Unowned, publication
<1>4. UNCHANGED <<vm, copy>> /\ summary' \in {None, summary} /\ (status' = status \/ ~Passed')
  BY DEF Withdraw, publication, Passed
<1> QED  BY <1>1, <1>2, <1>3, <1>4, WithdrawStep

LEMMA FailKeeps ==
  ASSUME IInv, NEW r \in Runs, Fail(r)
  PROVE  IInv'
<1>1. Locked(r) /\ Phase(r)
  BY DEF Fail, At, Locked, IInv, Phases
<1>2. Becomes(r, "trap", run[r].staged, run[r].owns)
  BY GotoBecomes DEF Fail, IInv
<1>3. run[r].pc \in Unowned \cup Owned
  BY DEF Fail, AtWork, Unowned, Owned
<1>4. ~run[r].owns => Gone(r)
  BY <1>1, <1>3 DEF Phase
<1>5. UNCHANGED <<publication, copy>>
  BY DEF Fail
<1>6. ~run[r].owns => Gone(r)'
  BY <1>4, <1>5 DEF Gone, Summarised, Passed, publication
<1>7. Phase(r)'
  BY <1>1, <1>2, <1>6 DEF Phase, Becomes, At, Testing, Staged, Owned, Unowned
<1> QED  BY <1>1, <1>2, <1>5, <1>7, QuietStep

LEMMA RemoveSummaryKeeps ==
  ASSUME IInv, NEW r \in Runs, RemoveSummary(r)
  PROVE  IInv'
<1>1. Locked(r) /\ Phase(r)
  BY DEF RemoveSummary, At, Locked, AtWork, Trap, IInv, Phases
<1>2. Becomes(r, "rm_status", run[r].staged, run[r].owns)
  BY GotoBecomes DEF RemoveSummary, IInv
<1>3. Phase(r)'
  BY <1>1, <1>2 DEF RemoveSummary, Phase, Whole, Becomes, At, Gone, Summarised, Passed, Testing, Staged, Owned, Unowned, publication
<1>4. UNCHANGED <<vm, copy>> /\ summary' \in {None, summary} /\ (status' = status \/ ~Passed')
  BY DEF RemoveSummary, publication, Passed
<1> QED  BY <1>1, <1>2, <1>3, <1>4, WithdrawStep

LEMMA RemoveStatusKeeps ==
  ASSUME IInv, NEW r \in Runs, RemoveStatus(r)
  PROVE  IInv'
<1>1. Locked(r) /\ Phase(r)
  BY DEF RemoveStatus, At, Locked, AtWork, Trap, IInv, Phases
<1>2. Becomes(r, "failed", None, FALSE)
  BY EndBecomes DEF RemoveStatus, IInv
<1>3. Phase(r)'
  BY <1>1, <1>2 DEF RemoveStatus, Phase, Whole, Becomes, At, Gone, Summarised, Passed, Testing, Staged, Owned, Unowned, publication
<1>4. UNCHANGED <<vm, copy>> /\ summary' \in {None, summary} /\ (status' = status \/ ~Passed')
  BY DEF RemoveStatus, publication, Passed
<1> QED  BY <1>1, <1>2, <1>3, <1>4, WithdrawStep

LEMMA TrapBreaksKeeps ==
  ASSUME IInv, NEW r \in Runs, TrapBreaks(r)
  PROVE  IInv'
<1>1. Locked(r) /\ Phase(r)
  BY DEF TrapBreaks, At, Locked, AtWork, Trap, IInv, Phases
<1>2. Becomes(r, "dead", None, FALSE)
  BY EndBecomes DEF TrapBreaks, IInv
<1>3. Phase(r)'
  BY <1>1, <1>2 DEF TrapBreaks, Phase, Whole, Becomes, At, Gone, Summarised, Passed, Testing, Staged, Owned, Unowned, publication
<1> QED  BY <1>1, <1>2, <1>3, QuietStep DEF TrapBreaks

LEMMA KillKeeps ==
  ASSUME IInv, NEW r \in Runs, Kill(r)
  PROVE  IInv'
<1>1. Locked(r) /\ Phase(r)
  BY DEF Kill, At, Locked, AtWork, Trap, IInv, Phases
<1>2. Becomes(r, "dead", None, FALSE)
  BY EndBecomes DEF Kill, IInv
<1>3. Phase(r)'
  BY <1>1, <1>2 DEF Kill, Phase, Whole, Becomes, At, Gone, Summarised, Passed, Testing, Staged, Owned, Unowned, publication
<1> QED  BY <1>1, <1>2, <1>3, QuietStep DEF Kill

LEMMA CleanupOnExitKeeps ==
  ASSUME IInv, NEW r \in Runs, CleanupOnExit(r)
  PROVE  IInv'
<1>1. Locked(r) /\ Phase(r) /\ At(r, "trap") /\ UNCHANGED <<publication, copy>>
  BY DEF CleanupOnExit, At, Locked, Trap, IInv, Phases
<1>2. Gone(r) => Gone(r)'
  BY <1>1 DEF Gone, Summarised, Passed, publication
<1>3. CASE run[r].owns
  <2>1. Becomes(r, "rm_summary", run[r].staged, run[r].owns)
    BY <1>3, GotoBecomes DEF CleanupOnExit, IInv
  <2>2. Phase(r)'
    BY <1>1, <2>1 DEF Phase, Becomes, At, Testing, Staged, Owned, Unowned
  <2> QED  BY <1>1, <2>1, <2>2, QuietStep
<1>4. CASE ~run[r].owns
  <2>1. Becomes(r, "failed", None, FALSE)
    BY <1>4, EndBecomes DEF CleanupOnExit, IInv
  <2>2. Gone(r)'
    BY <1>1, <1>2, <1>4 DEF Phase
  <2>3. Phase(r)'
    BY <1>1, <2>1, <2>2 DEF Phase, Becomes, At, Testing, Staged, Owned, Unowned
  <2> QED  BY <1>1, <2>1, <2>3, QuietStep
<1> QED  BY <1>3, <1>4

LEMMA VerifyPublishedKeeps ==
  ASSUME IInv, NEW r \in Runs, VerifyPublished(r)
  PROVE  IInv'
<1>1. Locked(r) /\ Phase(r) /\ At(r, "verify") /\ UNCHANGED <<publication, copy>>
  BY DEF VerifyPublished, At, Locked, AtWork, IInv, Phases
<1>2. CASE run' = [run EXCEPT ![r].pc = "disowned", ![r].owns = FALSE]
  <2> DEFINE x == [run[r] EXCEPT !.pc = "disowned", !.owns = FALSE]
  <2>1. IsRun(x) /\ x.pc = "disowned" /\ x.staged = run[r].staged /\ x.owns = FALSE
    BY DEF IInv, Shape, IsRun, Fields
  <2>2. run' = [run EXCEPT ![r] = x]
    BY <1>2
  <2> HIDE DEF x
  <2>3. Shape' /\ run'[r] = x /\ \A q \in Runs \ {r} : run'[q] = run[q]
    BY <2>1, <2>2, Updated DEF IInv
  <2>4. Becomes(r, "disowned", run[r].staged, FALSE)
    BY <2>1, <2>3 DEF Becomes
  <2>5. Phase(r)'
    BY <2>4 DEF Phase, Becomes, At, Testing, Staged, Owned, Unowned
  <2> QED  BY <1>1, <2>4, <2>5, QuietStep
<1>3. CASE Goto(r, "withdraw")
  <2>1. Becomes(r, "withdraw", run[r].staged, run[r].owns)
    BY <1>3, GotoBecomes DEF IInv
  <2>2. Phase(r)'
    BY <1>1, <2>1 DEF Phase, Becomes, At, Testing, Staged, Owned, Unowned
  <2> QED  BY <1>1, <2>1, <2>2, QuietStep
<1> QED  BY <1>2, <1>3 DEF VerifyPublished

LEMMA ExitKeeps ==
  ASSUME IInv, NEW r \in Runs, Exit(r)
  PROVE  IInv'
<1>1. Locked(r) /\ UNCHANGED <<publication, copy>>
  BY DEF Exit, At, Locked, AtWork
<1>2. Becomes(r, "passed", None, FALSE)
  BY EndBecomes DEF Exit, IInv
<1>3. Phase(r)'
  BY <1>2 DEF Phase, Becomes, At, Testing, Staged, Owned, Unowned
<1> QED  BY <1>1, <1>2, <1>3, QuietStep

\* A run begins: nothing that is published can be its own.
LEMMA PrepareStateKeeps ==
  ASSUME IInv, NEW r \in Runs, PrepareState(r)
  PROVE  IInv'
<1>1. UNCHANGED <<summary, status, vm, copy>> /\ At(r, "idle") /\ \A q \in Runs : ~Locked(q) /\ Phase(q)
  BY DEF PrepareState, IInv, Phases
<1>2. PICK c \in Commits : run' = [run EXCEPT ![r].pc = "source", ![r].commit = c]
  BY DEF PrepareState
<1>3. Becomes(r, "source", run[r].staged, run[r].owns)
  <2> DEFINE x == [run[r] EXCEPT !.pc = "source", !.commit = c]
  <2>1. IsRun(x) /\ x.pc = "source" /\ x.staged = run[r].staged /\ x.owns = run[r].owns
    BY DEF IInv, Shape, IsRun, Fields
  <2>2. run' = [run EXCEPT ![r] = x]
    BY <1>2
  <2> HIDE DEF x
  <2>3. Shape' /\ run'[r] = x /\ \A q \in Runs \ {r} : run'[q] = run[q]
    BY <2>1, <2>2, Updated DEF IInv
  <2> QED  BY <2>1, <2>3 DEF Becomes
<1>4. OneAtATime'
  BY <1>1, <1>3 DEF OneAtATime, Locked, Becomes
<1>5. \A q \in Runs : Gone(q) => Gone(q)'
  BY <1>1 DEF Gone, Summarised, Passed
<1>6. \A q \in Runs \ {r} : Phase(q)'
  BY <1>1, <1>3, <1>5, OthersAreApart DEF Becomes
<1>7. Phase(r)'
  BY <1>1, <1>3, <1>5 DEF Phase, Becomes, At, Testing, Staged, Owned, Unowned
<1>8. PassedIsEvidenced'
  BY <1>1 DEF IInv, PassedIsEvidenced, Published, Summarised, Passed
<1>9. Phases'
  BY <1>6, <1>7 DEF Phases
<1> QED  BY <1>3, <1>4, <1>8, <1>9 DEF IInv, Becomes

\* What a run stores is new only to itself, and nothing published is its own yet.
LEMMA PrepareSignedReleaseKeeps ==
  ASSUME IInv, NEW r \in Runs, PrepareSignedRelease(r)
  PROVE  IInv'
<1>1. Locked(r) /\ Phase(r) /\ At(r, "source") /\ UNCHANGED <<summary, status, vm>>
  BY DEF PrepareSignedRelease, At, Locked, AtWork, IInv, Phases
<1>2. PICK m \in Manifests, stored \in Manifests :
         /\ copy' = [copy EXCEPT ![r] = stored]
         /\ run' = [run EXCEPT ![r].pc = "invalidate", ![r].release = m]
  BY DEF PrepareSignedRelease
<1>3. Becomes(r, "invalidate", run[r].staged, run[r].owns)
  <2> DEFINE x == [run[r] EXCEPT !.pc = "invalidate", !.release = m]
  <2>1. IsRun(x) /\ x.pc = "invalidate" /\ x.staged = run[r].staged /\ x.owns = run[r].owns
    BY DEF IInv, Shape, IsRun, Fields
  <2>2. run' = [run EXCEPT ![r] = x]
    BY <1>2
  <2> HIDE DEF x
  <2>3. Shape' /\ run'[r] = x /\ \A q \in Runs \ {r} : run'[q] = run[q]
    BY <2>1, <2>2, Updated DEF IInv
  <2> QED  BY <2>1, <2>3 DEF Becomes
<1>4. Gone(r) /\ \A q \in Runs : Gone(q) => Gone(q)'
  BY <1>1 DEF Phase, At, Unowned, Gone, Summarised, Passed
<1>5. Phase(r)'
  BY <1>1, <1>3, <1>4 DEF Phase, Becomes, At, Testing, Staged, Owned, Unowned
<1>6. PassedIsEvidenced'
  <2>1. SUFFICES ASSUME Published PROVE summary.evidence.receipts = copy'[status.run]
    BY <1>1 DEF IInv, PassedIsEvidenced, Published, Summarised, Passed
  <2>2. summary.evidence.receipts = copy[status.run] /\ status.run # r
    BY <1>4, <2>1 DEF IInv, PassedIsEvidenced, Published, Gone
  <2>3. copy'[status.run] = copy[status.run]
    BY <1>2, <2>2
  <2> QED  BY <2>2, <2>3
<1> QED  BY <1>1, <1>3, <1>4, <1>5, <1>6, OwnStep

\* The machines' manifests change when there is no summary.
LEMMA RunVmGateKeeps ==
  ASSUME IInv, NEW r \in Runs, RunVmGate(r)
  PROVE  IInv'
<1>1. Locked(r) /\ Phase(r) /\ At(r, "gate") /\ UNCHANGED <<summary, status, copy>>
  BY DEF RunVmGate, At, Locked, AtWork, IInv, Phases
<1>2. PICK p \in {"gate", "stage"} : run' = [run EXCEPT ![r].gated = @ + 1, ![r].pc = p]
  BY DEF RunVmGate
<1>3. Becomes(r, p, run[r].staged, run[r].owns)
  <2> DEFINE x == [run[r] EXCEPT !.gated = @ + 1, !.pc = p]
  <2>1. IsRun(x) /\ x.pc = p /\ x.staged = run[r].staged /\ x.owns = run[r].owns
    BY DEF IInv, Shape, IsRun, Fields
  <2>2. run' = [run EXCEPT ![r] = x]
    BY <1>2
  <2> HIDE DEF x
  <2>3. Shape' /\ run'[r] = x /\ \A q \in Runs \ {r} : run'[q] = run[q]
    BY <2>1, <2>2, Updated DEF IInv
  <2> QED  BY <2>1, <2>3 DEF Becomes
<1>4. ~Summarised /\ ~Summarised' /\ ~Passed'
  BY <1>1 DEF Phase, At, Testing, Summarised, Passed
<1>5. Phase(r)'
  BY <1>1, <1>3, <1>4 DEF Phase, Becomes, At, Testing, Staged, Owned, Unowned
<1> QED  BY <1>1, <1>3, <1>4, <1>5, OwnStep DEF PassedIsEvidenced, Published, Gone

LEMMA GenerateMatrixSummaryKeeps ==
  ASSUME IInv, NEW r \in Runs, GenerateMatrixSummary(r)
  PROVE  IInv'
<1> DEFINE s == BuildSummary(vm, EvidenceHashes(vm, Context(r)), Context(r))
<1>1. Locked(r) /\ Phase(r) /\ At(r, "stage") /\ UNCHANGED <<publication, copy>>
  BY DEF GenerateMatrixSummary, At, Locked, AtWork, IInv, Phases
<1>2. s.context.run = r /\ s.evidence.runs = vm /\ s.evidence.receipts = copy[r]
  BY DEF BuildSummary, EvidenceHashes, Context
<1>3. run' = [run EXCEPT ![r].pc = "cleanup", ![r].staged = s]
  BY DEF GenerateMatrixSummary
<1> HIDE DEF s
<1>4. Becomes(r, "cleanup", s, run[r].owns)
  <2> DEFINE x == [run[r] EXCEPT !.pc = "cleanup", !.staged = s]
  <2>1. IsRun(x) /\ x.pc = "cleanup" /\ x.staged = s /\ x.owns = run[r].owns
    BY DEF IInv, Shape, IsRun, Fields
  <2>2. run' = [run EXCEPT ![r] = x]
    BY <1>3
  <2> HIDE DEF x
  <2>3. Shape' /\ run'[r] = x /\ \A q \in Runs \ {r} : run'[q] = run[q]
    BY <2>1, <2>2, Updated DEF IInv
  <2> QED  BY <2>1, <2>3 DEF Becomes
<1>5. Whole(r)'
  BY <1>1, <1>2, <1>4 DEF Whole, Becomes, publication
<1>6. ~Summarised' /\ ~Passed' /\ run[r].owns
  BY <1>1 DEF Phase, At, Testing, Owned, Summarised, Passed, publication
<1>7. Phase(r)'
  BY <1>1, <1>4, <1>5, <1>6 DEF Phase, Becomes, At, Testing, Staged, Owned, Unowned
<1> QED  BY <1>1, <1>4, <1>7, QuietStep

LEMMA PublishSummaryKeeps ==
  ASSUME IInv, NEW r \in Runs, PublishSummary(r)
  PROVE  IInv'
<1>1. /\ Locked(r) /\ Phase(r) /\ At(r, "publish_summary")
      /\ summary' = run[r].staged /\ UNCHANGED <<status, vm, copy>>
  BY DEF PublishSummary, At, Locked, AtWork, IInv, Phases
<1>2. Becomes(r, "publish_status", run[r].staged, run[r].owns)
  BY GotoBecomes DEF PublishSummary, IInv
<1>3. ~Passed /\ ~Passed' /\ Whole(r) /\ run[r].owns
  BY <1>1 DEF Phase, At, Testing, Staged, Owned, Passed
<1>4. \A q \in Runs \ {r} : Gone(q)'
  BY <1>1, <1>3 DEF Gone, Whole
<1>5. Whole(r)'
  BY <1>1, <1>2, <1>3 DEF Whole, Becomes
<1>6. Phase(r)'
  BY <1>1, <1>2, <1>3, <1>5 DEF Phase, Becomes, At, Testing, Staged, Owned, Unowned
<1> QED  BY <1>1, <1>2, <1>3, <1>4, <1>6, OwnStep DEF PassedIsEvidenced, Published

LEMMA PublishStatusKeeps ==
  ASSUME IInv, NEW r \in Runs, PublishStatus(r)
  PROVE  IInv'
<1>1. /\ Locked(r) /\ Phase(r) /\ At(r, "publish_status") /\ UNCHANGED <<summary, vm, copy>>
      /\ status'.run = r /\ status'.of = run[r].staged
  BY DEF PublishStatus, At, Locked, AtWork, IInv, Phases
<1>2. Becomes(r, "verify", run[r].staged, run[r].owns)
  BY GotoBecomes DEF PublishStatus, IInv
<1>3. summary = run[r].staged /\ Whole(r) /\ run[r].owns
  BY <1>1 DEF Phase, At, Staged, Owned
<1>4. \A q \in Runs \ {r} : Gone(q)'
  BY <1>1, <1>3 DEF Gone, Whole
<1>5. PassedIsEvidenced'
  BY <1>1, <1>3 DEF PassedIsEvidenced, Whole
<1>6. Phase(r)'
  BY <1>1, <1>2, <1>3 DEF Phase, Becomes, At, Testing, Staged, Owned, Unowned
<1> QED  BY <1>1, <1>2, <1>4, <1>5, <1>6, OwnStep

-----------------------------------------------------------------------------
(* The theorems *)

LEMMA StutterKeeps ==
  ASSUME IInv, UNCHANGED <<publication, copy, run>>
  PROVE  IInv'
<1>1. UNCHANGED <<summary, status, vm, copy, run>>
  BY DEF publication
<1>2. Shape' /\ OneAtATime'
  BY <1>1 DEF IInv, Shape, OneAtATime, Locked
<1>3. Phases'
  BY <1>1 DEF IInv, Phases, Phase, At, Whole, Gone, Summarised, Passed
<1>4. PassedIsEvidenced'
  BY <1>1 DEF IInv, PassedIsEvidenced, Published, Summarised, Passed
<1> QED  BY <1>2, <1>3, <1>4 DEF IInv

LEMMA InitGives ==
  ASSUME MatrixInit
  PROVE  IInv
<1>1. run = [r \in Runs |-> Waiting] /\ summary = None /\ status = None
  BY DEF MatrixInit
<1>2. IsRun(Waiting) /\ Waiting.pc = "idle" /\ Waiting.owns = FALSE
  BY DEF IsRun, Fields, Waiting
<1>3. Shape
  BY <1>1, <1>2 DEF Shape
<1>4. \A r \in Runs : run[r].pc = "idle" /\ run[r].owns = FALSE
  BY <1>1, <1>2
<1>5. OneAtATime
  BY <1>4 DEF OneAtATime, Locked, AtWork, Trap
<1>6. Phases
  BY <1>1, <1>4 DEF Phases, Phase, At, Gone, Summarised, Passed, Testing, Staged, Owned, Unowned
<1>7. PassedIsEvidenced
  BY <1>1 DEF PassedIsEvidenced, Published, Summarised
<1> QED  BY <1>3, <1>5, <1>6, <1>7 DEF IInv

LEMMA NextKeeps ==
  ASSUME IInv, MatrixNext
  PROVE  IInv'
<1>1. CASE ClearLeftovers
  BY <1>1, StutterKeeps DEF ClearLeftovers
<1>2. ASSUME NEW r \in Runs,
             \/ PrepareState(r) \/ PrepareSignedRelease(r) \/ InvalidateSummary(r)
             \/ MarkInProgress(r) \/ Own(r) \/ RunVmGate(r) \/ GenerateMatrixSummary(r)
             \/ CleanupSuccess(r) \/ PublishSummary(r) \/ PublishStatus(r)
             \/ PublishStatusFails(r) \/ VerifyPublished(r) \/ Withdraw(r) \/ Exit(r) \/ Fail(r)
             \/ CleanupOnExit(r) \/ RemoveSummary(r) \/ RemoveStatus(r) \/ TrapBreaks(r) \/ Kill(r)
      PROVE  IInv'
  BY <1>2, PrepareStateKeeps, PrepareSignedReleaseKeeps, InvalidateSummaryKeeps,
     MarkInProgressKeeps, OwnKeeps, RunVmGateKeeps, GenerateMatrixSummaryKeeps,
     CleanupSuccessKeeps, PublishSummaryKeeps, PublishStatusKeeps, PublishStatusFailsKeeps,
     VerifyPublishedKeeps, WithdrawKeeps, ExitKeeps, FailKeeps, CleanupOnExitKeeps, RemoveSummaryKeeps,
     RemoveStatusKeeps, TrapBreaksKeeps, KillKeeps
<1> QED  BY <1>1, <1>2 DEF MatrixNext

\* Publication follows the phases of the run that holds the lock.
THEOREM PublicationFollowsPhases == MatrixSpec => []IInv
<1>1. IInv /\ [MatrixNext]_matrixVars => IInv'
  BY NextKeeps, StutterKeeps DEF matrixVars, publication
<1> QED  BY <1>1, InitGives, PTL DEF MatrixSpec

\* In the whole of the release, the runs of the matrix behave as they do alone: nobody else
\* writes their files.
THEOREM ImplementsMatrix == Spec => MatrixSpec
<1>1. Init => MatrixInit
  BY DEF Init
<1>2. [Next]_vars => [MatrixNext]_matrixVars
  <2>1. ASSUME Next PROVE MatrixNext \/ UNCHANGED matrixVars
    BY <2>1 DEF Next, MatrixStep, ReplaceRelease, ReplaceLlm, Replaced, Review, Sign, ReadRelease,
       ReadSummary, ReadStatus, CompareRelease, CompareStatus, RebuildRuns, RebuildHashes, ReadLlm,
       ReadReviews, Bind, CheckArchitecture, CheckSecurity, Pin, Write, Refuse, Load, Hash, VerifySignature, Accept, Reject, Read, Proceed,
       Assembles, Validates
  <2> QED  BY <2>1 DEF vars
<1> QED  BY <1>1, <1>2, PTL DEF Spec, MatrixSpec

\* What a reader finds beside a status that says "passed" is whole and still on disk.
THEOREM PassedIsEvidencedHolds == Spec => []PassedIsEvidenced
<1>1. IInv => PassedIsEvidenced
  BY DEF IInv
<1> QED  BY <1>1, PublicationFollowsPhases, ImplementsMatrix, PTL

\* A run that failed, and whose trap came to its end, leaves nothing published.
THEOREM FailedRunLeavesNothingHolds == Spec => []FailedRunLeavesNothing
<1>1. IInv => FailedRunLeavesNothing
  BY DEF IInv, Phases, Phase, At, Gone, FailedRunLeavesNothing
<1> QED  BY <1>1, PublicationFollowsPhases, ImplementsMatrix, PTL

-----------------------------------------------------------------------------
(* What a summary says was tested.  A run's release and commit are fixed when every variant has *)
(* passed, so a summary goes on to be true wherever it is kept.                                 *)

Tested(s) ==
  /\ s.context.run \in Runs
  /\ run[s.context.run].gated = Len(Order)
  /\ run[s.context.run].release = s.tested /\ run[s.context.run].commit = s.context.commit
SummaryIsTrue(s) == s # None => Tested(s)

\* A machine's manifest names the release that its run has tested.
MachineIsTrue(v) ==
  vm[v] # None =>
    /\ vm[v].context.run \in Runs /\ run[vm[v].context.run].gated # 0
    /\ vm[v].tested = run[vm[v].context.run].release
MachinesAreTrue == vm = [v \in Variants |-> vm[v]] /\ \A v \in Variants : MachineIsTrue(v)

Counted(r) ==
  /\ run[r].gated \in Nat
  /\ run[r].pc \in Unowned => run[r].gated = 0
  /\ At(r, "gate") => run[r].gated < Len(Order)
  /\ At(r, "stage") => run[r].gated = Len(Order)
  /\ SummaryIsTrue(run[r].staged)

Counts == Shape /\ MachinesAreTrue /\ (\A r \in Runs : Counted(r)) /\ SummaryIsTrue(summary)

\* Who was tested stays as it was tested.
Frozen ==
  /\ \A q \in Runs : run[q].gated # 0 => run'[q].gated # 0 /\ run'[q].release = run[q].release
  /\ \A q \in Runs : run[q].gated = Len(Order) =>
       /\ run'[q].gated = Len(Order)
       /\ run'[q].release = run[q].release /\ run'[q].commit = run[q].commit

LEMMA OrderHasVariants == Len(Order) \in Nat /\ Len(Order) > 0
BY MatrixAssumption

LEMMA TestedStays ==
  ASSUME Frozen
  PROVE  \A s : SummaryIsTrue(s) =>
           (s # None => /\ s.context.run \in Runs
                        /\ run'[s.context.run].gated = Len(Order)
                        /\ run'[s.context.run].release = s.tested
                        /\ run'[s.context.run].commit = s.context.commit)
BY DEF Frozen, SummaryIsTrue, Tested

LEMMA MachinesStay ==
  ASSUME MachinesAreTrue, Frozen, vm' = vm
  PROVE  MachinesAreTrue'
BY DEF MachinesAreTrue, MachineIsTrue, Frozen

\* A step of r, seen from the others.
LEMMA OthersCount ==
  ASSUME Counts, Frozen, NEW r \in Runs, Shape', MachinesAreTrue',
         \A q \in Runs \ {r} : run'[q] = run[q],
         Counted(r)', SummaryIsTrue(summary)'
  PROVE  Counts'
<1>1. \A q \in Runs \ {r} : Counted(q)'
  <2> SUFFICES ASSUME NEW q \in Runs \ {r} PROVE Counted(q)'
    OBVIOUS
  <2>1. Counted(q) /\ run'[q] = run[q]
    BY DEF Counts
  <2>2. SummaryIsTrue(run[q].staged)'
    BY <2>1, TestedStays DEF Counted, SummaryIsTrue, Tested
  <2> QED  BY <2>1, <2>2 DEF Counted, At
<1> QED  BY <1>1 DEF Counts

\* A step that tests nothing.
LEMMA CountStays ==
  ASSUME Counts, NEW r \in Runs, Shape', vm' = vm,
         \A q \in Runs \ {r} : run'[q] = run[q],
         run'[r].gated = run[r].gated, run'[r].release = run[r].release,
         run'[r].commit = run[r].commit, run'[r].staged \in {None, run[r].staged},
         summary' \in {None, summary, run[r].staged},
         run'[r].pc \in Unowned => run[r].pc \in Unowned,
         run'[r].pc = "gate" => run[r].pc = "own",
         run'[r].pc # "stage"
  PROVE  Counts' /\ Frozen
<1>1. Frozen
  <2>1. \A q \in Runs : /\ run'[q].gated = run[q].gated
                        /\ run'[q].release = run[q].release /\ run'[q].commit = run[q].commit
    OBVIOUS
  <2> QED  BY <2>1 DEF Frozen
<1>2. SummaryIsTrue(run[r].staged) /\ SummaryIsTrue(summary) /\ Counted(r)
  BY DEF Counts, Counted
<1>3. SummaryIsTrue(run[r].staged)' /\ SummaryIsTrue(summary)'
  BY <1>1, <1>2, TestedStays DEF SummaryIsTrue, Tested
<1>4. Counted(r)'
  BY <1>2, <1>3, OrderHasVariants DEF Counted, At, Unowned
<1>5. MachinesAreTrue'
  BY <1>1, MachinesStay DEF Counts
<1> QED  BY <1>1, <1>3, <1>4, <1>5, OthersCount DEF Counts

LEMMA GotoCounts ==
  ASSUME Shape, NEW r \in Runs, NEW place, Goto(r, place)
  PROVE  /\ Shape' /\ \A q \in Runs \ {r} : run'[q] = run[q]
         /\ run'[r].pc = place /\ run'[r].staged = run[r].staged
         /\ run'[r].gated = run[r].gated /\ run'[r].release = run[r].release
         /\ run'[r].commit = run[r].commit
<1> DEFINE x == [run[r] EXCEPT !.pc = place]
<1>1. /\ IsRun(x) /\ x.pc = place /\ x.staged = run[r].staged
      /\ x.gated = run[r].gated /\ x.release = run[r].release /\ x.commit = run[r].commit
  BY DEF Shape, IsRun, Fields
<1>2. run' = [run EXCEPT ![r] = x]
  BY DEF Goto
<1> HIDE DEF x
<1> QED  BY <1>1, <1>2, Updated

LEMMA EndCounts ==
  ASSUME Shape, NEW r \in Runs, NEW result, End(r, result)
  PROVE  /\ Shape' /\ \A q \in Runs \ {r} : run'[q] = run[q]
         /\ run'[r].pc = result /\ run'[r].staged = None
         /\ run'[r].gated = run[r].gated /\ run'[r].release = run[r].release
         /\ run'[r].commit = run[r].commit
<1> DEFINE x == [run[r] EXCEPT !.pc = result, !.owns = FALSE, !.staged = None]
<1>1. /\ IsRun(x) /\ x.pc = result /\ x.staged = None
      /\ x.gated = run[r].gated /\ x.release = run[r].release /\ x.commit = run[r].commit
  BY DEF Shape, IsRun, Fields
<1>2. run' = [run EXCEPT ![r] = x]
  BY DEF End
<1> HIDE DEF x
<1> QED  BY <1>1, <1>2, Updated

\* The commands, the trap and the signals between the tests.
LEMMA GotoStep ==
  ASSUME Counts, NEW r \in Runs, NEW place, Goto(r, place), vm' = vm,
         summary' \in {None, summary, run[r].staged},
         place \in Unowned => run[r].pc \in Unowned,
         place \notin {"gate", "stage"}
  PROVE  Counts' /\ Frozen
<1>1. /\ Shape' /\ \A q \in Runs \ {r} : run'[q] = run[q]
      /\ run'[r].pc = place /\ run'[r].staged = run[r].staged
      /\ run'[r].gated = run[r].gated /\ run'[r].release = run[r].release
      /\ run'[r].commit = run[r].commit
  BY GotoCounts DEF Counts
<1> QED  BY <1>1, CountStays

LEMMA EndStep ==
  ASSUME Counts, NEW r \in Runs, NEW result, End(r, result), vm' = vm,
         summary' \in {None, summary, run[r].staged},
         result \in {"passed", "failed", "dead"}
  PROVE  Counts' /\ Frozen
<1>1. /\ Shape' /\ \A q \in Runs \ {r} : run'[q] = run[q]
      /\ run'[r].pc = result /\ run'[r].staged = None
      /\ run'[r].gated = run[r].gated /\ run'[r].release = run[r].release
      /\ run'[r].commit = run[r].commit
  BY EndCounts DEF Counts
<1> QED  BY <1>1, CountStays DEF Unowned

LEMMA QuietCounts ==
  ASSUME Counts, NEW r \in Runs,
         \/ InvalidateSummary(r) \/ MarkInProgress(r) \/ CleanupSuccess(r) \/ PublishSummary(r)
         \/ PublishStatus(r) \/ PublishStatusFails(r) \/ Withdraw(r) \/ Exit(r)
         \/ Fail(r) \/ CleanupOnExit(r) \/ RemoveSummary(r) \/ RemoveStatus(r)
         \/ TrapBreaks(r) \/ Kill(r)
  PROVE  Counts' /\ Frozen
<1>1. CASE InvalidateSummary(r)
  BY <1>1, GotoStep DEF InvalidateSummary, At, Unowned
<1>2. CASE MarkInProgress(r)
  BY <1>2, GotoStep DEF MarkInProgress, At, Unowned
<1>3. CASE CleanupSuccess(r)
  BY <1>3, GotoStep DEF CleanupSuccess, publication, Unowned
<1>4. CASE PublishSummary(r)
  BY <1>4, GotoStep DEF PublishSummary, Unowned
<1>5. CASE PublishStatus(r)
  BY <1>5, GotoStep DEF PublishStatus, Unowned
<1>6. CASE PublishStatusFails(r)
  BY <1>6, GotoStep DEF PublishStatusFails, Unowned
<1>7. CASE Exit(r)
  BY <1>7, EndStep DEF Exit, publication
<1>8. CASE Withdraw(r)
  BY <1>8, GotoStep DEF Withdraw, Unowned
<1>9. CASE Fail(r)
  BY <1>9, GotoStep DEF Fail, publication, Unowned
<1>10. CASE CleanupOnExit(r)
  BY <1>10, GotoStep, EndStep DEF CleanupOnExit, publication, Unowned
<1>11. CASE RemoveSummary(r)
  BY <1>11, GotoStep DEF RemoveSummary, Unowned
<1>12. CASE RemoveStatus(r)
  BY <1>12, EndStep DEF RemoveStatus
<1>13. CASE TrapBreaks(r)
  BY <1>13, EndStep DEF TrapBreaks, publication
<1>14. CASE Kill(r)
  BY <1>14, EndStep DEF Kill, publication
<1> QED  BY <1>1, <1>2, <1>3, <1>4, <1>5, <1>6, <1>7, <1>8, <1>9, <1>10, <1>11, <1>12, <1>13, <1>14

LEMMA OwnCounts ==
  ASSUME Counts, NEW r \in Runs, Own(r)
  PROVE  Counts' /\ Frozen
<1> DEFINE x == [run[r] EXCEPT !.pc = "gate", !.owns = TRUE]
<1>1. /\ IsRun(x) /\ x.pc = "gate" /\ x.staged = run[r].staged
      /\ x.gated = run[r].gated /\ x.release = run[r].release /\ x.commit = run[r].commit
  BY DEF Counts, Shape, IsRun, Fields
<1>2. run' = [run EXCEPT ![r] = x] /\ vm' = vm /\ summary' = summary /\ run[r].pc = "own"
  BY DEF Own, At, publication
<1> HIDE DEF x
<1>3. Shape' /\ run'[r] = x /\ \A q \in Runs \ {r} : run'[q] = run[q]
  BY <1>1, <1>2, Updated DEF Counts
<1> QED  BY <1>1, <1>2, <1>3, CountStays DEF Unowned

LEMMA VerifyPublishedCounts ==
  ASSUME Counts, NEW r \in Runs, VerifyPublished(r)
  PROVE  Counts' /\ Frozen
<1>1. vm' = vm /\ summary' = summary
  BY DEF VerifyPublished, publication
<1>2. CASE run' = [run EXCEPT ![r].pc = "disowned", ![r].owns = FALSE]
  <2> DEFINE x == [run[r] EXCEPT !.pc = "disowned", !.owns = FALSE]
  <2>1. /\ IsRun(x) /\ x.pc = "disowned" /\ x.staged = run[r].staged
        /\ x.gated = run[r].gated /\ x.release = run[r].release /\ x.commit = run[r].commit
    BY DEF Counts, Shape, IsRun, Fields
  <2>2. run' = [run EXCEPT ![r] = x]
    BY <1>2
  <2> HIDE DEF x
  <2>3. Shape' /\ run'[r] = x /\ \A q \in Runs \ {r} : run'[q] = run[q]
    BY <2>1, <2>2, Updated DEF Counts
  <2> QED  BY <1>1, <2>1, <2>3, CountStays DEF Unowned
<1>3. CASE Goto(r, "withdraw")
  BY <1>1, <1>3, GotoStep DEF Unowned
<1> QED  BY <1>2, <1>3 DEF VerifyPublished

\* Until a run has begun to test, no summary can be about it.
LEMMA UntestedMoves ==
  ASSUME Counts, NEW r \in Runs, run[r].gated # Len(Order), Shape', summary' = summary,
         vm' = vm \/ MachinesAreTrue',
         \A q \in Runs \ {r} : run'[q] = run[q],
         run[r].gated # 0 => run'[r].gated # 0 /\ run'[r].release = run[r].release,
         run'[r].staged = run[r].staged,
         run'[r].gated \in Nat,
         run'[r].pc \in Unowned => run'[r].gated = 0,
         run'[r].pc = "gate" => run'[r].gated < Len(Order),
         run'[r].pc = "stage" => run'[r].gated = Len(Order)
  PROVE  Counts' /\ Frozen
<1>1. Frozen
  BY DEF Frozen
<1>2. SummaryIsTrue(run[r].staged) /\ SummaryIsTrue(summary)
  BY DEF Counts, Counted
<1>3. SummaryIsTrue(run[r].staged)' /\ SummaryIsTrue(summary)'
  BY <1>1, <1>2, TestedStays DEF SummaryIsTrue, Tested
<1>4. Counted(r)'
  BY <1>3 DEF Counted, At
<1>5. MachinesAreTrue'
  BY <1>1, MachinesStay DEF Counts
<1> QED  BY <1>1, <1>3, <1>4, <1>5, OthersCount

LEMMA PrepareStateCounts ==
  ASSUME Counts, NEW r \in Runs, PrepareState(r)
  PROVE  Counts' /\ Frozen
<1>1. PICK c \in Commits : run' = [run EXCEPT ![r].pc = "source", ![r].commit = c]
  BY DEF PrepareState
<1>2. vm' = vm /\ summary' = summary /\ Counted(r) /\ At(r, "idle") /\ Shape
  BY DEF PrepareState, Counts
<1>3. run[r].gated = 0 /\ run[r].gated # Len(Order)
  BY <1>2, OrderHasVariants DEF Counted, At, Unowned
<1> DEFINE x == [run[r] EXCEPT !.pc = "source", !.commit = c]
<1>4. IsRun(x) /\ x.pc = "source" /\ x.staged = run[r].staged /\ x.gated = run[r].gated
  BY <1>2 DEF Shape, IsRun, Fields
<1>5. run' = [run EXCEPT ![r] = x]
  BY <1>1
<1> HIDE DEF x
<1>6. Shape' /\ run'[r] = x /\ \A q \in Runs \ {r} : run'[q] = run[q]
  BY <1>2, <1>4, <1>5, Updated
<1> QED  BY <1>2, <1>3, <1>4, <1>6, UntestedMoves

LEMMA PrepareSignedReleaseCounts ==
  ASSUME Counts, NEW r \in Runs, PrepareSignedRelease(r)
  PROVE  Counts' /\ Frozen
<1>1. PICK m \in Manifests : run' = [run EXCEPT ![r].pc = "invalidate", ![r].release = m]
  BY DEF PrepareSignedRelease
<1>2. vm' = vm /\ summary' = summary /\ Counted(r) /\ At(r, "source") /\ Shape
  BY DEF PrepareSignedRelease, Counts
<1>3. run[r].gated = 0 /\ run[r].gated # Len(Order)
  BY <1>2, OrderHasVariants DEF Counted, At, Unowned
<1> DEFINE x == [run[r] EXCEPT !.pc = "invalidate", !.release = m]
<1>4. IsRun(x) /\ x.pc = "invalidate" /\ x.staged = run[r].staged /\ x.gated = run[r].gated
  BY <1>2 DEF Shape, IsRun, Fields
<1>5. run' = [run EXCEPT ![r] = x]
  BY <1>1
<1> HIDE DEF x
<1>6. Shape' /\ run'[r] = x /\ \A q \in Runs \ {r} : run'[q] = run[q]
  BY <1>2, <1>4, <1>5, Updated
<1> QED  BY <1>2, <1>3, <1>4, <1>6, UntestedMoves

LEMMA RunVmGateCounts ==
  ASSUME Counts, NEW r \in Runs, RunVmGate(r)
  PROVE  Counts' /\ Frozen
<1> DEFINE p == IF run[r].gated + 1 = Len(Order) THEN "stage" ELSE "gate"
           x == [run[r] EXCEPT !.gated = run[r].gated + 1, !.pc = p]
<1>1. /\ summary' = summary /\ Counted(r) /\ At(r, "gate") /\ Shape /\ MachinesAreTrue
  BY DEF RunVmGate, Counts
<1>2. /\ run[r].gated \in Nat /\ run[r].gated < Len(Order)
  BY <1>1 DEF Counted, At
<1>3. /\ p \in {"stage", "gate"} /\ (p = "gate" => run[r].gated + 1 < Len(Order))
      /\ (p = "stage" => run[r].gated + 1 = Len(Order))
  BY <1>2, OrderHasVariants
<1>4. run' = [run EXCEPT ![r] = x]
  BY DEF RunVmGate
<1> HIDE DEF p
<1>5. /\ IsRun(x) /\ x.pc = p /\ x.staged = run[r].staged /\ x.gated = run[r].gated + 1
      /\ x.release = run[r].release
  BY <1>1 DEF Shape, IsRun, Fields
<1> HIDE DEF x
<1>6. Shape' /\ run'[r] = x /\ \A q \in Runs \ {r} : run'[q] = run[q]
  BY <1>1, <1>4, <1>5, Updated
<1>7. run'[r].gated \in Nat /\ run[r].gated # Len(Order) /\ run'[r].pc \notin Unowned
  BY <1>2, <1>3, <1>5, <1>6, OrderHasVariants DEF Unowned
<1>8. MachinesAreTrue'
  <2> DEFINE v == Order[run[r].gated + 1]
  <2>1. PICK driver \in {"overlay2", "btrfs"} :
          vm' = [vm EXCEPT ![v] = [context |-> Context(r), variant |-> v, release |-> copy[r],
                                   tested |-> run[r].release, driver |-> driver]]
    BY DEF RunVmGate
  <2> DEFINE entry == [context |-> Context(r), variant |-> v, release |-> copy[r],
                       tested |-> run[r].release, driver |-> driver]
  <2>2. vm' = [vm EXCEPT ![v] = entry] /\ entry.context = Context(r) /\ entry.tested = run[r].release
    BY <2>1
  <2> HIDE DEF entry
  <2>3. vm' = [w \in Variants |-> vm'[w]] /\ \A w \in Variants : vm'[w] = vm[w] \/ vm'[w] = entry
    BY <1>1, <2>2 DEF MachinesAreTrue
  <2>4. run'[r].release = run[r].release /\ run'[r].gated # 0 /\ entry.context.run = r
    BY <1>2, <1>5, <1>6, <2>2 DEF Context
  <2>5. ASSUME NEW w \in Variants PROVE MachineIsTrue(w)'
    <3>1. CASE vm'[w] = entry
      BY <2>2, <2>4, <3>1 DEF MachineIsTrue
    <3>2. CASE vm'[w] = vm[w]
      BY <1>1, <1>6, <2>4, <3>2 DEF MachinesAreTrue, MachineIsTrue
    <3> QED  BY <2>3, <3>1, <3>2
  <2> QED  BY <2>3, <2>5 DEF MachinesAreTrue
<1> QED  BY <1>1, <1>2, <1>3, <1>5, <1>6, <1>7, <1>8, UntestedMoves

\* The manifests name what the run tested, and the summary repeats it.
LEMMA GenerateMatrixSummaryCounts ==
  ASSUME Counts, NEW r \in Runs, GenerateMatrixSummary(r)
  PROVE  Counts' /\ Frozen
<1> DEFINE s == BuildSummary(vm, EvidenceHashes(vm, Context(r)), Context(r))
           x == [run[r] EXCEPT !.pc = "cleanup", !.staged = s]
<1>1. /\ vm' = vm /\ summary' = summary /\ Counted(r) /\ At(r, "stage") /\ Shape
      /\ ValidateRuns(vm, Context(r)) /\ run' = [run EXCEPT ![r] = x] /\ MachinesAreTrue
  BY DEF GenerateMatrixSummary, Counts, publication
<1>2. run[r].gated = Len(Order)
  BY <1>1 DEF Counted, At
<1>3. s.context.run = r /\ s.context.commit = run[r].commit /\ s.tested = vm[Order[1]].tested
  BY DEF BuildSummary, Context
<1>4. Order[1] \in Variants
  BY MatrixAssumption, OrderHasVariants DEF Variants
<1>5. vm[Order[1]].tested = run[r].release
  BY <1>1, <1>4 DEF ValidateRuns, Context, MachinesAreTrue, MachineIsTrue
<1> HIDE DEF s
<1>6. /\ IsRun(x) /\ x.pc = "cleanup" /\ x.staged = s /\ x.gated = run[r].gated
      /\ x.release = run[r].release /\ x.commit = run[r].commit
  BY <1>1 DEF Shape, IsRun, Fields
<1> HIDE DEF x
<1>7. Shape' /\ run'[r] = x /\ \A q \in Runs \ {r} : run'[q] = run[q]
  BY <1>1, <1>6, Updated
<1>8. Frozen
  BY <1>6, <1>7 DEF Frozen
<1>9. SummaryIsTrue(summary)'
  BY <1>1, <1>8, TestedStays DEF Counts, SummaryIsTrue, Tested
<1>10. SummaryIsTrue(run[r].staged)'
  BY <1>2, <1>3, <1>5, <1>6, <1>7 DEF SummaryIsTrue, Tested
<1>11. Counted(r)'
  BY <1>1, <1>6, <1>7, <1>10 DEF Counted, At, Unowned
<1>12. MachinesAreTrue'
  BY <1>1, <1>8, MachinesStay
<1> QED  BY <1>1, <1>7, <1>8, <1>9, <1>11, <1>12, OthersCount

LEMMA UnchangedCounts ==
  ASSUME Counts, UNCHANGED <<summary, vm, run>>
  PROVE  Counts' /\ Frozen
<1>1. Shape'
  BY DEF Counts, Shape
<1>2. SummaryIsTrue(summary)' /\ \A r \in Runs : Counted(r)'
  BY DEF Counts, Counted, SummaryIsTrue, Tested, At
<1>3. Frozen
  BY DEF Frozen
<1>4. MachinesAreTrue'
  BY <1>3, MachinesStay DEF Counts
<1> QED  BY <1>1, <1>2, <1>3, <1>4 DEF Counts

LEMMA MatrixCounts ==
  ASSUME Counts, [MatrixNext]_matrixVars
  PROVE  Counts' /\ Frozen
<1>1. CASE UNCHANGED matrixVars
  BY <1>1, UnchangedCounts DEF matrixVars
<1>2. CASE ClearLeftovers
  BY <1>2, UnchangedCounts DEF ClearLeftovers, publication
<1>3. ASSUME NEW r \in Runs,
             \/ InvalidateSummary(r) \/ MarkInProgress(r) \/ CleanupSuccess(r) \/ PublishSummary(r)
             \/ PublishStatus(r) \/ PublishStatusFails(r) \/ Withdraw(r) \/ Exit(r)
             \/ Fail(r) \/ CleanupOnExit(r) \/ RemoveSummary(r) \/ RemoveStatus(r)
             \/ TrapBreaks(r) \/ Kill(r)
      PROVE  Counts' /\ Frozen
  BY <1>3, QuietCounts
<1>4. ASSUME NEW r \in Runs,
             \/ PrepareState(r) \/ PrepareSignedRelease(r) \/ Own(r) \/ RunVmGate(r)
             \/ GenerateMatrixSummary(r) \/ VerifyPublished(r)
      PROVE  Counts' /\ Frozen
  BY <1>4, PrepareStateCounts, PrepareSignedReleaseCounts, OwnCounts, RunVmGateCounts,
     GenerateMatrixSummaryCounts, VerifyPublishedCounts
<1> QED  BY <1>1, <1>2, <1>3, <1>4 DEF MatrixNext

LEMMA InitCounts ==
  ASSUME MatrixInit
  PROVE  Counts
<1>1. /\ run = [r \in Runs |-> Waiting] /\ summary = None /\ vm = [v \in Variants |-> None]
  BY DEF MatrixInit
<1>2. /\ IsRun(Waiting) /\ Waiting.pc = "idle" /\ Waiting.gated = 0 /\ Waiting.staged = None
  BY DEF IsRun, Fields, Waiting
<1>3. Shape /\ MachinesAreTrue
  BY <1>1, <1>2 DEF Shape, MachinesAreTrue, MachineIsTrue
<1>4. \A r \in Runs : run[r].pc = "idle" /\ run[r].gated = 0 /\ run[r].staged = None
  BY <1>1, <1>2
<1>5. \A r \in Runs : Counted(r)
  BY <1>4, OrderHasVariants DEF Counted, At, SummaryIsTrue
<1> QED  BY <1>1, <1>3, <1>5 DEF Counts, SummaryIsTrue

-----------------------------------------------------------------------------
(* What the assembler goes on from *)

\* Some run for this commit has tested what m names.
Named(m) ==
  \E r \in Runs :
    /\ run[r].gated = Len(Order) /\ run[r].commit = Commit
    /\ About[run[r].release].images = About[m].release_digests
    /\ About[run[r].release].release_tag = About[m].release_tag

Checking == {"check_architecture", "check_security"}
Compared == {"compare_status", "validate_runs", "rehash", "llm", "reviews", "bind", "pin", "write"}
            \cup Checking
AssemblyFields == {"pc", "read", "bind", "pins", "disturbed", "written"}
FileNames == {"matrix_summary", "matrix_status", "release_manifest", "llm_manifest", "reviews"}

AssemblyShape ==
  /\ assembly = [f \in AssemblyFields |-> assembly[f]]
  /\ Reading = [f \in FileNames |-> Reading[f]]

ReadsAreTrue ==
  /\ SummaryIsTrue(Reading.matrix_summary)
  /\ assembly.pc \in {"status", "compare_release"} => Reading.matrix_summary # None
  /\ assembly.pc \in Compared => Named(Reading.release_manifest)

ManifestIsTrue == manifest # None => manifest.commit_sha = Commit /\ Named(manifest.release)

TestInv == Counts /\ AssemblyShape /\ ReadsAreTrue /\ ManifestIsTrue

\* What was true of the summaries and the manifests that are kept is still true.
LEMMA NamedStays ==
  ASSUME Frozen, NEW m, Named(m)
  PROVE  \E r \in Runs :
           /\ run'[r].gated = Len(Order) /\ run'[r].commit = Commit
           /\ About[run'[r].release].images = About[m].release_digests
           /\ About[run'[r].release].release_tag = About[m].release_tag
BY DEF Frozen, Named

\* The assembler's part of the invariant, after a step in which it read nothing.
LEMMA AssemblyStays ==
  ASSUME TestInv, Frozen, assembly'.pc = assembly.pc, assembly'.read = assembly.read
  PROVE  ReadsAreTrue'
<1>1. SummaryIsTrue(Reading.matrix_summary)'
  BY TestedStays DEF TestInv, ReadsAreTrue, SummaryIsTrue, Tested, Reading
<1>2. assembly.pc \in Compared => Named(Reading.release_manifest)'
  BY NamedStays DEF TestInv, ReadsAreTrue, Named, Reading
<1> QED  BY <1>1, <1>2 DEF TestInv, ReadsAreTrue, Reading

LEMMA ManifestStays ==
  ASSUME TestInv, Frozen, manifest' = manifest
  PROVE  ManifestIsTrue'
<1>1. ASSUME manifest # None PROVE Named(manifest.release)'
  BY <1>1, NamedStays DEF TestInv, ManifestIsTrue, Named
<1> QED  BY <1>1 DEF TestInv, ManifestIsTrue

\* A step of the assembler, with what it has read after it.
LEMMA AssemblerStep ==
  ASSUME TestInv, UNCHANGED matrixVars, manifest' = manifest,
         AssemblyShape',
         SummaryIsTrue(assembly'.read.matrix_summary),
         assembly'.pc \in {"status", "compare_release"} => assembly'.read.matrix_summary # None,
         assembly'.pc \in Compared => Named(assembly'.read.release_manifest)
  PROVE  TestInv'
<1>1. UNCHANGED <<summary, vm, run>>
  BY DEF matrixVars
<1>2. Counts' /\ Frozen
  BY <1>1, UnchangedCounts DEF TestInv
<1>3. ReadsAreTrue'
  BY <1>1 DEF ReadsAreTrue, SummaryIsTrue, Tested, Named, Reading
<1>4. ManifestIsTrue'
  BY <1>2, ManifestStays
<1> QED  BY <1>2, <1>3, <1>4 DEF TestInv

LEMMA ReadSets ==
  ASSUME AssemblyShape, NEW f \in FileNames, NEW next, Read(f, next)
  PROVE  /\ AssemblyShape' /\ Assembles /\ assembly'.pc = next /\ assembly'.read[f] = File[f]
         /\ \A g \in FileNames \ {f} : assembly'.read[g] = Reading[g]
<1> DEFINE v == File[f]
           rd == [Reading EXCEPT ![f] = v]
           a == [assembly EXCEPT !.pc = next, !.read = rd]
<1>1. Assembles /\ assembly' = [assembly EXCEPT !.pc = next, !.read[f] = v]
  BY DEF Read
<1> HIDE DEF v
<1>2. rd = [g \in FileNames |-> rd[g]] /\ rd[f] = v /\ \A g \in FileNames \ {f} : rd[g] = Reading[g]
  BY DEF AssemblyShape
<1>3. assembly' = a
  BY <1>1 DEF AssemblyShape, AssemblyFields, Reading
<1> HIDE DEF rd
<1>4. a = [g \in AssemblyFields |-> a[g]] /\ a.pc = next /\ a.read = rd
  BY DEF AssemblyShape, AssemblyFields
<1> QED  BY <1>1, <1>2, <1>3, <1>4 DEF AssemblyShape, Reading, v

\* Any other step of the assembler keeps what it has read, or a part of it.
LEMMA PartSets ==
  ASSUME AssemblyShape, NEW a, assembly' = a, a = [g \in AssemblyFields |-> a[g]], a.read = Reading
  PROVE  AssemblyShape' /\ assembly'.read = Reading /\ assembly'.pc = a.pc
BY DEF AssemblyShape, Reading

LEMMA ProceedSets ==
  ASSUME AssemblyShape, NEW next, Proceed(next)
  PROVE  AssemblyShape' /\ assembly'.read = Reading /\ assembly'.pc = next
<1> DEFINE a == [assembly EXCEPT !.pc = next]
<1>1. a = [g \in AssemblyFields |-> a[g]] /\ a.read = Reading /\ a.pc = next /\ assembly' = a
  BY DEF AssemblyShape, AssemblyFields, Reading, Proceed
<1> HIDE DEF a
<1> QED  BY <1>1, PartSets

\* The process is over, after n aggregates.
LEMMA EndedSets ==
  ASSUME NEW n, assembly' = [Idle EXCEPT !.written = n]
  PROVE  /\ AssemblyShape' /\ assembly'.pc = "idle" /\ assembly'.read.matrix_summary = None
         /\ assembly'.bind = NoFiles /\ assembly'.pins = NoFiles
<1> DEFINE a == [Idle EXCEPT !.written = n]
<1>1. /\ a = [g \in AssemblyFields |-> a[g]] /\ a.pc = "idle" /\ a.read = NoFiles
      /\ a.bind = NoFiles /\ a.pins = NoFiles
  BY DEF Idle, AssemblyFields
<1>2. NoFiles = [g \in FileNames |-> NoFiles[g]] /\ NoFiles.matrix_summary = None
  BY DEF NoFiles, File, FileNames
<1> HIDE DEF a
<1>3. assembly' = a
  BY DEF a
<1> QED  BY <1>1, <1>2, <1>3 DEF AssemblyShape, Reading

\* A step that drops a file that it has read.
LEMMA DropSets ==
  ASSUME AssemblyShape, NEW f \in FileNames, NEW next,
         assembly' = [assembly EXCEPT !.pc = next, !.read[f] = None]
  PROVE  /\ AssemblyShape' /\ assembly'.pc = next /\ assembly'.read[f] = None
         /\ \A g \in FileNames \ {f} : assembly'.read[g] = Reading[g]
         /\ assembly'.bind = assembly.bind /\ assembly'.pins = assembly.pins
         /\ assembly'.disturbed = assembly.disturbed
<1> DEFINE rd == [Reading EXCEPT ![f] = None]
           a == [assembly EXCEPT !.pc = next, !.read = rd]
<1>1. rd = [g \in FileNames |-> rd[g]] /\ rd[f] = None /\ \A g \in FileNames \ {f} : rd[g] = Reading[g]
  BY DEF AssemblyShape
<1>2. assembly' = a
  BY DEF AssemblyShape, AssemblyFields, Reading
<1> HIDE DEF rd
<1>3. /\ a = [g \in AssemblyFields |-> a[g]] /\ a.pc = next /\ a.read = rd
      /\ a.bind = assembly.bind /\ a.pins = assembly.pins /\ a.disturbed = assembly.disturbed
  BY DEF AssemblyShape, AssemblyFields
<1> HIDE DEF a
<1> QED  BY <1>1, <1>2, <1>3 DEF AssemblyShape, Reading

LEMMA ReadReleaseTests ==
  ASSUME TestInv, ReadRelease
  PROVE  TestInv'
<1>1. Read("release_manifest", "summary") /\ AssemblyShape /\ SummaryIsTrue(Reading.matrix_summary)
  BY DEF ReadRelease, TestInv, ReadsAreTrue
<1>2. "release_manifest" \in FileNames /\ "matrix_summary" \in FileNames \ {"release_manifest"}
  BY DEF FileNames
<1>3. /\ AssemblyShape' /\ Assembles /\ assembly'.pc = "summary"
      /\ assembly'.read["matrix_summary"] = Reading["matrix_summary"]
  BY <1>1, <1>2, ReadSets
<1> QED  BY <1>1, <1>3, AssemblerStep DEF Assembles, Compared, Checking

LEMMA ReadSummaryTests ==
  ASSUME TestInv, ReadSummary
  PROVE  TestInv'
<1>1. Read("matrix_summary", "status") /\ AssemblyShape /\ SummaryIsTrue(summary) /\ summary # None
  BY DEF ReadSummary, TestInv, Counts
<1>2. "matrix_summary" \in FileNames /\ File["matrix_summary"] = summary
  BY DEF FileNames, File
<1>3. /\ AssemblyShape' /\ Assembles /\ assembly'.pc = "status"
      /\ assembly'.read["matrix_summary"] = File["matrix_summary"]
  BY <1>1, <1>2, ReadSets
<1> QED  BY <1>1, <1>2, <1>3, AssemblerStep DEF Assembles, Compared, Checking

LEMMA ReadStatusTests ==
  ASSUME TestInv, ReadStatus
  PROVE  TestInv'
<1>1. /\ Read("matrix_status", "compare_release") /\ AssemblyShape
      /\ SummaryIsTrue(Reading.matrix_summary) /\ Reading.matrix_summary # None
  BY DEF ReadStatus, Reached, TestInv, ReadsAreTrue
<1>2. "matrix_status" \in FileNames /\ "matrix_summary" \in FileNames \ {"matrix_status"}
  BY DEF FileNames
<1>3. /\ AssemblyShape' /\ Assembles /\ assembly'.pc = "compare_release"
      /\ assembly'.read["matrix_summary"] = Reading["matrix_summary"]
  BY <1>1, <1>2, ReadSets
<1> QED  BY <1>1, <1>3, AssemblerStep DEF Assembles, Compared, Checking

\* Here the manifest that was read is found to be what the summary is about.
LEMMA CompareReleaseTests ==
  ASSUME TestInv, CompareRelease
  PROVE  TestInv'
<1> DEFINE s == Reading.matrix_summary  m == Reading.release_manifest
<1>1. /\ assembly.pc = "compare_release" /\ SameRelease(s, m) /\ Proceed("compare_status")
  BY DEF CompareRelease, Reached
<1>2. Tested(s) /\ SummaryIsTrue(s)
  BY <1>1 DEF TestInv, ReadsAreTrue, SummaryIsTrue
<1>3. Named(m)
  BY <1>1, <1>2 DEF SameRelease, Tested, Named
<1>4. AssemblyShape' /\ assembly'.read = Reading /\ assembly'.pc = "compare_status"
  BY <1>1, ProceedSets DEF TestInv
<1> QED  BY <1>1, <1>2, <1>3, <1>4, AssemblerStep DEF Proceed, Assembles

\* From there on the reading goes on with what was compared.
LEMMA ComparedStep ==
  ASSUME TestInv, Assembles, assembly.pc \in Compared, AssemblyShape',
         assembly'.read.matrix_summary \in {None, Reading.matrix_summary},
         assembly'.read.release_manifest = Reading.release_manifest,
         assembly'.pc \in Compared
  PROVE  TestInv'
<1>1. SummaryIsTrue(assembly'.read.matrix_summary) /\ Named(assembly'.read.release_manifest)
  BY DEF TestInv, ReadsAreTrue, SummaryIsTrue
<1>2. UNCHANGED matrixVars /\ manifest' = manifest
  BY DEF Assembles
<1>3. assembly'.pc \notin {"status", "compare_release"}
  BY DEF Compared, Checking
<1> QED  BY <1>1, <1>2, <1>3, AssemblerStep

LEMMA ComparedProceeds ==
  ASSUME TestInv, NEW next \in Compared, assembly.pc \in Compared, Proceed(next)
  PROVE  TestInv'
<1>1. AssemblyShape' /\ assembly'.read = Reading /\ assembly'.pc = next
  BY ProceedSets DEF TestInv
<1> QED  BY <1>1, ComparedStep DEF Proceed

LEMMA CompareStatusTests ==
  ASSUME TestInv, CompareStatus
  PROVE  TestInv'
<1>1. /\ assembly.pc = "compare_status" /\ Assembles /\ "matrix_status" \in FileNames
      /\ assembly' = [assembly EXCEPT !.pc = "validate_runs", !.read["matrix_status"] = None]
      /\ "matrix_summary" \in FileNames \ {"matrix_status"}
      /\ "release_manifest" \in FileNames \ {"matrix_status"}
  BY DEF CompareStatus, Reached, FileNames
<1>2. /\ AssemblyShape' /\ assembly'.pc = "validate_runs"
      /\ assembly'.read["matrix_summary"] = Reading["matrix_summary"]
      /\ assembly'.read["release_manifest"] = Reading["release_manifest"]
  BY <1>1, DropSets DEF TestInv
<1> QED  BY <1>1, <1>2, ComparedStep DEF Compared

LEMMA RebuildHashesTests ==
  ASSUME TestInv, RebuildHashes
  PROVE  TestInv'
<1>1. /\ assembly.pc = "rehash" /\ Assembles /\ "matrix_summary" \in FileNames
      /\ assembly' = [assembly EXCEPT !.pc = "llm", !.read["matrix_summary"] = None]
      /\ "release_manifest" \in FileNames \ {"matrix_summary"}
  BY DEF RebuildHashes, Reached, FileNames
<1>2. /\ AssemblyShape' /\ assembly'.pc = "llm" /\ assembly'.read["matrix_summary"] = None
      /\ assembly'.read["release_manifest"] = Reading["release_manifest"]
  BY <1>1, DropSets DEF TestInv
<1> QED  BY <1>1, <1>2, ComparedStep DEF Compared

LEMMA ReadReviewsTests ==
  ASSUME TestInv, ReadReviews
  PROVE  TestInv'
<1>1. Read("reviews", "bind") /\ assembly.pc = "reviews" /\ AssemblyShape
  BY DEF ReadReviews, Reached, TestInv
<1>2. /\ "reviews" \in FileNames
      /\ {"matrix_summary", "release_manifest"} \subseteq FileNames \ {"reviews"}
  BY DEF FileNames
<1>3. /\ AssemblyShape' /\ Assembles /\ assembly'.pc = "bind"
      /\ \A g \in FileNames \ {"reviews"} : assembly'.read[g] = Reading[g]
  BY <1>1, <1>2, ReadSets
<1>4. /\ assembly'.read["matrix_summary"] = Reading["matrix_summary"]
      /\ assembly'.read["release_manifest"] = Reading["release_manifest"]
  BY <1>2, <1>3
<1> QED  BY <1>1, <1>3, <1>4, ComparedStep DEF Compared, Checking

\* Binding, checking the reviews and pinning leave what was read alone.
LEMMA BindTests ==
  ASSUME TestInv, Bind
  PROVE  TestInv'
<1>1. PICK i \in DOMAIN Bound :
        assembly' = [assembly EXCEPT !.bind[Bound[i]] = File[Bound[i]],
                                     !.pc = IF i = Len(Bound) THEN "check_architecture" ELSE "bind"]
  BY DEF Bind
<1> DEFINE next == IF i = Len(Bound) THEN "check_architecture" ELSE "bind"
           a == [assembly EXCEPT !.bind[Bound[i]] = File[Bound[i]], !.pc = next]
<1>2. next \in {"check_architecture", "bind"}
  OBVIOUS
<1>3. assembly' = a
  BY <1>1
<1> HIDE DEF next
<1>4. a = [g \in AssemblyFields |-> a[g]] /\ a.read = Reading /\ a.pc = next
  BY DEF TestInv, AssemblyShape, AssemblyFields, Reading
<1> HIDE DEF a
<1>5. AssemblyShape' /\ assembly'.read = Reading /\ assembly'.pc = next
  BY <1>3, <1>4, PartSets DEF TestInv
<1> QED  BY <1>2, <1>5, ComparedStep DEF Bind, Reached, Compared, Checking

LEMMA CheckSecurityTests ==
  ASSUME TestInv, CheckSecurity
  PROVE  TestInv'
<1> DEFINE a == [assembly EXCEPT !.pc = "pin", !.bind = NoFiles]
<1>1. assembly' = a /\ assembly.pc = "check_security" /\ Assembles
  BY DEF CheckSecurity, Reached
<1>2. a = [g \in AssemblyFields |-> a[g]] /\ a.read = Reading /\ a.pc = "pin"
  BY DEF TestInv, AssemblyShape, AssemblyFields, Reading
<1> HIDE DEF a
<1>3. AssemblyShape' /\ assembly'.read = Reading /\ assembly'.pc = "pin"
  BY <1>1, <1>2, PartSets DEF TestInv
<1> QED  BY <1>1, <1>3, ComparedStep DEF Compared, Checking

LEMMA PinTests ==
  ASSUME TestInv, Pin
  PROVE  TestInv'
<1>1. PICK i \in DOMAIN Pinned :
        assembly' = [assembly EXCEPT !.pins[Pinned[i]] = File[Pinned[i]],
                                     !.pc = IF i = Len(Pinned) THEN "write" ELSE "pin"]
  BY DEF Pin
<1> DEFINE next == IF i = Len(Pinned) THEN "write" ELSE "pin"
           a == [assembly EXCEPT !.pins[Pinned[i]] = File[Pinned[i]], !.pc = next]
<1>2. next \in {"write", "pin"}
  OBVIOUS
<1>3. assembly' = a
  BY <1>1
<1> HIDE DEF next
<1>4. a = [g \in AssemblyFields |-> a[g]] /\ a.read = Reading /\ a.pc = next
  BY DEF TestInv, AssemblyShape, AssemblyFields, Reading
<1> HIDE DEF a
<1>5. AssemblyShape' /\ assembly'.read = Reading /\ assembly'.pc = next
  BY <1>3, <1>4, PartSets DEF TestInv
<1> QED  BY <1>2, <1>5, ComparedStep DEF Pin, Reached, Compared, Checking

LEMMA WriteTests ==
  ASSUME TestInv, Write
  PROVE  TestInv'
<1>1. /\ assembly.pc = "write" /\ assembly' = [Idle EXCEPT !.written = assembly.written + 1]
      /\ UNCHANGED matrixVars
      /\ manifest'.release = Reading.release_manifest /\ manifest'.commit_sha = Commit
  BY DEF Write, Reached
<1>2. Named(Reading.release_manifest)
  BY <1>1 DEF TestInv, ReadsAreTrue, Compared
<1>3. AssemblyShape' /\ assembly'.pc = "idle" /\ assembly'.read.matrix_summary = None
  BY <1>1, EndedSets
<1>4. UNCHANGED <<summary, vm, run>>
  BY <1>1 DEF matrixVars
<1>5. Counts' /\ ReadsAreTrue'
  BY <1>3, <1>4, UnchangedCounts DEF TestInv, ReadsAreTrue, SummaryIsTrue, Reading, Compared, Checking
<1>6. ManifestIsTrue'
  BY <1>1, <1>2, <1>4 DEF ManifestIsTrue, Named
<1> QED  BY <1>3, <1>5, <1>6 DEF TestInv

LEMMA RefuseTests ==
  ASSUME TestInv, Refuse
  PROVE  TestInv'
<1>1. AssemblyShape' /\ assembly'.pc = "idle" /\ assembly'.read.matrix_summary = None
  BY EndedSets DEF Refuse
<1> QED  BY <1>1, AssemblerStep DEF Refuse, Assembles, SummaryIsTrue, Compared, Checking

\* Steps beside the assembler, which may mark its reading as disturbed.
LEMMA DisturbSets ==
  ASSUME AssemblyShape, Disturb \/ assembly' = assembly
  PROVE  AssemblyShape' /\ assembly'.read = Reading /\ assembly'.pc = assembly.pc
<1>1. CASE assembly' = assembly
  BY <1>1 DEF AssemblyShape, Reading
<1>2. CASE assembly' = [assembly EXCEPT !.disturbed = TRUE]
  <2> DEFINE a == [assembly EXCEPT !.disturbed = TRUE]
  <2>1. a = [g \in AssemblyFields |-> a[g]] /\ a.read = Reading /\ a.pc = assembly.pc
    BY DEF AssemblyShape, AssemblyFields, Reading
  <2>2. assembly' = a
    BY <1>2
  <2> HIDE DEF a
  <2> QED  BY <2>1, <2>2, PartSets
<1> QED  BY <1>1, <1>2 DEF Disturb

LEMMA BesideTests ==
  ASSUME TestInv, Disturb \/ assembly' = assembly, [MatrixNext]_matrixVars, manifest' = manifest
  PROVE  TestInv'
<1>1. Counts' /\ Frozen
  BY MatrixCounts DEF TestInv
<1>2. AssemblyShape' /\ assembly'.read = Reading /\ assembly'.pc = assembly.pc
  BY DisturbSets DEF TestInv
<1>3. ReadsAreTrue'
  BY <1>1, <1>2, AssemblyStays DEF Reading
<1>4. ManifestIsTrue'
  BY <1>1, ManifestStays
<1> QED  BY <1>1, <1>2, <1>3, <1>4 DEF TestInv

LEMMA TestsStay ==
  ASSUME TestInv, [Next]_vars
  PROVE  TestInv'
<1>1. CASE MatrixStep \/ ReplaceRelease \/ ReplaceLlm \/ UNCHANGED vars
  BY <1>1, BesideTests DEF MatrixStep, ReplaceRelease, ReplaceLlm, Replaced, vars
<1>2. CASE (\E role \in Roles : \E hand \in Hands[role] : Review(role, hand)) \/ \E key \in SignerKeys : Sign(key)
  BY <1>2, BesideTests DEF Review, Sign
<1>3. CASE Load \/ Hash \/ VerifySignature \/ Accept \/ Reject
  BY <1>3, BesideTests DEF Load, Hash, VerifySignature, Accept, Reject, Validates
<1>4. CASE RebuildRuns
  BY <1>4, ComparedProceeds DEF RebuildRuns, Reached, Compared
<1>5. CASE ReadLlm
  BY <1>5, ComparedProceeds DEF ReadLlm, Reached, Compared
<1>6. CASE CheckArchitecture
  BY <1>6, ComparedProceeds DEF CheckArchitecture, Reached, Compared, Checking
<1>7. CASE ReadRelease \/ ReadSummary \/ ReadStatus \/ CompareRelease \/ CompareStatus
           \/ RebuildHashes \/ ReadReviews \/ Bind \/ CheckSecurity \/ Pin \/ Write \/ Refuse
  BY <1>7, ReadReleaseTests, ReadSummaryTests, ReadStatusTests, CompareReleaseTests,
     CompareStatusTests, RebuildHashesTests, ReadReviewsTests, BindTests, CheckSecurityTests,
     PinTests, WriteTests, RefuseTests
<1> QED  BY <1>1, <1>2, <1>3, <1>4, <1>5, <1>6, <1>7 DEF Next

LEMMA InitTests ==
  ASSUME Init
  PROVE  TestInv
<1>1. Counts /\ assembly = Idle /\ manifest = None
  BY InitCounts DEF Init
<1>2. /\ Idle = [g \in AssemblyFields |-> Idle[g]] /\ Idle.pc = "idle" /\ Idle.read = NoFiles
  BY DEF Idle, AssemblyFields
<1>3. NoFiles = [g \in FileNames |-> NoFiles[g]] /\ NoFiles.matrix_summary = None
  BY DEF NoFiles, File, FileNames
<1> QED  BY <1>1, <1>2, <1>3 DEF TestInv, AssemblyShape, ReadsAreTrue, ManifestIsTrue, SummaryIsTrue,
            Reading, Compared, Checking

\* A summary on disk, staged or in the assembler's memory is of a run that passed every variant for
\* the commit and the release it names, and from CompareRelease on the assembler holds a manifest
\* with the images of such a run, while runs and people replace what it read (validate_matrix).
THEOREM TestsAreKept == Spec => []TestInv
BY InitTests, TestsStay, PTL DEF Spec

\* The images and the tag that an aggregate names passed the gate of every variant, in one run, for
\* its commit, whatever was replaced between the assembler's reads.
THEOREM ReleaseIsTestedHolds == Spec => []ReleaseIsTested
<1>1. TestInv => ReleaseIsTested
  BY DEF TestInv, ManifestIsTrue, Named, ReleaseIsTested
<1> QED  BY <1>1, TestsAreKept, PTL

-----------------------------------------------------------------------------
(* Evidence that lies still *)

\* An assembler that was not disturbed has before it what it has read and hashed.
HasSummary == {"status", "compare_release", "compare_status", "validate_runs", "rehash"}
HasStatus == {"compare_release", "compare_status"}
HasReviews == {"bind", "pin", "write"} \cup Checking
LlmCompared == {"reviews"} \cup HasReviews
StatusCompared == {"validate_runs", "rehash", "llm"} \cup LlmCompared

\* The status is of the summary, the LLM evidence of the release.
StatusFits(p) == p.matrix_status.result = "passed" /\ p.matrix_status.of = p.matrix_summary
LlmFits(p) == AboutLlm[p.llm_manifest].release_digest = About[p.release_manifest].release_digest

\* Two people signed for these files, each with the key of that name.
SignedFor(p, role) ==
  LET hand == p.reviews[role].hand IN
  /\ hand.verdict = Expected[role] /\ hand.key = KeyOf(hand.identity)
  /\ \A i \in DOMAIN Bound : p.reviews[role].bind[Bound[i]] = p[Bound[i]]

SignedOver(p) ==
  LET hand(role) == p.reviews[role].hand IN
  /\ \A role \in Roles : SignedFor(p, role)
  /\ Person[hand("architecture").identity] # Person[hand("security").identity]
  /\ hand("architecture").key # hand("security").key

Held(hashes) == \A f \in FileNames : hashes[f] \in {None, File[f]}

Established ==
  LET at == assembly.pc IN
  /\ Reading.release_manifest = release
  /\ at \in HasSummary => Reading.matrix_summary = summary
  /\ at \in HasStatus => Reading.matrix_status = status
  /\ at \in Compared => summary.release = release
  /\ at \in StatusCompared => StatusFits(File)
  /\ at \in LlmCompared => LlmFits(File)
  /\ at \in HasReviews => Reading.reviews = reviews
  /\ at \in Checking => \A i \in DOMAIN Bound : assembly.bind[Bound[i]] = File[Bound[i]]
  /\ at = "check_security" => SignedFor(File, "architecture")
  /\ at \in {"pin", "write"} => SignedOver(File)
  /\ at = "write" => \A i \in DOMAIN Pinned : assembly.pins[Pinned[i]] = File[Pinned[i]]

Quiet ==
  ~assembly.disturbed =>
    /\ Held(assembly.bind) /\ Held(assembly.pins)
    /\ assembly.pc # "idle" => Established
IdleHoldsNothing == assembly.pc = "idle" => assembly.bind = NoFiles /\ assembly.pins = NoFiles

HashShape ==
  /\ AssemblyShape
  /\ assembly.bind = [f \in FileNames |-> assembly.bind[f]]
  /\ assembly.pins = [f \in FileNames |-> assembly.pins[f]]

\* An aggregate of one piece.
OfOnePiece(m) ==
  /\ StatusFits(m.pins) /\ LlmFits(m.pins) /\ SignedOver(m.pins)
  /\ m.pins.matrix_summary.release = m.pins.release_manifest
  /\ m.release = m.pins.release_manifest
  /\ \A role \in Roles : m.fingerprints[role] = m.pins.reviews[role].hand.key

Written == manifest # None /\ ~manifest.disturbed => OfOnePiece(manifest)

CheckFields == {"pc", "payload", "hashed", "key"}
Checked ==
  /\ check = [f \in CheckFields |-> check[f]]
  /\ check.pc # "idle" /\ ~check.payload.disturbed => OfOnePiece(check.payload)
  /\ check.pc = "accepted" => check.key \notin {check.payload.fingerprints[role] : role \in Roles}

BoundInv == HashShape /\ IdleHoldsNothing /\ Quiet /\ Written /\ Checked

LEMMA FileNamesOfFile ==
  /\ DOMAIN File = FileNames /\ NoFiles = [f \in FileNames |-> None]
  /\ File.matrix_summary = summary /\ File.matrix_status = status /\ File.release_manifest = release
  /\ File.llm_manifest = llm /\ File.reviews = reviews
BY DEF File, FileNames, NoFiles

LEMMA HashedNames ==
  /\ DOMAIN Bound = 1..3 /\ Len(Bound) = 3 /\ DOMAIN Pinned = 1..5 /\ Len(Pinned) = 5
  /\ Bound[1] = "matrix_summary" /\ Bound[2] = "release_manifest" /\ Bound[3] = "llm_manifest"
  /\ Pinned[1] = "matrix_summary" /\ Pinned[2] = "matrix_status" /\ Pinned[3] = "release_manifest"
  /\ Pinned[4] = "llm_manifest" /\ Pinned[5] = "reviews"
BY DEF Bound, Pinned

\* What a step of the assembler leaves as it is.
LEMMA FilesStay ==
  ASSUME Assembles
  PROVE  /\ File' = File /\ manifest' = manifest /\ check' = check
         /\ UNCHANGED <<summary, status, release, llm, reviews>>
BY DEF Assembles, matrixVars, evidenceVars, File

LEMMA WrittenStays ==
  ASSUME Written, Checked, manifest' = manifest, check' = check
  PROVE  Written' /\ Checked'
BY DEF Written, Checked, OfOnePiece, StatusFits, LlmFits, SignedOver, SignedFor

\* A step of the assembler that reads or compares, and hashes nothing.
LEMMA ReadingStep ==
  ASSUME BoundInv, Assembles, AssemblyShape', assembly'.bind = assembly.bind,
         assembly'.pins = assembly.pins, assembly'.disturbed = assembly.disturbed,
         assembly'.pc # "idle",
         ~assembly.disturbed => Established'
  PROVE  BoundInv'
<1>1. File' = File /\ manifest' = manifest /\ check' = check
  BY FilesStay
<1>2. HashShape' /\ IdleHoldsNothing'
  BY DEF BoundInv, HashShape, IdleHoldsNothing
<1>3. Quiet'
  BY <1>1 DEF BoundInv, Quiet, Held
<1>4. Written' /\ Checked'
  BY <1>1, WrittenStays DEF BoundInv
<1> QED  BY <1>2, <1>3, <1>4 DEF BoundInv

\* Reading a file leaves the hashes alone.
LEMMA ReadSetsRest ==
  ASSUME AssemblyShape, NEW f, NEW next, Read(f, next)
  PROVE  /\ assembly'.bind = assembly.bind /\ assembly'.pins = assembly.pins
         /\ assembly'.disturbed = assembly.disturbed
BY DEF Read, AssemblyShape, AssemblyFields

LEMMA ProceedSetsRest ==
  ASSUME AssemblyShape, NEW next, Proceed(next)
  PROVE  /\ assembly'.bind = assembly.bind /\ assembly'.pins = assembly.pins
         /\ assembly'.disturbed = assembly.disturbed
BY DEF Proceed, AssemblyShape, AssemblyFields

LEMMA Shapes ==
  ASSUME BoundInv
  PROVE  AssemblyShape
BY DEF BoundInv, HashShape

LEMMA ReadReleaseBinds ==
  ASSUME BoundInv, ReadRelease
  PROVE  BoundInv'
<1>1. Read("release_manifest", "summary") /\ "release_manifest" \in FileNames
  BY DEF ReadRelease, FileNames
<1>2. /\ AssemblyShape' /\ Assembles /\ assembly'.pc = "summary"
      /\ assembly'.read["release_manifest"] = File["release_manifest"]
  BY <1>1, ReadSets, Shapes
<1>3. Established'
  BY <1>2, FilesStay, FileNamesOfFile
  DEF Established, HasSummary, HasStatus, Compared, StatusCompared, LlmCompared, HasReviews, Checking, Reading
<1> QED  BY <1>1, <1>2, <1>3, ReadSetsRest, Shapes, ReadingStep

LEMMA ReadSummaryBinds ==
  ASSUME BoundInv, ReadSummary
  PROVE  BoundInv'
<1>1. /\ Read("matrix_summary", "status") /\ assembly.pc = "summary"
      /\ "matrix_summary" \in FileNames /\ "release_manifest" \in FileNames \ {"matrix_summary"}
  BY DEF ReadSummary, Reached, FileNames
<1>2. /\ AssemblyShape' /\ Assembles /\ assembly'.pc = "status"
      /\ assembly'.read["matrix_summary"] = File["matrix_summary"]
      /\ assembly'.read["release_manifest"] = Reading["release_manifest"]
  BY <1>1, ReadSets, Shapes
<1>3. ~assembly.disturbed => Established'
  BY <1>1, <1>2, FilesStay, FileNamesOfFile
  DEF BoundInv, Quiet, Established, HasSummary, HasStatus, Compared, StatusCompared, LlmCompared,
      HasReviews, Checking, Reading
<1> QED  BY <1>1, <1>2, <1>3, ReadSetsRest, Shapes, ReadingStep

LEMMA ReadStatusBinds ==
  ASSUME BoundInv, ReadStatus
  PROVE  BoundInv'
<1>1. /\ Read("matrix_status", "compare_release") /\ assembly.pc = "status"
      /\ "matrix_status" \in FileNames
      /\ {"release_manifest", "matrix_summary"} \subseteq FileNames \ {"matrix_status"}
  BY DEF ReadStatus, Reached, FileNames
<1>2. /\ AssemblyShape' /\ Assembles /\ assembly'.pc = "compare_release"
      /\ assembly'.read["matrix_status"] = File["matrix_status"]
      /\ assembly'.read["matrix_summary"] = Reading["matrix_summary"]
      /\ assembly'.read["release_manifest"] = Reading["release_manifest"]
  BY <1>1, ReadSets, Shapes
<1>3. ~assembly.disturbed => Established'
  BY <1>1, <1>2, FilesStay, FileNamesOfFile
  DEF BoundInv, Quiet, Established, HasSummary, HasStatus, Compared, StatusCompared, LlmCompared,
      HasReviews, Checking, Reading
<1> QED  BY <1>1, <1>2, <1>3, ReadSetsRest, Shapes, ReadingStep

\* The comparisons, each with what it adds.
LEMMA CompareReleaseBinds ==
  ASSUME BoundInv, CompareRelease
  PROVE  BoundInv'
<1>1. /\ Proceed("compare_status") /\ Assembles /\ assembly.pc = "compare_release"
      /\ Reading.matrix_summary.release = release
  BY DEF CompareRelease, Reached, Proceed
<1>2. AssemblyShape' /\ assembly'.read = Reading /\ assembly'.pc = "compare_status"
  BY <1>1, ProceedSets, Shapes
<1>3. ~assembly.disturbed => Established'
  BY <1>1, <1>2, FilesStay
  DEF BoundInv, Quiet, Established, HasSummary, HasStatus, Compared, StatusCompared, LlmCompared,
      HasReviews, Checking, Reading
<1> QED  BY <1>1, <1>2, <1>3, ProceedSetsRest, Shapes, ReadingStep

LEMMA CompareStatusBinds ==
  ASSUME BoundInv, CompareStatus
  PROVE  BoundInv'
<1>1. /\ Assembles /\ assembly.pc = "compare_status" /\ "matrix_status" \in FileNames
      /\ assembly' = [assembly EXCEPT !.pc = "validate_runs", !.read["matrix_status"] = None]
      /\ Reading.matrix_status.result = "passed" /\ Reading.matrix_status.of = summary
      /\ {"matrix_summary", "release_manifest"} \subseteq FileNames \ {"matrix_status"}
  BY DEF CompareStatus, Reached, FileNames
<1>2. /\ AssemblyShape' /\ assembly'.pc = "validate_runs"
      /\ assembly'.read["matrix_summary"] = Reading["matrix_summary"]
      /\ assembly'.read["release_manifest"] = Reading["release_manifest"]
      /\ assembly'.bind = assembly.bind /\ assembly'.pins = assembly.pins
      /\ assembly'.disturbed = assembly.disturbed
  BY <1>1, DropSets, Shapes
<1>3. ~assembly.disturbed => StatusFits(File)
  BY <1>1, FileNamesOfFile DEF BoundInv, Quiet, Established, HasStatus, StatusFits
<1>4. ~assembly.disturbed => Established'
  BY <1>1, <1>2, <1>3, FilesStay
  DEF BoundInv, Quiet, Established, HasSummary, HasStatus, Compared, StatusCompared, LlmCompared,
      HasReviews, Checking, Reading, StatusFits
<1> QED  BY <1>1, <1>2, <1>4, ReadingStep

LEMMA RebuildRunsBinds ==
  ASSUME BoundInv, RebuildRuns
  PROVE  BoundInv'
<1>1. Proceed("rehash") /\ Assembles /\ assembly.pc = "validate_runs"
  BY DEF RebuildRuns, Reached, Proceed
<1>2. AssemblyShape' /\ assembly'.read = Reading /\ assembly'.pc = "rehash"
  BY <1>1, ProceedSets, Shapes
<1>3. ~assembly.disturbed => Established'
  BY <1>1, <1>2, FilesStay
  DEF BoundInv, Quiet, Established, HasSummary, HasStatus, Compared, StatusCompared, LlmCompared,
      HasReviews, Checking, Reading, StatusFits
<1> QED  BY <1>1, <1>2, <1>3, ProceedSetsRest, Shapes, ReadingStep

LEMMA RebuildHashesBinds ==
  ASSUME BoundInv, RebuildHashes
  PROVE  BoundInv'
<1>1. /\ Assembles /\ assembly.pc = "rehash" /\ "matrix_summary" \in FileNames
      /\ assembly' = [assembly EXCEPT !.pc = "llm", !.read["matrix_summary"] = None]
      /\ "release_manifest" \in FileNames \ {"matrix_summary"}
  BY DEF RebuildHashes, Reached, FileNames
<1>2. /\ AssemblyShape' /\ assembly'.pc = "llm"
      /\ assembly'.read["release_manifest"] = Reading["release_manifest"]
      /\ assembly'.bind = assembly.bind /\ assembly'.pins = assembly.pins
      /\ assembly'.disturbed = assembly.disturbed
  BY <1>1, DropSets, Shapes
<1>3. ~assembly.disturbed => Established'
  BY <1>1, <1>2, FilesStay
  DEF BoundInv, Quiet, Established, HasSummary, HasStatus, Compared, StatusCompared, LlmCompared,
      HasReviews, Checking, Reading, StatusFits
<1> QED  BY <1>1, <1>2, <1>3, ReadingStep

LEMMA ReadLlmBinds ==
  ASSUME BoundInv, ReadLlm
  PROVE  BoundInv'
<1>1. /\ Proceed("reviews") /\ Assembles /\ assembly.pc = "llm"
      /\ AboutLlm[llm].release_digest = About[Reading.release_manifest].release_digest
  BY DEF ReadLlm, Reached, Proceed
<1>2. AssemblyShape' /\ assembly'.read = Reading /\ assembly'.pc = "reviews"
  BY <1>1, ProceedSets, Shapes
<1>3. ~assembly.disturbed => LlmFits(File)
  BY <1>1, FileNamesOfFile DEF BoundInv, Quiet, Established, LlmFits
<1>4. ~assembly.disturbed => Established'
  BY <1>1, <1>2, <1>3, FilesStay
  DEF BoundInv, Quiet, Established, HasSummary, HasStatus, Compared, StatusCompared, LlmCompared,
      HasReviews, Checking, Reading, StatusFits, LlmFits
<1> QED  BY <1>1, <1>2, <1>4, ProceedSetsRest, Shapes, ReadingStep

LEMMA ReadReviewsBinds ==
  ASSUME BoundInv, ReadReviews
  PROVE  BoundInv'
<1>1. /\ Read("reviews", "bind") /\ assembly.pc = "reviews" /\ "reviews" \in FileNames
      /\ "release_manifest" \in FileNames \ {"reviews"}
  BY DEF ReadReviews, Reached, FileNames
<1>2. /\ AssemblyShape' /\ Assembles /\ assembly'.pc = "bind"
      /\ assembly'.read["reviews"] = File["reviews"]
      /\ assembly'.read["release_manifest"] = Reading["release_manifest"]
  BY <1>1, ReadSets, Shapes
<1>3. ~assembly.disturbed => Established'
  BY <1>1, <1>2, FilesStay, FileNamesOfFile
  DEF BoundInv, Quiet, Established, HasSummary, HasStatus, Compared, StatusCompared, LlmCompared,
      HasReviews, Checking, Reading, StatusFits, LlmFits
<1> QED  BY <1>1, <1>2, <1>3, ReadSetsRest, Shapes, ReadingStep

\* What is hashed is what is there.
LEMMA HashedAllHeld ==
  ASSUME NEW hashes, NEW f \in FileNames, NEW v, v = File[f], Held(hashes),
         hashes = [g \in FileNames |-> hashes[g]],
         NEW more, more = [hashes EXCEPT ![f] = v]
  PROVE  /\ more = [g \in FileNames |-> more[g]] /\ Held(more) /\ more[f] = v
         /\ \A g \in FileNames \ {f} : more[g] = hashes[g]
<1>1. \A g \in FileNames : more[g] = IF g = f THEN v ELSE hashes[g]
  OBVIOUS
<1> QED  BY <1>1 DEF Held

LEMMA BindBinds ==
  ASSUME BoundInv, Bind
  PROVE  BoundInv'
<1>1. PICK i \in DOMAIN Bound :
        /\ \A j \in DOMAIN Bound : assembly.bind[Bound[j]] = None <=> j >= i
        /\ assembly' = [assembly EXCEPT !.bind[Bound[i]] = File[Bound[i]],
                                        !.pc = IF i = Len(Bound) THEN "check_architecture" ELSE "bind"]
  BY DEF Bind
<1> DEFINE next == IF i = Len(Bound) THEN "check_architecture" ELSE "bind"
           f == Bound[i]
           v == File[f]
           more == [assembly.bind EXCEPT ![f] = v]
           a == [assembly EXCEPT !.bind = more, !.pc = next]
<1>2. Assembles /\ assembly.pc = "bind" /\ f \in FileNames /\ AssemblyShape
  BY HashedNames, Shapes DEF Bind, Reached, FileNames
<1>3. assembly' = a
  BY <1>1, <1>2 DEF AssemblyShape, AssemblyFields
<1>4. next \in {"check_architecture", "bind"} /\ (next = "check_architecture" <=> i = 3)
  BY HashedNames
<1>5. v = File[f] /\ f = Bound[i]
  OBVIOUS
<1> HIDE DEF next, v, f
<1>6. assembly.bind = [g \in FileNames |-> assembly.bind[g]]
  BY DEF BoundInv, HashShape
<1>7. more = [g \in FileNames |-> more[g]] /\ more[f] = v /\ \A g \in FileNames \ {f} : more[g] = assembly.bind[g]
  BY <1>2, <1>6
<1>8. ASSUME Held(assembly.bind) PROVE Held(more)
  BY <1>2, <1>5, <1>6, <1>8, HashedAllHeld
<1> HIDE DEF more
<1>9. /\ a = [g \in AssemblyFields |-> a[g]] /\ a.read = Reading /\ a.pc = next
      /\ a.bind = more /\ a.pins = assembly.pins /\ a.disturbed = assembly.disturbed
  BY <1>2 DEF AssemblyShape, AssemblyFields, Reading
<1> HIDE DEF a
<1>10. AssemblyShape' /\ assembly'.read = Reading /\ assembly'.pc = next
  BY <1>2, <1>3, <1>9, PartSets
<1>11. HashShape' /\ IdleHoldsNothing'
  BY <1>3, <1>4, <1>7, <1>9, <1>10 DEF BoundInv, HashShape, IdleHoldsNothing
<1>12. ASSUME ~assembly.disturbed, next = "check_architecture"
       PROVE  \A j \in DOMAIN Bound : more[Bound[j]] = File[Bound[j]]
  <2>1. i = 3 /\ f = "llm_manifest"
    BY <1>4, <1>5, <1>12, HashedNames
  <2>2. assembly.bind["matrix_summary"] = File["matrix_summary"]
    BY <1>1, <1>12, <2>1, HashedNames DEF BoundInv, Quiet, Held, FileNames
  <2>3. assembly.bind["release_manifest"] = File["release_manifest"]
    BY <1>1, <1>12, <2>1, HashedNames DEF BoundInv, Quiet, Held, FileNames
  <2>4. more["matrix_summary"] = File["matrix_summary"] /\ more["release_manifest"] = File["release_manifest"]
    BY <1>7, <2>1, <2>2, <2>3 DEF FileNames
  <2>5. \A j \in DOMAIN Bound : j = 1 \/ j = 2 \/ j = 3
    BY HashedNames
  <2> QED  BY <1>5, <1>7, <2>1, <2>4, <2>5, HashedNames
<1>13. ~assembly.disturbed => Established'
  BY <1>2, <1>3, <1>4, <1>9, <1>10, <1>12, FilesStay
  DEF BoundInv, Quiet, Established, HasSummary, HasStatus, Compared, StatusCompared, LlmCompared,
      HasReviews, Checking, Reading, StatusFits, LlmFits
<1>14. Quiet'
  BY <1>2, <1>3, <1>8, <1>9, <1>13, FilesStay DEF BoundInv, Quiet, Held
<1>15. Written' /\ Checked'
  BY <1>2, FilesStay, WrittenStays DEF BoundInv
<1> QED  BY <1>11, <1>14, <1>15 DEF BoundInv

\* A statement that is checked while the evidence lies still is the one that is there, and binds
\* what the assembler bound.
LEMMA CheckedIsSigned ==
  ASSUME BoundInv, NEW role \in Roles, EntryIsSigned(role), assembly.pc \in Checking,
         ~assembly.disturbed
  PROVE  SignedFor(File, role)
<1>1. /\ Reading.reviews = reviews
      /\ \A i \in DOMAIN Bound : assembly.bind[Bound[i]] = File[Bound[i]]
  BY DEF BoundInv, Quiet, Established, Checking, HasReviews
<1>2. ReviewIsSigned(reviews[role], role, assembly.bind)
  BY <1>1 DEF EntryIsSigned
<1> QED  BY <1>1, <1>2, FileNamesOfFile DEF ReviewIsSigned, SignedFor

LEMMA CheckArchitectureBinds ==
  ASSUME BoundInv, CheckArchitecture
  PROVE  BoundInv'
<1>1. /\ Proceed("check_security") /\ Assembles /\ assembly.pc = "check_architecture"
      /\ EntryIsSigned("architecture")
  BY DEF CheckArchitecture, Reached, Proceed
<1>2. /\ AssemblyShape' /\ assembly'.read = Reading /\ assembly'.pc = "check_security"
      /\ assembly'.bind = assembly.bind
  BY <1>1, ProceedSets, ProceedSetsRest, Shapes
<1>3. ~assembly.disturbed => SignedFor(File, "architecture")
  BY <1>1, CheckedIsSigned DEF Roles, Checking
<1>4. ~assembly.disturbed => Established'
  BY <1>1, <1>2, <1>3, FilesStay
  DEF BoundInv, Quiet, Established, HasSummary, HasStatus, Compared, StatusCompared, LlmCompared,
      HasReviews, Checking, Reading, StatusFits, LlmFits, SignedFor
<1> QED  BY <1>1, <1>2, <1>4, ProceedSetsRest, Shapes, ReadingStep

LEMMA CheckSecurityBinds ==
  ASSUME BoundInv, CheckSecurity
  PROVE  BoundInv'
<1> DEFINE a == [assembly EXCEPT !.pc = "pin", !.bind = NoFiles]
<1>1. /\ assembly' = a /\ assembly.pc = "check_security" /\ Assembles
      /\ EntryIsSigned("security") /\ DistinctReviewers(Reading.reviews)
  BY DEF CheckSecurity, Reached
<1>2. /\ a = [g \in AssemblyFields |-> a[g]] /\ a.read = Reading /\ a.pc = "pin"
      /\ a.bind = NoFiles /\ a.pins = assembly.pins /\ a.disturbed = assembly.disturbed
  BY Shapes DEF AssemblyShape, AssemblyFields, Reading
<1> HIDE DEF a
<1>3. AssemblyShape' /\ assembly'.read = Reading /\ assembly'.pc = "pin"
  BY <1>1, <1>2, PartSets, Shapes
<1>4. HashShape' /\ IdleHoldsNothing'
  BY <1>1, <1>2, <1>3, FileNamesOfFile DEF BoundInv, HashShape, IdleHoldsNothing
<1>5. ASSUME ~assembly.disturbed PROVE SignedOver(File)
  <2>1. Reading.reviews = reviews /\ SignedFor(File, "architecture")
    BY <1>1, <1>5 DEF BoundInv, Quiet, Established, HasReviews, Checking
  <2>2. SignedFor(File, "security")
    BY <1>1, <1>5, CheckedIsSigned DEF Roles, Checking
  <2>3. \A role \in Roles : SignedFor(File, role)
    BY <2>1, <2>2 DEF Roles
  <2>4. \A role \in Roles : reviews[role].hand.key = KeyOf(reviews[role].hand.identity)
    BY <2>3, FileNamesOfFile DEF SignedFor
  <2>5. /\ Person[reviews["architecture"].hand.identity] # Person[reviews["security"].hand.identity]
        /\ reviews["architecture"].hand.key # reviews["security"].hand.key
    BY <1>1, <2>1, <2>4 DEF DistinctReviewers, Roles
  <2> QED  BY <2>3, <2>5, FileNamesOfFile DEF SignedOver
<1>6. ~assembly.disturbed => Established'
  BY <1>1, <1>2, <1>3, <1>5, FilesStay
  DEF BoundInv, Quiet, Established, HasSummary, HasStatus, Compared, StatusCompared, LlmCompared,
      HasReviews, Checking, Reading, StatusFits, LlmFits, SignedOver, SignedFor
<1>7. Quiet'
  BY <1>1, <1>2, <1>6, FilesStay, FileNamesOfFile DEF BoundInv, Quiet, Held
<1>8. Written' /\ Checked'
  BY <1>1, FilesStay, WrittenStays DEF BoundInv
<1> QED  BY <1>4, <1>7, <1>8 DEF BoundInv

LEMMA PinBinds ==
  ASSUME BoundInv, Pin
  PROVE  BoundInv'
<1>1. PICK i \in DOMAIN Pinned :
        /\ \A j \in DOMAIN Pinned : assembly.pins[Pinned[j]] = None <=> j >= i
        /\ assembly' = [assembly EXCEPT !.pins[Pinned[i]] = File[Pinned[i]],
                                        !.pc = IF i = Len(Pinned) THEN "write" ELSE "pin"]
  BY DEF Pin
<1> DEFINE next == IF i = Len(Pinned) THEN "write" ELSE "pin"
           f == Pinned[i]
           v == File[f]
           more == [assembly.pins EXCEPT ![f] = v]
           a == [assembly EXCEPT !.pins = more, !.pc = next]
<1>2. Assembles /\ assembly.pc = "pin" /\ f \in FileNames /\ AssemblyShape
  BY HashedNames, Shapes DEF Pin, Reached, FileNames
<1>3. assembly' = a
  BY <1>1, <1>2 DEF AssemblyShape, AssemblyFields
<1>4. next \in {"write", "pin"} /\ (next = "write" <=> i = 5)
  BY HashedNames
<1>5. v = File[f] /\ f = Pinned[i]
  OBVIOUS
<1> HIDE DEF next, v, f
<1>6. assembly.pins = [g \in FileNames |-> assembly.pins[g]]
  BY DEF BoundInv, HashShape
<1>7. more = [g \in FileNames |-> more[g]] /\ more[f] = v /\ \A g \in FileNames \ {f} : more[g] = assembly.pins[g]
  BY <1>2, <1>6
<1>8. ASSUME Held(assembly.pins) PROVE Held(more)
  BY <1>2, <1>5, <1>6, <1>8, HashedAllHeld
<1> HIDE DEF more
<1>9. /\ a = [g \in AssemblyFields |-> a[g]] /\ a.read = Reading /\ a.pc = next
      /\ a.pins = more /\ a.bind = assembly.bind /\ a.disturbed = assembly.disturbed
  BY <1>2 DEF AssemblyShape, AssemblyFields, Reading
<1> HIDE DEF a
<1>10. AssemblyShape' /\ assembly'.read = Reading /\ assembly'.pc = next
  BY <1>2, <1>3, <1>9, PartSets
<1>11. HashShape' /\ IdleHoldsNothing'
  BY <1>3, <1>4, <1>7, <1>9, <1>10 DEF BoundInv, HashShape, IdleHoldsNothing
<1>12. ASSUME ~assembly.disturbed, next = "write"
       PROVE  \A j \in DOMAIN Pinned : more[Pinned[j]] = File[Pinned[j]]
  <2>1. i = 5 /\ f = "reviews"
    BY <1>4, <1>5, <1>12, HashedNames
  <2>2. \A j \in 1..4 : assembly.pins[Pinned[j]] # None /\ Pinned[j] \in FileNames \ {f}
    BY <1>1, <2>1, HashedNames DEF FileNames
  <2>3. \A j \in 1..4 : assembly.pins[Pinned[j]] = File[Pinned[j]]
    BY <1>12, <2>2 DEF BoundInv, Quiet, Held
  <2>4. \A j \in 1..4 : more[Pinned[j]] = File[Pinned[j]]
    BY <1>7, <2>2, <2>3
  <2>5. \A j \in DOMAIN Pinned : j \in 1..4 \/ j = 5
    BY HashedNames
  <2> QED  BY <1>5, <1>7, <2>1, <2>4, <2>5
<1>13. ~assembly.disturbed => Established'
  BY <1>2, <1>3, <1>4, <1>9, <1>10, <1>12, FilesStay
  DEF BoundInv, Quiet, Established, HasSummary, HasStatus, Compared, StatusCompared, LlmCompared,
      HasReviews, Checking, Reading, StatusFits, LlmFits, SignedOver, SignedFor
<1>14. Quiet'
  BY <1>2, <1>3, <1>8, <1>9, <1>13, FilesStay DEF BoundInv, Quiet, Held
<1>15. Written' /\ Checked'
  BY <1>2, FilesStay, WrittenStays DEF BoundInv
<1> QED  BY <1>11, <1>14, <1>15 DEF BoundInv

\* A process that ended holds nothing.
LEMMA EndedHolds ==
  ASSUME NEW n, assembly' = [Idle EXCEPT !.written = n]
  PROVE  HashShape' /\ IdleHoldsNothing' /\ Quiet'
<1>1. /\ AssemblyShape' /\ assembly'.pc = "idle"
      /\ assembly'.bind = NoFiles /\ assembly'.pins = NoFiles
  BY EndedSets
<1> QED  BY <1>1, FileNamesOfFile DEF HashShape, IdleHoldsNothing, Quiet, Held, NoFiles, File

LEMMA WriteBinds ==
  ASSUME BoundInv, Write
  PROVE  BoundInv'
<1> DEFINE m == [release |-> Reading.release_manifest, commit_sha |-> Commit,
                 pins |-> assembly.pins, disturbed |-> assembly.disturbed,
                 fingerprints |-> [role \in Roles |-> KeyOf(Reading.reviews[role].hand.identity)]]
<1>1. /\ assembly.pc = "write" /\ assembly' = [Idle EXCEPT !.written = assembly.written + 1]
      /\ manifest' = m /\ check' = check
  BY DEF Write, Reached
<1>2. HashShape' /\ IdleHoldsNothing' /\ Quiet'
  BY <1>1, EndedHolds
<1>3. ASSUME ~assembly.disturbed PROVE OfOnePiece(m)
  <2>1. /\ Reading.release_manifest = release /\ Reading.reviews = reviews
        /\ summary.release = release /\ StatusFits(File) /\ LlmFits(File) /\ SignedOver(File)
        /\ \A i \in DOMAIN Pinned : assembly.pins[Pinned[i]] = File[Pinned[i]]
    BY <1>1, <1>3 DEF BoundInv, Quiet, Established, Compared, StatusCompared, LlmCompared, HasReviews, Checking
  <2>2. \A f \in FileNames : assembly.pins[f] = File[f]
    BY <2>1, HashedNames DEF FileNames
  <2>3. File = [f \in FileNames |-> File[f]]
    BY DEF File, FileNames
  <2>4. assembly.pins = File
    BY <2>2, <2>3 DEF BoundInv, HashShape
  <2>5. \A role \in Roles : m.fingerprints[role] = reviews[role].hand.key
    BY <2>1, FileNamesOfFile DEF SignedOver, SignedFor
  <2> QED  BY <2>1, <2>4, <2>5, FileNamesOfFile DEF OfOnePiece
<1>4. m.disturbed = assembly.disturbed
  OBVIOUS
<1> HIDE DEF m
<1>5. Written'
  BY <1>1, <1>3, <1>4 DEF Written, OfOnePiece, StatusFits, LlmFits, SignedOver, SignedFor
<1>6. Checked'
  BY <1>1 DEF BoundInv, Checked, OfOnePiece, StatusFits, LlmFits, SignedOver, SignedFor
<1> QED  BY <1>2, <1>5, <1>6 DEF BoundInv

LEMMA RefuseBinds ==
  ASSUME BoundInv, Refuse
  PROVE  BoundInv'
BY EndedHolds, FilesStay, WrittenStays DEF Refuse, BoundInv

\* Nothing that the assembler reads, or has read, is another.
LEMMA LiesStill ==
  ASSUME HashShape, IdleHoldsNothing, Quiet, assembly' = assembly, File' = File
  PROVE  HashShape' /\ IdleHoldsNothing' /\ Quiet'
<1>1. UNCHANGED <<summary, status, release, llm, reviews>>
  BY FileNamesOfFile DEF File
<1>2. AssemblyShape' /\ HashShape' /\ IdleHoldsNothing'
  <2>1. AssemblyShape'
    BY DEF HashShape, AssemblyShape, Reading
  <2>2. HashShape'
    BY <2>1 DEF HashShape
  <2>3. IdleHoldsNothing'
    BY DEF IdleHoldsNothing, NoFiles
  <2> QED  BY <2>1, <2>2, <2>3
<1>3. Held(assembly.bind)' /\ Held(assembly.pins)' <=> Held(assembly.bind) /\ Held(assembly.pins)
  BY DEF Held
<1>4. Established' <=> Established
  BY <1>1 DEF Established, Reading, StatusFits, LlmFits, SignedOver, SignedFor
<1> QED  BY <1>2, <1>3, <1>4 DEF Quiet

\* Beside the assembler the files stay as they are, or its reading counts as disturbed.
LEMMA BesideBinds ==
  ASSUME BoundInv, manifest' = manifest, check' = check,
         Disturb \/ (assembly' = assembly /\ File' = File)
  PROVE  BoundInv'
<1>1. Written' /\ Checked'
  BY WrittenStays DEF BoundInv
<1>2. CASE assembly' = assembly /\ File' = File
  BY <1>1, <1>2, LiesStill DEF BoundInv
<1>3. CASE assembly.pc = "idle" /\ assembly' = assembly
  BY <1>1, <1>3, FileNamesOfFile
  DEF BoundInv, HashShape, AssemblyShape, IdleHoldsNothing, Quiet, Held, Reading, NoFiles, File
<1>4. CASE assembly.pc # "idle" /\ assembly' = [assembly EXCEPT !.disturbed = TRUE]
  <2> DEFINE a == [assembly EXCEPT !.disturbed = TRUE]
  <2>1. /\ a = [g \in AssemblyFields |-> a[g]] /\ a.read = Reading /\ a.pc = assembly.pc
        /\ a.disturbed = TRUE /\ a.bind = assembly.bind /\ a.pins = assembly.pins
    BY Shapes DEF AssemblyShape, AssemblyFields, Reading
  <2>2. assembly' = a
    BY <1>4
  <2> HIDE DEF a
  <2>3. AssemblyShape'
    BY <2>1, <2>2, PartSets, Shapes
  <2> QED  BY <1>1, <1>4, <2>1, <2>2, <2>3 DEF BoundInv, HashShape, IdleHoldsNothing, Quiet
<1> QED  BY <1>2, <1>3, <1>4 DEF Disturb

\* A check that goes on keeps the manifest that it loaded.
LEMMA CheckGoesOn ==
  ASSUME Checked, check.pc # "idle",
         NEW c, check' = c, c = [f \in CheckFields |-> c[f]], c.payload = check.payload,
         c.pc = "accepted" => Independent(c.payload, c.key)
  PROVE  Checked'
<1>1. ~c.payload.disturbed => OfOnePiece(c.payload)
  BY DEF Checked
<1>2. OfOnePiece(c.payload) => OfOnePiece(check.payload)'
  BY DEF OfOnePiece, StatusFits, LlmFits, SignedOver, SignedFor
<1> QED  BY <1>1, <1>2 DEF Checked, Independent

\* The validator goes on with what it loaded.
LEMMA ValidatorBinds ==
  ASSUME BoundInv, Load \/ Hash \/ VerifySignature \/ Accept \/ Reject
  PROVE  BoundInv'
<1>1. assembly' = assembly /\ File' = File /\ manifest' = manifest
  BY DEF Load, Hash, VerifySignature, Accept, Reject, Validates, matrixVars, evidenceVars, File
<1>2. HashShape' /\ IdleHoldsNothing' /\ Quiet'
  BY <1>1, LiesStill DEF BoundInv
<1>3. Written'
  BY <1>1 DEF BoundInv, Written, OfOnePiece, StatusFits, LlmFits, SignedOver, SignedFor
<1>4. /\ Checked
      /\ check = [f \in CheckFields |-> check[f]]
      /\ check.pc = "accepted" => Independent(check.payload, check.key)
  BY DEF BoundInv, Checked, Independent
<1>5. ASSUME Reject PROVE Checked'
  BY <1>5 DEF Reject, Checked, Unchecked, CheckFields
<1>6. ASSUME Load PROVE Checked'
  <2> DEFINE c == [Unchecked EXCEPT !.pc = "hash", !.payload = manifest]
  <2>1. c = [f \in CheckFields |-> c[f]] /\ c.pc = "hash" /\ c.payload = manifest
    BY DEF Unchecked, CheckFields
  <2>2. check' = c /\ manifest # None
    BY <1>6 DEF Load
  <2> HIDE DEF c
  <2>3. ~c.payload.disturbed => OfOnePiece(c.payload)
    BY <2>1, <2>2 DEF BoundInv, Written
  <2>4. OfOnePiece(c.payload) => OfOnePiece(check.payload)'
    BY <2>2 DEF OfOnePiece, StatusFits, LlmFits, SignedOver, SignedFor
  <2> QED  BY <2>1, <2>2, <2>3, <2>4 DEF Checked
<1>7. ASSUME Hash PROVE Checked'
  <2> DEFINE pc == IF check.hashed + 1 = Len(Hashed) THEN "verify" ELSE "hash"
             c == [check EXCEPT !.hashed = @ + 1, !.pc = pc]
  <2>1. c = [f \in CheckFields |-> c[f]] /\ c.payload = check.payload /\ c.pc # "accepted"
    BY <1>4 DEF CheckFields
  <2>2. check' = c /\ check.pc # "idle"
    BY <1>7 DEF Hash
  <2> HIDE DEF c
  <2> QED  BY <1>4, <2>1, <2>2, CheckGoesOn
<1>8. ASSUME VerifySignature PROVE Checked'
  <2> DEFINE c == [check EXCEPT !.pc = "independent", !.key = signature.key]
  <2>1. c = [f \in CheckFields |-> c[f]] /\ c.payload = check.payload /\ c.pc # "accepted"
    BY <1>4 DEF CheckFields
  <2>2. check' = c /\ check.pc # "idle"
    BY <1>8 DEF VerifySignature
  <2> HIDE DEF c
  <2> QED  BY <1>4, <2>1, <2>2, CheckGoesOn
<1>9. ASSUME Accept PROVE Checked'
  <2> DEFINE c == [check EXCEPT !.pc = "accepted"]
  <2>1. c = [f \in CheckFields |-> c[f]] /\ c.payload = check.payload /\ c.key = check.key
    BY <1>4 DEF CheckFields
  <2>2. check' = c /\ check.pc # "idle" /\ Independent(check.payload, check.key)
    BY <1>9 DEF Accept
  <2> HIDE DEF c
  <2> QED  BY <1>4, <2>1, <2>2, CheckGoesOn
<1> QED  BY <1>2, <1>3, <1>5, <1>6, <1>7, <1>8, <1>9 DEF BoundInv

LEMMA BindingStays ==
  ASSUME BoundInv, [Next]_vars
  PROVE  BoundInv'
<1>1. CASE MatrixStep
  <2>1. manifest' = manifest /\ check' = check /\ UNCHANGED evidenceVars
    BY <1>1 DEF MatrixStep
  <2>2. CASE UNCHANGED publication
    <3>1. assembly' = assembly /\ File' = File
      BY <1>1, <2>1, <2>2 DEF MatrixStep, publication, evidenceVars, File
    <3> QED  BY <2>1, <3>1, BesideBinds
  <2>3. CASE ~UNCHANGED publication
    BY <1>1, <2>1, <2>3, BesideBinds DEF MatrixStep
  <2> QED  BY <2>2, <2>3
<1>2. CASE ReplaceRelease \/ ReplaceLlm \/ \E role \in Roles : \E hand \in Hands[role] : Review(role, hand)
  BY <1>2, BesideBinds DEF ReplaceRelease, ReplaceLlm, Replaced, Review
<1>3. CASE (\E key \in SignerKeys : Sign(key)) \/ UNCHANGED vars
  <2>1. manifest' = manifest /\ check' = check /\ assembly' = assembly /\ File' = File
    BY <1>3 DEF Sign, vars, matrixVars, evidenceVars, File
  <2> QED  BY <2>1, BesideBinds
<1>4. CASE Load \/ Hash \/ VerifySignature \/ Accept \/ Reject
  BY <1>4, ValidatorBinds
<1>5. CASE ReadRelease \/ ReadSummary \/ ReadStatus \/ CompareRelease \/ CompareStatus
           \/ RebuildRuns \/ RebuildHashes
  BY <1>5, ReadReleaseBinds, ReadSummaryBinds, ReadStatusBinds, CompareReleaseBinds,
     CompareStatusBinds, RebuildRunsBinds, RebuildHashesBinds
<1>6. CASE ReadLlm \/ ReadReviews \/ Bind \/ CheckArchitecture \/ CheckSecurity \/ Pin
           \/ Write \/ Refuse
  BY <1>6, ReadLlmBinds, ReadReviewsBinds, BindBinds, CheckArchitectureBinds, CheckSecurityBinds,
     PinBinds, WriteBinds, RefuseBinds
<1> QED  BY <1>1, <1>2, <1>3, <1>4, <1>5, <1>6 DEF Next

LEMMA InitBinds ==
  ASSUME Init
  PROVE  BoundInv
<1>1. assembly = Idle /\ manifest = None /\ check = Unchecked
  BY DEF Init
<1>2. /\ Idle = [g \in AssemblyFields |-> Idle[g]] /\ Idle.pc = "idle" /\ Idle.read = NoFiles
      /\ Idle.bind = NoFiles /\ Idle.pins = NoFiles
  BY DEF Idle, AssemblyFields
<1>3. Unchecked = [f \in CheckFields |-> Unchecked[f]] /\ Unchecked.pc = "idle"
  BY DEF Unchecked, CheckFields
<1>4. NoFiles = [f \in FileNames |-> None] /\ \A f \in FileNames : NoFiles[f] = None
  BY FileNamesOfFile
<1>5. HashShape /\ IdleHoldsNothing
  BY <1>1, <1>2, <1>4 DEF HashShape, AssemblyShape, Reading, IdleHoldsNothing
<1>6. Quiet
  BY <1>1, <1>2, <1>4 DEF Quiet, Held
<1>7. Written /\ Checked
  BY <1>1, <1>3 DEF Written, Checked
<1> QED  BY <1>5, <1>6, <1>7 DEF BoundInv

\* What the assembler has read, compared, bound and pinned fits the files while they lie still, and
\* an aggregate keeps what it was made from (assemble, main of validate-ga-manifest.py).
THEOREM BindingsAreKept == Spec => []BoundInv
BY InitBinds, BindingStays, PTL DEF Spec

\* What a set did not have counts once.
LEMMA OneMore ==
  ASSUME NEW S, NEW n \in Nat, IsFiniteSet(S), Cardinality(S) = n, NEW x, x \notin S
  PROVE  IsFiniteSet(S \cup {x}) /\ Cardinality(S \cup {x}) = n + 1
BY FS_AddElement

\* Three things of which no two are the same.
LEMMA ThreeApart ==
  ASSUME NEW x, NEW y, NEW z, x # y, x # z, y # z
  PROVE  Cardinality({x, y, z}) = 3
<1>1. IsFiniteSet({z}) /\ Cardinality({z}) = 1
  BY FS_Singleton
<1>2. IsFiniteSet({z} \cup {y}) /\ Cardinality({z} \cup {y}) = 1 + 1
  <2>1. y \notin {z}
    OBVIOUS
  <2> QED  BY ONLY <1>1, <2>1, OneMore
<1>3. IsFiniteSet(({z} \cup {y}) \cup {x}) /\ Cardinality(({z} \cup {y}) \cup {x}) = 2 + 1
  <2>1. x \notin {z} \cup {y}
    OBVIOUS
  <2>2. Cardinality({z} \cup {y}) = 2
    BY <1>2
  <2> QED  BY ONLY <1>2, <2>1, <2>2, OneMore
<1>4. ({z} \cup {y}) \cup {x} = {x, y, z}
  OBVIOUS
<1> QED  BY <1>3, <1>4

\* An accepted aggregate whose evidence lay still is of one piece, and three keys stand for it.
THEOREM AcceptedIsCrossBoundHolds == Spec => []AcceptedIsCrossBound
<1>1. BoundInv => AcceptedIsCrossBound
  <2> SUFFICES ASSUME BoundInv, check.pc = "accepted", ~check.payload.disturbed
               PROVE  AcceptedIsCrossBound
    BY DEF AcceptedIsCrossBound
  <2> DEFINE p == check.payload.pins
             k == check.key
             ka == p.reviews["architecture"].hand.key
             ks == p.reviews["security"].hand.key
  <2>1. /\ OfOnePiece(check.payload)
        /\ k \notin {check.payload.fingerprints[role] : role \in Roles}
    BY DEF BoundInv, Checked
  <2>2. k # ka /\ k # ks /\ ka # ks
    BY <2>1 DEF OfOnePiece, SignedOver, Roles
  <2> HIDE DEF k, ka, ks
  <2>3. Cardinality({k, ka, ks}) = 3
    BY <2>2, ThreeApart
  <2> USE DEF k, ka, ks
  <2> QED  BY <2>1, <2>3 DEF AcceptedIsCrossBound, OfOnePiece, StatusFits, LlmFits, SignedOver, SignedFor
<1> QED  BY <1>1, BindingsAreKept, PTL
=============================================================================
