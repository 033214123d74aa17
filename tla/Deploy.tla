------------------------------- MODULE Deploy -------------------------------
(***************************************************************************)
(* deploy-production.sh: a release is read, checked and verified, started  *)
(* and looked at again; a run that fails after the start stops what runs.  *)
(*                                                                         *)
(* A release is what the environment file, the Compose files and the       *)
(* secrets say together.  The script reads it once, into compose.json, and *)
(* Compose reads it again when it starts the services.  Any command may    *)
(* fail, which ends the run through the cleanup trap (set -e); a kill ends *)
(* it without.  Several runs may overlap.                                  *)
(***************************************************************************)
EXTENDS Naturals

CONSTANTS
  Runs,      \* invocations of the script
  Releases,
  Signed,    \* <<release, service>>: its image passes verify_image
  Sound,     \* releases that pass assert-production-topology.py
  None,
  MaxEdits   \* bound on the edits of the release

Services == {"backend", "frontend"}

ASSUME ConstantsAssumption ==
  /\ Signed \subseteq Releases \X Services /\ Sound \subseteq Releases
  /\ None \notin Releases \cup [of : Releases, by : Runs] /\ MaxEdits \in Nat

VARIABLES
  file,     \* the release that the files describe now
  edits,    \* edits so far
  project,  \* service -> its container, and the run that created it, or None
  run       \* run -> where it is and what it holds

vars == <<file, edits, project, run>>

Nothing == [s \in Services |-> None]
Waiting == [pc |-> "waiting", action |-> "check", plan |-> None, target |-> None,
            up |-> {}, ids |-> Nothing, edited |-> FALSE]
Over == {"waiting", "ok", "failed", "stuck", "killed"}
Checking == {"assert", "backend", "frontend", "verified"}
Started == {"create", "list", "inspect"}  \* STARTED=1
Present == {s \in Services : project[s] # None}
Fits(s, release) == s \in Present /\ project[s].of = release

Init ==
  /\ file \in Releases /\ edits = 0 /\ project = Nothing
  /\ run = [r \in Runs |-> Waiting]

-----------------------------------------------------------------------------
At(r, place) == run[r].pc = place
Goto(r, place) == run' = [run EXCEPT ![r].pc = place]

\* The process is gone; seen is what a later reader knows of it.
End(r, place, seen) ==
  run' = [run EXCEPT ![r] = [Waiting EXCEPT
    !.pc = place, !.action = run[r].action, !.ids = seen, !.edited = run[r].edited]]

\* The arguments, and compose config into compose.json.
Begin(r) ==
  /\ At(r, "waiting")
  /\ \E action \in {"check", "up"} :
       run' = [run EXCEPT ![r].pc = "assert", ![r].action = action, ![r].plan = file]
  /\ UNCHANGED <<file, edits, project>>

\* The script's own checks and the topology's, on compose.json.
AssertCompose(r) ==
  /\ At(r, "assert") /\ run[r].plan \in Sound
  /\ Goto(r, "backend")
  /\ UNCHANGED <<file, edits, project>>

\* verify_image, of the backend and then of the frontend.  Mutant: the second
\* call's failure is swallowed.
VerifyBackend(r, s) ==
  /\ At(r, s) /\ (s = "backend" => <<run[r].plan, s>> \in Signed)
  /\ Goto(r, IF s = "backend" THEN "frontend" ELSE "verified")
  /\ UNCHANGED <<file, edits, project>>

VerifyImage(r, s) ==
  /\ At(r, s) /\ <<run[r].plan, s>> \in Signed
  /\ Goto(r, IF s = "backend" THEN "frontend" ELSE "verified")
  /\ UNCHANGED <<file, edits, project>>

\* That was all for a check; otherwise compose up reads the files again.
FinishCheck(r) ==
  /\ At(r, "verified") /\ run[r].action = "check"
  /\ End(r, "ok", run[r].ids)
  /\ UNCHANGED <<file, edits, project>>

Up(r) ==
  /\ At(r, "verified") /\ run[r].action = "up"
  /\ run' = [run EXCEPT ![r].pc = "create", ![r].target = file]
  /\ UNCHANGED <<file, edits, project>>

\* Compose sees to the services one by one, and creates the containers that do not fit.
CreateContainer(r) ==
  /\ At(r, "create")
  /\ \E s \in Services \ run[r].up :
       /\ project' = IF Fits(s, run[r].target) THEN project
                     ELSE [project EXCEPT ![s] = [of |-> run[r].target, by |-> r]]
       /\ run' = [run EXCEPT ![r].up = @ \cup {s}]
  /\ UNCHANGED <<file, edits>>

\* What another run has made of them since does not fail it.
FinishUp(r) ==
  /\ At(r, "create") /\ run[r].up = Services
  /\ run' = [run EXCEPT ![r].pc = "list", ![r].up = {}]
  /\ UNCHANGED <<file, edits, project>>

\* ps -q: both containers are there.
ListContainers(r) ==
  /\ At(r, "list") /\ Present = Services
  /\ run' = [run EXCEPT ![r].pc = "inspect", ![r].ids = project]
  /\ UNCHANGED <<file, edits, project>>

\* docker inspect of those containers, and the runtime assertions on them.
Inspect(r) ==
  /\ At(r, "inspect") /\ run[r].ids = project
  /\ \A s \in Services : project[s].of \in Sound
  /\ End(r, "ok", run[r].ids)
  /\ UNCHANGED <<file, edits, project>>

-----------------------------------------------------------------------------
(***************************************************************************)
(* The end of a run that does not succeed.                                 *)
(***************************************************************************)
\* A command failed.  Mutant: the trap is set, but STARTED is not.
FailQuietly(r) ==
  /\ run[r].pc \notin Over \cup {"cleanup"}
  /\ End(r, "failed", Nothing)
  /\ UNCHANGED <<file, edits, project>>

Fail(r) ==
  /\ run[r].pc \notin Over \cup {"cleanup"}
  /\ IF run[r].pc \in Started THEN Goto(r, "cleanup") ELSE End(r, "failed", Nothing)
  /\ UNCHANGED <<file, edits, project>>

\* compose down removes every container of the project, or fails on the way.
Down(r) ==
  /\ At(r, "cleanup")
  /\ \/ project' = Nothing /\ End(r, "failed", Nothing)
     \/ \E left \in SUBSET Present :
          /\ project' = [s \in Services |-> IF s \in left THEN project[s] ELSE None]
          /\ End(r, "stuck", Nothing)
  /\ UNCHANGED <<file, edits>>

\* SIGKILL, or the machine's end: no trap runs.
Kill(r) ==
  /\ run[r].pc \notin Over
  /\ End(r, "killed", Nothing)
  /\ UNCHANGED <<file, edits, project>>

-----------------------------------------------------------------------------
\* Somebody writes another release into the files, at any time.
Edit ==
  /\ edits < MaxEdits /\ edits' = edits + 1
  /\ file' \in Releases \ {file}
  /\ run' = [r \in Runs |-> [run[r] EXCEPT !.edited = @ \/ run[r].pc \in Checking]]
  /\ UNCHANGED project

Step(r) ==
  \/ \E s \in Services : VerifyImage(r, s)
  \/ Begin(r) \/ AssertCompose(r) \/ FinishCheck(r) \/ Up(r)
  \/ CreateContainer(r) \/ FinishUp(r) \/ ListContainers(r) \/ Inspect(r)
  \/ Fail(r) \/ Down(r) \/ Kill(r)

Next == Edit \/ \E r \in Runs : Step(r)

Spec == Init /\ [][Next]_vars

-----------------------------------------------------------------------------
(***************************************************************************)
(* Properties.                                                             *)
(***************************************************************************)
Maybe(S) == S \cup {None}
Containers == [of : Releases, by : Runs]

\* Every variable has its type.
TypeOK ==
  /\ file \in Releases /\ edits \in Nat
  /\ project \in [Services -> Maybe(Containers)]
  /\ run \in [Runs ->
       [pc : Over \cup Checking \cup Started \cup {"cleanup"},
        action : {"check", "up"}, plan : Maybe(Releases), target : Maybe(Releases),
        up : SUBSET Services, ids : [Services -> Maybe(Containers)], edited : BOOLEAN]]

Verified(release) == release \in Sound /\ \A s \in Services : <<release, s>> \in Signed

\* Every container that runs was created from a release whose composition was
\* sound and whose images were all verified ("started from verified image
\* digests"), whichever runs overlapped, failed or were killed; the exception
\* is a run that was checking while the files were edited, as Compose reads them
\* again.
\* What a successful run has seen running is sound even then.
OnlyVerifiedStarts ==
  /\ \A s \in Present : Verified(project[s].of) \/ run[project[s].by].edited
  /\ \A r \in Runs : At(r, "ok") /\ run[r].action = "up" =>
       \A s \in Services : run[r].ids[s] # None /\ run[r].ids[s].of \in Sound

\* Once no run is under way, every container was seen by a run that succeeded,
\* or the run that created it was killed or could not stop it ("stopping the
\* unverified deployment").
UnseenIsStopped ==
  (\A r \in Runs : run[r].pc \in Over) =>
    \A s \in Present :
      \/ \E r \in Runs : At(r, "ok") /\ run[r].ids[s] = project[s]
      \/ run[project[s].by].pc \in {"killed", "stuck"}
=============================================================================
