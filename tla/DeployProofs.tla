---------------------------- MODULE DeployProofs ----------------------------
(***************************************************************************)
(* Theorems about the deployment script, for any number of runs, releases  *)
(* and edits.                                                              *)
(***************************************************************************)
EXTENDS Deploy, TLAPS

Places == Over \cup Checking \cup Started \cup {"cleanup"}
Local == [pc : Places, action : {"check", "up"}, plan : Maybe(Releases),
          target : Maybe(Releases), up : SUBSET Services,
          ids : [Services -> Maybe(Containers)], edited : BOOLEAN]

USE DEF Services

-----------------------------------------------------------------------------
\* A run that goes on keeps all that it holds.
LEMMA GotoFields ==
  ASSUME TypeOK, NEW r \in Runs, NEW place \in Places, Goto(r, place)
  PROVE  /\ run' \in [Runs -> Local]
         /\ run'[r] = [run[r] EXCEPT !.pc = place]
         /\ run'[r].pc = place /\ run'[r].action = run[r].action
         /\ run'[r].plan = run[r].plan /\ run'[r].target = run[r].target
         /\ run'[r].ids = run[r].ids /\ run'[r].edited = run[r].edited
         /\ \A q \in Runs \ {r} : run'[q] = run[q]
BY DEF TypeOK, Goto, Local, Places

\* A run that is over keeps what its readers know of it.
LEMMA EndFields ==
  ASSUME TypeOK, NEW r \in Runs, NEW place \in Places,
         NEW seen \in [Services -> Maybe(Containers)], End(r, place, seen)
  PROVE  /\ run' \in [Runs -> Local]
         /\ run'[r].pc = place /\ run'[r].action = run[r].action
         /\ run'[r].ids = seen /\ run'[r].edited = run[r].edited
         /\ \A q \in Runs \ {r} : run'[q] = run[q]
BY DEF TypeOK, End, Waiting, Local, Places, Maybe

LEMMA NothingIsTyped == Nothing \in [Services -> Maybe(Containers)]
BY DEF Nothing, Maybe

-----------------------------------------------------------------------------
(***************************************************************************)
(* The inductive invariant: what a run knows of its release at each place, *)
(* and what is known of each container through the run that created it.    *)
(***************************************************************************)
\* What has been checked of compose.json, which says what the files say now
\* unless they were edited; what is started was checked, with the same
\* exception; what a run lists is there, and what it has seen is sound.
Knows(r) ==
  /\ run[r].pc \in Checking => run[r].plan = file \/ run[r].edited
  /\ run[r].pc \in Checking \ {"assert"} => run[r].plan \in Sound
  /\ run[r].pc \in {"frontend", "verified"} => <<run[r].plan, "backend">> \in Signed
  /\ run[r].pc = "verified" => <<run[r].plan, "frontend">> \in Signed
  /\ run[r].pc \in Started =>
       run[r].target \in Releases /\ (Verified(run[r].target) \/ run[r].edited)
  /\ run[r].pc = "inspect" => \A s \in Services : run[r].ids[s] # None
  /\ run[r].pc = "ok" /\ run[r].action = "up" =>
       \A s \in Services : run[r].ids[s] # None /\ run[r].ids[s].of \in Sound

\* A run still answers for its containers, or was stopped or failed to.
Answering == Started \cup {"cleanup", "killed", "stuck"}

\* A container is of a verified release, and its run answers for it, or has
\* seen it running.
Answered(s) ==
  s \in Present =>
    /\ Verified(project[s].of) \/ run[project[s].by].edited
    /\ \/ run[project[s].by].pc \in Answering
       \/ At(project[s].by, "ok") /\ run[project[s].by].ids[s] = project[s]

Inv ==
  /\ TypeOK
  /\ \A r \in Runs : Knows(r)
  /\ \A s \in Services : Answered(s)

\* Where the containers stay or go, they stay answered for, unless the run that
\* moves stops answering.
LEMMA StaysAnswered ==
  ASSUME Inv, NEW r \in Runs, NEW s \in Services,
         run' \in [Runs -> Local],
         \A q \in Runs \ {r} : run'[q] = run[q],
         run'[r].edited = run[r].edited,
         project'[s] \in {project[s], None},
         \/ run'[r].pc \in Answering
         \/ run[r].pc \notin Answering \cup {"ok"}
         \/ run'[r].pc = "ok" /\ run'[r].ids = project
         \/ project'[s] = None
  PROVE  Answered(s)'
<1>1. SUFFICES ASSUME project'[s] = project[s], project[s] # None
               PROVE Answered(s)'
  BY DEF Answered, Present
<1>2. project[s].by \in Runs /\ Answered(s) /\ s \in Present
  BY <1>1 DEF Inv, TypeOK, Maybe, Containers, Present
<1>3. CASE project[s].by # r
  BY <1>1, <1>2, <1>3 DEF Answered, At, Verified
<1>4. CASE project[s].by = r
  BY <1>1, <1>2, <1>4 DEF Answered, At, Verified, Answering, Started
<1>5. QED BY <1>3, <1>4

\* Who does not move knows what it knew.
LEMMA OthersKnow ==
  ASSUME NEW r \in Runs, NEW q \in Runs \ {r}, Inv, run'[q] = run[q], file' = file
  PROVE  Knows(q)'
BY DEF Inv, Knows, Verified

-----------------------------------------------------------------------------
(***************************************************************************)
(* Each step preserves it.                                                 *)
(***************************************************************************)
LEMMA InitHolds == ASSUME Init PROVE Inv
<1> USE ConstantsAssumption, NothingIsTyped
<1>1. TypeOK
  BY DEF Init, TypeOK, Waiting, Over, Maybe
<1>2. \A r \in Runs : Knows(r)
  BY DEF Init, Knows, Waiting, Checking, Started
<1>3. \A s \in Services : Answered(s)
  BY DEF Init, Answered, Present, Nothing
<1>4. QED BY <1>1, <1>2, <1>3 DEF Inv

\* Checks that are made, and the end of a check.
LEMMA ChecksPreserve ==
  ASSUME Inv, NEW r \in Runs,
         \/ Begin(r) \/ AssertCompose(r) \/ FinishCheck(r)
         \/ \E s \in Services : VerifyImage(r, s)
  PROVE  Inv'
<1> USE ConstantsAssumption
<1>1. TypeOK /\ Knows(r) /\ run[r] \in Local
  BY DEF Inv, TypeOK, Local, Places
<1>2. project' = project /\ file' = file /\ edits' = edits
  BY DEF Begin, AssertCompose, FinishCheck, VerifyImage
<1>3. /\ run' \in [Runs -> Local] /\ run'[r].edited = run[r].edited
      /\ \A q \in Runs \ {r} : run'[q] = run[q]
      /\ Knows(r)' /\ run[r].pc \notin Answering \cup {"ok"}
  <2>1. CASE Begin(r)
    BY <2>1, <1>1, <1>2 DEF Begin, TypeOK, Local, Places, Checking, Maybe, Knows, Over,
      At, Started, Answering
  <2>2. CASE AssertCompose(r)
    <3>1. /\ run[r].pc = "assert" /\ run[r].plan \in Sound
          /\ Goto(r, "backend") /\ "backend" \in Places
      BY <2>2 DEF AssertCompose, At, Places, Checking
    <3>2. QED BY <3>1, <1>1, <1>2, GotoFields DEF Checking, Knows, Started, Answering
  <2>3. CASE FinishCheck(r)
    <3>1. /\ run[r].pc = "verified" /\ run[r].action = "check"
          /\ run[r].ids \in [Services -> Maybe(Containers)] /\ "ok" \in Places
          /\ End(r, "ok", run[r].ids)
      BY <2>3, <1>1 DEF FinishCheck, At, Local, Places, Over
    <3>2. QED BY <3>1, <1>1, EndFields DEF Knows, Checking, Started, Answering
  <2>4. CASE \E s \in Services : VerifyImage(r, s)
    BY <2>4, <1>1, <1>2, GotoFields DEF VerifyImage, Places, Checking, Knows, At, Started,
      Answering
  <2>5. QED BY <2>1, <2>2, <2>3, <2>4
<1>4. QED
  <2>1. TypeOK'
    BY <1>1, <1>2, <1>3 DEF TypeOK, Local, Places
  <2>2. \A q \in Runs : Knows(q)'
    BY <1>2, <1>3, OthersKnow
  <2>3. \A s \in Services : Answered(s)'
    BY <1>2, <1>3, StaysAnswered
  <2>4. QED BY <2>1, <2>2, <2>3 DEF Inv

\* The start, and what follows it.
LEMMA StartPreserves ==
  ASSUME Inv, NEW r \in Runs,
         Up(r) \/ CreateContainer(r) \/ FinishUp(r) \/ ListContainers(r) \/ Inspect(r)
  PROVE  Inv'
<1> USE ConstantsAssumption
<1>1. TypeOK /\ Knows(r) /\ run[r] \in Local
  BY DEF Inv, TypeOK, Local, Places
<1>2. file' = file /\ edits' = edits
  BY DEF Up, CreateContainer, FinishUp, ListContainers, Inspect
<1>3. /\ run' \in [Runs -> Local] /\ run'[r].edited = run[r].edited
      /\ \A q \in Runs \ {r} : run'[q] = run[q]
      /\ Knows(r)'
      /\ \/ run'[r].pc \in Answering
         \/ run'[r].pc = "ok" /\ run'[r].ids = project
  <2>1. CASE Up(r)
    <3>1. /\ run[r].pc = "verified" /\ Verified(run[r].plan) /\ file \in Releases
          /\ run[r].plan = file \/ run[r].edited
      BY <2>1, <1>1 DEF Up, At, Knows, Verified, Checking, TypeOK
    <3>2. run' = [run EXCEPT ![r].pc = "create", ![r].target = file]
      BY <2>1 DEF Up
    <3>3. /\ run' \in [Runs -> Local] /\ run'[r].edited = run[r].edited
          /\ run'[r].pc = "create" /\ run'[r].target = file
          /\ \A q \in Runs \ {r} : run'[q] = run[q]
      BY <3>1, <3>2, <1>1 DEF TypeOK, Local, Places, Started, Maybe
    <3>4. QED BY <3>1, <3>3 DEF Knows, Verified, Checking, Started, Answering
  <2>2. CASE CreateContainer(r)
    <3>1. PICK s \in Services : run' = [run EXCEPT ![r].up = @ \cup {s}]
      BY <2>2 DEF CreateContainer
    <3>2. /\ run' \in [Runs -> Local] /\ run'[r].edited = run[r].edited
          /\ run'[r].pc = run[r].pc /\ run'[r].target = run[r].target
          /\ \A q \in Runs \ {r} : run'[q] = run[q]
      BY <3>1, <1>1 DEF TypeOK, Local, Places
    <3>3. QED BY <3>2, <2>2, <1>1 DEF CreateContainer, At, Knows, Verified, Answering, Started,
      Checking
  <2>3. CASE FinishUp(r)
    <3>1. /\ run' \in [Runs -> Local] /\ run'[r].edited = run[r].edited
          /\ run'[r].pc = "list" /\ run'[r].target = run[r].target
          /\ \A q \in Runs \ {r} : run'[q] = run[q]
      BY <2>3, <1>1 DEF FinishUp, TypeOK, Local, Places, Started
    <3>2. QED BY <3>1, <2>3, <1>1 DEF FinishUp, At, Knows, Verified, Answering, Started, Checking
  <2>4. CASE ListContainers(r)
    <3>1. /\ run' \in [Runs -> Local] /\ run'[r].edited = run[r].edited
          /\ run'[r].pc = "inspect" /\ run'[r].target = run[r].target
          /\ run'[r].ids = project /\ \A s \in Services : project[s] # None
          /\ \A q \in Runs \ {r} : run'[q] = run[q]
      BY <2>4, <1>1 DEF ListContainers, Present, TypeOK, Local, Places, Started
    <3>2. QED BY <3>1, <2>4, <1>1 DEF ListContainers, At, Knows, Verified, Answering, Started,
      Checking
  <2>5. CASE Inspect(r)
    <3>1. /\ run[r].ids = project /\ "ok" \in Places
          /\ run[r].ids \in [Services -> Maybe(Containers)]
          /\ \A s \in Services : project[s] # None /\ project[s].of \in Sound
      BY <2>5, <1>1 DEF Inspect, At, Knows, Places, Over, Local
    <3>2. QED BY <3>1, <2>5, <1>1, EndFields DEF Inspect, Knows, Checking, Started
  <2>6. QED BY <2>1, <2>2, <2>3, <2>4, <2>5
<1>4. \A s \in Services : Answered(s)'
  <2>1. CASE project' = project
    BY <2>1, <1>3, StaysAnswered
  <2>2. CASE CreateContainer(r)
    <3>0. CASE project' = project
      BY <3>0, <1>3, StaysAnswered
    <3>1. SUFFICES ASSUME NEW s \in Services,
                          project' = [project EXCEPT ![s] = [of |-> run[r].target, by |-> r]],
                          run' = [run EXCEPT ![r].up = @ \cup {s}]
                   PROVE  \A t \in Services : Answered(t)'
      BY <2>2, <3>0 DEF CreateContainer
    <3>2. /\ run'[r].pc = "create" /\ run'[r].edited = run[r].edited
          /\ Verified(run[r].target) \/ run[r].edited
      BY <2>2, <3>1, <1>1 DEF CreateContainer, At, Knows, Started, TypeOK, Local
    <3>3. Answered(s)'
      BY <3>1, <3>2, <1>1 DEF Answered, Verified, Answering, Started, TypeOK
    <3>4. ASSUME NEW other \in Services \ {s} PROVE Answered(other)'
      <4>1. project'[other] = project[other]
        BY <3>1, <1>1 DEF TypeOK
      <4>2. QED BY <4>1, <1>3, StaysAnswered
    <3>5. QED BY <3>3, <3>4
  <2>3. QED BY <2>1, <2>2 DEF Up, FinishUp, ListContainers, Inspect
<1>5. TypeOK'
  <2>1. project' \in [Services -> Maybe(Containers)]
    BY <1>1 DEF Up, CreateContainer, FinishUp, ListContainers, Inspect, TypeOK, Knows, At,
      Started, Maybe, Containers
  <2>2. QED BY <2>1, <1>1, <1>2, <1>3 DEF TypeOK, Local, Places
<1>6. QED BY <1>2, <1>3, <1>4, <1>5, OthersKnow DEF Inv

\* A failure, the cleanup and a kill.
LEMMA EndPreserves ==
  ASSUME Inv, NEW r \in Runs, Fail(r) \/ Down(r) \/ Kill(r)
  PROVE  Inv'
<1> USE ConstantsAssumption, NothingIsTyped
<1>1. TypeOK /\ Knows(r) /\ run[r] \in Local
  BY DEF Inv, TypeOK, Local, Places
<1>2. file' = file /\ edits' = edits
  BY DEF Fail, Down, Kill
<1>3. /\ run' \in [Runs -> Local] /\ run'[r].edited = run[r].edited
      /\ \A q \in Runs \ {r} : run'[q] = run[q]
      /\ run'[r].pc \in {"cleanup", "failed", "stuck", "killed"}
      /\ run'[r].pc = "failed" => project' = Nothing \/ run[r].pc \in Checking
  <2>1. CASE Fail(r)
    <3>1. CASE run[r].pc \in Started
      <4>1. Goto(r, "cleanup") /\ "cleanup" \in Places
        BY <3>1, <2>1 DEF Fail, Places
      <4>2. QED BY <4>1, <1>1, GotoFields
    <3>2. CASE run[r].pc \notin Started
      BY <3>2, <2>1, <1>1, EndFields DEF Fail, Places, Over, Local
    <3>3. QED BY <3>1, <3>2
  <2>2. CASE Down(r)
    BY <2>2, <1>1, EndFields DEF Down, Places, Over
  <2>3. CASE Kill(r)
    BY <2>3, <1>1, EndFields DEF Kill, Places, Over
  <2>4. QED BY <2>1, <2>2, <2>3
<1>4. Knows(r)'
  BY <1>3 DEF Knows, Checking, Started
<1>5. \A s \in Services : project'[s] \in {project[s], None}
  BY <1>1 DEF Fail, Down, Kill, Nothing, TypeOK
<1>6. \A s \in Services : Answered(s)'
  <2>1. CASE run'[r].pc = "failed" /\ project' = Nothing
    BY <2>1 DEF Answered, Present, Nothing
  <2>2. CASE run'[r].pc = "failed" /\ run[r].pc \in Checking
    BY <2>2, <1>3, <1>5, StaysAnswered DEF Checking, Answering, Started
  <2>3. CASE run'[r].pc # "failed"
    BY <2>3, <1>3, <1>5, StaysAnswered DEF Answering
  <2>4. QED BY <1>3, <2>1, <2>2, <2>3
<1>7. TypeOK'
  <2>1. project' \in [Services -> Maybe(Containers)]
    BY <1>1 DEF Fail, Down, Kill, TypeOK, Maybe
  <2>2. QED BY <2>1, <1>1, <1>2, <1>3 DEF TypeOK, Local, Places
<1>8. QED BY <1>2, <1>3, <1>4, <1>6, <1>7, OthersKnow DEF Inv

\* An edit while a run is checking marks it.
LEMMA EditPreserves == ASSUME Inv, Edit PROVE Inv'
<1>1. TypeOK /\ project' = project /\ file' \in Releases /\ edits' \in Nat
  BY ConstantsAssumption DEF Edit, Inv, TypeOK
<1>2. run' \in [Runs -> Local]
  <2>1. ASSUME NEW r \in Runs, NEW b \in BOOLEAN PROVE [run[r] EXCEPT !.edited = b] \in Local
    BY <1>1, <2>1 DEF TypeOK, Local, Places
  <2>2. \A r \in Runs : (run[r].edited \/ run[r].pc \in Checking) \in BOOLEAN
    BY <1>1 DEF TypeOK
  <2>3. QED BY <2>1, <2>2 DEF Edit
<1>3. ASSUME NEW r \in Runs
      PROVE  /\ run'[r].pc = run[r].pc /\ run'[r].action = run[r].action
             /\ run'[r].plan = run[r].plan /\ run'[r].target = run[r].target
             /\ run'[r].ids = run[r].ids
             /\ run'[r].edited = (run[r].edited \/ run[r].pc \in Checking)
  BY <1>1, <1>3 DEF Edit, TypeOK
<1>4. ASSUME NEW r \in Runs PROVE Knows(r)'
  <2>1. Knows(r)
    BY DEF Inv
  <2>2. run'[r].pc \in Checking => run'[r].edited
    BY <1>3
  <2>3. run[r].edited => run'[r].edited
    BY <1>3
  <2>4. QED BY <1>3, <2>1, <2>2, <2>3 DEF Knows, Verified, Checking, Started
<1>5. ASSUME NEW s \in Services PROVE Answered(s)'
  <2>1. Answered(s) /\ (s \in Present => project[s].by \in Runs)
    BY <1>1 DEF Inv, TypeOK, Present, Maybe, Containers
  <2>2. QED BY <2>1, <1>1, <1>3 DEF Answered, Present, At, Verified
<1>6. TypeOK'
  BY <1>1, <1>2 DEF TypeOK, Local, Places
<1>7. QED BY <1>4, <1>5, <1>6 DEF Inv

-----------------------------------------------------------------------------
(***************************************************************************)
(* The theorems.                                                           *)
(***************************************************************************)
\* The invariant holds whatever the runs, the edits and the kills.
THEOREM DeployInvariant == Spec => []Inv
<1>1. Init => Inv
  BY InitHolds
<1>2. Inv /\ [Next]_vars => Inv'
  <2>1. SUFFICES ASSUME Inv, [Next]_vars PROVE Inv'
    OBVIOUS
  <2>2. CASE Edit
    BY <2>1, <2>2, EditPreserves
  <2>3. CASE \E r \in Runs : Step(r)
    BY <2>1, <2>3, ChecksPreserve, StartPreserves, EndPreserves DEF Step
  <2>4. CASE UNCHANGED vars
    BY <2>1, <2>4 DEF vars, Inv, TypeOK, Knows, Answered, Verified, Present, At
  <2>5. QED BY <2>1, <2>2, <2>3, <2>4 DEF Next
<1>3. QED BY <1>1, <1>2, PTL DEF Spec

\* Every variable has its type in every state.
THEOREM TypeCorrect == Spec => []TypeOK
<1>1. Inv => TypeOK
  BY DEF Inv
<1>2. QED BY <1>1, DeployInvariant, PTL

\* What runs was verified, unless the files were edited under the checks, and
\* what a run reports as started it has seen in a sound shape.
THEOREM OnlyVerifiedReleasesRun == Spec => []OnlyVerifiedStarts
<1>1. Inv => OnlyVerifiedStarts
  BY DEF Inv, Answered, Knows, OnlyVerifiedStarts, At, Present
<1>2. QED BY <1>1, DeployInvariant, PTL

\* What no successful run has seen is stopped, unless its run was killed or
\* could not stop it.
THEOREM UnseenContainersStop == Spec => []UnseenIsStopped
<1>1. ASSUME Inv PROVE UnseenIsStopped
  <2>1. SUFFICES ASSUME \A r \in Runs : run[r].pc \in Over, NEW s \in Present
                 PROVE  \/ \E r \in Runs : At(r, "ok") /\ run[r].ids[s] = project[s]
                        \/ run[project[s].by].pc \in {"killed", "stuck"}
    BY DEF UnseenIsStopped
  <2>2. project[s].by \in Runs /\ Answered(s)
    BY <1>1 DEF Inv, TypeOK, Present, Maybe, Containers
  <2>3. run[project[s].by].pc \notin Started \cup {"cleanup"}
    BY <2>1, <2>2 DEF Over, Started
  <2>4. QED BY <2>2, <2>3 DEF Answered, Answering
<1>2. QED BY <1>1, DeployInvariant, PTL
=============================================================================
