---------------------------- MODULE CommandProofs ----------------------------
(***************************************************************************)
(* Theorems about tasks, for any number of tasks, requests, events, faults *)
(* and crashes, and about the command runner that works for them, for      *)
(* every timeout, slice, grace period and number of lines.                 *)
(*                                                                         *)
(* What a request has read is old by the time it writes.  The invariant of *)
(* the tasks says what of it still fits: a number that was read is at most *)
(* one above the log; a task has one handler, so its row changes under the *)
(* handler by a cancel only, and never to running or to an end; and a      *)
(* cancel that found a task over was overtaken by other cancels at most.   *)
(***************************************************************************)
EXTENDS Tasks, Runner, FiniteSetTheorems, TLAPS

-----------------------------------------------------------------------------
(* Places and requests *)

\* The places of a request, one by one.
LEMMA PlaceSets ==
  /\ Adding = {"w_created", "w_progress", "w_rejected", "w_report", "c_event"}
  /\ Unfinished = {"w_running", "w_work", "w_finish", "w_reject",
                   "w_created", "w_progress", "w_rejected", "w_report"}
  /\ Working = Unfinished \cup {"w_audit"}
  /\ AtWork = Working \cup {"w_create"}
  /\ Cancelling = {"c_read", "c_update", "c_event", "c_audit"}
  /\ PCs = {"idle", "done"} \cup AtWork \cup Cancelling
BY DEF Adding, EventAt, Unfinished, Working, AtWork, Cancelling, PCs

\* A request that waits and one that is over hold no task.
LEMMA IdleAndDone ==
  /\ Idle \in Request /\ Idle.pc = "idle" /\ Idle.task = None /\ Idle.num = 0
  /\ Done \in Request /\ Done.pc = "done" /\ Done.task = None /\ Done.num = 0
<1>1. Idle \in Request /\ Idle.pc = "idle" /\ Idle.task = None /\ Idle.num = 0
  BY ConstantsAssumption, PlaceSets DEF Idle, Request, Flows, TaskStatus
<1>2. Done \in Request /\ Done.pc = "done" /\ Done.task = None /\ Done.num = 0
  BY <1>1, PlaceSets DEF Done, Request
<1> QED  BY <1>1, <1>2

\* A request that is neither waiting nor over has a task.
LEMMA ActiveTask ==
  ASSUME TypeOK, NEW r \in Requests, req[r].pc \notin {"idle", "done"}
  PROVE  req[r].task \in Tasks /\ req[r] \in Request
BY DEF TypeOK, Active

\* Request r goes on at place with these variables; the others stay where they are.
Moves(r, place, left, num, saw) ==
  /\ req' \in [Requests -> Request]
  /\ req'[r].pc = place /\ req'[r].left = left /\ req'[r].num = num /\ req'[r].saw = saw
  /\ req'[r].task = req[r].task /\ req'[r].flow = req[r].flow
  /\ \A q \in Requests : q # r => req'[q] = req[q]

\* One record for another.
LEMMA MovesTo ==
  ASSUME TypeOK, NEW r \in Requests, NEW x \in Request, req' = [req EXCEPT ![r] = x],
         x.task = req[r].task, x.flow = req[r].flow
  PROVE  Moves(r, x.pc, x.left, x.num, x.saw)
BY DEF TypeOK, Moves

\* Going on changes the place only.
LEMMA GotoMoves ==
  ASSUME TypeOK, NEW r \in Requests, NEW place \in PCs, Goto(r, place)
  PROVE  Moves(r, place, req[r].left, req[r].num, req[r].saw)
<1> DEFINE x == [req[r] EXCEPT !.pc = place]
<1>1. req[r] \in Request
  BY DEF TypeOK
<1>2. /\ x \in Request /\ x.pc = place /\ x.task = req[r].task /\ x.flow = req[r].flow
      /\ x.left = req[r].left /\ x.num = req[r].num /\ x.saw = req[r].saw
  BY <1>1 DEF Request
<1>3. req' = [req EXCEPT ![r] = x]
  BY DEF Goto
<1> HIDE DEF x
<1> QED  BY <1>2, <1>3, MovesTo

\* A request that returns or raises forgets its task.
LEMMA ReturnEnds ==
  ASSUME TypeOK, NEW r \in Requests, Return(r)
  PROVE  /\ req' \in [Requests -> Request] /\ req'[r] = Done
         /\ \A q \in Requests : q # r => req'[q] = req[q]
BY IdleAndDone DEF TypeOK, Return

-----------------------------------------------------------------------------
(* The log *)

\* The highest number of a log that has no gap.
LEMMA MaxOfInterval ==
  ASSUME NEW n \in Nat
  PROVE  Max((1..n) \cup {0}) = n
<1> DEFINE S == (1..n) \cup {0}
<1>1. n \in S /\ \A y \in S : y <= n
  OBVIOUS
<1>2. \A x \in S : (\A y \in S : y <= x) => x = n
  OBVIOUS
<1> QED  BY <1>1, <1>2 DEF Max

\* _next_ops_event_sequence is one above all numbers.
LEMMA NextIsAbove ==
  ASSUME LogInv, NEW t \in Tasks
  PROVE  \E n \in Nat : Sequences(t) = 1..n /\ NextSequence(t) = n + 1
<1>1. PICK n \in 0..Len(events[t]) : Sequences(t) = 1..n
  BY DEF LogInv
<1>2. n \in Nat
  BY <1>1
<1> QED  BY <1>1, <1>2, MaxOfInterval DEF NextSequence

\* Who reads no number and adds no event disturbs no log.
LEMMA LogStays ==
  ASSUME LogInv, events' = events,
         \A r \in Requests :
           \/ req'[r].num = 0
           \/ req'[r].task = req[r].task /\ req'[r].num = req[r].num
  PROVE  LogInv'
<1> SUFFICES ASSUME NEW t \in Tasks
             PROVE  (\E n \in 0..Len(events[t]) :
                      /\ Sequences(t) = 1..n
                      /\ \A r \in Requests : req[r].task = t =>
                           /\ req[r].num <= n + 1
                           /\ \A i \in DOMAIN events[t] :
                                req[r].num # 0 /\ events[t][i].by = r
                                  => events[t][i].seq < req[r].num)'
  BY DEF LogInv
<1>1. PICK n \in 0..Len(events[t]) :
        /\ Sequences(t) = 1..n
        /\ \A r \in Requests : req[r].task = t =>
             /\ req[r].num <= n + 1
             /\ \A i \in DOMAIN events[t] :
                  req[r].num # 0 /\ events[t][i].by = r => events[t][i].seq < req[r].num
  BY DEF LogInv
<1>2. Sequences(t)' = 1..n
  BY <1>1 DEF Sequences
<1>3. \A r \in Requests : req'[r].task = t =>
        /\ req'[r].num <= n + 1
        /\ \A i \in DOMAIN events[t] :
             req'[r].num # 0 /\ events[t][i].by = r => events[t][i].seq < req'[r].num
  BY <1>1
<1> QED  BY <1>1, <1>2, <1>3

\* _next_ops_event_sequence: the number is one above the log at that moment.
LEMMA ReadMoves ==
  ASSUME TypeOK, LogInv, NEW r \in Requests, ReadSequence(r)
  PROVE  /\ req[r].task \in Tasks
         /\ \E n \in Nat : /\ Sequences(req[r].task) = 1..n
                           /\ Moves(r, req[r].pc, req[r].left, n + 1, req[r].saw)
<1>1. req[r] \in Request /\ req[r].task \in Tasks /\ req[r].pc \in Adding
  BY ActiveTask, PlaceSets DEF ReadSequence
<1>2. PICK n \in Nat : Sequences(req[r].task) = 1..n /\ NextSequence(req[r].task) = n + 1
  BY <1>1, NextIsAbove
<1> DEFINE x == [req[r] EXCEPT !.num = n + 1]
<1>3. /\ x \in Request /\ x.pc = req[r].pc /\ x.task = req[r].task /\ x.flow = req[r].flow
      /\ x.left = req[r].left /\ x.num = n + 1 /\ x.saw = req[r].saw
  BY <1>1 DEF Request
<1>4. req' = [req EXCEPT ![r] = x]
  BY <1>2 DEF ReadSequence
<1> HIDE DEF x
<1>5. Moves(r, req[r].pc, req[r].left, n + 1, req[r].saw)
  BY <1>3, <1>4, MovesTo
<1> QED  BY <1>1, <1>2, <1>5

\* What was read is above all that the log holds at that moment.
LEMMA ReadKeepsLog ==
  ASSUME TypeOK, LogInv, NEW r \in Requests, ReadSequence(r)
  PROVE  LogInv'
<1>1. events' = events
  BY DEF ReadSequence, rows
<1>2. PICK m \in Nat : /\ Sequences(req[r].task) = 1..m
                       /\ Moves(r, req[r].pc, req[r].left, m + 1, req[r].saw)
  BY ReadMoves
<1> SUFFICES ASSUME NEW t \in Tasks
             PROVE  (\E n \in 0..Len(events[t]) :
                      /\ Sequences(t) = 1..n
                      /\ \A q \in Requests : req[q].task = t =>
                           /\ req[q].num <= n + 1
                           /\ \A i \in DOMAIN events[t] :
                                req[q].num # 0 /\ events[t][i].by = q
                                  => events[t][i].seq < req[q].num)'
  BY DEF LogInv
<1>3. PICK n \in 0..Len(events[t]) :
        /\ Sequences(t) = 1..n
        /\ \A q \in Requests : req[q].task = t =>
             /\ req[q].num <= n + 1
             /\ \A i \in DOMAIN events[t] :
                  req[q].num # 0 /\ events[t][i].by = q => events[t][i].seq < req[q].num
  BY DEF LogInv
<1>4. n \in Nat
  BY DEF TypeOK
<1>5. Sequences(t)' = 1..n
  BY <1>1, <1>3 DEF Sequences
<1>6. ASSUME NEW q \in Requests, req'[q].task = t
      PROVE  /\ req'[q].num <= n + 1
             /\ \A i \in DOMAIN events[t] :
                  req'[q].num # 0 /\ events[t][i].by = q => events[t][i].seq < req'[q].num
  <2>1. CASE q # r
    BY <1>2, <1>3, <1>6, <2>1 DEF Moves
  <2>2. CASE q = r
    <3>1. req'[r].num = m + 1 /\ 1..m = 1..n
      BY <1>2, <1>3, <1>6, <2>2 DEF Moves
    <3>2. m = n
      BY <1>4, <3>1
    <3>3. \A i \in DOMAIN events[t] : events[t][i].seq \in 1..n
      BY <1>3 DEF Sequences
    <3> QED  BY <1>4, <2>2, <3>1, <3>2, <3>3
  <2> QED  BY <2>1, <2>2
<1> QED  BY <1>1, <1>3, <1>5, <1>6

\* Where add_ops_event returns to.
LEMMA AfterEventIs ==
  ASSUME TypeOK, NEW r \in Requests, req[r].pc \in Adding
  PROVE  /\ AfterEvent(r) \in PCs /\ EventAt[req[r].pc] \in {EventAt[place] : place \in Adding}
         /\ At(r, "w_created") => AfterEvent(r) \in {"w_audit", "w_running"}
         /\ At(r, "w_progress") => AfterEvent(r) = "w_work"
         /\ At(r, "w_rejected") => AfterEvent(r) = "w_reject"
         /\ At(r, "w_report") => AfterEvent(r) = "w_finish"
         /\ At(r, "c_event") => AfterEvent(r) = "c_audit"
         /\ EventAt["w_report"] = "final_report"
BY PlaceSets DEF AfterEvent, At, EventAt

\* The insert of add_ops_event: an event of r with the number that r has read.
LEMMA InsertMoves ==
  ASSUME TypeOK, NEW r \in Requests, InsertEvent(r)
  PROVE  /\ req[r].task \in Tasks /\ Moves(r, AfterEvent(r), req[r].left, 0, req[r].saw)
         /\ LET e == [seq |-> req[r].num, type |-> EventAt[req[r].pc], by |-> r]
            IN  /\ e \in Event
                /\ events' = [events EXCEPT ![req[r].task] = Append(@, e)]
<1>1. req[r] \in Request /\ req[r].task \in Tasks /\ req[r].pc \in Adding
  BY ActiveTask, PlaceSets DEF InsertEvent
<1> DEFINE x == [req[r] EXCEPT !.num = 0, !.pc = AfterEvent(r)]
<1>2. /\ x \in Request /\ x.pc = AfterEvent(r) /\ x.task = req[r].task /\ x.flow = req[r].flow
      /\ x.left = req[r].left /\ x.num = 0 /\ x.saw = req[r].saw
  BY <1>1, AfterEventIs DEF Request
<1>3. req' = [req EXCEPT ![r] = x]
  BY DEF InsertEvent
<1> HIDE DEF x
<1>4. Moves(r, AfterEvent(r), req[r].left, 0, req[r].saw)
  BY <1>2, <1>3, MovesTo
<1>5. [seq |-> req[r].num, type |-> EventAt[req[r].pc], by |-> r] \in Event
  BY <1>1, AfterEventIs DEF Event, Request, InsertEvent
<1> QED  BY <1>1, <1>4, <1>5 DEF InsertEvent

\* An event that is one above the log at most extends it without a gap.
LEMMA InsertKeepsLog ==
  ASSUME TypeOK, LogInv, NEW r \in Requests, InsertEvent(r)
  PROVE  LogInv'
<1> DEFINE e == [seq |-> req[r].num, type |-> EventAt[req[r].pc], by |-> r]
<1>1. /\ req[r].task \in Tasks /\ Moves(r, AfterEvent(r), req[r].left, 0, req[r].saw)
      /\ e \in Event /\ events' = [events EXCEPT ![req[r].task] = Append(@, e)]
  BY InsertMoves
<1>2. e.seq = req[r].num /\ e.by = r /\ req[r].num # 0 /\ req[r].num \in Nat
  BY ActiveTask, PlaceSets DEF InsertEvent, Request
<1> HIDE DEF e
<1> SUFFICES ASSUME NEW t \in Tasks
             PROVE  (\E n \in 0..Len(events[t]) :
                      /\ Sequences(t) = 1..n
                      /\ \A q \in Requests : req[q].task = t =>
                           /\ req[q].num <= n + 1
                           /\ \A i \in DOMAIN events[t] :
                                req[q].num # 0 /\ events[t][i].by = q
                                  => events[t][i].seq < req[q].num)'
  BY DEF LogInv
<1>3. PICK n \in 0..Len(events[t]) :
        /\ Sequences(t) = 1..n
        /\ \A q \in Requests : req[q].task = t =>
             /\ req[q].num <= n + 1
             /\ \A i \in DOMAIN events[t] :
                  req[q].num # 0 /\ events[t][i].by = q => events[t][i].seq < req[q].num
  BY DEF LogInv
<1>4. n \in Nat /\ events[t] \in Seq(Event) /\ \A q \in Requests : req[q].num \in Nat
  BY <1>3 DEF TypeOK, Request
<1>5. CASE t # req[r].task
  <2>1. events'[t] = events[t]
    BY <1>1, <1>5 DEF TypeOK
  <2>2. Sequences(t)' = 1..n
    BY <1>3, <2>1 DEF Sequences
  <2>3. \A q \in Requests : req'[q].task = t => q # r /\ req'[q] = req[q]
    BY <1>1, <1>5 DEF Moves
  <2> QED  BY <1>3, <2>1, <2>2, <2>3
<1>6. CASE t = req[r].task
  <2> DEFINE m == IF req[r].num = n + 1 THEN n + 1 ELSE n
  <2>1. events'[t] = Append(events[t], e)
    BY <1>1, <1>6 DEF TypeOK
  <2>2. /\ Len(events'[t]) = Len(events[t]) + 1 /\ DOMAIN events'[t] = 1..(Len(events[t]) + 1)
        /\ DOMAIN events[t] = 1..Len(events[t])
        /\ \A i \in DOMAIN events[t] : events'[t][i] = events[t][i]
        /\ events'[t][Len(events[t]) + 1] = e
    BY <1>1, <1>4, <2>1
  <2>3. req[r].num <= n + 1
    BY <1>3, <1>6
  <2>4. Sequences(t)' = Sequences(t) \cup {req[r].num}
    <3>1. Sequences(t)' = {events'[t][i].seq : i \in DOMAIN events'[t]}
      BY DEF Sequences
    <3>2. DOMAIN events'[t] = DOMAIN events[t] \cup {Len(events[t]) + 1}
      BY <1>4, <2>2
    <3> QED  BY <1>2, <2>2, <3>1, <3>2 DEF Sequences
  <2>5. Sequences(t)' = 1..m
    BY <1>2, <1>3, <1>4, <2>3, <2>4
  <2>6. m \in 0..Len(events'[t]) /\ m >= n
    BY <1>3, <1>4, <2>2
  <2>7. ASSUME NEW q \in Requests, req'[q].task = t
        PROVE  /\ req'[q].num <= m + 1
               /\ \A i \in DOMAIN events'[t] :
                    req'[q].num # 0 /\ events'[t][i].by = q => events'[t][i].seq < req'[q].num
    <3>1. CASE q = r
      BY <1>1, <2>6, <1>4, <3>1 DEF Moves
    <3>2. CASE q # r
      <4>1. req'[q] = req[q]
        BY <1>1, <3>2 DEF Moves
      <4>2. req[q].num <= n + 1 /\ req[q].num \in Nat
        BY <1>3, <1>4, <2>7, <4>1
      <4>3. ASSUME NEW i \in DOMAIN events'[t], req[q].num # 0, events'[t][i].by = q
            PROVE  events'[t][i].seq < req[q].num
        <5>1. i \in DOMAIN events[t]
          BY <1>2, <1>4, <2>2, <3>2, <4>3
        <5> QED  BY <1>3, <2>2, <2>7, <4>1, <4>3, <5>1
      <4> QED  BY <1>4, <2>6, <4>1, <4>2, <4>3
    <3> QED  BY <3>1, <3>2
  <2> HIDE DEF m
  <2> QED  BY <2>5, <2>6, <2>7
<1> QED  BY <1>5, <1>6

-----------------------------------------------------------------------------
(* The variables keep their types *)

\* A step of a started request and its next place.
LEMMA EndWorkMoves ==
  ASSUME TypeOK, NEW r \in Requests, EndWork(r)
  PROVE  \E place \in {"w_report", "w_rejected"} : Moves(r, place, req[r].left, req[r].num, req[r].saw)
<1>1. req[r] \in Request
  BY DEF TypeOK
<1>2. ASSUME NEW ok \in BOOLEAN, req' = [req EXCEPT ![r].pc = "w_report", ![r].ok = ok]
      PROVE  Moves(r, "w_report", req[r].left, req[r].num, req[r].saw)
  <2> DEFINE x == [req[r] EXCEPT !.pc = "w_report", !.ok = ok]
  <2>1. /\ x \in Request /\ x.pc = "w_report" /\ x.task = req[r].task /\ x.flow = req[r].flow
        /\ x.left = req[r].left /\ x.num = req[r].num /\ x.saw = req[r].saw
    BY <1>1, PlaceSets DEF Request
  <2>2. req' = [req EXCEPT ![r] = x]
    BY <1>2
  <2> HIDE DEF x
  <2> QED  BY <2>1, <2>2, MovesTo
<1>3. CASE Goto(r, "w_rejected")
  BY <1>3, GotoMoves, PlaceSets
<1> QED  BY <1>2, <1>3 DEF EndWork

\* One event less is left to emit.
LEMMA ProgressMoves ==
  ASSUME TypeOK, NEW r \in Requests, Progress(r)
  PROVE  Moves(r, "w_progress", req[r].left - 1, req[r].num, req[r].saw)
<1>1. req[r] \in Request /\ req[r].left \in 0..MaxEvents /\ req[r].left > 0
  BY DEF TypeOK, Progress, Request
<1> DEFINE left == req[r].left - 1
<1>2. left \in 0..MaxEvents
  BY <1>1, ConstantsAssumption
<1> HIDE DEF left
<1> DEFINE x == [req[r] EXCEPT !.pc = "w_progress", !.left = left]
<1>3. /\ x \in Request /\ x.pc = "w_progress" /\ x.task = req[r].task /\ x.flow = req[r].flow
      /\ x.left = left /\ x.num = req[r].num /\ x.saw = req[r].saw
  BY <1>1, <1>2, PlaceSets DEF Request
<1>4. req' = [req EXCEPT ![r] = x]
  BY DEF Progress, left
<1> HIDE DEF x
<1>5. Moves(r, "w_progress", left, req[r].num, req[r].saw)
  BY <1>3, <1>4, MovesTo
<1> QED  BY <1>5 DEF left

\* The select of request_cancel_ops_task: the status as it is now.
LEMMA CancelReadMoves ==
  ASSUME TypeOK, NEW r \in Requests, ReadForCancel(r)
  PROVE  req[r].task \in Tasks
         /\ Moves(r, "c_update", req[r].left, req[r].num, status[req[r].task])
<1>1. req[r] \in Request /\ req[r].task \in Tasks
  BY ActiveTask DEF ReadForCancel, At
<1> DEFINE x == [req[r] EXCEPT !.pc = "c_update", !.saw = status[req[r].task]]
<1>2. /\ x \in Request /\ x.pc = "c_update" /\ x.task = req[r].task /\ x.flow = req[r].flow
      /\ x.left = req[r].left /\ x.num = req[r].num /\ x.saw = status[req[r].task]
  BY <1>1, PlaceSets DEF Request, TypeOK
<1>3. req' = [req EXCEPT ![r] = x]
  BY DEF ReadForCancel
<1> HIDE DEF x
<1> QED  BY <1>1, <1>2, <1>3, MovesTo

\* A request begins with a task that nobody has yet, or with one that is listed.
Begins(r, place, left, t) ==
  /\ req' \in [Requests -> Request]
  /\ req'[r].pc = place /\ req'[r].left = left /\ req'[r].num = 0 /\ req'[r].task = t
  /\ \A q \in Requests : q # r => req'[q] = req[q]

\* A new task is nobody's; a cancelled one has a row.
LEMMA StartBegins ==
  ASSUME TypeOK, NEW r \in Requests, Start(r)
  PROVE  \E t \in Tasks :
           \/ /\ status[t] = "none" /\ \A q \in Requests : req[q].task # t
              /\ Begins(r, "w_create", MaxEvents, t)
           \/ /\ status[t] # "none"
              /\ Begins(r, "c_read", 0, t)
<1>1. PICK t \in Tasks :
        \/ /\ status[t] = "none" /\ \A q \in Requests : req[q].task # t
           /\ \E flow \in Flows :
                req' = [req EXCEPT ![r] = [Idle EXCEPT
                  !.pc = "w_create", !.task = t, !.flow = flow, !.left = MaxEvents]]
        \/ /\ status[t] # "none"
           /\ req' = [req EXCEPT ![r] = [Idle EXCEPT !.pc = "c_read", !.task = t]]
  BY DEF Start
<1>2. Idle \in Request /\ Idle.num = 0 /\ Idle.left = 0
  BY IdleAndDone DEF Idle
<1>3. ASSUME NEW flow \in Flows,
             req' = [req EXCEPT ![r] = [Idle EXCEPT
               !.pc = "w_create", !.task = t, !.flow = flow, !.left = MaxEvents]]
      PROVE  Begins(r, "w_create", MaxEvents, t)
  <2> DEFINE x == [Idle EXCEPT !.pc = "w_create", !.task = t, !.flow = flow, !.left = MaxEvents]
  <2>1. x \in Request /\ x.pc = "w_create" /\ x.left = MaxEvents /\ x.num = 0 /\ x.task = t
    <3>1. MaxEvents \in 0..MaxEvents
      BY ConstantsAssumption
    <3> QED  BY <1>2, <3>1, PlaceSets DEF Request
  <2>2. req' = [req EXCEPT ![r] = x]
    BY <1>3
  <2> HIDE DEF x
  <2> QED  BY <2>1, <2>2 DEF TypeOK, Begins
<1>4. ASSUME req' = [req EXCEPT ![r] = [Idle EXCEPT !.pc = "c_read", !.task = t]]
      PROVE  Begins(r, "c_read", 0, t)
  <2> DEFINE x == [Idle EXCEPT !.pc = "c_read", !.task = t]
  <2>1. x \in Request /\ x.pc = "c_read" /\ x.left = 0 /\ x.num = 0 /\ x.task = t
    BY <1>2, PlaceSets DEF Request
  <2>2. req' = [req EXCEPT ![r] = x]
    BY <1>4
  <2> HIDE DEF x
  <2> QED  BY <2>1, <2>2 DEF TypeOK, Begins
<1> QED  BY <1>1, <1>3, <1>4

\* A step of r that keeps the tables typed and gives r no task it had not.
LEMMA TypedStep ==
  ASSUME TypeOK, NEW r \in Requests, req' \in [Requests -> Request],
         \A q \in Requests : q # r => req'[q] = req[q],
         req'[r].pc \in {"idle", "done"} \/ req'[r].task \in Tasks,
         status' \in [Tasks -> TaskStatus], cancelRequested' \subseteq Tasks,
         events' \in [Tasks -> Seq(Event)], audited' \subseteq {"work", "cancel"} \X Tasks,
         ran' \subseteq Tasks, interrupted' \subseteq Tasks, faults' \in Nat, crashes' \in Nat
  PROVE  TypeOK'
<1>1. ASSUME NEW q \in Requests, req'[q].pc \notin {"idle", "done"} PROVE req'[q].task \in Tasks
  BY <1>1 DEF TypeOK, Active
<1>2. \A q \in Active' : req'[q].task \in Tasks
  BY <1>1 DEF Active
<1> QED  BY <1>2 DEF TypeOK

\* Requests whose handlers are cut short have tasks.
LEMMA InterruptedTyped ==
  ASSUME TypeOK, NEW R \in SUBSET Requests
  PROVE  Interrupted(R) \subseteq Tasks
<1>1. \A r \in R : req[r].pc \in Working => req[r].task \in Tasks
  BY ActiveTask, PlaceSets
<1> QED  BY <1>1 DEF Interrupted, TypeOK

\* The tables and the requests keep their types.
LEMMA TypeStays ==
  ASSUME TypeOK, LogInv, [Next]_vars
  PROVE  TypeOK'
<1> USE DEF Unharmed, rows
<1>1. ASSUME NEW r \in Requests, Start(r) PROVE TypeOK'
  BY <1>1, StartBegins, TypedStep DEF Start, TypeOK, Begins
<1>2. ASSUME NEW r \in Requests, ReadSequence(r) PROVE TypeOK'
  BY <1>2, ReadMoves, TypedStep DEF ReadSequence, TypeOK, Moves
<1>3. ASSUME NEW r \in Requests, InsertEvent(r) PROVE TypeOK'
  <2>1. events' \in [Tasks -> Seq(Event)]
    <3> DEFINE t == req[r].task
               e == [seq |-> req[r].num, type |-> EventAt[req[r].pc], by |-> r]
    <3>1. t \in Tasks /\ e \in Event /\ events' = [events EXCEPT ![t] = Append(@, e)]
      BY <1>3, InsertMoves
    <3> HIDE DEF t, e
    <3>2. Append(events[t], e) \in Seq(Event)
      BY <3>1 DEF TypeOK
    <3> QED  BY <3>1, <3>2 DEF TypeOK
  <2> QED  BY <1>3, <2>1, InsertMoves, TypedStep DEF InsertEvent, TypeOK, Moves
<1>4. ASSUME NEW r \in Requests, CreateTask(r) PROVE TypeOK'
  BY <1>4, GotoMoves, ActiveTask, PlaceSets, TypedStep
  DEF CreateTask, SetStatus, TaskStatus, TypeOK, At, Moves
<1>5. ASSUME NEW r \in Requests, MarkRunning(r) PROVE TypeOK'
  BY <1>5, GotoMoves, ActiveTask, PlaceSets, TypedStep
  DEF MarkRunning, SetStatus, TaskStatus, TypeOK, At, Moves
<1>6. ASSUME NEW r \in Requests, Progress(r) PROVE TypeOK'
  <2>1. req[r].task \in Tasks
    BY <1>6, ActiveTask DEF Progress, At
  <2>2. ran' \subseteq Tasks
    BY <1>6, <2>1 DEF Progress, TypeOK
  <2>3. \E place, left, num, saw : Moves(r, place, left, num, saw)
    BY <1>6, ProgressMoves
  <2> QED  BY <1>6, <2>1, <2>2, <2>3, TypedStep DEF Progress, TypeOK, Moves
<1>7. ASSUME NEW r \in Requests, EndWork(r) PROVE TypeOK'
  <2>1. req[r].task \in Tasks
    BY <1>7, ActiveTask DEF EndWork, At
  <2>2. ran' \subseteq Tasks
    BY <1>7, <2>1 DEF EndWork, TypeOK
  <2>3. \E place, left, num, saw : Moves(r, place, left, num, saw)
    BY <1>7, EndWorkMoves
  <2> QED  BY <1>7, <2>1, <2>2, <2>3, TypedStep DEF EndWork, TypeOK, Moves
<1>8. ASSUME NEW r \in Requests, FinishTask(r) PROVE TypeOK'
  BY <1>8, GotoMoves, ActiveTask, PlaceSets, TypedStep
  DEF FinishTask, SetStatus, TaskStatus, TypeOK, At, Moves
<1>9. ASSUME NEW r \in Requests, RejectCommand(r) PROVE TypeOK'
  BY <1>9, ReturnEnds, IdleAndDone, TypedStep DEF RejectCommand, SetStatus, TaskStatus, TypeOK
<1>10. ASSUME NEW r \in Requests, Audit(r) PROVE TypeOK'
  <2>1. req[r].task \in Tasks
    BY <1>10, ActiveTask DEF Audit
  <2> QED  BY <1>10, <2>1, ReturnEnds, IdleAndDone, TypedStep DEF Audit, TypeOK
<1>11. ASSUME NEW r \in Requests, ReadForCancel(r) PROVE TypeOK'
  BY <1>11, CancelReadMoves, TypedStep DEF ReadForCancel, TypeOK, Moves
<1>12. ASSUME NEW r \in Requests, UpdateCancelled(r) PROVE TypeOK'
  <2>1. req[r].task \in Tasks /\ req[r].saw \in TaskStatus
    BY <1>12, ActiveTask DEF UpdateCancelled, At, Request
  <2> QED  BY <1>12, <2>1, GotoMoves, PlaceSets, TypedStep
           DEF UpdateCancelled, SetStatus, TaskStatus, TypeOK, Moves
<1>13. ASSUME NEW r \in Requests, Fault(r) PROVE TypeOK'
  <2>1. interrupted' \subseteq Tasks
    BY <1>13, InterruptedTyped DEF Fault
  <2>2. faults' \in Nat /\ Return(r) /\ UNCHANGED <<rows, ran, crashes>>
    BY <1>13 DEF Fault, TypeOK
  <2> QED  BY <2>1, <2>2, ReturnEnds, IdleAndDone, TypedStep DEF TypeOK
<1>14. ASSUME Crash PROVE TypeOK'
  <2>1. interrupted' \subseteq Tasks
    BY <1>14, InterruptedTyped DEF Crash, Active
  <2>2. req' \in [Requests -> Request] /\ Active' = {}
    BY <1>14, IdleAndDone DEF Crash, Active, TypeOK
  <2> QED  BY <1>14, <2>1, <2>2 DEF Crash, TypeOK
<1>15. ASSUME UNCHANGED vars PROVE TypeOK'
  BY <1>15 DEF vars, TypeOK, Active
<1> QED  BY <1>1, <1>2, <1>3, <1>4, <1>5, <1>6, <1>7, <1>8, <1>9, <1>10, <1>11, <1>12, <1>13,
            <1>14, <1>15 DEF Next, Step

-----------------------------------------------------------------------------
(* What handlers know of their rows *)

\* Where a request knows something.
LEMMA KnowingPlaces ==
  /\ "w_create" \in AtWork /\ "c_update" \in Cancelling /\ Working \subseteq AtWork
  /\ {"w_created", "w_progress", "w_audit", "w_finish"} \subseteq Working /\ Unfinished \subseteq Working
  /\ NotStarted \subseteq AtWork /\ Refused \subseteq Working
  /\ \A place \in {"idle", "done"} : place \notin AtWork /\ place \notin Cancelling
  /\ \A place \in AtWork : place \notin Cancelling
BY PlaceSets DEF NotStarted, Refused

\* Who does not work on a task knows nothing as its handler.
LEMMA NoWorker ==
  ASSUME NEW r \in Requests, req[r].pc \notin AtWork
  PROVE  Works(r)
BY KnowingPlaces DEF Works, At

\* Who does not cancel knows nothing as a canceller.
LEMMA NoCanceller ==
  ASSUME NEW r \in Requests, req[r].pc \notin Cancelling
  PROVE  Cancels(r)
BY KnowingPlaces DEF Cancels, At

\* The requests that have nothing to do know nothing.
LEMMA NothingToKnow ==
  ASSUME NEW r \in Requests, req[r].pc \in {"idle", "done"}
  PROVE  Works(r) /\ Cancels(r)
BY KnowingPlaces DEF Works, Cancels, At

\* What another request knows is not disturbed, unless its task's row is.
LEMMA OtherStays ==
  ASSUME TypeOK, TaskInv, NEW r \in Requests, NEW q \in Requests, req'[q] = req[q], q # r,
         \A x \in Requests : x # r => req'[x] = req[x],
         \/ req'[r].pc \notin Unfinished
         \/ /\ req'[r].task = req[r].task
            /\ req[r].pc \in Unfinished \/ status[req[r].task] = "none",
         status'[req[q].task] = status[req[q].task],
         req[q].task \in ran' => req[q].task \in ran \/ req[q].pc \notin AtWork,
         \A t \in Tasks : Reported(t) => Reported(t)'
  PROVE  Works(q)' /\ Cancels(q)'
<1> DEFINE t == req[q].task
<1>1. Works(q) /\ Cancels(q)
  BY DEF TaskInv
<1>2. CASE req[q].pc \in {"idle", "done"}
  <2>1. req'[q].pc \in {"idle", "done"}
    BY <1>2
  <2> QED  BY <2>1, KnowingPlaces DEF Works, Cancels, At
<1>3. CASE req[q].pc \notin {"idle", "done"}
  <2>1. t \in Tasks
    BY <1>3, ActiveTask
  <2>2. Works(q)'
    BY <1>1, <2>1, KnowingPlaces DEF Works, At
  <2>3. ASSUME At(q, "c_update"), req[q].saw \in Over, NEW x \in Requests, req'[x].task = t
        PROVE  req'[x].pc \notin Unfinished
    <3>1. status[t] # "none" /\ \A y \in Requests : req[y].task = t => req[y].pc \notin Unfinished
      BY <1>1, <2>3, PlaceSets DEF Cancels, At
    <3> QED  BY <2>3, <3>1
  <2>4. Cancels(q)'
    BY <1>1, <2>1, <2>3 DEF Cancels, At
  <2> QED  BY <2>2, <2>4
<1> QED  BY <1>2, <1>3

\* A step of r that begins no work leaves every task with one handler.
LEMMA OwnStep ==
  ASSUME TypeOK, TaskInv, NEW r \in Requests,
         \A q \in Requests : q # r => req'[q] = req[q],
         req'[r].pc \in AtWork => req[r].pc \in AtWork /\ req'[r].task = req[r].task,
         req'[r].pc # "c_update" \/ CancelsAgree',
         \A q \in Requests : Works(q)' /\ Cancels(q)',
         \A t \in ran' : status'[t] # "none"
  PROVE  TaskInv'
<1>1. WorkersAreApart'
  BY DEF TaskInv, WorkersAreApart
<1>2. CancelsAgree'
  BY DEF TaskInv, CancelsAgree, At
<1> QED  BY <1>1, <1>2 DEF TaskInv

\* A step of r that writes no row.
LEMMA QuietStep ==
  ASSUME TypeOK, TaskInv, NEW r \in Requests,
         \A q \in Requests : q # r => req'[q] = req[q],
         req'[r].pc \in AtWork => req[r].pc \in AtWork /\ req'[r].task = req[r].task,
         req'[r].pc \in Unfinished => req[r].pc \in Unfinished,
         req'[r].pc # "c_update",
         status' = status, ran' = ran,
         \A t \in Tasks : Reported(t) => Reported(t)',
         Works(r)' /\ Cancels(r)'
  PROVE  TaskInv'
<1>1. req'[r].pc \in Unfinished => req'[r].pc \in AtWork
  BY PlaceSets
<1>2. ASSUME NEW q \in Requests, q # r PROVE Works(q)' /\ Cancels(q)'
  BY <1>1, <1>2, OtherStays
<1>3. \A t \in ran' : status'[t] # "none"
  BY DEF TaskInv
<1> QED  BY <1>2, <1>3, OwnStep

\* A step of a handler, which writes its own row.
LEMMA WorkStep ==
  ASSUME TypeOK, TaskInv, NEW r \in Requests, req[r].pc \in AtWork,
         \A q \in Requests : q # r => req'[q] = req[q],
         req'[r].pc \in AtWork => req'[r].task = req[r].task,
         req'[r].pc # "c_update",
         req'[r].pc \in Unfinished =>
           req[r].pc \in Unfinished \/ status[req[r].task] = "none",
         \A t \in Tasks : t # req[r].task => status'[t] = status[t],
         ran' \subseteq ran \cup {req[r].task},
         req[r].task \in ran' => status'[req[r].task] # "none",
         events' = events,
         \A q \in Requests : q # r /\ req[q].task = req[r].task => Cancels(q)',
         Works(r)' /\ Cancels(r)'
  PROVE  TaskInv'
<1>1. \A t \in Tasks : Reported(t) => Reported(t)'
  BY DEF Reported
<1>2. ASSUME NEW q \in Requests, q # r PROVE Works(q)' /\ Cancels(q)'
  <2>1. CASE req[q].pc \in {"idle", "done"}
    <3>1. req'[q].pc \in {"idle", "done"}
      BY <1>2, <2>1
    <3> QED  BY <3>1, KnowingPlaces DEF Works, Cancels, At
  <2>2. CASE req[q].pc \notin {"idle", "done"} /\ req[q].task # req[r].task
    <3>1. req[q].task \in Tasks
      BY <2>2, ActiveTask
    <3>2. req'[r].pc \in Unfinished => req'[r].pc \in AtWork
      BY PlaceSets
    <3> QED  BY <1>1, <1>2, <2>2, <3>1, <3>2, OtherStays
  <2>3. CASE req[q].task = req[r].task
    <3>1. req'[q].pc \notin AtWork
      BY <1>2, <2>3 DEF TaskInv, WorkersAreApart
    <3>2. Works(q)'
      BY <3>1, KnowingPlaces DEF Works, At
    <3> QED  BY <1>2, <2>3, <3>2
  <2> QED  BY <2>1, <2>2, <2>3
<1>3. ASSUME NEW t \in ran' PROVE status'[t] # "none"
  <2>1. t \in Tasks
    BY PlaceSets, ActiveTask DEF TypeOK
  <2> QED  BY <2>1 DEF TaskInv
<1> QED  BY <1>2, <1>3, OwnStep

-----------------------------------------------------------------------------
(* The rows, action by action *)

\* A handler starts on a task that has no row, so it is its only one.
LEMMA StartKeepsTasks ==
  ASSUME TypeOK, TaskInv, NEW r \in Requests, Start(r)
  PROVE  TaskInv'
<1>1. At(r, "idle") /\ status' = status /\ events' = events /\ ran' = ran
  BY DEF Start, rows
<1>2. \A t \in Tasks : Reported(t) => Reported(t)'
  BY <1>1 DEF Reported
<1>3. PICK t \in Tasks :
        \/ /\ status[t] = "none" /\ \A q \in Requests : req[q].task # t
           /\ Begins(r, "w_create", MaxEvents, t)
        \/ /\ status[t] # "none"
           /\ Begins(r, "c_read", 0, t)
  BY StartBegins
<1>4. CASE /\ status[t] = "none" /\ \A q \in Requests : req[q].task # t
           /\ Begins(r, "w_create", MaxEvents, t)
  <2>1. t \notin ran
    BY <1>4 DEF TaskInv
  <2>2. req'[r].pc \notin Unfinished /\ req'[r].pc \notin Cancelling
    BY <1>4, PlaceSets DEF Begins
  <2>3. Works(r)'
    BY <1>1, <1>4, <2>1, PlaceSets DEF Works, At, Begins, Refused
  <2>4. Cancels(r)'
    BY <2>2, KnowingPlaces DEF Cancels, At
  <2>5. ASSUME NEW q \in Requests, q # r PROVE Works(q)' /\ Cancels(q)'
    BY <1>1, <1>2, <1>4, <2>2, <2>5, OtherStays DEF Begins
  <2>6. WorkersAreApart' /\ CancelsAgree'
    BY <1>4 DEF TaskInv, WorkersAreApart, CancelsAgree, At, Begins
  <2> QED  BY <1>1, <2>3, <2>4, <2>5, <2>6 DEF TaskInv
<1>5. CASE status[t] # "none" /\ Begins(r, "c_read", 0, t)
  <2>1. req'[r].pc \notin AtWork /\ req'[r].pc \notin Unfinished
    BY <1>5, PlaceSets DEF Begins
  <2>2. Works(r)'
    BY <2>1, KnowingPlaces DEF Works, At
  <2>3. Cancels(r)'
    BY <1>1, <1>5 DEF Cancels, At, Begins
  <2> QED  BY <1>1, <1>2, <1>5, <2>1, <2>2, <2>3, QuietStep DEF Begins
<1> QED  BY <1>3, <1>4, <1>5

\* A number is read; no row changes.
LEMMA ReadKeepsTasks ==
  ASSUME TypeOK, LogInv, TaskInv, NEW r \in Requests, ReadSequence(r)
  PROVE  TaskInv'
<1>1. status' = status /\ events' = events /\ ran' = ran
  BY DEF ReadSequence, rows
<1>2. PICK n \in Nat : Moves(r, req[r].pc, req[r].left, n + 1, req[r].saw)
  BY ReadMoves
<1>3. \A t \in Tasks : Reported(t) => Reported(t)'
  BY <1>1 DEF Reported
<1>4. req[r].pc \in Adding /\ Works(r) /\ Cancels(r) /\ req[r].task \in Tasks
  BY ActiveTask, PlaceSets DEF ReadSequence, TaskInv
<1>5. Works(r)'
  BY <1>1, <1>2, <1>3, <1>4 DEF Works, At, Moves
<1>6. Cancels(r)'
  BY <1>1, <1>2, <1>4, PlaceSets DEF Cancels, At, Moves
<1> QED  BY <1>1, <1>2, <1>3, <1>4, <1>5, <1>6, PlaceSets, QuietStep DEF Moves

\* An event more: what was reported stays so.
LEMMA InsertReports ==
  ASSUME TypeOK, NEW r \in Requests, InsertEvent(r)
  PROVE  /\ \A t \in Tasks : Reported(t) => Reported(t)'
         /\ At(r, "w_report") => Reported(req[r].task)'
<1> DEFINE e == [seq |-> req[r].num, type |-> EventAt[req[r].pc], by |-> r]
<1>1. e \in Event /\ events' = [events EXCEPT ![req[r].task] = Append(@, e)] /\ req[r].task \in Tasks
  BY InsertMoves
<1>2. At(r, "w_report") => e.type = "final_report"
  BY DEF At, EventAt
<1>3. req'[r].task = req[r].task
  BY InsertMoves DEF Moves
<1> HIDE DEF e
<1>4. ASSUME NEW t \in Tasks, Reported(t) PROVE Reported(t)'
  <2>1. PICK i \in DOMAIN events[t] : events[t][i].type = "final_report"
    BY <1>4 DEF Reported
  <2>2. events[t] \in Seq(Event)
    BY DEF TypeOK
  <2>3. i \in DOMAIN events'[t] /\ events'[t][i] = events[t][i]
    BY <1>1, <2>1, <2>2 DEF TypeOK
  <2> QED  BY <2>1, <2>3 DEF Reported
<1>5. ASSUME At(r, "w_report") PROVE Reported(req[r].task)'
  <2> DEFINE n == Len(events[req[r].task]) + 1
  <2>1. events[req[r].task] \in Seq(Event) /\ events'[req[r].task] = Append(events[req[r].task], e)
    BY <1>1 DEF TypeOK
  <2>2. n \in DOMAIN events'[req[r].task] /\ events'[req[r].task][n] = e
    BY <1>1, <2>1
  <2> QED  BY <1>2, <1>3, <1>5, <2>2 DEF Reported
<1> QED  BY <1>4, <1>5

\* After the final report a handler may call the task a success.
LEMMA InsertKeepsTasks ==
  ASSUME TypeOK, TaskInv, NEW r \in Requests, InsertEvent(r)
  PROVE  TaskInv'
<1>1. status' = status /\ ran' = ran
  BY DEF InsertEvent, Unharmed
<1>2. req[r].pc \in Adding /\ Works(r) /\ Cancels(r) /\ req[r].task \in Tasks
  BY ActiveTask, PlaceSets DEF InsertEvent, TaskInv
<1>3. Moves(r, AfterEvent(r), req[r].left, 0, req[r].saw)
  BY InsertMoves
<1>4. /\ req'[r].pc \in AtWork => req[r].pc \in AtWork
      /\ req'[r].pc \in Unfinished => req[r].pc \in Unfinished
  BY <1>2, <1>3, PlaceSets, AfterEventIs DEF Moves, At
<1>5. Works(r)'
  BY <1>1, <1>2, <1>3, PlaceSets, AfterEventIs, InsertReports DEF Works, At, Moves, NotStarted, Refused
<1>6. Cancels(r)'
  BY <1>1, <1>2, <1>3, PlaceSets, AfterEventIs DEF Cancels, At, Moves
<1>7. AfterEvent(r) # "c_update"
  BY <1>2, PlaceSets, AfterEventIs DEF At
<1> QED  BY <1>1, <1>3, <1>4, <1>5, <1>6, <1>7, InsertReports, QuietStep DEF Moves

\* A request that is over, by itself or not, knows nothing any more.
LEMMA ReturnKeepsTasks ==
  ASSUME TypeOK, TaskInv, NEW r \in Requests, Return(r),
         status' = status, events' = events, ran' = ran
  PROVE  TaskInv'
<1>1. /\ req'[r] = Done /\ Done.pc = "done"
      /\ \A q \in Requests : q # r => req'[q] = req[q]
  BY ReturnEnds, IdleAndDone
<1>2. req'[r].pc \notin AtWork /\ req'[r].pc \notin Unfinished /\ req'[r].pc \notin Cancelling
  BY <1>1, KnowingPlaces
<1>3. Works(r)' /\ Cancels(r)'
  BY <1>2, KnowingPlaces DEF Works, Cancels, At
<1>4. \A t \in Tasks : Reported(t) => Reported(t)'
  BY DEF Reported
<1> QED  BY <1>1, <1>2, <1>3, <1>4, QuietStep

\* Nobody has read a row that was not there.
LEMMA CreateKeepsTasks ==
  ASSUME TypeOK, TaskInv, NEW r \in Requests, CreateTask(r)
  PROVE  TaskInv'
<1>1. /\ events' = events /\ ran' = ran /\ status' = [status EXCEPT ![req[r].task] = "pending"]
      /\ At(r, "w_create")
  BY DEF CreateTask, SetStatus
<1>2. Moves(r, "w_created", req[r].left, req[r].num, req[r].saw)
  BY GotoMoves, PlaceSets DEF CreateTask
<1>3. req[r].task \in Tasks /\ Works(r) /\ status[req[r].task] = "none"
  BY <1>1, ActiveTask DEF At, TaskInv, Works
<1>4. /\ status'[req[r].task] = "pending"
      /\ \A t \in Tasks : t # req[r].task => status'[t] = status[t]
  BY <1>1, <1>3 DEF TypeOK
<1>5. Works(r)'
  BY <1>1, <1>2, <1>3, <1>4, PlaceSets DEF Works, At, Moves, NotStarted, Refused, Over
<1>6. req'[r].pc \notin Cancelling
  BY <1>2, PlaceSets DEF Moves
<1>7. Cancels(r)'
  BY <1>6, KnowingPlaces DEF Cancels, At
<1>8. ASSUME NEW q \in Requests, q # r, req[q].task = req[r].task PROVE Cancels(q)'
  <2>1. Cancels(q) /\ req'[q] = req[q]
    BY <1>2, <1>8 DEF TaskInv, Moves
  <2>2. req'[q].pc \notin Cancelling
    BY <1>3, <1>8, <2>1 DEF Cancels
  <2> QED  BY <2>2, KnowingPlaces DEF Cancels, At
<1> QED  BY <1>1, <1>2, <1>3, <1>4, <1>5, <1>7, <1>8, PlaceSets, WorkStep DEF Moves, At

\* A cancel that reads the row of a task that is not over yet.
LEMMA UnfinishedSeen ==
  ASSUME TaskInv, NEW r \in Requests, NEW q \in Requests,
         req[r].pc \in Unfinished, req[q].task = req[r].task, At(q, "c_update")
  PROVE  req[q].saw \notin Over
BY DEF TaskInv, Cancels

\* So it knows of no success, whatever the handler writes.
LEMMA CancelStays ==
  ASSUME TaskInv, NEW r \in Requests, NEW q \in Requests,
         req[r].pc \in Unfinished, req[q].task = req[r].task, req'[q] = req[q],
         status'[req[r].task] # "none"
  PROVE  Cancels(q)'
BY UnfinishedSeen DEF TaskInv, Cancels, At, Over

\* The handler marks a task that is not over, maybe over a cancel.
LEMMA RunningKeepsTasks ==
  ASSUME TypeOK, TaskInv, NEW r \in Requests, MarkRunning(r)
  PROVE  TaskInv'
<1>1. /\ events' = events /\ ran' = ran /\ status' = [status EXCEPT ![req[r].task] = "running"]
      /\ At(r, "w_running")
  BY DEF MarkRunning, SetStatus
<1>2. Moves(r, "w_work", req[r].left, req[r].num, req[r].saw)
  BY GotoMoves, PlaceSets DEF MarkRunning
<1>3. req[r].task \in Tasks /\ Works(r) /\ req[r].pc \in Unfinished
  BY <1>1, ActiveTask, PlaceSets DEF At, TaskInv
<1>4. status'[req[r].task] = "running" /\ \A t \in Tasks : t # req[r].task => status'[t] = status[t]
  BY <1>1, <1>3 DEF TypeOK
<1>5. Works(r)'
  BY <1>1, <1>2, <1>3, <1>4, PlaceSets DEF Works, At, Moves, NotStarted, Refused, Over
<1>6. req'[r].pc \notin Cancelling
  BY <1>2, PlaceSets DEF Moves
<1>7. Cancels(r)'
  BY <1>6, KnowingPlaces DEF Cancels, At
<1>8. \A q \in Requests : q # r /\ req[q].task = req[r].task => Cancels(q)'
  BY <1>2, <1>3, <1>4, CancelStays DEF Moves
<1> QED  BY <1>1, <1>2, <1>3, <1>4, <1>5, <1>7, <1>8, PlaceSets, WorkStep DEF Moves

\* A tool has run, so the command can no longer be refused.
LEMMA ProgressKeepsTasks ==
  ASSUME TypeOK, TaskInv, NEW r \in Requests, Progress(r)
  PROVE  TaskInv'
<1>1. /\ events' = events /\ status' = status /\ ran' = ran \cup {req[r].task}
      /\ At(r, "w_work")
  BY DEF Progress, rows
<1>2. Moves(r, "w_progress", req[r].left - 1, req[r].num, req[r].saw)
  BY ProgressMoves
<1>3. req[r].task \in Tasks /\ Works(r) /\ req[r].pc \in Unfinished /\ req[r].left \in 0..MaxEvents
  BY <1>1, ActiveTask, PlaceSets DEF At, TaskInv, Request
<1>4. status[req[r].task] # "none" /\ req'[r].left # MaxEvents
  BY <1>2, <1>3, KnowingPlaces, ConstantsAssumption DEF Works, Moves
<1>5. Works(r)'
  BY <1>1, <1>2, <1>3, <1>4, PlaceSets DEF Works, At, Moves, NotStarted, Refused
<1>6. req'[r].pc \notin Cancelling
  BY <1>2, PlaceSets DEF Moves
<1>7. Cancels(r)'
  BY <1>6, KnowingPlaces DEF Cancels, At
<1>8. \A q \in Requests : q # r /\ req[q].task = req[r].task => Cancels(q)'
  BY <1>1, <1>2, <1>3, <1>4, CancelStays DEF Moves
<1> QED  BY <1>1, <1>2, <1>3, <1>4, <1>5, <1>7, <1>8, PlaceSets, WorkStep DEF Moves

\* A command is refused only before it ran.
LEMMA EndKeepsTasks ==
  ASSUME TypeOK, TaskInv, NEW r \in Requests, EndWork(r)
  PROVE  TaskInv'
<1>1. events' = events /\ status' = status /\ At(r, "w_work")
  BY DEF EndWork, rows
<1>2. PICK place \in {"w_report", "w_rejected"} :
        Moves(r, place, req[r].left, req[r].num, req[r].saw)
  BY EndWorkMoves
<1>3. req[r].task \in Tasks /\ Works(r) /\ req[r].pc \in Unfinished /\ status[req[r].task] # "none"
  BY <1>1, ActiveTask, PlaceSets DEF At, TaskInv, Works
<1>4. ran' \subseteq ran \cup {req[r].task}
  BY DEF EndWork
<1>5. place = "w_rejected" => req[r].left = MaxEvents /\ ran' = ran
  <2>1. ASSUME NEW ok \in BOOLEAN, req' = [req EXCEPT ![r].pc = "w_report", ![r].ok = ok]
        PROVE  req'[r].pc = "w_report"
    BY <2>1 DEF TypeOK, Request
  <2> QED  BY <1>2, <2>1 DEF EndWork, Moves
<1>6. Works(r)'
  BY <1>1, <1>2, <1>3, <1>5, PlaceSets DEF Works, At, Moves, NotStarted, Refused
<1>7. req'[r].pc \notin Cancelling
  BY <1>2, PlaceSets DEF Moves
<1>8. Cancels(r)'
  BY <1>7, KnowingPlaces DEF Cancels, At
<1>9. \A q \in Requests : q # r /\ req[q].task = req[r].task => Cancels(q)'
  BY <1>1, <1>2, <1>3, CancelStays DEF Moves
<1> QED  BY <1>1, <1>2, <1>3, <1>4, <1>6, <1>8, <1>9, PlaceSets, WorkStep DEF Moves

\* The handler finishes a task that was not over; no cancel has seen it over.
LEMMA FinishKeepsTasks ==
  ASSUME TypeOK, TaskInv, NEW r \in Requests, FinishTask(r)
  PROVE  TaskInv'
<1> DEFINE s == IF req[r].flow = "terminal" /\ ~req[r].ok THEN "failed" ELSE "succeeded"
<1>1. /\ events' = events /\ ran' = ran /\ status' = [status EXCEPT ![req[r].task] = s]
      /\ At(r, "w_finish") /\ s \in Over
  BY DEF FinishTask, SetStatus, Over
<1> HIDE DEF s
<1>2. Moves(r, "w_audit", req[r].left, req[r].num, req[r].saw)
  BY GotoMoves, PlaceSets DEF FinishTask
<1>3. req[r].task \in Tasks /\ Works(r) /\ req[r].pc \in Unfinished
  BY <1>1, ActiveTask, PlaceSets DEF At, TaskInv
<1>4. /\ status'[req[r].task] \in Over /\ \A t \in Tasks : t # req[r].task => status'[t] = status[t]
      /\ status'[req[r].task] \notin {"none", "running"}
  BY <1>1, <1>3 DEF TypeOK, Over
<1>5. Works(r)'
  BY <1>1, <1>2, <1>3, <1>4, PlaceSets DEF Works, At, Moves, NotStarted, Refused
<1>6. req'[r].pc \notin Cancelling
  BY <1>2, PlaceSets DEF Moves
<1>7. Cancels(r)'
  BY <1>6, KnowingPlaces DEF Cancels, At
<1>8. \A q \in Requests : q # r /\ req[q].task = req[r].task => Cancels(q)'
  BY <1>2, <1>3, <1>4, CancelStays DEF Moves
<1> QED  BY <1>1, <1>2, <1>3, <1>4, <1>5, <1>7, <1>8, PlaceSets, WorkStep DEF Moves

\* A refused command ends its task as failed; it has not run.
LEMMA RejectKeepsTasks ==
  ASSUME TypeOK, TaskInv, NEW r \in Requests, RejectCommand(r)
  PROVE  TaskInv'
<1>1. /\ events' = events /\ ran' = ran /\ status' = [status EXCEPT ![req[r].task] = "failed"]
      /\ At(r, "w_reject") /\ Return(r)
  BY DEF RejectCommand, SetStatus
<1>2. /\ req'[r] = Done /\ Done.pc = "done"
      /\ \A q \in Requests : q # r => req'[q] = req[q]
  BY <1>1, ReturnEnds, IdleAndDone
<1>3. req[r].task \in Tasks /\ Works(r) /\ req[r].pc \in Unfinished /\ req[r].pc \in AtWork
  BY <1>1, ActiveTask, PlaceSets DEF At, TaskInv
<1>4. /\ status'[req[r].task] = "failed" /\ \A t \in Tasks : t # req[r].task => status'[t] = status[t]
  BY <1>1, <1>3 DEF TypeOK
<1>5. req'[r].pc \notin AtWork /\ req'[r].pc \notin Unfinished /\ req'[r].pc \notin Cancelling
  BY <1>2, KnowingPlaces
<1>6. Works(r)' /\ Cancels(r)'
  BY <1>5, KnowingPlaces DEF Works, Cancels, At
<1>7. \A q \in Requests : q # r /\ req[q].task = req[r].task => Cancels(q)'
  BY <1>2, <1>3, <1>4, CancelStays
<1> QED  BY <1>1, <1>2, <1>3, <1>4, <1>5, <1>6, <1>7, WorkStep

\* A cancel reads a success only after its report, and of a task whose handler is through.
LEMMA CancelReadKeepsTasks ==
  ASSUME TypeOK, TaskInv, SuccessIsReported, NEW r \in Requests, ReadForCancel(r)
  PROVE  TaskInv'
<1>1. status' = status /\ events' = events /\ ran' = ran /\ At(r, "c_read")
  BY DEF ReadForCancel, rows
<1>2. /\ req[r].task \in Tasks
      /\ Moves(r, "c_update", req[r].left, req[r].num, status[req[r].task])
  BY CancelReadMoves
<1>3. \A t \in Tasks : Reported(t) => Reported(t)'
  BY <1>1 DEF Reported
<1>4. req'[r].pc \notin AtWork /\ req'[r].pc \notin Unfinished
  BY <1>2, PlaceSets DEF Moves
<1>5. Works(r)'
  BY <1>4, KnowingPlaces DEF Works, At
<1>6. status[req[r].task] # "none"
  BY <1>1, PlaceSets DEF TaskInv, Cancels, At
<1>7. status[req[r].task] = "succeeded" => Reported(req[r].task)
  BY <1>2 DEF SuccessIsReported, Reported
<1>8. ASSUME status[req[r].task] \in Over, NEW q \in Requests, req'[q].task = req[r].task
      PROVE  req'[q].pc \notin Unfinished
  BY <1>2, <1>4, <1>8 DEF TaskInv, Works, Moves
<1>9. Cancels(r)'
  BY <1>1, <1>2, <1>3, <1>6, <1>7, <1>8 DEF Cancels, At, Moves
<1>10. ASSUME NEW q \in Requests, q # r PROVE Works(q)' /\ Cancels(q)'
  BY <1>1, <1>2, <1>3, <1>4, <1>10, OtherStays DEF Moves
<1>11. CancelsAgree'
  <2>1. ASSUME NEW q \in Requests, At(q, "c_update"), req[q].task = req[r].task, req[q].saw \in Over,
               status[req[r].task] \in Over
        PROVE  status[req[r].task] = req[q].saw
    BY <2>1 DEF TaskInv, Cancels, Over
  <2>2. ASSUME NEW x \in Requests, NEW y \in Requests, At(x, "c_update")', At(y, "c_update")',
               req'[x].task = req'[y].task, req'[x].saw \in Over, req'[y].saw \in Over
        PROVE  req'[x].saw = req'[y].saw
    BY <1>2, <2>1, <2>2 DEF TaskInv, CancelsAgree, At, Moves
  <2> QED  BY <2>2 DEF CancelsAgree
<1>12. \A t \in ran' : status'[t] # "none"
  BY <1>1 DEF TaskInv
<1> QED  BY <1>2, <1>4, <1>5, <1>9, <1>10, <1>11, <1>12, OwnStep DEF Moves

\* What a cancel writes: never a running task, and what it found over only as it was found.
LEMMA CancelWrites ==
  ASSUME TypeOK, TaskInv, NEW r \in Requests, UpdateCancelled(r)
  PROVE  LET t == req[r].task IN
         /\ At(r, "c_update") /\ t \in Tasks
         /\ IF req[r].saw \in Over THEN status'[t] = req[r].saw ELSE status'[t] = "cancelled"
         /\ \A u \in Tasks : u # t => status'[u] = status[u]
         /\ events' = events /\ ran' = ran
         /\ Moves(r, "c_event", req[r].left, req[r].num, req[r].saw)
<1> DEFINE t == req[r].task
           s == IF req[r].saw \in {"pending", "running"} THEN "cancelled" ELSE req[r].saw
<1>1. At(r, "c_update") /\ status' = [status EXCEPT ![t] = s] /\ events' = events /\ ran' = ran
  BY DEF UpdateCancelled, SetStatus
<1>2. t \in Tasks /\ req[r].saw \in TaskStatus /\ req[r].saw # "none"
  BY <1>1, ActiveTask DEF At, Request, TaskInv, Cancels
<1>3. IF req[r].saw \in Over THEN s = req[r].saw ELSE s = "cancelled"
  BY <1>2 DEF TaskStatus, Over
<1> HIDE DEF s
<1>4. Moves(r, "c_event", req[r].left, req[r].num, req[r].saw)
  BY GotoMoves, PlaceSets DEF UpdateCancelled
<1> QED  BY <1>1, <1>2, <1>3, <1>4 DEF TypeOK

\* A cancel writes back an end only of a task that ended so.
LEMMA CancelKeepsTasks ==
  ASSUME TypeOK, TaskInv, NEW r \in Requests, UpdateCancelled(r)
  PROVE  TaskInv'
<1> DEFINE t == req[r].task
<1>1. /\ At(r, "c_update") /\ t \in Tasks
      /\ IF req[r].saw \in Over THEN status'[t] = req[r].saw ELSE status'[t] = "cancelled"
      /\ \A u \in Tasks : u # t => status'[u] = status[u]
      /\ events' = events /\ ran' = ran
      /\ Moves(r, "c_event", req[r].left, req[r].num, req[r].saw)
  BY CancelWrites
<1> HIDE DEF t
<1>2. \A u \in Tasks : Reported(u) => Reported(u)'
  BY <1>1 DEF Reported
<1>3. req'[r].pc \notin AtWork /\ req'[r].pc \notin Unfinished /\ req'[r].pc \in Cancelling
  BY <1>1, PlaceSets DEF Moves
<1>4. status'[t] \notin {"none", "running"}
  BY <1>1 DEF Over
<1>5. Works(r)'
  BY <1>3, KnowingPlaces DEF Works, At
<1>6. Cancels(r)'
  BY <1>1, <1>4 DEF Cancels, At, Moves, t
<1>7. ASSUME NEW q \in Requests, q # r PROVE Works(q)' /\ Cancels(q)'
  <2>1. req'[q] = req[q] /\ Works(q) /\ Cancels(q) /\ Cancels(r)
    BY <1>1, <1>7 DEF TaskInv, Moves
  <2>2. CASE req[q].pc \in {"idle", "done"}
    <3>1. req'[q].pc \in {"idle", "done"}
      BY <2>1, <2>2
    <3> QED  BY <3>1, KnowingPlaces DEF Works, Cancels, At
  <2>3. CASE req[q].pc \notin {"idle", "done"} /\ req[q].task # t
    <3>1. req[q].task \in Tasks
      BY <2>3, ActiveTask
    <3> QED  BY <1>1, <1>2, <1>3, <1>7, <2>3, <3>1, OtherStays DEF Moves
  <2>4. CASE req[q].task = t
    <3>1. status[t] # "none"
      BY <1>1, <2>1, PlaceSets DEF Cancels, At, t
    <3>2. req[q].pc \in Unfinished => status'[t] \notin Over
      BY <1>1, <2>1, <2>4 DEF Cancels, Over, t
    <3>3. Works(q)'
      BY <1>1, <1>2, <1>4, <2>1, <2>4, <3>1, <3>2, KnowingPlaces DEF Works, At
    <3>4. ASSUME At(q, "c_update"), req[q].saw \in Over
          PROVE  status'[t] \in {req[q].saw, "cancelled"}
      BY <1>1, <1>7, <2>4, <3>4 DEF TaskInv, CancelsAgree, t
    <3>5. ASSUME At(q, "c_update"), req[q].saw \in Over, NEW x \in Requests, req'[x].task = t
          PROVE  req'[x].pc \notin Unfinished
      BY <1>1, <1>3, <2>1, <2>4, <3>5 DEF Cancels, Moves
    <3>6. Cancels(q)'
      BY <1>1, <1>2, <1>4, <2>1, <2>4, <3>4, <3>5 DEF Cancels, At
    <3> QED  BY <3>3, <3>6
  <2> QED  BY <2>2, <2>3, <2>4
<1>8. \A u \in ran' : status'[u] # "none"
  BY <1>1, <1>4 DEF TaskInv, TypeOK
<1> QED  BY <1>1, <1>3, <1>5, <1>6, <1>7, <1>8, OwnStep DEF Moves

\* After a start-up no request is served.
LEMMA CrashKeepsTasks ==
  ASSUME TypeOK, TaskInv, Crash
  PROVE  TaskInv'
<1>1. status' = status /\ events' = events /\ ran' = ran
  BY DEF Crash, rows
<1>2. \A q \in Requests : req'[q].pc \in {"idle", "done"}
  BY IdleAndDone DEF Crash, Active, TypeOK
<1>3. \A q \in Requests : req'[q].pc \notin AtWork /\ req'[q].pc \notin Cancelling
                           /\ req'[q].pc \notin Unfinished /\ req'[q].pc # "c_update"
  BY <1>2, KnowingPlaces
<1>4. \A q \in Requests : Works(q)' /\ Cancels(q)'
  BY <1>3, KnowingPlaces DEF Works, Cancels, At
<1> QED  BY <1>1, <1>3, <1>4 DEF TaskInv, WorkersAreApart, CancelsAgree, At

\* Whoever writes next, what handlers and cancels know stays true.
LEMMA TasksStay ==
  ASSUME TypeOK, LogInv, TaskInv, SuccessIsReported, [Next]_vars
  PROVE  TaskInv'
<1>1. ASSUME NEW r \in Requests, Audit(r) \/ Fault(r) PROVE TaskInv'
  <2>1. Return(r) /\ status' = status /\ events' = events /\ ran' = ran
    BY <1>1 DEF Audit, Fault, rows
  <2> QED  BY <2>1, ReturnKeepsTasks
<1>2. CASE UNCHANGED vars
  BY <1>2 DEF vars, TaskInv, WorkersAreApart, CancelsAgree, Works, Cancels, Reported, At
<1> QED  BY <1>1, <1>2, StartKeepsTasks, ReadKeepsTasks, InsertKeepsTasks, CreateKeepsTasks,
            RunningKeepsTasks, ProgressKeepsTasks, EndKeepsTasks, FinishKeepsTasks, RejectKeepsTasks,
            CancelReadKeepsTasks, CancelKeepsTasks, CrashKeepsTasks DEF Next, Step

-----------------------------------------------------------------------------
(* The safety properties *)

\* Every other step keeps the numbers that were read, or forgets them.
LEMMA LogGoesOn ==
  ASSUME TypeOK, LogInv, [Next]_vars
  PROVE  LogInv'
<1> DEFINE Kept(q) == \/ req'[q].num = 0
                      \/ req'[q].task = req[q].task /\ req'[q].num = req[q].num
<1>1. ASSUME NEW r \in Requests, Start(r) PROVE events' = events /\ \A q \in Requests : Kept(q)
  BY <1>1, StartBegins DEF Start, rows, Begins
<1>2. ASSUME NEW r \in Requests,
             CreateTask(r) \/ MarkRunning(r) \/ FinishTask(r) \/ UpdateCancelled(r)
      PROVE  events' = events /\ \A q \in Requests : Kept(q)
  <2>1. \E place \in PCs : Goto(r, place)
    BY <1>2, PlaceSets DEF CreateTask, MarkRunning, FinishTask, UpdateCancelled
  <2>2. events' = events
    BY <1>2 DEF CreateTask, MarkRunning, FinishTask, UpdateCancelled
  <2> QED  BY <2>1, <2>2, GotoMoves DEF Moves
<1>3. ASSUME NEW r \in Requests, Progress(r) \/ EndWork(r) \/ ReadForCancel(r)
      PROVE  events' = events /\ \A q \in Requests : Kept(q)
  BY <1>3, ProgressMoves, EndWorkMoves, CancelReadMoves
  DEF Progress, EndWork, ReadForCancel, rows, Moves
<1>4. ASSUME NEW r \in Requests, RejectCommand(r) \/ Audit(r) \/ Fault(r)
      PROVE  events' = events /\ \A q \in Requests : Kept(q)
  BY <1>4, ReturnEnds, IdleAndDone DEF RejectCommand, Audit, Fault, rows
<1>5. ASSUME Crash PROVE events' = events /\ \A q \in Requests : Kept(q)
  BY <1>5, IdleAndDone DEF Crash, rows
<1>6. ASSUME UNCHANGED vars PROVE events' = events /\ \A q \in Requests : Kept(q)
  BY <1>6 DEF vars
<1> QED  BY <1>1, <1>2, <1>3, <1>4, <1>5, <1>6, ReadKeepsLog, InsertKeepsLog, LogStays DEF Next, Step

\* A handler's event is numbered above those that it added before.
LEMMA OrderStays ==
  ASSUME TypeOK, LogInv, WritersAreInOrder, [Next]_vars
  PROVE  WritersAreInOrder'
<1>1. ASSUME events' = events PROVE WritersAreInOrder'
  BY <1>1 DEF WritersAreInOrder
<1>2. ASSUME NEW r \in Requests, InsertEvent(r) PROVE WritersAreInOrder'
  <2> DEFINE e == [seq |-> req[r].num, type |-> EventAt[req[r].pc], by |-> r]
  <2>1. e \in Event /\ events' = [events EXCEPT ![req[r].task] = Append(@, e)] /\ req[r].task \in Tasks
    BY <1>2, InsertMoves
  <2>2. e.seq = req[r].num /\ e.by = r /\ req[r].num # 0
    BY <1>2 DEF InsertEvent
  <2> HIDE DEF e
  <2> SUFFICES ASSUME NEW t \in Tasks, NEW i \in DOMAIN events'[t], NEW j \in DOMAIN events'[t],
                      i < j, events'[t][i].by = events'[t][j].by
               PROVE  events'[t][i].seq < events'[t][j].seq
    BY DEF WritersAreInOrder
  <2>3. CASE t # req[r].task
    <3>1. events'[t] = events[t]
      BY <2>1, <2>3 DEF TypeOK
    <3> QED  BY <3>1 DEF WritersAreInOrder
  <2>4. CASE t = req[r].task
    <3>1. events[t] \in Seq(Event) /\ e \in Event /\ events'[t] = Append(events[t], e)
      BY <2>1, <2>4 DEF TypeOK
    <3>2. /\ DOMAIN events'[t] = 1..(Len(events[t]) + 1) /\ DOMAIN events[t] = 1..Len(events[t])
          /\ \A k \in DOMAIN events[t] : events'[t][k] = events[t][k]
          /\ events'[t][Len(events[t]) + 1] = e /\ Len(events[t]) \in Nat
      BY <3>1
    <3>3. i \in DOMAIN events[t]
      BY <3>2
    <3>4. CASE j \in DOMAIN events[t]
      BY <3>2, <3>3, <3>4 DEF WritersAreInOrder
    <3>5. CASE j \notin DOMAIN events[t]
      <4>1. events'[t][j] = e
        BY <3>2, <3>5
      <4>2. events[t][i].by = r
        BY <2>2, <3>2, <3>3, <4>1
      <4>3. \A k \in DOMAIN events[t] :
              req[r].num # 0 /\ events[t][k].by = r => events[t][k].seq < req[r].num
        BY <2>4 DEF LogInv
      <4> QED  BY <2>2, <3>2, <3>3, <4>1, <4>2, <4>3
    <3> QED  BY <3>4, <3>5
  <2> QED  BY <2>3, <2>4
<1>3. ASSUME Next, \A r \in Requests : ~InsertEvent(r) PROVE events' = events
  BY <1>3 DEF Next, Step, Start, ReadSequence, CreateTask, MarkRunning, Progress, EndWork, FinishTask,
              RejectCommand, Audit, ReadForCancel, UpdateCancelled, Fault, Crash, rows
<1>4. ASSUME UNCHANGED vars PROVE events' = events
  BY <1>4 DEF vars
<1> QED  BY <1>1, <1>2, <1>3, <1>4

\* Who writes "succeeded": a handler that has reported, and a cancel that has read it.
LEMMA SuccessStays ==
  ASSUME TypeOK, TaskInv, SuccessIsReported, [Next]_vars
  PROVE  SuccessIsReported'
<1>1. ASSUME NEW r \in Requests, InsertEvent(r) PROVE SuccessIsReported'
  <2>1. status' = status
    BY <1>1 DEF InsertEvent
  <2> QED  BY <1>1, <2>1, InsertReports DEF SuccessIsReported, Reported
<1>2. ASSUME events' = events,
             NEW u, NEW s, status' = [status EXCEPT ![u] = s], s = "succeeded" => Reported(u)
      PROVE  SuccessIsReported'
  <2>1. ASSUME NEW t \in Tasks, status'[t] = "succeeded" PROVE Reported(t)
    <3>1. status'[t] = IF t = u THEN s ELSE status[t]
      BY <1>2 DEF TypeOK
    <3> QED  BY <1>2, <2>1, <3>1 DEF SuccessIsReported, Reported
  <2> QED  BY <1>2, <2>1 DEF SuccessIsReported, Reported
<1>3. ASSUME status' = status, events' = events PROVE SuccessIsReported'
  BY <1>3 DEF SuccessIsReported
<1>4. ASSUME NEW r \in Requests, FinishTask(r) PROVE SuccessIsReported'
  <2>1. Reported(req[r].task)
    BY <1>4 DEF FinishTask, TaskInv, Works
  <2> QED  BY <1>2, <1>4, <2>1 DEF FinishTask, SetStatus
<1>5. ASSUME NEW r \in Requests, UpdateCancelled(r) PROVE SuccessIsReported'
  <2>1. req[r].saw = "succeeded" => Reported(req[r].task)
    BY <1>5 DEF UpdateCancelled, TaskInv, Cancels
  <2> QED  BY <1>2, <1>5, <2>1 DEF UpdateCancelled, SetStatus
<1>6. ASSUME NEW r \in Requests, CreateTask(r) \/ MarkRunning(r) \/ RejectCommand(r)
      PROVE  SuccessIsReported'
  BY <1>2, <1>6 DEF CreateTask, MarkRunning, RejectCommand, SetStatus
<1>7. ASSUME NEW r \in Requests,
             \/ Start(r) \/ ReadSequence(r) \/ Progress(r) \/ EndWork(r) \/ Audit(r)
             \/ ReadForCancel(r) \/ Fault(r)
      PROVE  SuccessIsReported'
  <2>1. status' = status /\ events' = events
    BY <1>7 DEF Start, ReadSequence, Progress, EndWork, Audit, ReadForCancel, Fault, rows
  <2> QED  BY <1>3, <2>1
<1>8. ASSUME Crash \/ UNCHANGED vars PROVE SuccessIsReported'
  BY <1>8, <1>3 DEF Crash, vars, rows
<1> QED  BY <1>1, <1>4, <1>5, <1>6, <1>7, <1>8 DEF Next, Step

\* A step of r, unless r gives up a task that is running, or that ran and has no audit row.
LEMMA ServedOn ==
  ASSUME RunningIsServed, RunsAreAudited, NEW r \in Requests,
         \A q \in Requests : q # r => req'[q] = req[q],
         interrupted \subseteq interrupted', audited \subseteq audited',
         \A t \in Tasks : status'[t] = "running" => status[t] = "running" \/ Serves(r, t)',
         \A t \in ran' : t \in ran \/ Serves(r, t)',
         \A t : Serves(r, t) =>
           \/ Serves(r, t)' \/ t \in interrupted'
           \/ /\ t \in Tasks => status'[t] # "running"
              /\ t \in ran' => <<"work", t>> \in audited'
  PROVE  RunningIsServed' /\ RunsAreAudited'
<1>1. ASSUME NEW q \in Requests, q # r, NEW t, Serves(q, t) PROVE Serves(q, t)'
  BY <1>1 DEF Serves
<1>2. RunningIsServed'
  BY <1>1 DEF RunningIsServed
<1>3. RunsAreAudited'
  BY <1>1 DEF RunsAreAudited
<1> QED  BY <1>2, <1>3

\* Whoever leaves a task leaves it ended and audited, or interrupted.
LEMMA ServiceStays ==
  ASSUME TypeOK, LogInv, TaskInv, RunningIsServed, RunsAreAudited, [Next]_vars
  PROVE  RunningIsServed' /\ RunsAreAudited'
<1>1. ASSUME NEW r \in Requests,
             Start(r) \/ ReadForCancel(r) \/ (Audit(r) /\ At(r, "c_audit"))
      PROVE  RunningIsServed' /\ RunsAreAudited'
  <2>1. /\ status' = status /\ ran' = ran /\ interrupted' = interrupted /\ audited \subseteq audited'
        /\ req[r].pc \notin Working
    BY <1>1, PlaceSets DEF Start, ReadForCancel, Audit, rows, Unharmed, At
  <2>2. \A q \in Requests : q # r => req'[q] = req[q]
    BY <1>1, StartBegins, CancelReadMoves, ReturnEnds DEF Begins, Moves, Audit
  <2> QED  BY <2>1, <2>2, ServedOn DEF Serves
<1>2. ASSUME NEW r \in Requests, ReadSequence(r) \/ InsertEvent(r)
      PROVE  RunningIsServed' /\ RunsAreAudited'
  <2>1. /\ status' = status /\ ran' = ran /\ interrupted' = interrupted /\ audited' = audited
        /\ req[r].pc \in Adding
    BY <1>2 DEF ReadSequence, InsertEvent, rows, Unharmed
  <2>2. PICK place \in {req[r].pc, AfterEvent(r)} : \E num : Moves(r, place, req[r].left, num, req[r].saw)
    BY <1>2, ReadMoves, InsertMoves
  <2>3. req[r].pc \in Working => place \in Working
    BY <2>1, <2>2, PlaceSets, AfterEventIs DEF At
  <2>4. \A t : Serves(r, t) => Serves(r, t)'
    BY <2>2, <2>3 DEF Serves, Moves
  <2> QED  BY <2>1, <2>2, <2>4, ServedOn DEF Moves
<1>3. ASSUME NEW r \in Requests,
             CreateTask(r) \/ MarkRunning(r) \/ Progress(r) \/ EndWork(r) \/ FinishTask(r)
      PROVE  RunningIsServed' /\ RunsAreAudited'
  <2> DEFINE t == req[r].task
  <2>1. /\ interrupted' = interrupted /\ audited' = audited /\ req[r].pc \in AtWork
        /\ ran' \subseteq ran \cup {t}
        /\ \/ status' = status
           \/ \E s : status' = [status EXCEPT ![t] = s]
    BY <1>3, PlaceSets
    DEF CreateTask, MarkRunning, Progress, EndWork, FinishTask, SetStatus, rows, Unharmed, At
  <2>2. PICK place \in {"w_created", "w_work", "w_progress", "w_report", "w_rejected", "w_audit"} :
          \E left, num, saw : Moves(r, place, left, num, saw)
    <3>1. CASE CreateTask(r)
      BY <3>1, GotoMoves, PlaceSets DEF CreateTask
    <3>2. CASE MarkRunning(r)
      BY <3>2, GotoMoves, PlaceSets DEF MarkRunning
    <3>3. CASE Progress(r)
      BY <3>3, ProgressMoves
    <3>4. CASE EndWork(r)
      BY <3>4, EndWorkMoves
    <3>5. CASE FinishTask(r)
      BY <3>5, GotoMoves, PlaceSets DEF FinishTask
    <3> QED  BY <1>3, <3>1, <3>2, <3>3, <3>4, <3>5
  <2>3. place \in Working /\ \A q \in Requests : q # r => req'[q] = req[q]
    BY <2>2, PlaceSets DEF Moves
  <2>4. \A u : (u = t => Serves(r, u)') /\ (Serves(r, u) => u = t)
    BY <2>2, <2>3 DEF Serves, Moves
  <2>5. \A u \in Tasks : u = t \/ status'[u] = status[u]
    BY <2>1 DEF TypeOK
  <2> HIDE DEF t
  <2> QED  BY <2>1, <2>3, <2>4, <2>5, ServedOn
<1>4. ASSUME NEW r \in Requests, RejectCommand(r)
      PROVE  RunningIsServed' /\ RunsAreAudited'
  <2> DEFINE t == req[r].task
  <2>1. /\ interrupted' = interrupted /\ audited' = audited /\ ran' = ran
        /\ status' = [status EXCEPT ![t] = "failed"] /\ At(r, "w_reject")
    BY <1>4 DEF RejectCommand, SetStatus, Unharmed
  <2>2. t \notin ran
    BY <2>1, PlaceSets DEF TaskInv, Works, At, Refused
  <2>3. /\ \A u \in Tasks : status'[u] = "running" => status[u] = "running" /\ u # t
        /\ \A q \in Requests : q # r => req'[q] = req[q]
    BY <1>4, <2>1, ReturnEnds DEF TypeOK, RejectCommand
  <2>4. \A u : Serves(r, u) => u = t
    BY DEF Serves
  <2> HIDE DEF t
  <2> QED  BY <2>1, <2>2, <2>3, <2>4, ServedOn
<1>5. ASSUME NEW r \in Requests, Audit(r), At(r, "w_audit")
      PROVE  RunningIsServed' /\ RunsAreAudited'
  <2> DEFINE t == req[r].task
  <2>1. /\ interrupted' = interrupted /\ audited' = audited \cup {<<"work", t>>} /\ ran' = ran
        /\ status' = status
    BY <1>5 DEF Audit, Unharmed
  <2>2. status[t] # "running"
    BY <1>5 DEF TaskInv, Works, At
  <2>3. \A q \in Requests : q # r => req'[q] = req[q]
    BY <1>5, ReturnEnds DEF Audit
  <2>4. \A u : Serves(r, u) => u = t
    BY DEF Serves
  <2> HIDE DEF t
  <2> QED  BY <2>1, <2>2, <2>3, <2>4, ServedOn
<1>6. ASSUME NEW r \in Requests, UpdateCancelled(r)
      PROVE  RunningIsServed' /\ RunsAreAudited'
  <2>1. interrupted' = interrupted /\ audited' = audited /\ ran' = ran /\ req[r].pc \notin Working
    BY <1>6, PlaceSets DEF UpdateCancelled, Unharmed, At
  <2>2. \A t \in Tasks : status'[t] = "running" => status[t] = "running"
    BY <1>6, CancelWrites DEF Over
  <2>3. \A q \in Requests : q # r => req'[q] = req[q]
    BY <1>6, CancelWrites DEF Moves
  <2> QED  BY <2>1, <2>2, <2>3, ServedOn DEF Serves
<1>7. ASSUME NEW r \in Requests, Fault(r)
      PROVE  RunningIsServed' /\ RunsAreAudited'
  <2>1. /\ interrupted' = Interrupted({r}) /\ audited' = audited /\ ran' = ran /\ status' = status
    BY <1>7 DEF Fault, rows
  <2>2. \A q \in Requests : q # r => req'[q] = req[q]
    BY <1>7, ReturnEnds DEF Fault
  <2>3. interrupted \subseteq interrupted' /\ \A u : Serves(r, u) => u \in interrupted'
    BY <2>1 DEF Serves, Interrupted
  <2> QED  BY <2>1, <2>2, <2>3, ServedOn
<1>8. ASSUME Crash PROVE RunningIsServed' /\ RunsAreAudited'
  <2>1. /\ interrupted' = Interrupted(Active) /\ audited' = audited /\ ran' = ran /\ status' = status
    BY <1>8 DEF Crash, rows
  <2>2. \A r \in Requests : req[r].pc \in Working => r \in Active
    BY PlaceSets DEF Active
  <2>3. interrupted \subseteq interrupted' /\ \A r \in Requests : \A u : Serves(r, u) => u \in interrupted'
    BY <2>1, <2>2 DEF Serves, Interrupted
  <2> QED  BY <2>1, <2>3 DEF RunningIsServed, RunsAreAudited
<1>9. ASSUME UNCHANGED vars PROVE RunningIsServed' /\ RunsAreAudited'
  BY <1>9 DEF vars, RunningIsServed, RunsAreAudited, Serves
<1>10. \A r \in Requests : Audit(r) => At(r, "w_audit") \/ At(r, "c_audit")
  BY DEF Audit, At
<1>11. ASSUME NEW r \in Requests, Step(r) PROVE RunningIsServed' /\ RunsAreAudited'
  <2>1. CASE Audit(r)
    BY <1>1, <1>5, <1>10, <2>1
  <2>2. CASE UpdateCancelled(r)
    BY <1>6, <2>2
  <2> QED  BY <1>1, <1>2, <1>3, <1>4, <1>11, <2>1, <2>2 DEF Step
<1> QED  BY <1>1, <1>7, <1>8, <1>9, <1>11 DEF Next

-----------------------------------------------------------------------------
(* The theorems *)

TasksInv ==
  /\ TypeOK /\ LogInv /\ WritersAreInOrder /\ TaskInv
  /\ SuccessIsReported /\ RunningIsServed /\ RunsAreAudited

\* At the beginning there are no rows and no requests.
LEMMA TasksInitially == Init => TasksInv
<1> SUFFICES ASSUME Init PROVE TasksInv
  OBVIOUS
<1>1. \A r \in Requests : req[r] = Idle /\ req[r].pc = "idle" /\ req[r].task = None
  BY IdleAndDone DEF Init
<1>2. TypeOK
  <2>1. req \in [Requests -> Request] /\ Active = {}
    BY <1>1, IdleAndDone DEF Init, Active
  <2>2. events \in [Tasks -> Seq(Event)] /\ status \in [Tasks -> TaskStatus]
    BY DEF Init, TaskStatus
  <2> QED  BY <2>1, <2>2 DEF Init, TypeOK
<1>3. LogInv
  <2> SUFFICES ASSUME NEW t \in Tasks
               PROVE  \E n \in 0..Len(events[t]) :
                        /\ Sequences(t) = 1..n
                        /\ \A r \in Requests : req[r].task = t =>
                             /\ req[r].num <= n + 1
                             /\ \A i \in DOMAIN events[t] :
                                  req[r].num # 0 /\ events[t][i].by = r
                                    => events[t][i].seq < req[r].num
    BY DEF LogInv
  <2>1. events[t] = <<>> /\ Len(events[t]) = 0 /\ DOMAIN events[t] = {}
    BY DEF Init
  <2>2. Sequences(t) = 1..0 /\ 0 \in 0..Len(events[t])
    BY <2>1 DEF Sequences
  <2>3. \A r \in Requests : req[r].task # t
    BY <1>1, ConstantsAssumption
  <2> QED  BY <2>2, <2>3
<1>4. WritersAreInOrder
  BY DEF Init, WritersAreInOrder
<1>5. TaskInv
  BY <1>1, NothingToKnow, KnowingPlaces DEF Init, TaskInv, WorkersAreApart, CancelsAgree, At
<1>6. SuccessIsReported /\ RunningIsServed /\ RunsAreAudited
  BY DEF Init, SuccessIsReported, RunningIsServed, RunsAreAudited
<1> QED  BY <1>2, <1>3, <1>4, <1>5, <1>6 DEF TasksInv

\* Whoever writes a task's row or log next, what the others have read of it still
\* fits: add_ops_event between its two transactions, request_cancel_ops_task
\* between select and update, the handlers between two rows.
THEOREM TasksInvariant == Spec => []TasksInv
<1>1. TasksInv /\ [Next]_vars => TasksInv'
  BY TypeStays, LogGoesOn, OrderStays, TasksStay, SuccessStays, ServiceStays DEF TasksInv
<1> QED  BY <1>1, TasksInitially, PTL DEF Spec

\* The log of a task has no gap, and a request's events are in order (add_ops_event).
THEOREM TablesAreSoundHolds == Spec => []TablesAreSound
<1>1. LogInv => LogHasNoGaps
  <2> SUFFICES ASSUME LogInv, NEW t \in Tasks PROVE Sequences(t) = 1..Cardinality(Sequences(t))
    BY DEF LogHasNoGaps
  <2>1. PICK n \in Nat : Sequences(t) = 1..n
    BY NextIsAbove
  <2>2. Cardinality(1..n) = n
    BY FS_Interval
  <2> QED  BY <2>1, <2>2
<1> QED  BY <1>1, TasksInvariant, PTL DEF TasksInv, TablesAreSound

\* No success without a report, no run that is over without an audit row (the order of
\* the writes in the handlers of main.py).
THEOREM RunsAreRecordedHolds == Spec => []RunsAreRecorded
BY TasksInvariant, PTL DEF TasksInv, RunsAreRecorded

\* A late cancel leaves no task running that nobody serves (request_cancel_ops_task).
THEOREM RunningIsServedHolds == Spec => []RunningIsServed
BY TasksInvariant, PTL DEF TasksInv

\* A finished task is rewritten by a cancel only that had read it before
\* (update_ops_task_status, request_cancel_ops_task).
THEOREM FinishedOnceHolds == Spec => FinishedOnce
<1> DEFINE Rewritten(t) ==
      status[t] \in {"succeeded", "failed"} /\ status'[t] # status[t]
        => /\ status'[t] = "cancelled"
           /\ \E r \in Requests : /\ At(r, "c_update") /\ req[r].task = t
                                  /\ req[r].saw \notin {"succeeded", "failed"}
<1>1. ASSUME TasksInv, Next PROVE \A t \in Tasks : Rewritten(t)
  <2>1. ASSUME NEW r \in Requests, UpdateCancelled(r), NEW t \in Tasks PROVE Rewritten(t)
    <3>1. /\ At(r, "c_update")
          /\ t # req[r].task => status'[t] = status[t]
          /\ IF req[r].saw \in Over THEN status'[req[r].task] = req[r].saw
                                    ELSE status'[req[r].task] = "cancelled"
      BY <1>1, <2>1, CancelWrites DEF TasksInv
    <3>2. req[r].saw \in Over => status[req[r].task] \in {req[r].saw, "cancelled"}
      BY <1>1, <3>1 DEF TasksInv, TaskInv, Cancels
    <3> QED  BY <3>1, <3>2 DEF Over
  <2>2. ASSUME NEW r \in Requests,
               CreateTask(r) \/ MarkRunning(r) \/ FinishTask(r) \/ RejectCommand(r),
               NEW t \in Tasks
        PROVE  Rewritten(t)
    <3>1. status[req[r].task] \notin Over
      BY <1>1, <2>2, PlaceSets
      DEF CreateTask, MarkRunning, FinishTask, RejectCommand, TasksInv, TaskInv, Works, At, Over
    <3>2. t # req[r].task => status'[t] = status[t]
      BY <1>1, <2>2 DEF CreateTask, MarkRunning, FinishTask, RejectCommand, SetStatus, TasksInv, TypeOK
    <3> QED  BY <3>1, <3>2 DEF Over
  <2>3. ASSUME NEW r \in Requests,
               \/ Start(r) \/ ReadSequence(r) \/ InsertEvent(r) \/ Progress(r) \/ EndWork(r)
               \/ Audit(r) \/ ReadForCancel(r) \/ Fault(r)
        PROVE  status' = status
    BY <2>3 DEF Start, ReadSequence, InsertEvent, Progress, EndWork, Audit, ReadForCancel, Fault, rows
  <2>4. Crash => status' = status
    BY DEF Crash, rows
  <2> QED  BY <1>1, <2>1, <2>2, <2>3, <2>4 DEF Next, Step
<1>2. TasksInv /\ [Next]_vars => [\A t \in Tasks : Rewritten(t)]_vars
  BY <1>1
<1> QED  BY <1>2, TasksInvariant, PTL DEF Spec, FinishedOnce

-----------------------------------------------------------------------------
(* The command runner *)

\* The deadline lies after the start, time.monotonic() + timeout_seconds.
LEMMA DeadlineIsLater == Deadline \in Nat /\ Deadline > 0
BY TimesAssumption DEF Deadline

\* A child that ended by itself gives one of the statuses of a finished command.
LEMMA CommandStatus == \A text \in BOOLEAN : StatusOfCommand(text) \in Finished
BY DEF StatusOfCommand, Finished

\* The state in which execute_argv is called is well typed.
LEMMA RunnerInitiallyTyped == RunnerInit => RunnerTypeOK
<1>1. <<>> \in Seq({"started", "line", "finished", "cancelled", "timeout"})
  OBVIOUS
<1>2. RunnerInit => helper \in BOOLEAN /\ cancel \in BOOLEAN
  BY Zenon DEF RunnerInit
<1>3. QED BY <1>1, <1>2 DEF RunnerInit, RunnerTypeOK, Places, Natures

\* The reason to end the child is known when the sink is told of it.
LEMMA RunnerStaysTyped ==
  ASSUME RunnerTypeOK, RunnerInv, [RunnerNext]_runnerVars PROVE RunnerTypeOK'
<1> USE DEF RunnerTypeOK, Places, Waiting, Results, Finished, Natures, process, time, EndCall
<1>1. CASE Normalize
  BY <1>1 DEF Normalize
<1>2. CASE CheckBeforeStart
  BY <1>2 DEF CheckBeforeStart
<1>3. CASE FindExecutable
  BY <1>3 DEF FindExecutable
<1>4. CASE EmitStarted
  BY <1>4 DEF EmitStarted, Emit
<1>5. CASE StartChild
  BY <1>5 DEF StartChild
<1>6. CASE CheckToken
  BY <1>6 DEF CheckToken
<1>7. CASE CheckClock
  BY <1>7 DEF CheckClock
<1>8. CASE Communicated
  BY <1>8 DEF Communicated
<1>9. CASE SliceOver
  BY <1>9 DEF SliceOver
<1>10. CASE Terminate
  BY <1>10 DEF Terminate
<1>11. CASE Reap
  BY <1>11 DEF Reap
<1>12. CASE Kill
  BY <1>12 DEF Kill
<1>13. CASE KillFails
  BY <1>13 DEF KillFails
<1>14. CASE EmitEnding
  <2>1. ending \in {"cancelled", "timeout"}
    BY <1>14 DEF EmitEnding, RunnerInv, EndingInv, Ending
  <2>2. QED BY <1>14, <2>1 DEF EmitEnding
<1>15. CASE EmitLine
  BY <1>15 DEF EmitLine, Emit
<1>16. CASE EmitFinished
  BY <1>16 DEF EmitFinished, Emit
<1>17. CASE ReturnResult
  BY <1>17, CommandStatus DEF ReturnResult
<1>18. CASE Cancel
  BY <1>18 DEF Cancel
<1>19. CASE ChildEnds
  BY <1>19 DEF ChildEnds
<1>20. CASE ChildForks
  BY <1>20 DEF ChildForks
<1>21. CASE HelperEnds
  <2>1. helper' \in BOOLEAN
    BY <1>21, Zenon DEF HelperEnds
  <2>2. QED BY <1>21, <2>1 DEF HelperEnds
<1>22. CASE Tick
  BY <1>22 DEF Tick
<1>23. CASE UNCHANGED runnerVars
  BY <1>23 DEF runnerVars
<1>24. QED
  BY <1>1, <1>2, <1>3, <1>4, <1>5, <1>6, <1>7, <1>8, <1>9, <1>10, <1>11,
     <1>12, <1>13, <1>14, <1>15, <1>16, <1>17, <1>18, <1>19, <1>20, <1>21,
     <1>22, <1>23 DEF RunnerNext, Run

\* One step keeps what is known at every place.
LEMMA InvariantHolds ==
  ASSUME RunnerTypeOK, RunnerInv, [RunnerNext]_runnerVars PROVE RunnerInv'
<1> USE DEF RunnerInv, ChildInv, TimeInv, EndingInv, NoChildLeft, ReturnsInTime,
  ResultIsTrue, Before, Looping, Ending, Reporting
<1> USE TimesAssumption, DeadlineIsLater
<1> USE DEF RunnerTypeOK, Places, Waiting, Results, Finished, Natures, process, time, EndCall
<1>1. CASE Normalize
  BY <1>1 DEF Normalize
<1>2. CASE CheckBeforeStart
  BY <1>2 DEF CheckBeforeStart
<1>3. CASE FindExecutable
  BY <1>3 DEF FindExecutable
<1>4. CASE EmitStarted
  BY <1>4 DEF EmitStarted, Emit
<1>5. CASE StartChild
  BY <1>5 DEF StartChild
<1>6. CASE CheckToken
  BY <1>6 DEF CheckToken
<1>7. CASE CheckClock
  BY <1>7 DEF CheckClock, ThisSlice, Least
<1>8. CASE Communicated
  BY <1>8 DEF Communicated, OutputEnded, ThisSlice, Least
<1>9. CASE SliceOver
  BY <1>9 DEF SliceOver, ThisSlice, Least
<1>10. CASE Terminate
  BY <1>10 DEF Terminate
<1>11. CASE Reap
  BY <1>11 DEF Reap
<1>12. CASE Kill
  BY <1>12 DEF Kill
<1>13. CASE KillFails
  <2>1. nature = "unkillable" /\ signal = "kill"
    BY <1>13 DEF KillFails
  <2>2. /\ pc' = "done" /\ result' = "raised"
        /\ UNCHANGED <<child, nature, helper, code, signal, since, clock, waited,
                       cancel, ending>>
    BY <1>13 DEF KillFails
  <2>3. QED BY <1>13, <2>1, <2>2 DEF KillFails
<1>14. CASE EmitEnding
  BY <1>14 DEF EmitEnding
<1>15. CASE EmitLine
  BY <1>15 DEF EmitLine, Emit
<1>16. CASE EmitFinished
  BY <1>16 DEF EmitFinished, Emit
<1>17. CASE ReturnResult
  BY <1>17 DEF ReturnResult, StatusOfCommand
<1>18. CASE Cancel
  BY <1>18 DEF Cancel, ThisSlice, Least
<1>19. CASE ChildEnds
  BY <1>19 DEF ChildEnds, ThisSlice, Least
<1>20. CASE ChildForks
  BY <1>20 DEF ChildForks, ThisSlice, Least
<1>21. CASE HelperEnds
  BY <1>21 DEF HelperEnds, ThisSlice, Least
<1>22. CASE Tick
  <2>1. CASE pc = "communicate"
    BY <1>22, <2>1 DEF Tick, ThisSlice, Least, OutputEnded
  <2>2. CASE pc = "term_wait"
    BY <1>22, <2>2 DEF Tick
  <2>3. CASE pc = "kill_wait"
    <3>1. nature = "unkillable"
      BY <1>22, <2>3 DEF Tick, Dying
    <3>2. /\ waited' = waited + 1 /\ waited < KillWait /\ clock' = clock + 1
          /\ since' = (IF cancel THEN since + 1 ELSE since)
          /\ UNCHANGED <<pc, child, nature, helper, code, signal, cancel, ending,
                         result>>
      BY <1>22, <2>3 DEF Tick
    <3> HIDE DEF RunnerTypeOK
    <3>3. QED BY <2>3, <3>1, <3>2 DEF RunnerTypeOK
  <2>4. QED BY <1>22, <2>1, <2>2, <2>3 DEF Tick
<1>23. CASE UNCHANGED runnerVars
  BY <1>23 DEF runnerVars, ThisSlice, Least
<1>24. QED
  BY <1>1, <1>2, <1>3, <1>4, <1>5, <1>6, <1>7, <1>8, <1>9, <1>10, <1>11,
     <1>12, <1>13, <1>14, <1>15, <1>16, <1>17, <1>18, <1>19, <1>20, <1>21,
     <1>22, <1>23 DEF RunnerNext, Run

\* What is known of the child, of the time spent and of the reason to end it, at
\* every place of the call.
THEOREM RunnerInvariant == RunnerSpec => [](RunnerTypeOK /\ RunnerInv)
<1>1. RunnerInit => RunnerTypeOK /\ RunnerInv
  BY RunnerInitiallyTyped, TimesAssumption, DeadlineIsLater
  DEF RunnerInit, RunnerInv, ChildInv, TimeInv, EndingInv, NoChildLeft, ReturnsInTime,
      ResultIsTrue, Before, Looping, Ending, Reporting, Finished
<1>2. RunnerTypeOK /\ RunnerInv /\ [RunnerNext]_runnerVars => (RunnerTypeOK /\ RunnerInv)'
  BY RunnerStaysTyped, InvariantHolds
<1>3. QED BY <1>1, <1>2, PTL DEF RunnerSpec

\* Every variable keeps its type.
THEOREM RunnerTypeCorrect == RunnerSpec => []RunnerTypeOK
BY RunnerInvariant, PTL

\* The four properties of the result and of the time it takes.
THEOREM ChildIsGone == RunnerSpec => []NoChildLeft
BY RunnerInvariant, PTL DEF RunnerInv

\* The polling loop ends by the deadline, or within a slice of a cancel, and what
\* follows takes no longer than ending the child may: _terminate_process_group.
THEOREM CallIsInTime == RunnerSpec => []ReturnsInTime
BY RunnerInvariant, PTL DEF RunnerInv

\* The status is true of the child, the token and the clock: execute_argv's
\* returns.
THEOREM ResultIsHonest == RunnerSpec => []ResultIsTrue
BY RunnerInvariant, PTL DEF RunnerInv

\* SIGKILL is only for a child that had the whole grace period.
THEOREM KillIsLast == RunnerSpec => KillComesLast
<1>1. RunnerTypeOK /\ RunnerInv /\ [RunnerNext]_runnerVars =>
        [signal' = "kill" /\ signal # "kill" =>
           signal = "term" /\ waited >= Grace /\ child = "running"]_runnerVars
  <2> SUFFICES ASSUME RunnerTypeOK, RunnerInv, RunnerNext, signal' = "kill", signal # "kill"
               PROVE signal = "term" /\ waited >= Grace /\ child = "running"
    BY DEF runnerVars
  <2>1. Terminate => signal' \in {"term", signal}
    BY DEF Terminate
  <2>2. Kill \/ UNCHANGED signal \/ Terminate
    BY DEF RunnerNext, Run, Normalize, CheckBeforeStart, FindExecutable, EmitStarted,
      StartChild, CheckToken, CheckClock, Communicated, SliceOver, Reap, KillFails,
      EmitEnding, EmitLine, EmitFinished, ReturnResult, Cancel, ChildEnds,
      ChildForks, HelperEnds, Tick, process
  <2>3. Kill
    BY <2>1, <2>2
  <2>4. QED BY <2>3 DEF Kill, RunnerInv, ChildInv
<1>2. QED BY <1>1, RunnerInvariant, PTL DEF RunnerSpec, KillComesLast

Kinds == {"started", "line", "finished", "cancelled", "timeout"}

\* What the sink holds after one event more.
LEMMA OneMoreEvent ==
  ASSUME NEW e \in Kinds, told \in Seq(Kinds), told' = Append(told, e)
  PROVE  /\ Len(told) \in Nat /\ Len(told') = Len(told) + 1
         /\ told'[Len(told')] = e /\ told' # <<>>
         /\ \A i \in 1..Len(told) : told'[i] = told[i]
         /\ told # <<>> <=> Len(told) > 0
OBVIOUS

\* No step makes the events disagree with the result.
LEMMA EventsKept ==
  ASSUME RunnerTypeOK, RunnerInv, EventInv, [RunnerNext]_runnerVars PROVE EventInv'
<1> USE DEF EventInv, EventsTellTheResult, OneBeginning, NoEnd, Before, Looping,
  Ending, Finished, EndCall, RunnerTypeOK, Results
<1>1. CASE Normalize
  BY <1>1 DEF Normalize
<1>2. CASE CheckBeforeStart
  BY <1>2 DEF CheckBeforeStart
<1>3. CASE FindExecutable
  BY <1>3 DEF FindExecutable
<1>4. CASE EmitStarted
  <2>1. told = <<>> /\ result = "none"
    BY <1>4 DEF EmitStarted, RunnerInv, EndingInv
  <2>2. CASE UNCHANGED told
    BY <1>4, <2>1, <2>2 DEF EmitStarted, Emit
  <2>3. CASE told' = <<"started">> /\ pc' = "popen" /\ UNCHANGED result
    BY <2>1, <2>3
  <2>4. Append(<<>>, "started") = <<"started">>
    OBVIOUS
  <2>5. QED BY <1>4, <2>1, <2>2, <2>3, <2>4 DEF EmitStarted, Emit
<1>5. CASE StartChild
  BY <1>5 DEF StartChild
<1>6. CASE CheckToken
  BY <1>6 DEF CheckToken
<1>7. CASE CheckClock
  BY <1>7 DEF CheckClock
<1>8. CASE Communicated
  <2>1. /\ told = <<"started">> /\ told' = told /\ result = "none"
        /\ \/ pc' = "report" /\ result' = result
           \/ pc' = "done" /\ result' = "raised"
    BY <1>8 DEF Communicated, RunnerInv, EndingInv
  <2>2. /\ Len(<<"started">>) = 1 /\ <<"started">>[1] = "started"
        /\ <<"started">> # <<>>
    OBVIOUS
  <2> HIDE DEF RunnerTypeOK
  <2>3. QED BY <2>1, <2>2
<1>9. CASE SliceOver
  BY <1>9 DEF SliceOver
<1>10. CASE Terminate
  BY <1>10 DEF Terminate
<1>11. CASE Reap
  BY <1>11 DEF Reap
<1>12. CASE Kill
  BY <1>12 DEF Kill
<1>13. CASE KillFails
  BY <1>13 DEF KillFails
<1>14. CASE EmitEnding
  BY <1>14 DEF EmitEnding, RunnerInv, EndingInv
<1>15. CASE EmitLine
  <2>1. /\ pc = "report" /\ result = "none"
        /\ \/ told' = Append(told, "line") /\ pc' = "report" /\ result' = result
           \/ told' = told /\ pc' = "done" /\ result' = "raised"
    BY <1>15 DEF EmitLine, Emit, RunnerInv, EndingInv
  <2>2. /\ told # <<>> /\ OneBeginning /\ \A i \in 1..Len(told) : NoEnd(i)
        /\ told \in Seq(Kinds)
    BY <2>1 DEF Kinds
  <2> HIDE DEF RunnerTypeOK
  <2>3. CASE told' = Append(told, "line")
    BY <2>1, <2>2, <2>3, OneMoreEvent DEF Kinds
  <2>4. CASE told' = told
    BY <2>1, <2>2, <2>4
  <2>5. QED BY <2>1, <2>3, <2>4
<1>16. CASE EmitFinished
  <2>1. /\ pc = "report" /\ result = "none"
        /\ \/ told' = Append(told, "finished") /\ pc' = "emit_finished" /\ result' = result
           \/ told' = told /\ pc' = "done" /\ result' = "raised"
    BY <1>16 DEF EmitFinished, Emit, RunnerInv, EndingInv
  <2>2. /\ told # <<>> /\ OneBeginning /\ \A i \in 1..Len(told) : NoEnd(i)
        /\ told \in Seq(Kinds)
    BY <2>1 DEF Kinds
  <2> HIDE DEF RunnerTypeOK
  <2>3. CASE told' = Append(told, "finished")
    BY <2>1, <2>2, <2>3, OneMoreEvent DEF Kinds
  <2>4. CASE told' = told
    BY <2>1, <2>2, <2>4
  <2>5. QED BY <2>1, <2>3, <2>4
<1>17. CASE ReturnResult
  BY <1>17 DEF ReturnResult, StatusOfCommand
<1>18. CASE Cancel
  BY <1>18 DEF Cancel
<1>19. CASE ChildEnds
  BY <1>19 DEF ChildEnds
<1>20. CASE ChildForks
  BY <1>20 DEF ChildForks
<1>21. CASE HelperEnds
  BY <1>21 DEF HelperEnds
<1>22. CASE Tick
  BY <1>22 DEF Tick
<1>23. CASE UNCHANGED runnerVars
  BY <1>23 DEF runnerVars
<1>24. QED
  BY <1>1, <1>2, <1>3, <1>4, <1>5, <1>6, <1>7, <1>8, <1>9, <1>10, <1>11,
     <1>12, <1>13, <1>14, <1>15, <1>16, <1>17, <1>18, <1>19, <1>20, <1>21,
     <1>22, <1>23 DEF RunnerNext, Run

\* What the sink was told agrees with what the caller is told.
THEOREM EventsAgree == RunnerSpec => []EventsTellTheResult
<1>1. RunnerInit => EventInv
  BY DEF RunnerInit, EventInv, EventsTellTheResult, OneBeginning, NoEnd, Before,
    Looping, Ending, Finished
<1>2. RunnerTypeOK /\ RunnerInv /\ EventInv /\ [RunnerNext]_runnerVars => EventInv'
  BY EventsKept
<1>3. EventInv => EventsTellTheResult
  BY DEF EventInv
<1>4. QED BY <1>1, <1>2, <1>3, RunnerInvariant, PTL DEF RunnerSpec

\* execute_argv's result is true, and agrees with the events it has sent.
THEOREM ResultAndEvents == RunnerSpec => []ResultIsTold
BY ResultIsHonest, EventsAgree, PTL DEF ResultIsTold

=============================================================================
