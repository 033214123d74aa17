-------------------------------- MODULE Tasks --------------------------------
(***************************************************************************)
(* Tasks that need no approval (backend/app/main.py: create_task, the      *)
(* docker and nginx diagnoses, terminal_run), their cancellation and the   *)
(* event log they write (backend/app/storage/db.py: add_ops_event).        *)
(*                                                                         *)
(* A handler runs the whole task inside its request.  cancel_task runs in  *)
(* another request and only writes rows: the handler never reads them, and *)
(* no handler passes a CancelToken to the runner.                          *)
(*                                                                         *)
(* Every action is one transaction.  add_ops_event is two: it reads the    *)
(* highest sequence number in one and inserts the event in another.        *)
(*                                                                         *)
(* Left out: subtasks, stored tool results and timestamps, which no guard  *)
(* reads.  Prefixes of pc: w_ the handler that works, c_ cancel_task.      *)
(***************************************************************************)
EXTENDS Naturals, Sequences, FiniteSets, FiniteSetsExt

CONSTANTS
  Tasks,      \* task ids
  Requests,   \* requests of one run; each is served once
  None,       \* no task
  MaxEvents,  \* bound on the events a handler emits between start and report
  MaxFaults,  \* bound on failing calls
  MaxCrashes  \* bound on process kills

ASSUME ConstantsAssumption ==
  /\ None \notin Tasks
  /\ MaxEvents \in Nat /\ MaxFaults \in Nat /\ MaxCrashes \in Nat

VARIABLES
  status,           \* ops_tasks.status
  cancelRequested,  \* tasks with ops_tasks.cancel_requested = 1
  events,           \* rows of ops_events, by task, in the order of insertion
  audited,          \* audit rows, as <<kind, task>>
  ran,              \* tasks whose tools have run
  req,              \* the requests and their local variables
  interrupted,      \* tasks whose handler was cut short
  faults,           \* failing calls so far
  crashes           \* process kills so far

rows == <<status, cancelRequested, events, audited>>
vars == <<status, cancelRequested, events, audited, ran, req,
          interrupted, faults, crashes>>

TaskStatus == {"none", "pending", "running", "cancelled", "failed", "succeeded"}

\* create_task without and with simulate, a diagnosis, terminal_run
Flows == {"plain", "simulated", "diagnosis", "terminal"}

\* Where a request is inside add_ops_event, and the event it adds there.
EventAt == [w_created |-> "task_created", w_progress |-> "progress",
            w_rejected |-> "command_rejected", w_report |-> "final_report",
            c_event |-> "cancel_requested"]
Adding == DOMAIN EventAt
\* The handler's places from the row it creates to the end of its work.
Working == {"w_running", "w_work", "w_finish", "w_reject", "w_audit"}
             \cup (Adding \ {"c_event"})
Cancelling == {"c_read", "c_update", "c_event", "c_audit"}
PCs == {"idle", "w_create", "done"} \cup Working \cup Cancelling

Idle == [pc |-> "idle", task |-> None, flow |-> "plain", left |-> 0,
         num |-> 0, ok |-> FALSE, saw |-> "none"]
Done == [Idle EXCEPT !.pc = "done"]

At(r, pc) == req[r].pc = pc
Goto(r, pc) == req' = [req EXCEPT ![r].pc = pc]
Return(r) == req' = [req EXCEPT ![r] = Done]
Active == {r \in Requests : req[r].pc \notin {"idle", "done"}}
SetStatus(t, s) == status' = [status EXCEPT ![t] = s]
Unharmed == UNCHANGED <<interrupted, faults, crashes>>

(***************************************************************************)
(* Requests arrive.                                                        *)
(***************************************************************************)
\* A handler starts work on a new task (uuid4), cancel_task on a listed one.
Start(r) ==
  /\ At(r, "idle")
  /\ \E t \in Tasks :
       \/ /\ status[t] = "none" /\ \A q \in Requests : req[q].task # t
          /\ \E flow \in Flows :
               req' = [req EXCEPT ![r] = [Idle EXCEPT
                 !.pc = "w_create", !.task = t, !.flow = flow, !.left = MaxEvents]]
       \/ /\ status[t] # "none"
          /\ req' = [req EXCEPT ![r] = [Idle EXCEPT !.pc = "c_read", !.task = t]]
  /\ UNCHANGED <<rows, ran>>
  /\ Unharmed

(***************************************************************************)
(* add_ops_event.                                                          *)
(***************************************************************************)
Sequences(t) == {events[t][i].seq : i \in DOMAIN events[t]}

\* Mutant: the events are counted instead of taking the highest number.
CountedSequence(t) == Len(events[t]) + 1

\* _next_ops_event_sequence
NextSequence(t) == Max(Sequences(t) \cup {0}) + 1

ReadSequence(r) ==
  /\ req[r].pc \in Adding
  /\ req[r].num = 0
  /\ req' = [req EXCEPT ![r].num = NextSequence(req[r].task)]
  /\ UNCHANGED <<rows, ran>>
  /\ Unharmed

\* Where the caller goes on.
AfterEvent(r) ==
  CASE At(r, "w_created") ->
         IF req[r].flow = "plain" THEN "w_audit" ELSE "w_running"
    [] At(r, "w_progress") -> "w_work"
    [] At(r, "w_rejected") -> "w_reject"
    [] At(r, "w_report")   -> "w_finish"
    [] At(r, "c_event")    -> "c_audit"

\* Nothing makes (scope, scope_id, sequence) unique.
InsertEvent(r) ==
  /\ req[r].pc \in Adding
  /\ req[r].num # 0
  /\ events' = [events EXCEPT ![req[r].task] = Append(@,
       [seq |-> req[r].num, type |-> EventAt[req[r].pc], by |-> r])]
  /\ req' = [req EXCEPT ![r].num = 0, ![r].pc = AfterEvent(r)]
  /\ UNCHANGED <<status, cancelRequested, audited, ran>>
  /\ Unharmed

(***************************************************************************)
(* The handlers that work.                                                 *)
(***************************************************************************)
\* The insert of create_ops_task
CreateTask(r) ==
  /\ At(r, "w_create")
  /\ SetStatus(req[r].task, "pending")
  /\ Goto(r, "w_created")
  /\ UNCHANGED <<cancelRequested, events, audited, ran>>
  /\ Unharmed

\* update_ops_task_status(..., "running"), whatever the row holds by now
MarkRunning(r) ==
  /\ At(r, "w_running")
  /\ SetStatus(req[r].task, "running")
  /\ Goto(r, "w_work")
  /\ UNCHANGED <<cancelRequested, events, audited, ran>>
  /\ Unharmed

\* tool_call, tool_result, command_started, stdout, ...: one more event.
Progress(r) ==
  /\ At(r, "w_work")
  /\ req[r].left > 0
  /\ req' = [req EXCEPT ![r].pc = "w_progress", ![r].left = @ - 1]
  /\ ran' = ran \cup {req[r].task}
  /\ UNCHANGED rows
  /\ Unharmed

\* The tools are through, or the runner refused the argv before it started
\* anything (AgentCommandRejected, which only terminal_run can meet).
EndWork(r) ==
  /\ At(r, "w_work")
  /\ \/ /\ \E ok \in BOOLEAN :
             req' = [req EXCEPT ![r].pc = "w_report", ![r].ok = ok]
        /\ ran' = ran \cup {req[r].task}
     \/ /\ req[r].flow = "terminal" /\ req[r].left = MaxEvents
        /\ Goto(r, "w_rejected")
        /\ UNCHANGED ran
  /\ UNCHANGED rows
  /\ Unharmed

\* Mutant: a failed command ends the request before the audit.
FinishUnaudited(r) ==
  /\ At(r, "w_finish")
  /\ SetStatus(req[r].task, IF req[r].ok THEN "succeeded" ELSE "failed")
  /\ IF req[r].ok THEN Goto(r, "w_audit") ELSE Return(r)
  /\ UNCHANGED <<cancelRequested, events, audited, ran>>
  /\ Unharmed

\* Only terminal_run looks at the result; a diagnosis always succeeds.
FinishTask(r) ==
  /\ At(r, "w_finish")
  /\ SetStatus(req[r].task,
       IF req[r].flow = "terminal" /\ ~req[r].ok THEN "failed" ELSE "succeeded")
  /\ Goto(r, "w_audit")
  /\ UNCHANGED <<cancelRequested, events, audited, ran>>
  /\ Unharmed

\* Mutant: the except clause only answers.
RejectSilently(r) ==
  /\ At(r, "w_reject")
  /\ Return(r)
  /\ UNCHANGED <<rows, ran>>
  /\ Unharmed

\* The except clause of terminal_run; it answers 422 and writes no audit row.
RejectCommand(r) ==
  /\ At(r, "w_reject")
  /\ SetStatus(req[r].task, "failed")
  /\ Return(r)
  /\ UNCHANGED <<cancelRequested, events, audited, ran>>
  /\ Unharmed

\* insert_audit, the last call of the handlers and of cancel_task
Audit(r) ==
  /\ req[r].pc \in {"w_audit", "c_audit"}
  /\ audited' = audited \cup
       {<<IF At(r, "w_audit") THEN "work" ELSE "cancel", req[r].task>>}
  /\ Return(r)
  /\ UNCHANGED <<status, cancelRequested, events, ran>>
  /\ Unharmed

(***************************************************************************)
(* request_cancel_ops_task.  sqlite3 opens a transaction at the update, so *)
(* another request may write between the select and the update.            *)
(***************************************************************************)
ReadForCancel(r) ==
  /\ At(r, "c_read")
  /\ req' = [req EXCEPT ![r].pc = "c_update", ![r].saw = status[req[r].task]]
  /\ UNCHANGED <<rows, ran>>
  /\ Unharmed

\* Mutant: the cancel keeps the status it has read, and only sets the flag.
CancelWritesBack(r) ==
  /\ At(r, "c_update")
  /\ cancelRequested' = cancelRequested \cup {req[r].task}
  /\ SetStatus(req[r].task, req[r].saw)
  /\ Goto(r, "c_event")
  /\ UNCHANGED <<events, audited, ran>>
  /\ Unharmed

\* Mutant: every task is cancelled, a finished one too.
CancelAny(r) ==
  /\ At(r, "c_update")
  /\ cancelRequested' = cancelRequested \cup {req[r].task}
  /\ SetStatus(req[r].task, "cancelled")
  /\ Goto(r, "c_event")
  /\ UNCHANGED <<events, audited, ran>>
  /\ Unharmed

UpdateCancelled(r) ==
  /\ At(r, "c_update")
  /\ cancelRequested' = cancelRequested \cup {req[r].task}
  /\ SetStatus(req[r].task,
       IF req[r].saw \in {"pending", "running"} THEN "cancelled" ELSE req[r].saw)
  /\ Goto(r, "c_event")
  /\ UNCHANGED <<events, audited, ran>>
  /\ Unharmed

(***************************************************************************)
(* Failures.                                                               *)
(***************************************************************************)
Interrupted(R) == interrupted \cup {req[r].task : r \in {x \in R : req[x].pc \in Working}}

\* The next call of r raises (the database stays locked, a tool raises, the
\* killed command does not go away): no handler catches it.
Fault(r) ==
  /\ r \in Active
  /\ faults < MaxFaults
  /\ faults' = faults + 1
  /\ interrupted' = Interrupted({r})
  /\ Return(r)
  /\ UNCHANGED <<rows, ran, crashes>>

\* The process is killed and started again.  Start-up repairs no row.
Crash ==
  /\ Active # {}
  /\ crashes < MaxCrashes
  /\ crashes' = crashes + 1
  /\ interrupted' = Interrupted(Active)
  /\ req' = [r \in Requests |-> IF r \in Active THEN Done ELSE req[r]]
  /\ UNCHANGED <<rows, ran, faults>>

-----------------------------------------------------------------------------
Init ==
  /\ status = [t \in Tasks |-> "none"]
  /\ cancelRequested = {}
  /\ events = [t \in Tasks |-> <<>>]
  /\ audited = {}
  /\ ran = {}
  /\ req = [r \in Requests |-> Idle]
  /\ interrupted = {}
  /\ faults = 0
  /\ crashes = 0

\* The steps a started request takes by itself.
Step(r) ==
  \/ ReadSequence(r) \/ InsertEvent(r)
  \/ CreateTask(r) \/ MarkRunning(r) \/ Progress(r) \/ EndWork(r)
  \/ FinishTask(r) \/ RejectCommand(r) \/ Audit(r)
  \/ ReadForCancel(r) \/ UpdateCancelled(r)

Next ==
  \/ \E r \in Requests : Start(r) \/ Step(r) \/ Fault(r)
  \/ Crash

Spec == Init /\ [][Next]_vars

\* The thread pool runs every request it has started.
LiveSpec == Spec /\ \A r \in Requests : WF_vars(Step(r))

-----------------------------------------------------------------------------
(***************************************************************************)
(* Properties.                                                             *)
(***************************************************************************)
Event == [seq : Nat \ {0}, type : {EventAt[pc] : pc \in Adding}, by : Requests]
Request == [pc : PCs, task : Tasks \cup {None}, flow : Flows, left : 0..MaxEvents,
            num : Nat, ok : BOOLEAN, saw : TaskStatus]

\* Every variable holds what the tables and the handlers can hold.
TypeOK ==
  /\ status \in [Tasks -> TaskStatus]
  /\ cancelRequested \subseteq Tasks
  /\ events \in [Tasks -> Seq(Event)]
  /\ audited \subseteq {"work", "cancel"} \X Tasks
  /\ ran \subseteq Tasks
  /\ req \in [Requests -> Request]
  /\ \A r \in Active : req[r].task \in Tasks
  /\ interrupted \subseteq Tasks
  /\ faults \in Nat
  /\ crashes \in Nat

Serves(r, t) == req[r].task = t /\ req[r].pc \in Working

\* The sequence numbers of a task's log have no gap, although they are read and
\* used in different transactions: a client that has seen 1..n has missed no
\* number up to n (two events may still share one).
LogHasNoGaps ==
  \A t \in Tasks : Sequences(t) = 1..Cardinality(Sequences(t))

\* One request's events are numbered in the order in which it adds them, so the
\* final report sorts after all that its handler did.
WritersAreInOrder ==
  \A t \in Tasks : \A i, j \in DOMAIN events[t] :
    i < j /\ events[t][i].by = events[t][j].by
      => events[t][i].seq < events[t][j].seq

\* The tables hold what clients rely on: rows of the types the handlers know, a
\* log without gaps, and in it each request's events in order.
TablesAreSound == TypeOK /\ LogHasNoGaps /\ WritersAreInOrder

\* A success is on record before it is visible: who sees "succeeded" finds the
\* final report in the log.
SuccessIsReported ==
  \A t \in Tasks : status[t] = "succeeded" =>
    \E i \in DOMAIN events[t] : events[t][i].type = "final_report"

\* A running task has a request that works on it.  A crash, and an exception no
\* handler catches, are the only ways to leave one behind; a late cancel is not.
RunningIsServed ==
  \A t \in Tasks : status[t] = "running" =>
    t \in interrupted \/ \E r \in Requests : Serves(r, t)

\* What has run is audited (.omx/plans/test-spec-aiops-capability-roadmap-
\* 20260709T102123Z.md:47), also when the command failed or was cancelled.
RunsAreAudited ==
  \A t \in ran :
    \/ <<"work", t>> \in audited
    \/ t \in interrupted
    \/ \E r \in Requests : Serves(r, t)

\* Status, log and audit are written one after the other, in an order that lets
\* no success be seen unreported and no run that is over be found unaudited.
RunsAreRecorded == SuccessIsReported /\ RunsAreAudited

\* A task is finished once: after that only a cancel that had read the row
\* before rewrites its status, and to "cancelled".
FinishedOnce ==
  [][\A t \in Tasks :
       status[t] \in {"succeeded", "failed"} /\ status'[t] # status[t]
         => /\ status'[t] = "cancelled"
            /\ \E r \in Requests : /\ At(r, "c_update") /\ req[r].task = t
                                   /\ req[r].saw \notin {"succeeded", "failed"}]_vars

\* A running task comes to an end.
RunningEnds ==
  \A t \in Tasks :
    status[t] = "running" ~> (status[t] # "running" \/ t \in interrupted)

\* "(scope, scope_id, sequence) is unique" (.omx/plans/test-spec-agent-ops-
\* production-ga-20260710.md:150).  It does not hold: two requests that add
\* events to one task read the same number.
SequencesAreUnique ==
  \A t \in Tasks : \A i, j \in DOMAIN events[t] :
    events[t][i].seq = events[t][j].seq => i = j

\* "Cancel running task: ... the final status is cancelled, or failed with
\* reason" (.omx/plans/test-spec-aiops-capability-roadmap-20260709T102123Z.md:43).
\* It does not hold: the handler finishes the task over the cancel, or a second
\* cancel writes back the success it had read.
CancelledIsNotUndone ==
  [][\A t \in Tasks : status[t] = "cancelled" => status'[t] # "succeeded"]_vars
-----------------------------------------------------------------------------
(***************************************************************************)
(* The inductive invariants behind the safety properties.                  *)
(***************************************************************************)
Over == {"succeeded", "failed"}
AtWork == {"w_create"} \cup Working
Unfinished == Working \ {"w_audit"}
NotStarted == {"w_create", "w_created", "w_running", "w_work"}
Refused == {"w_rejected", "w_reject"}

Reported(t) == \E i \in DOMAIN events[t] : events[t][i].type = "final_report"

\* A number that was read is at most one above the log as it is now, and above
\* all that its reader has added.
LogInv ==
  \A t \in Tasks : \E n \in 0..Len(events[t]) :
    /\ Sequences(t) = 1..n
    /\ \A r \in Requests : req[r].task = t =>
         /\ req[r].num <= n + 1
         /\ \A i \in DOMAIN events[t] :
              req[r].num # 0 /\ events[t][i].by = r => events[t][i].seq < req[r].num

\* A task has one handler.
WorkersAreApart ==
  \A r, q \in Requests :
    req[r].pc \in AtWork /\ req[q].pc \in AtWork /\ req[r].task = req[q].task => r = q

\* What a handler knows of its task's row, although others may write it.
Works(r) ==
  LET t == req[r].task IN
  /\ At(r, "w_create") => status[t] = "none"
  /\ req[r].pc \in Working => status[t] # "none"
  /\ req[r].pc \in Unfinished => status[t] \notin Over
  /\ req[r].pc \in {"w_created", "w_audit"} => status[t] # "running"
  /\ At(r, "w_finish") => Reported(t)
  /\ At(r, "w_progress") => req[r].left # MaxEvents
  /\ req[r].pc \in NotStarted /\ req[r].left = MaxEvents => t \notin ran
  /\ req[r].pc \in Refused => t \notin ran

\* What cancel_task has read is out of date only if another cancel came between:
\* the handler was through.
Cancels(r) ==
  LET t == req[r].task IN
  /\ req[r].pc \in Cancelling => status[t] # "none"
  /\ At(r, "c_update") =>
       /\ req[r].saw # "none"
       /\ req[r].saw = "succeeded" => Reported(t)
       /\ req[r].saw \in Over =>
            /\ status[t] \in {req[r].saw, "cancelled"}
            /\ \A q \in Requests : req[q].task = t => req[q].pc \notin Unfinished

\* Cancels that found a task over agree on how it ended.
CancelsAgree ==
  \A r, q \in Requests :
    /\ At(r, "c_update") /\ At(q, "c_update") /\ req[r].task = req[q].task
    /\ req[r].saw \in Over /\ req[q].saw \in Over
    => req[r].saw = req[q].saw

TaskInv ==
  /\ WorkersAreApart
  /\ CancelsAgree
  /\ \A r \in Requests : Works(r) /\ Cancels(r)
  /\ \A t \in ran : status[t] # "none"
=============================================================================
