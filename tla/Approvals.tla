------------------------------ MODULE Approvals ------------------------------
(***************************************************************************)
(* The approval endpoints of the control plane (backend/app/main.py):      *)
(* creating an approval with its linked task, approving it, denying it and *)
(* cancelling the task.                                                    *)
(*                                                                         *)
(* FastAPI runs these handlers on a thread pool, and every db.* call opens *)
(* its own SQLite connection and commits on its own.  A request is         *)
(* therefore a thread that performs one transaction per step, and between  *)
(* two steps any other request may run, the call may fail (the database    *)
(* stays locked, an adapter raises), or the process may be killed.         *)
(*                                                                         *)
(* The rows that no handler and no property reads (ops_subtasks, the events *)
(* of a task, tool_results) are left out; Tasks models the event log.      *)
(*                                                                         *)
(* Prefixes of pc: n_ create_approval_task, g_ _approval_for, a_ approve,  *)
(* x_ and f_ mark_approval_failed, d_ deny, c_ cancel_task.                *)
(***************************************************************************)
EXTENDS Naturals, FiniteSets

CONSTANTS
  Approvals,     \* approval ids; a linked task is named by its approval
  Sessions,      \* login sessions
  Requests,      \* request threads
  EnabledKinds,  \* kinds whose tool is enabled in the registry ({} in R0)
  None,          \* no approval, no session
  MaxFaults,     \* bound on failing calls
  MaxCrashes     \* bound on process kills

\* What approve() tells apart: the linked task's type.
Kinds == {"file.write", "systemd.approval"}

ASSUME ConstantsAssumption ==
  /\ None \notin Approvals \cup Sessions
  /\ EnabledKinds \subseteq Kinds
  /\ MaxFaults \in Nat
  /\ MaxCrashes \in Nat

VARIABLES
  live,         \* sessions that are neither revoked nor expired
  approval,     \* rows of table approvals
  overdue,      \* approvals whose expires_at has passed
  task,         \* status of the linked row of table ops_tasks
  trail,        \* audit rows and diagnosis events, by approval
  executions,   \* how often an approval's adapter has run with approved=True
  req,          \* the request threads and their local variables
  interrupted,  \* approvals whose decision was cut short
  faults,       \* failing calls so far
  crashes       \* process kills so far

store == <<live, approval, overdue, task, trail>>
vars == <<live, approval, overdue, task, trail, executions, req,
          interrupted, faults, crashes>>

ApprovalStatus ==
  {"absent", "pending", "executing", "approved", "denied", "expired", "failed"}
TaskStatus == {"none", "waiting_approval", "cancelled", "failed", "succeeded"}

\* The audit rows and the diagnosis event that a property or a guard reads.
Records == {"approval_required", "approved", "failed", "denied"}

Creating == {"n_approval", "n_task", "g_approval", "g_event"}
\* mark_approval_failed called for a disabled tool, inside the try block
Refusing == {"x_status", "x_task", "x_audit"}
\* inside approve()'s try block, where an exception leads to mark_approval_failed
InTry == {"a_invoke", "a_store", "a_write", "a_task", "a_status", "a_audit"}
           \cup Refusing
\* mark_approval_failed called by the except clauses
Failing == {"f_status", "f_task", "f_audit"}
Denying == {"d_read", "d_status", "d_link", "d_task", "d_audit"}
Cancelling == {"c_read", "c_update"}
PCs == {"idle", "a_read", "a_expire", "a_claim", "a_link"}
         \cup Creating \cup InTry \cup Failing \cup Denying \cup Cancelling
\* where a request has begun to decide an approval
Deciding == {"a_link"} \cup InTry \cup Failing
              \cup (Denying \ {"d_read", "d_status"})

(***************************************************************************)
(* Threads.                                                                *)
(***************************************************************************)
Idle == [pc |-> "idle", ap |-> None, by |-> None, linked |-> FALSE,
         ok |-> FALSE, saw |-> "none"]

At(r, pc) == req[r].pc = pc
Goto(r, pc) == req' = [req EXCEPT ![r].pc = pc]
Return(r) == req' = [req EXCEPT ![r] = Idle]

Decisive == {r \in Requests : req[r].pc \in Deciding}

SetStatus(a, status) == approval' = [approval EXCEPT ![a].status = status]

\* Budgets and ghosts that ordinary steps leave alone.
Unharmed == UNCHANGED <<interrupted, faults, crashes>>

\* A client learns an approval id from the task row, or from the event of the
\* diagnosis that asked for it.
Known(a) == task[a] # "none" \/ <<"approval_required", a>> \in trail

Fresh(a) ==
  /\ approval[a].status = "absent"
  /\ \A r \in Requests : req[r].ap # a

(***************************************************************************)
(* The environment: clients and the clock.                                 *)
(***************************************************************************)
\* Logout, or the session's eight hours are over.
EndSession(s) ==
  /\ s \in live
  /\ live' = live \ {s}
  /\ UNCHANGED <<approval, overdue, task, trail, executions, req>>
  /\ Unharmed

\* The approval's ten minutes are over.  Nothing in the program reacts to it.
PassDeadline(a) ==
  /\ approval[a].status # "absent"
  /\ a \notin overdue
  /\ overdue' = overdue \cup {a}
  /\ UNCHANGED <<live, approval, task, trail, executions, req>>
  /\ Unharmed

\* A request arrives.  require_identity looks the session up once, here.  A
\* new approval gets an id that was never used (uuid4).
Start(r) ==
  /\ At(r, "idle")
  /\ \E s \in Sessions, a \in Approvals, pc \in PCs :
       /\ s \in live
       /\ \/ pc \in {"n_approval", "g_approval"} /\ Fresh(a)
          \/ pc \in {"a_read", "d_read", "c_read"} /\ Known(a)
       /\ req' = [req EXCEPT ![r].pc = pc, ![r].by = s, ![r].ap = a]
  /\ UNCHANGED <<store, executions>>
  /\ Unharmed

(***************************************************************************)
(* Creating an approval: the approval row first, the task row second.      *)
(***************************************************************************)
CreateApproval(r) ==
  /\ req[r].pc \in {"n_approval", "g_approval"}
  /\ \E kind \in Kinds :
       approval' = [approval EXCEPT ![req[r].ap] =
         [status |-> "pending", owner |-> req[r].by, kind |-> kind]]
  /\ Goto(r, IF At(r, "n_approval") THEN "n_task" ELSE "g_event")
  /\ UNCHANGED <<live, overdue, task, trail, executions>>
  /\ Unharmed

CreateTask(r) ==
  /\ At(r, "n_task")
  /\ task' = [task EXCEPT ![req[r].ap] = "waiting_approval"]
  /\ Return(r)
  /\ UNCHANGED <<live, approval, overdue, trail, executions>>
  /\ Unharmed

(***************************************************************************)
(* Approving.                                                              *)
(***************************************************************************)
\* Mutant: the session of the approval is not compared.
ReadAnyones(r) ==
  LET row == approval[req[r].ap] IN
  /\ At(r, "a_read")
  /\ \/ row.status # "pending" /\ Return(r)
     \/ row.status = "pending" /\ Goto(r, "a_claim")
  /\ UNCHANGED <<store, executions>>
  /\ Unharmed

\* get_approval, then the checks against the row it returned.
ReadForApprove(r) ==
  LET row == approval[req[r].ap] IN
  /\ At(r, "a_read")
  /\ \/ /\ row.status # "pending" \/ row.owner # req[r].by
        /\ Return(r)
     \/ /\ row.status = "pending" /\ row.owner = req[r].by
        /\ Goto(r, IF req[r].ap \in overdue THEN "a_expire" ELSE "a_claim")
  /\ UNCHANGED <<store, executions>>
  /\ Unharmed

\* The row is overwritten whatever it holds by now.
MarkExpired(r) ==
  /\ At(r, "a_expire")
  /\ SetStatus(req[r].ap, "expired")
  /\ Return(r)
  /\ UNCHANGED <<live, overdue, task, trail, executions>>
  /\ Unharmed

\* Mutant: the update lost its "and status = 'pending'".
ClaimUnconditionally(r) ==
  /\ At(r, "a_claim")
  /\ SetStatus(req[r].ap, "executing")
  /\ Goto(r, "a_link")
  /\ UNCHANGED <<live, overdue, task, trail, executions>>
  /\ Unharmed

\* transition_approval_status: update ... where status = 'pending'
Claim(r) ==
  /\ At(r, "a_claim")
  /\ \/ /\ approval[req[r].ap].status = "pending"
        /\ SetStatus(req[r].ap, "executing")
        /\ Goto(r, "a_link")
     \/ /\ approval[req[r].ap].status # "pending"
        /\ Return(r)
        /\ UNCHANGED approval
  /\ UNCHANGED <<live, overdue, task, trail, executions>>
  /\ Unharmed

\* get_ops_task_by_approval_id, in approve() and in deny()
FindTask(r) ==
  /\ req[r].pc \in {"a_link", "d_link"}
  /\ LET linked == task[req[r].ap] # "none" IN
       req' = [req EXCEPT ![r].linked = linked,
         ![r].pc = IF At(r, "a_link") THEN "a_invoke"
                   ELSE IF linked THEN "d_task" ELSE "d_audit"]
  /\ UNCHANGED <<store, executions>>
  /\ Unharmed

\* invoke_tool(..., approved=True): a disabled tool answers without running,
\* an enabled one runs and reports success, reports an error, or raises.
Invoke(r) ==
  LET a == req[r].ap IN
  /\ At(r, "a_invoke")
  /\ \/ /\ approval[a].kind \notin EnabledKinds
        /\ Goto(r, "a_store")
        /\ UNCHANGED executions
     \/ /\ approval[a].kind \in EnabledKinds
        /\ executions' = [executions EXCEPT ![a] = @ + 1]
        /\ \/ \E ok \in BOOLEAN :
                req' = [req EXCEPT ![r].pc = "a_store", ![r].ok = ok]
           \/ Goto(r, "f_status")
  /\ UNCHANGED store
  /\ Unharmed

\* Mutant: the answer "disabled" is treated like any other result.
StoreUnrefused(r) ==
  /\ At(r, "a_store")
  /\ Goto(r, IF req[r].linked THEN "a_task" ELSE "a_status")
  /\ UNCHANGED <<store, executions>>
  /\ Unharmed

\* store_tool_result, then the branch on its status and on the linked task
StoreResult(r) ==
  LET kind == approval[req[r].ap].kind IN
  /\ At(r, "a_store")
  /\ Goto(r, IF kind \notin EnabledKinds THEN "x_status"
             ELSE IF ~req[r].linked THEN "a_status"
             ELSE IF kind = "file.write" THEN "a_write"
             ELSE "a_task")
  /\ UNCHANGED <<store, executions>>
  /\ Unharmed

\* execute_approved_file_write: it raises when the file has changed since
\* the diff was taken, and writes otherwise.
WriteFile(r) ==
  /\ At(r, "a_write")
  /\ Goto(r, "a_task") \/ Goto(r, "f_status")
  /\ UNCHANGED <<store, executions>>
  /\ Unharmed

FinishTask(r) ==
  /\ At(r, "a_task")
  /\ task' = [task EXCEPT ![req[r].ap] =
                IF req[r].ok THEN "succeeded" ELSE "failed"]
  /\ Goto(r, "a_status")
  /\ UNCHANGED <<live, approval, overdue, trail, executions>>
  /\ Unharmed

\* Mutant: the audit row of a success is forgotten.
ApprovedUnaudited(r) ==
  /\ At(r, "a_status")
  /\ SetStatus(req[r].ap, "approved")
  /\ Return(r)
  /\ UNCHANGED <<live, overdue, task, trail, executions>>
  /\ Unharmed

MarkApproved(r) ==
  /\ At(r, "a_status")
  /\ SetStatus(req[r].ap, "approved")
  /\ Goto(r, "a_audit")
  /\ UNCHANGED <<live, overdue, task, trail, executions>>
  /\ Unharmed

\* Mutant: the linked task is not told.
FailedAlone(r) ==
  /\ req[r].pc \in {"f_status", "x_status"}
  /\ SetStatus(req[r].ap, "failed")
  /\ Goto(r, IF At(r, "f_status") THEN "f_audit" ELSE "x_audit")
  /\ UNCHANGED <<live, overdue, task, trail, executions>>
  /\ Unharmed

\* Mutant: a failed approval is reopened, so that it can be tried again.
FailedReopens(r) ==
  /\ req[r].pc \in {"f_status", "x_status"}
  /\ SetStatus(req[r].ap, "pending")
  /\ Goto(r, IF req[r].linked THEN "f_task" ELSE "f_audit")
  /\ UNCHANGED <<live, overdue, task, trail, executions>>
  /\ Unharmed

\* mark_approval_failed
MarkFailed(r) ==
  /\ \/ At(r, "f_status") /\ Goto(r, IF req[r].linked THEN "f_task" ELSE "f_audit")
     \/ At(r, "x_status") /\ Goto(r, IF req[r].linked THEN "x_task" ELSE "x_audit")
  /\ SetStatus(req[r].ap, "failed")
  /\ UNCHANGED <<live, overdue, task, trail, executions>>
  /\ Unharmed

FailTask(r) ==
  /\ \/ At(r, "f_task") /\ Goto(r, "f_audit")
     \/ At(r, "x_task") /\ Goto(r, "x_audit")
  /\ task' = [task EXCEPT ![req[r].ap] = "failed"]
  /\ UNCHANGED <<live, approval, overdue, trail, executions>>
  /\ Unharmed

(***************************************************************************)
(* Denying: no compare-and-set, no look at the deadline.                   *)
(***************************************************************************)
ReadForDeny(r) ==
  LET row == approval[req[r].ap] IN
  /\ At(r, "d_read")
  /\ \/ /\ row.status # "pending" \/ row.owner # req[r].by
        /\ Return(r)
     \/ /\ row.status = "pending" /\ row.owner = req[r].by
        /\ Goto(r, "d_status")
  /\ UNCHANGED <<store, executions>>
  /\ Unharmed

MarkDenied(r) ==
  /\ At(r, "d_status")
  /\ SetStatus(req[r].ap, "denied")
  /\ Goto(r, "d_link")
  /\ UNCHANGED <<live, overdue, task, trail, executions>>
  /\ Unharmed

CancelDeniedTask(r) ==
  /\ At(r, "d_task")
  /\ task' = [task EXCEPT ![req[r].ap] = "cancelled"]
  /\ Goto(r, "d_audit")
  /\ UNCHANGED <<live, approval, overdue, trail, executions>>
  /\ Unharmed

(***************************************************************************)
(* Cancelling the linked task.  Any live session may; the approval is not  *)
(* touched.  The select runs before SQLite opens the write transaction.    *)
(***************************************************************************)
ReadForCancel(r) ==
  /\ At(r, "c_read")
  /\ \/ /\ task[req[r].ap] = "none"
        /\ Return(r)
     \/ /\ task[req[r].ap] # "none"
        /\ req' = [req EXCEPT ![r].pc = "c_update", ![r].saw = task[req[r].ap]]
  /\ UNCHANGED <<store, executions>>
  /\ Unharmed

UpdateCancelled(r) ==
  /\ At(r, "c_update")
  /\ task' = [task EXCEPT ![req[r].ap] =
       IF req[r].saw = "waiting_approval" THEN "cancelled" ELSE req[r].saw]
  /\ Return(r)
  /\ UNCHANGED <<live, approval, overdue, trail, executions>>
  /\ Unharmed

(***************************************************************************)
(* The rows that are read again: g_event makes the approval known, the     *)
(* others are the last call of their handler.                              *)
(***************************************************************************)
RecordAt == [g_event |-> "approval_required", a_audit |-> "approved",
             f_audit |-> "failed", x_audit |-> "failed", d_audit |-> "denied"]

Record(r) ==
  /\ req[r].pc \in DOMAIN RecordAt
  /\ trail' = trail \cup {<<RecordAt[req[r].pc], req[r].ap>>}
  /\ Return(r)
  /\ UNCHANGED <<live, approval, overdue, task, executions>>
  /\ Unharmed

(***************************************************************************)
(* Failures.                                                               *)
(***************************************************************************)
\* Mutant: approve() catches nothing.
FaultUncaught(r) ==
  /\ ~At(r, "idle")
  /\ faults < MaxFaults
  /\ faults' = faults + 1
  /\ Return(r)
  /\ interrupted' = interrupted \cup
       (IF req[r].pc \in InTry THEN {} ELSE {req[x].ap : x \in {r} \cap Decisive})
  /\ UNCHANGED <<store, executions, crashes>>

\* The call a request is about to make raises and changes nothing.  Inside
\* approve()'s try block the handler turns to mark_approval_failed; anywhere
\* else the exception ends the request.
Fault(r) ==
  /\ ~At(r, "idle")
  /\ faults < MaxFaults
  /\ faults' = faults + 1
  /\ \/ /\ req[r].pc \in InTry
        /\ Goto(r, "f_status")
        /\ UNCHANGED interrupted
     \/ /\ req[r].pc \notin InTry
        /\ Return(r)
        /\ interrupted' = interrupted \cup {req[x].ap : x \in {r} \cap Decisive}
  /\ UNCHANGED <<store, executions, crashes>>

\* The process is killed and started again.  The lifespan hook repairs no row.
Crash ==
  /\ crashes < MaxCrashes
  /\ \E r \in Requests : ~At(r, "idle")
  /\ crashes' = crashes + 1
  /\ interrupted' = interrupted \cup {req[r].ap : r \in Decisive}
  /\ req' = [r \in Requests |-> Idle]
  /\ UNCHANGED <<store, executions, faults>>

-----------------------------------------------------------------------------
Init ==
  /\ live = Sessions
  /\ approval = [a \in Approvals |->
       [status |-> "absent", owner |-> None, kind |-> "systemd.approval"]]
  /\ overdue = {}
  /\ task = [a \in Approvals |-> "none"]
  /\ trail = {}
  /\ executions = [a \in Approvals |-> 0]
  /\ req = [r \in Requests |-> Idle]
  /\ interrupted = {}
  /\ faults = 0
  /\ crashes = 0

\* The steps a started request takes by itself.
Step(r) ==
  \/ CreateApproval(r) \/ CreateTask(r)
  \/ ReadForApprove(r) \/ MarkExpired(r) \/ Claim(r) \/ FindTask(r)
  \/ Invoke(r) \/ StoreResult(r) \/ WriteFile(r) \/ FinishTask(r)
  \/ MarkApproved(r) \/ MarkFailed(r) \/ FailTask(r)
  \/ ReadForDeny(r) \/ MarkDenied(r) \/ CancelDeniedTask(r)
  \/ ReadForCancel(r) \/ UpdateCancelled(r)
  \/ Record(r)

Next ==
  \/ \E s \in Sessions : EndSession(s)
  \/ \E a \in Approvals : PassDeadline(a)
  \/ \E r \in Requests : Start(r) \/ Step(r) \/ Fault(r)
  \/ Crash

Spec == Init /\ [][Next]_vars

\* The thread pool runs every request it has started.
LiveSpec == Spec /\ \A r \in Requests : WF_vars(Step(r))

-----------------------------------------------------------------------------
(***************************************************************************)
(* Properties.                                                             *)
(***************************************************************************)
\* A thread at work knows which approval it works on; its locals have types.
Thread == [pc : PCs, ap : Approvals \cup {None}, by : Sessions \cup {None},
           linked : BOOLEAN, ok : BOOLEAN, saw : TaskStatus]
ThreadsOK ==
  /\ req \in [Requests -> Thread]
  /\ \A r \in Requests : ~At(r, "idle") => req[r].ap \in Approvals

\* Every variable holds what the tables and the handlers can hold.
TypeOK ==
  /\ live \subseteq Sessions
  /\ approval \in [Approvals -> [status : ApprovalStatus,
                                owner : Sessions \cup {None}, kind : Kinds]]
  /\ overdue \subseteq Approvals
  /\ task \in [Approvals -> TaskStatus]
  /\ trail \subseteq Records \X Approvals
  /\ executions \in [Approvals -> Nat]
  /\ ThreadsOK
  /\ interrupted \subseteq Approvals
  /\ faults \in Nat
  /\ crashes \in Nat

\* An approval's adapter runs at most once, however approve(), deny(), retries
\* and restarts overlap: the compare-and-set is the only way to the adapter.
AtMostOnce == \A a \in Approvals : executions[a] <= 1

\* Whoever decides an approval, or runs its tool, was admitted under the
\* session that the approval is bound to.
OwnerOnly ==
  \A r \in Requests :
    req[r].pc \in Deciding => approval[req[r].ap].owner = req[r].by

\* The release boundary: a tool that the registry disables never runs, its
\* approval never counts as approved, its task never as succeeded.
FailClosed ==
  \A a \in Approvals :
    approval[a].kind \notin EnabledKinds =>
      /\ executions[a] = 0
      /\ approval[a].status # "approved"
      /\ task[a] # "succeeded"

\* inside approve(), before the linked task is written
BeforeTask == {"a_invoke", "a_store", "a_write", "a_task", "f_status", "x_status"}

\* r has yet to write the status of a's task
WillSettle(r, a) ==
  /\ req[r].ap = a
  /\ \/ req[r].pc \in {"a_link", "d_link", "d_task", "f_task", "x_task"}
     \/ req[r].pc \in BeforeTask /\ req[r].linked

\* Once an approval is decided its task does not stay in waiting_approval,
\* although the two rows are written in different transactions.
DecisionReachesTask ==
  \A a \in Approvals :
    /\ approval[a].status \in {"executing", "approved", "denied", "failed"}
    /\ task[a] = "waiting_approval"
    => a \in interrupted \/ \E r \in Requests : WillSettle(r, a)

\* What has run is audited, also when a later step of approve() raises.
ExecutionIsAudited ==
  \A a \in Approvals :
    executions[a] > 0 =>
      \/ a \in interrupted
      \/ {<<"approved", a>>, <<"failed", a>>} \cap trail # {}
      \/ \E r \in Requests : req[r].ap = a /\ req[r].pc \in InTry \cup Failing

\* No request is at work on a.
AtRest(a) == \A r \in Requests : req[r].ap # a

\* A denied approval leaves its task cancelled (backend/tests/
\* test_phase1_api.py:631-633).  It does not hold: deny() writes "denied" over
\* a claim, and approve() then writes the task after it.
DeniedTaskIsCancelled ==
  \A a \in Approvals :
    /\ AtRest(a) /\ a \notin interrupted
    /\ approval[a].status = "denied"
    /\ task[a] # "none"
    => task[a] = "cancelled"

\* A claim comes to an end: the approval leaves "executing".
ClaimEnds ==
  \A a \in Approvals :
    approval[a].status = "executing"
      ~> (approval[a].status # "executing" \/ a \in interrupted)

\* The task of a decided approval is settled in the end.
DecidedTaskSettles ==
  \A a \in Approvals :
    (approval[a].status \in {"approved", "denied", "failed"})
      ~> (task[a] # "waiting_approval" \/ a \in interrupted)

\* Whatever fails and however requests overlap, a decision comes to rest: the
\* claim ends, and the task follows the approval, unless a crash or a failure
\* outside approve()'s try block stopped the request in between.
DecisionsSettle == ClaimEnds /\ DecidedTaskSettles

-----------------------------------------------------------------------------
(***************************************************************************)
(* The inductive invariant behind AtMostOnce, OwnerOnly, FailClosed and    *)
(* the refinement below.                                                   *)
(***************************************************************************)
InClaim(r) == req[r].pc \in {"a_link"} \cup InTry \cup Failing
Issuing(r) == req[r].pc \in {"n_approval", "g_approval"}

\* r has won the claim on a and has not reached the tool yet
Claiming(r, a) == req[r].ap = a /\ req[r].pc \in {"a_link", "a_invoke"}

IdleNamesNothing == \A r \in Requests : At(r, "idle") => req[r].ap = None

\* An approval without a row is known to the request that issues it only.
AbsentIsUntouched ==
  \A a \in Approvals :
    approval[a].status = "absent" =>
      /\ task[a] = "none" /\ executions[a] = 0
      /\ \A kind \in Records : <<kind, a>> \notin trail
      /\ \A r \in Requests : req[r].ap = a => Issuing(r)

IssuerIsAlone ==
  \A r \in Requests : Issuing(r) =>
    /\ approval[req[r].ap].status = "absent"
    /\ \A q \in Requests : req[q].ap = req[r].ap => q = r

ClaimIsExclusive ==
  \A r, q \in Requests :
    InClaim(r) /\ InClaim(q) /\ req[r].ap = req[q].ap => r = q

ClaimIsSpent ==
  \A r \in Requests :
    InClaim(r) => approval[req[r].ap].status \notin {"absent", "pending"}

UseEndsClaim ==
  \A a \in Approvals :
    \/ executions[a] = 0
    \/ /\ executions[a] = 1
       /\ approval[a].status \notin {"absent", "pending"}
       /\ \A r \in Requests : ~Claiming(r, a)

GrantInv ==
  /\ IdleNamesNothing /\ AbsentIsUntouched /\ IssuerIsAlone
  /\ ClaimIsExclusive /\ ClaimIsSpent /\ UseEndsClaim

\* The owner was compared when the row was read, and the row keeps its owner.
OwnerInv ==
  \A r \in Requests :
    req[r].pc \in {"a_expire", "a_claim", "d_status"} \cup Deciding =>
      approval[req[r].ap].owner = req[r].by

\* Past the disabled branch the tool is enabled; a cancel that copies the status
\* of a succeeded task back does not invent one.
EnabledInv ==
  \A r \in Requests :
    \/ req[r].pc \in {"a_write", "a_task", "a_status", "a_audit"}
    \/ (req[r].pc = "c_update" /\ req[r].saw = "succeeded")
    => approval[req[r].ap].kind \in EnabledKinds

\* A request between the rows of a new approval: nobody else knows the approval.
NewIsUnknown ==
  \A r \in Requests : req[r].pc \in {"n_task", "g_event"} =>
    /\ approval[req[r].ap].status = "pending" /\ ~Known(req[r].ap)
    /\ \A q \in Requests : req[q].ap = req[r].ap => q = r

\* What a request knows of the linked task stays true: no task appears where approve()
\* found none, and a task that was found is there.
LinksStay ==
  \A r \in Requests :
    /\ req[r].linked => ~At(r, "idle") /\ task[req[r].ap] # "none"
    /\ req[r].pc \in InTry \cup {"f_status"} /\ ~req[r].linked => task[req[r].ap] = "none"
    /\ req[r].pc \in {"a_write", "a_task", "x_task", "f_task", "d_task"} => req[r].linked
    /\ At(r, "c_update") => req[r].saw # "none" /\ task[req[r].ap] # "none"

\* Once the task is written it does not wait again.
WrittenIsSettled ==
  \A r \in Requests : At(r, "a_status") => task[req[r].ap] # "waiting_approval"

\* The facts behind DecisionReachesTask, an inductive invariant.
LinkInv == NewIsUnknown /\ LinksStay /\ WrittenIsSettled

-----------------------------------------------------------------------------
(***************************************************************************)
(* An approval is a one-time grant (docs/architecture/README.md:46).       *)
(***************************************************************************)
GrantOf(a) ==
  IF \E r \in Requests : Claiming(r, a) THEN "claimed"
  ELSE IF approval[a].status = "absent" THEN "none"
  ELSE IF approval[a].status = "pending" THEN "open"
  ELSE "spent"

OneTime == INSTANCE OneTimeGrant WITH
  Grants <- Approvals,
  grant <- [a \in Approvals |-> GrantOf(a)],
  uses <- executions

\* The handlers implement a one-time grant: whatever denials, expiries, cancels
\* and crashes happen around it, an approval is claimed by one request at most,
\* its tool runs at most once and only under that claim.
ImplementsOneTimeGrant == OneTime!Spec
=============================================================================
