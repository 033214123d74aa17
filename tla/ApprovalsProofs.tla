--------------------------- MODULE ApprovalsProofs ---------------------------
(***************************************************************************)
(* Proofs about Approvals: types, the one-time claim, the owner, the       *)
(* disabled tools, the linked task, the audit, and that the handlers       *)
(* implement OneTimeGrant.                                                 *)
(***************************************************************************)
EXTENDS Approvals, TLAPS

(***************************************************************************)
(* Moving a thread.                                                        *)
(***************************************************************************)
\* The places a handler can be at.
LEMMA Places ==
  /\ {"idle", "a_read", "a_expire", "a_claim", "a_link"} \subseteq PCs
  /\ {"n_approval", "n_task", "g_approval", "g_event"} \subseteq PCs
  /\ {"a_invoke", "a_store", "a_write", "a_task", "a_status", "a_audit"}
       \subseteq PCs
  /\ {"f_status", "f_task", "f_audit"} \subseteq PCs
  /\ {"x_status", "x_task", "x_audit"} \subseteq PCs
  /\ {"d_read", "d_status", "d_link", "d_task", "d_audit"} \subseteq PCs
  /\ {"c_read", "c_update"} \subseteq PCs
BY DEF PCs, Creating, InTry, Refusing, Failing, Denying, Cancelling

\* Giving a thread a new state that names an approval keeps the threads well
\* formed.
LEMMA SetThreadKeepsType ==
  ASSUME ThreadsOK, NEW r \in Requests, NEW t \in Thread,
         t.ap \in Approvals \/ t.pc = "idle",
         req' = [req EXCEPT ![r] = t]
  PROVE  ThreadsOK'
<1>1. req' \in [Requests -> Thread]
  BY DEF ThreadsOK
<1>2. \A q \in Requests : req'[q] = IF q = r THEN t ELSE req[q]
  BY DEF ThreadsOK
<1>3. QED BY <1>1, <1>2 DEF ThreadsOK, At

\* Going on to another place keeps the threads well formed.
LEMMA GotoKeepsType ==
  ASSUME ThreadsOK, NEW r \in Requests, NEW pc \in PCs,
         ~At(r, "idle"), Goto(r, pc)
  PROVE  ThreadsOK'
BY DEF ThreadsOK, Thread, At, Goto

\* So does returning.
LEMMA ReturnKeepsType ==
  ASSUME ThreadsOK, NEW r \in Requests, Return(r)
  PROVE  ThreadsOK'
<1>1. Idle \in Thread
  BY Places DEF Idle, Thread, TaskStatus
<1>2. Idle.pc = "idle"
  BY DEF Idle
<1>3. QED BY <1>1, <1>2 DEF ThreadsOK, At, Return

\* Overwriting the status of an approval keeps the table well formed.
LEMMA SetStatusKeepsType ==
  ASSUME TypeOK, NEW a \in Approvals, NEW status \in ApprovalStatus,
         SetStatus(a, status)
  PROVE  approval' \in [Approvals -> [status : ApprovalStatus,
                                      owner : Sessions \cup {None}, kind : Kinds]]
BY DEF TypeOK, SetStatus

\* Every variable keeps its type, for all approvals, sessions and requests.
THEOREM TypeCorrect == Spec => []TypeOK
<1> USE ConstantsAssumption
<1>1. Init => TypeOK
  <2> SUFFICES ASSUME Init PROVE TypeOK
    OBVIOUS
  <2>1. Idle \in Thread /\ Idle.pc = "idle"
    BY Places DEF Idle, Thread, TaskStatus
  <2>2. ThreadsOK
    BY <2>1 DEF Init, ThreadsOK, At
  <2>3. QED BY <2>2 DEF Init, TypeOK, Kinds, ApprovalStatus, TaskStatus
<1>2. TypeOK /\ [Next]_vars => TypeOK'
  <2> SUFFICES ASSUME TypeOK, [Next]_vars PROVE TypeOK'
    OBVIOUS
  <2>1. ASSUME NEW s \in Sessions, EndSession(s) PROVE TypeOK'
    BY <2>1 DEF EndSession, TypeOK, ThreadsOK, At, Unharmed
  <2>2. ASSUME NEW a \in Approvals, PassDeadline(a) PROVE TypeOK'
    BY <2>2 DEF PassDeadline, TypeOK, ThreadsOK, At, Unharmed
  <2>3. ASSUME NEW r \in Requests, Start(r) PROVE TypeOK'
    <3>1. PICK s \in Sessions, a \in Approvals, pc \in PCs :
            req' = [req EXCEPT ![r].pc = pc, ![r].by = s, ![r].ap = a]
      BY <2>3 DEF Start
    <3>2. ThreadsOK'
      <4>1. [req[r] EXCEPT !.pc = pc, !.by = s, !.ap = a] \in Thread
        <5>1. req[r] \in Thread
          BY DEF TypeOK, ThreadsOK
        <5>2. s \in Sessions \cup {None} /\ a \in Approvals \cup {None}
          OBVIOUS
        <5>3. QED BY <5>1, <5>2 DEF Thread
      <4>2. req' = [req EXCEPT ![r] = [req[r] EXCEPT !.pc = pc, !.by = s, !.ap = a]]
        BY <3>1 DEF TypeOK, ThreadsOK
      <4>3. [req[r] EXCEPT !.pc = pc, !.by = s, !.ap = a].ap = a
        BY DEF TypeOK, ThreadsOK, Thread
      <4>4. QED BY <4>1, <4>2, <4>3, SetThreadKeepsType DEF TypeOK
    <3>3. QED BY <2>3, <3>2 DEF Start, TypeOK, Unharmed, store
  <2>4. ASSUME NEW r \in Requests, Step(r) PROVE TypeOK'
    <3> DEFINE a == req[r].ap
    <3> USE DEF Unharmed, store
    <3>0. ThreadsOK /\ (~At(r, "idle") => a \in Approvals)
      BY DEF TypeOK, ThreadsOK
    <3>1. CASE CreateApproval(r)
      <4>1. ThreadsOK'
        BY <3>0, <3>1, GotoKeepsType, Places DEF CreateApproval, At
      <4>2. a \in Approvals /\ req[r].by \in Sessions \cup {None}
        BY <3>0, <3>1 DEF CreateApproval, At, ThreadsOK, Thread
      <4>3. QED
        BY <3>1, <4>1, <4>2 DEF CreateApproval, TypeOK, ApprovalStatus
    <3>2. CASE CreateTask(r)
      <4>1. ThreadsOK'
        BY <3>0, <3>2, ReturnKeepsType DEF CreateTask
      <4>2. QED BY <3>0, <3>2, <4>1 DEF CreateTask, TypeOK, TaskStatus, At
    <3>3. CASE ReadForApprove(r)
      <4>1. ThreadsOK'
        BY <3>0, <3>3, GotoKeepsType, ReturnKeepsType, Places
        DEF ReadForApprove, At
      <4>2. QED BY <3>3, <4>1 DEF ReadForApprove, TypeOK
    <3>4. CASE MarkExpired(r)
      <4>1. ThreadsOK'
        BY <3>0, <3>4, ReturnKeepsType DEF MarkExpired
      <4>2. QED
        BY <3>0, <3>4, <4>1, SetStatusKeepsType
        DEF MarkExpired, TypeOK, ApprovalStatus, At
    <3>5. CASE Claim(r)
      <4>1. ThreadsOK'
        BY <3>0, <3>5, GotoKeepsType, ReturnKeepsType, Places DEF Claim, At
      <4>2. QED
        BY <3>0, <3>5, <4>1, SetStatusKeepsType
        DEF Claim, TypeOK, ApprovalStatus, At
    <3>6. CASE FindTask(r)
      <4>1. ThreadsOK'
        BY <3>0, <3>6, Places DEF FindTask, ThreadsOK, Thread, At
      <4>2. QED BY <3>6, <4>1 DEF FindTask, TypeOK
    <3>7. CASE Invoke(r)
      <4>1. CASE \E ok \in BOOLEAN :
                   req' = [req EXCEPT ![r].pc = "a_store", ![r].ok = ok]
        <5>1. PICK ok \in BOOLEAN :
                req' = [req EXCEPT ![r].pc = "a_store", ![r].ok = ok]
          BY <4>1
        <5>2. [req[r] EXCEPT !.pc = "a_store", !.ok = ok] \in Thread
          BY <3>0, Places DEF ThreadsOK, Thread
        <5>3. ThreadsOK'
          <6> DEFINE t == [req[r] EXCEPT !.pc = "a_store", !.ok = ok]
          <6>1. req' = [req EXCEPT ![r] = t]
            BY <3>0, <5>1 DEF ThreadsOK
          <6>2. t.ap \in Approvals
            BY <3>0, <3>7 DEF ThreadsOK, Thread, Invoke, At
          <6>3. t \in Thread
            BY <5>2
          <6> HIDE DEF t
          <6>4. QED BY <3>0, <6>1, <6>2, <6>3, SetThreadKeepsType
        <5>4. QED BY <3>7, <5>3 DEF Invoke, TypeOK
      <4>2. CASE Goto(r, "a_store") \/ Goto(r, "f_status")
        <5>1. ThreadsOK'
          BY <3>0, <3>7, <4>2, GotoKeepsType, Places DEF Invoke, At
        <5>2. QED BY <3>7, <5>1 DEF Invoke, TypeOK
      <4>3. QED BY <3>7, <4>1, <4>2 DEF Invoke
    <3>8. CASE StoreResult(r)
      <4>1. ThreadsOK'
        BY <3>0, <3>8, GotoKeepsType, Places DEF StoreResult, At
      <4>2. QED BY <3>8, <4>1 DEF StoreResult, TypeOK
    <3>9. CASE WriteFile(r)
      <4>1. ThreadsOK'
        BY <3>0, <3>9, GotoKeepsType, Places DEF WriteFile, At
      <4>2. QED BY <3>9, <4>1 DEF WriteFile, TypeOK
    <3>10. CASE FinishTask(r)
      <4>1. ThreadsOK'
        BY <3>0, <3>10, GotoKeepsType, Places DEF FinishTask, At
      <4>2. QED BY <3>0, <3>10, <4>1 DEF FinishTask, TypeOK, TaskStatus, At
    <3>11. CASE MarkApproved(r)
      <4>1. ThreadsOK'
        BY <3>0, <3>11, GotoKeepsType, Places DEF MarkApproved, At
      <4>2. QED
        BY <3>0, <3>11, <4>1, SetStatusKeepsType
        DEF MarkApproved, TypeOK, ApprovalStatus, At
    <3>12. CASE MarkFailed(r)
      <4>1. ThreadsOK'
        BY <3>0, <3>12, GotoKeepsType, Places DEF MarkFailed, At
      <4>2. QED
        BY <3>0, <3>12, <4>1, SetStatusKeepsType
        DEF MarkFailed, TypeOK, ApprovalStatus, At
    <3>13. CASE FailTask(r)
      <4>1. ThreadsOK'
        BY <3>0, <3>13, GotoKeepsType, Places DEF FailTask, At
      <4>2. QED BY <3>0, <3>13, <4>1 DEF FailTask, TypeOK, TaskStatus, At
    <3>14. CASE ReadForDeny(r)
      <4>1. ThreadsOK'
        BY <3>0, <3>14, GotoKeepsType, ReturnKeepsType, Places
        DEF ReadForDeny, At
      <4>2. QED BY <3>14, <4>1 DEF ReadForDeny, TypeOK
    <3>15. CASE MarkDenied(r)
      <4>1. ThreadsOK'
        BY <3>0, <3>15, GotoKeepsType, Places DEF MarkDenied, At
      <4>2. QED
        BY <3>0, <3>15, <4>1, SetStatusKeepsType
        DEF MarkDenied, TypeOK, ApprovalStatus, At
    <3>16. CASE CancelDeniedTask(r)
      <4>1. ThreadsOK'
        BY <3>0, <3>16, GotoKeepsType, Places DEF CancelDeniedTask, At
      <4>2. QED
        BY <3>0, <3>16, <4>1 DEF CancelDeniedTask, TypeOK, TaskStatus, At
    <3>17. CASE ReadForCancel(r)
      <4>1. CASE Return(r)
        BY <3>0, <3>17, <4>1, ReturnKeepsType DEF ReadForCancel, TypeOK
      <4>2. CASE req' = [req EXCEPT ![r].pc = "c_update",
                                    ![r].saw = task[req[r].ap]]
        <5>1. task[a] \in TaskStatus
          BY <3>0, <3>17 DEF ReadForCancel, TypeOK, At
        <5>2. ThreadsOK'
          <6> DEFINE t == [req[r] EXCEPT !.pc = "c_update", !.saw = task[a]]
          <6>1. req' = [req EXCEPT ![r] = t]
            BY <3>0, <4>2 DEF ThreadsOK
          <6>2. t.ap \in Approvals
            BY <3>0, <3>17 DEF ThreadsOK, Thread, ReadForCancel, At
          <6>3. t \in Thread
            BY <3>0, <5>1, Places DEF ThreadsOK, Thread
          <6> HIDE DEF t
          <6>4. QED BY <3>0, <6>1, <6>2, <6>3, SetThreadKeepsType
        <5>3. QED BY <3>17, <5>2 DEF ReadForCancel, TypeOK
      <4>3. QED BY <3>17, <4>1, <4>2 DEF ReadForCancel
    <3>18. CASE UpdateCancelled(r)
      <4>1. ThreadsOK'
        BY <3>0, <3>18, ReturnKeepsType DEF UpdateCancelled
      <4>2. req[r].saw \in TaskStatus
        BY <3>0 DEF ThreadsOK, Thread
      <4>3. QED
        BY <3>0, <3>18, <4>1, <4>2 DEF UpdateCancelled, TypeOK, TaskStatus, At
    <3>19. CASE Record(r)
      <4>1. ThreadsOK'
        BY <3>0, <3>19, ReturnKeepsType DEF Record
      <4>2. RecordAt[req[r].pc] \in Records /\ a \in Approvals
        BY <3>0, <3>19 DEF Record, RecordAt, Records, At
      <4>3. QED BY <3>19, <4>1, <4>2 DEF Record, TypeOK
    <3>20. QED BY <2>4, <3>1, <3>2, <3>3, <3>4, <3>5, <3>6, <3>7, <3>8, <3>9,
      <3>10, <3>11, <3>12, <3>13, <3>14, <3>15, <3>16, <3>17, <3>18, <3>19
      DEF Step
  <2>5. ASSUME NEW r \in Requests, Fault(r) PROVE TypeOK'
    <3>1. ThreadsOK'
      BY <2>5, GotoKeepsType, ReturnKeepsType, Places DEF Fault, TypeOK
    <3>2. \A q \in Decisive : req[q].ap \in Approvals
      BY DEF Decisive, Deciding, InTry, Refusing, Failing, Denying, TypeOK, ThreadsOK, At
    <3>3. QED BY <2>5, <3>1, <3>2 DEF Fault, TypeOK, store
  <2>6. CASE Crash
    <3>1. Idle \in Thread /\ Idle.pc = "idle"
      BY Places DEF Idle, Thread, TaskStatus
    <3>2. ThreadsOK'
      BY <2>6, <3>1 DEF Crash, ThreadsOK, At
    <3>3. \A q \in Decisive : req[q].ap \in Approvals
      BY DEF Decisive, Deciding, InTry, Refusing, Failing, Denying, TypeOK, ThreadsOK, At
    <3>4. QED BY <2>6, <3>2, <3>3 DEF Crash, TypeOK, store
  <2>7. CASE UNCHANGED vars
    BY <2>7 DEF vars, TypeOK, ThreadsOK, At
  <2>8. QED BY <2>1, <2>2, <2>3, <2>4, <2>5, <2>6, <2>7 DEF Next
<1>3. QED BY <1>1, <1>2, PTL DEF Spec

(***************************************************************************)
(* What the small steps do, field by field.                                *)
(***************************************************************************)
\* Going on changes one thread's place and nothing else of any thread.
LEMMA GotoFields ==
  ASSUME ThreadsOK, NEW r \in Requests, NEW pc, Goto(r, pc)
  PROVE  \A q \in Requests :
           /\ req'[q].pc = IF q = r THEN pc ELSE req[q].pc
           /\ req'[q].ap = req[q].ap /\ req'[q].by = req[q].by
           /\ req'[q].linked = req[q].linked /\ req'[q].saw = req[q].saw
BY DEF ThreadsOK, Thread, Goto

\* Returning frees one thread.
LEMMA ReturnFields ==
  ASSUME ThreadsOK, NEW r \in Requests, Return(r)
  PROVE  \A q \in Requests :
           /\ req'[q].pc = IF q = r THEN "idle" ELSE req[q].pc
           /\ req'[q].ap = IF q = r THEN None ELSE req[q].ap
           /\ q # r => req'[q] = req[q]
BY DEF ThreadsOK, Thread, Return, Idle

\* A request that starts takes one approval, for a live session.
LEMMA StartFields ==
  ASSUME ThreadsOK, NEW r \in Requests, Start(r)
  PROVE  /\ \A q \in Requests : q # r => req'[q] = req[q]
         /\ req'[r].ap \in Approvals /\ req'[r].linked = req[r].linked
         /\ \/ /\ req'[r].pc \in {"n_approval", "g_approval"}
               /\ Fresh(req'[r].ap)
            \/ /\ req'[r].pc \in {"a_read", "d_read", "c_read"}
               /\ Known(req'[r].ap)
<1>1. PICK s \in Sessions, a \in Approvals, pc \in PCs :
        /\ \/ pc \in {"n_approval", "g_approval"} /\ Fresh(a)
           \/ pc \in {"a_read", "d_read", "c_read"} /\ Known(a)
        /\ req' = [req EXCEPT ![r].pc = pc, ![r].by = s, ![r].ap = a]
  BY DEF Start
<1>2. /\ \A q \in Requests : q # r => req'[q] = req[q]
      /\ req'[r].ap = a /\ req'[r].pc = pc /\ req'[r].linked = req[r].linked
  BY <1>1 DEF ThreadsOK, Thread
<1>3. QED BY <1>1, <1>2

\* Overwriting a status changes that status and nothing else of any approval.
LEMMA SetStatusFields ==
  ASSUME TypeOK, NEW a \in Approvals, NEW status, SetStatus(a, status)
  PROVE  \A b \in Approvals :
           /\ approval'[b].status = IF b = a THEN status ELSE approval[b].status
           /\ approval'[b].owner = approval[b].owner
           /\ approval'[b].kind = approval[b].kind
BY DEF TypeOK, SetStatus

\* And forgets what it found.
LEMMA ReturnForgets ==
  ASSUME ThreadsOK, NEW r \in Requests, Return(r)
  PROVE  ~req'[r].linked
BY DEF ThreadsOK, Return, Idle

\* The tool's answer, or its exception, moves the thread and changes no other of its fields but ok.
LEMMA InvokeFields ==
  ASSUME ThreadsOK, NEW r \in Requests, Invoke(r)
  PROVE  /\ req'[r].pc \in {"a_store", "f_status"}
         /\ \A q \in Requests :
              /\ q # r => req'[q].pc = req[q].pc
              /\ req'[q].ap = req[q].ap /\ req'[q].linked = req[q].linked
              /\ req'[q].saw = req[q].saw
BY DEF Invoke, Goto, ThreadsOK, Thread

\* Overwriting a task's status changes that status only.
LEMMA SetTaskFields ==
  ASSUME TypeOK, NEW a \in Approvals, NEW status, task' = [task EXCEPT ![a] = status]
  PROVE  \A b \in Approvals : task'[b] = IF b = a THEN status ELSE task[b]
BY DEF TypeOK

(***************************************************************************)
(* The one-time claim.                                                     *)
(***************************************************************************)
\* The claim invariant is inductive.
THEOREM GrantInvariant == Spec => []GrantInv
<1> USE ConstantsAssumption
<1> USE DEF InClaim, Issuing, Claiming, InTry, Refusing, Failing, At
<1>1. Init => GrantInv
  BY DEF Init, GrantInv, IdleNamesNothing, AbsentIsUntouched, IssuerIsAlone,
         ClaimIsExclusive, ClaimIsSpent, UseEndsClaim, Idle
<1>2. TypeOK /\ GrantInv /\ [Next]_vars => GrantInv'
  <2> SUFFICES ASSUME TypeOK, GrantInv, [Next]_vars PROVE GrantInv'
    OBVIOUS
  <2>0. ThreadsOK /\ \A r \in Requests : ~At(r, "idle") => req[r].ap \in Approvals
    BY DEF TypeOK, ThreadsOK
  <2> USE DEF GrantInv, IdleNamesNothing, AbsentIsUntouched, IssuerIsAlone,
         ClaimIsExclusive, ClaimIsSpent, UseEndsClaim, Unharmed, store
  <2>1. ASSUME NEW s \in Sessions, EndSession(s) PROVE GrantInv'
    BY <2>1 DEF EndSession
  <2>2. ASSUME NEW a \in Approvals, PassDeadline(a) PROVE GrantInv'
    BY <2>2 DEF PassDeadline
  <2>3. ASSUME NEW r \in Requests, Start(r) PROVE GrantInv'
    <3>1. UNCHANGED <<approval, task, executions, trail>>
      BY <2>3 DEF Start
    <3>2. PICK b \in Approvals :
            /\ req'[r].ap = b
            /\ \/ req'[r].pc \in {"n_approval", "g_approval"} /\ Fresh(b)
               \/ req'[r].pc \in {"a_read", "d_read", "c_read"} /\ Known(b)
      BY <2>0, <2>3, StartFields
    <3>3. \A q \in Requests : q # r => req'[q] = req[q]
      BY <2>0, <2>3, StartFields
    <3>4. IdleNamesNothing' /\ AbsentIsUntouched'
      BY <2>0, <3>1, <3>2, <3>3 DEF Known, Records
    <3>5. IssuerIsAlone'
      <4>1. \A q \in Requests : Issuing(q) => req[q].ap # b
        BY <2>0, <3>2 DEF Fresh, Known, Records
      <4>2. Issuing(r)' => /\ approval[b].status = "absent"
                           /\ \A q \in Requests : req[q].ap # b
        BY <3>2 DEF Fresh
      <4>3. QED BY <3>1, <3>2, <3>3, <4>1, <4>2
    <3>6. ClaimIsExclusive' /\ ClaimIsSpent'
      BY <2>0, <3>1, <3>2, <3>3
    <3>7. UseEndsClaim'
      BY <2>0, <3>1, <3>2, <3>3
    <3>8. QED BY <3>4, <3>5, <3>6, <3>7
  <2>4. ASSUME NEW r \in Requests, Step(r) PROVE GrantInv'
    <3>1. CASE CreateApproval(r)
      <4> DEFINE b == req[r].ap
      <4>1. /\ b \in Approvals /\ approval[b].status = "absent"
            /\ \A q \in Requests : req[q].ap = b => q = r
            /\ UNCHANGED <<executions, task, trail>>
        BY <2>0, <3>1 DEF CreateApproval
      <4>2. \A q \in Requests :
              /\ req'[q].ap = req[q].ap
              /\ q # r => req'[q].pc = req[q].pc
        BY <2>0, <3>1, GotoFields DEF CreateApproval
      <4>3. req'[r].pc \in {"n_task", "g_event"}
        BY <2>0, <3>1, GotoFields DEF CreateApproval
      <4>4. /\ \A a \in Approvals : a # b => approval'[a] = approval[a]
            /\ approval'[b].status = "pending"
        BY <3>1, <4>1 DEF CreateApproval, TypeOK
      <4>5. executions[b] = 0
        BY <4>1
      <4>6. b = req[r].ap
        OBVIOUS
      <4> HIDE DEF b
      <4>7. IdleNamesNothing' /\ AbsentIsUntouched' /\ IssuerIsAlone'
        BY <2>0, <4>1, <4>2, <4>3, <4>4, <4>6
      <4>8. ClaimIsExclusive' /\ ClaimIsSpent'
        BY <2>0, <4>1, <4>2, <4>3, <4>4, <4>6
      <4>9. UseEndsClaim'
        BY <2>0, <4>1, <4>2, <4>3, <4>4, <4>5, <4>6
      <4>10. QED BY <4>7, <4>8, <4>9
    <3>2. CASE CreateTask(r)
      <4>1. /\ At(r, "n_task") /\ req[r].ap \in Approvals
            /\ UNCHANGED <<approval, executions, trail>>
        BY <2>0, <3>2 DEF CreateTask
      <4>2. approval[req[r].ap].status # "absent"
        BY <4>1
      <4>3. \A a \in Approvals : approval[a].status = "absent" => task'[a] = task[a]
        BY <3>2, <4>1, <4>2 DEF CreateTask, TypeOK
      <4>4. QED BY <2>0, <3>2, <4>1, <4>3, ReturnFields DEF CreateTask
    <3>3. CASE ReadForApprove(r)
      BY <2>0, <3>3, GotoFields, ReturnFields DEF ReadForApprove
    <3>4. CASE MarkExpired(r)
      BY <2>0, <3>4, SetStatusFields, ReturnFields DEF MarkExpired
    <3>5. CASE Claim(r)
      <4>1. /\ At(r, "a_claim") /\ req[r].ap \in Approvals
            /\ UNCHANGED <<task, executions, trail>>
        BY <2>0, <3>5 DEF Claim
      <4>2. CASE approval[req[r].ap].status # "pending"
        BY <2>0, <3>5, <4>1, <4>2, ReturnFields DEF Claim
      <4>3. CASE approval[req[r].ap].status = "pending"
        <5>1. SetStatus(req[r].ap, "executing") /\ Goto(r, "a_link")
          BY <3>5, <4>3 DEF Claim
        <5>2. \A q \in Requests : InClaim(q) => req[q].ap # req[r].ap
          BY <4>3
        <5>3. executions[req[r].ap] = 0
          BY <4>1, <4>3
        <5>4. IdleNamesNothing' /\ AbsentIsUntouched' /\ IssuerIsAlone'
          BY <2>0, <4>1, <4>3, <5>1, SetStatusFields, GotoFields
        <5>5. ClaimIsExclusive' /\ ClaimIsSpent'
          BY <2>0, <4>1, <5>1, <5>2, SetStatusFields, GotoFields
        <5>6. UseEndsClaim'
          BY <2>0, <4>1, <5>1, <5>2, <5>3, SetStatusFields, GotoFields
        <5>7. QED BY <5>4, <5>5, <5>6
      <4>4. QED BY <4>2, <4>3
    <3>6. CASE FindTask(r)
      BY <2>0, <3>6, GotoFields
      DEF FindTask, ThreadsOK, Thread
    <3>7. CASE Invoke(r)
      <4> DEFINE b == req[r].ap
      <4>1. /\ At(r, "a_invoke") /\ b \in Approvals
            /\ UNCHANGED <<approval, task, trail>>
        BY <2>0, <3>7 DEF Invoke
      <4>2. \A q \in Requests :
              /\ req'[q].ap = req[q].ap
              /\ q # r => req'[q].pc = req[q].pc
        BY <2>0, <3>7, GotoFields DEF Invoke, ThreadsOK, Thread
      <4>3. req'[r].pc \in {"a_store", "f_status"}
        BY <2>0, <3>7, GotoFields DEF Invoke, ThreadsOK, Thread
      <4>4. executions[b] = 0 /\ approval[b].status \notin {"absent", "pending"}
        BY <4>1
      <4>5. \A a \in Approvals : executions'[a] =
              IF a = b /\ approval[b].kind \in EnabledKinds THEN 1 ELSE executions[a]
        BY <3>7, <4>4 DEF Invoke, TypeOK
      <4> HIDE DEF b
      <4>6. IdleNamesNothing' /\ AbsentIsUntouched'
        BY <4>1, <4>2, <4>3, <4>4, <4>5
      <4>7. IssuerIsAlone' /\ ClaimIsExclusive' /\ ClaimIsSpent'
        BY <4>1, <4>2, <4>3
      <4>8. UseEndsClaim'
        <5> SUFFICES ASSUME NEW a \in Approvals, executions'[a] # 0
                     PROVE  /\ executions'[a] = 1
                            /\ approval[a].status \notin {"absent", "pending"}
                            /\ \A q \in Requests : ~Claiming(q, a)'
          BY <4>1
        <5>1. \A q \in Requests : req[q].ap = b /\ InClaim(q) => q = r
          BY <4>1 DEF b
        <5>2. CASE a = b
          BY <4>2, <4>3, <4>4, <4>5, <5>1, <5>2 DEF b
        <5>3. CASE a # b
          BY <4>2, <4>3, <4>5, <5>3 DEF b
        <5>4. QED BY <5>2, <5>3
      <4>9. QED BY <4>6, <4>7, <4>8
    <3>8. CASE StoreResult(r)
      BY <2>0, <3>8, GotoFields
      DEF StoreResult
    <3>9. CASE WriteFile(r)
      BY <2>0, <3>9, GotoFields
      DEF WriteFile
    <3>10. CASE FinishTask(r)
      <4>1. approval[req[r].ap].status # "absent" /\ req[r].ap \in Approvals
        BY <2>0, <3>10 DEF FinishTask
      <4>2. \A a \in Approvals : approval[a].status = "absent" => task'[a] = task[a]
        BY <3>10, <4>1 DEF FinishTask, TypeOK
      <4>3. QED BY <2>0, <3>10, <4>2, GotoFields DEF FinishTask
    <3>11. CASE MarkApproved(r)
      BY <2>0, <3>11, SetStatusFields, GotoFields
      DEF MarkApproved
    <3>12. CASE MarkFailed(r)
      BY <2>0, <3>12, SetStatusFields, GotoFields
      DEF MarkFailed
    <3>13. CASE FailTask(r)
      <4>1. approval[req[r].ap].status # "absent" /\ req[r].ap \in Approvals
        BY <2>0, <3>13 DEF FailTask
      <4>2. \A a \in Approvals : approval[a].status = "absent" => task'[a] = task[a]
        BY <3>13, <4>1 DEF FailTask, TypeOK
      <4>3. QED BY <2>0, <3>13, <4>2, GotoFields DEF FailTask
    <3>14. CASE ReadForDeny(r)
      BY <2>0, <3>14, GotoFields, ReturnFields
      DEF ReadForDeny
    <3>15. CASE MarkDenied(r)
      BY <2>0, <3>15, SetStatusFields, GotoFields
      DEF MarkDenied
    <3>16. CASE CancelDeniedTask(r)
      BY <2>0, <3>16, GotoFields
      DEF CancelDeniedTask, TypeOK
    <3>17. CASE ReadForCancel(r)
      <4>1. At(r, "c_read") /\ UNCHANGED <<approval, task, executions, trail>>
        BY <3>17 DEF ReadForCancel
      <4>2. CASE Return(r)
        BY <2>0, <4>1, <4>2, ReturnFields
      <4>3. CASE ~Return(r)
        <5>1. \A q \in Requests :
                /\ req'[q].ap = req[q].ap
                /\ req'[q].pc = IF q = r THEN "c_update" ELSE req[q].pc
          BY <2>0, <3>17, <4>3 DEF ReadForCancel, ThreadsOK, Thread
        <5>2. QED BY <2>0, <4>1, <5>1
      <4>4. QED BY <4>2, <4>3
    <3>18. CASE UpdateCancelled(r)
      <4>1. At(r, "c_update") /\ UNCHANGED <<approval, executions, trail>>
        BY <3>18 DEF UpdateCancelled
      <4>2. approval[req[r].ap].status # "absent" /\ req[r].ap \in Approvals
        BY <2>0, <3>18 DEF UpdateCancelled
      <4>3. \A a \in Approvals : approval[a].status = "absent" => task'[a] = task[a]
        BY <3>18, <4>2 DEF UpdateCancelled, TypeOK
      <4>4. QED BY <2>0, <3>18, <4>1, <4>3, ReturnFields DEF UpdateCancelled
    <3>19. CASE Record(r)
      BY <2>0, <3>19, ReturnFields
      DEF Record, RecordAt, TypeOK
    <3>20. QED BY <2>4, <3>1, <3>2, <3>3, <3>4, <3>5, <3>6, <3>7, <3>8, <3>9,
      <3>10, <3>11, <3>12, <3>13, <3>14, <3>15, <3>16, <3>17, <3>18, <3>19
      DEF Step
  <2>5. ASSUME NEW r \in Requests, Fault(r) PROVE GrantInv'
    BY <2>0, <2>5, GotoFields, ReturnFields DEF Fault
  <2>6. CASE Crash
    BY <2>6 DEF Crash, Idle
  <2>7. CASE UNCHANGED vars
    BY <2>7 DEF vars
  <2>8. QED BY <2>1, <2>2, <2>3, <2>4, <2>5, <2>6, <2>7 DEF Next
<1>3. QED BY <1>1, <1>2, TypeCorrect, PTL DEF Spec

\* No approval's tool ever runs twice.
THEOREM RunsAtMostOnce == Spec => []AtMostOnce
<1>1. GrantInv => AtMostOnce
  BY DEF GrantInv, UseEndsClaim, AtMostOnce
<1>2. QED BY <1>1, GrantInvariant, PTL

(***************************************************************************)
(* The owner.                                                              *)
(***************************************************************************)
\* Only the session an approval is bound to decides it or runs its tool.
THEOREM OwnerDecides == Spec => []OwnerOnly
<1> USE ConstantsAssumption
<1> USE DEF Issuing, Deciding, InTry, Refusing, Failing, Denying, At
<1>1. Init => OwnerInv
  BY DEF Init, OwnerInv, Idle
<1>2. TypeOK /\ GrantInv /\ OwnerInv /\ [Next]_vars => OwnerInv'
  <2> SUFFICES ASSUME TypeOK, GrantInv, OwnerInv, [Next]_vars PROVE OwnerInv'
    OBVIOUS
  <2>0. ThreadsOK /\ \A r \in Requests : ~At(r, "idle") => req[r].ap \in Approvals
    BY DEF TypeOK, ThreadsOK
  <2> USE DEF OwnerInv, Unharmed, store
  <2>1. ASSUME NEW s \in Sessions, EndSession(s) PROVE OwnerInv'
    BY <2>1 DEF EndSession
  <2>2. ASSUME NEW a \in Approvals, PassDeadline(a) PROVE OwnerInv'
    BY <2>2 DEF PassDeadline
  <2>3. ASSUME NEW r \in Requests, Start(r) PROVE OwnerInv'
    <3>1. UNCHANGED <<approval, task, executions>>
      BY <2>3 DEF Start
    <3>2. QED BY <2>0, <2>3, <3>1, StartFields
  <2>4. ASSUME NEW r \in Requests, Step(r) PROVE OwnerInv'
    <3>1. CASE CreateApproval(r)
      BY <2>0, <3>1, GotoFields DEF CreateApproval, TypeOK, GrantInv, IssuerIsAlone
    <3>2. CASE CreateTask(r)
      BY <2>0, <3>2, ReturnFields DEF CreateTask
    <3>3. CASE ReadForApprove(r)
      BY <2>0, <3>3, GotoFields, ReturnFields DEF ReadForApprove
    <3>4. CASE MarkExpired(r)
      BY <2>0, <3>4, SetStatusFields, ReturnFields DEF MarkExpired
    <3>5. CASE Claim(r)
      BY <2>0, <3>5, SetStatusFields, GotoFields, ReturnFields DEF Claim
    <3>6. CASE FindTask(r)
      BY <2>0, <3>6 DEF FindTask, ThreadsOK, Thread
    <3>7. CASE Invoke(r)
      BY <2>0, <3>7 DEF Invoke, Goto, ThreadsOK, Thread
    <3>8. CASE StoreResult(r)
      BY <2>0, <3>8, GotoFields DEF StoreResult
    <3>9. CASE WriteFile(r)
      BY <2>0, <3>9, GotoFields DEF WriteFile
    <3>10. CASE FinishTask(r)
      BY <2>0, <3>10, GotoFields DEF FinishTask
    <3>11. CASE MarkApproved(r)
      BY <2>0, <3>11, SetStatusFields, GotoFields DEF MarkApproved
    <3>12. CASE MarkFailed(r)
      BY <2>0, <3>12, SetStatusFields, GotoFields DEF MarkFailed
    <3>13. CASE FailTask(r)
      BY <2>0, <3>13, GotoFields DEF FailTask
    <3>14. CASE ReadForDeny(r)
      BY <2>0, <3>14, GotoFields, ReturnFields DEF ReadForDeny
    <3>15. CASE MarkDenied(r)
      BY <2>0, <3>15, SetStatusFields, GotoFields DEF MarkDenied
    <3>16. CASE CancelDeniedTask(r)
      BY <2>0, <3>16, GotoFields DEF CancelDeniedTask
    <3>17. CASE ReadForCancel(r)
      BY <2>0, <3>17, ReturnFields DEF ReadForCancel, ThreadsOK, Thread
    <3>18. CASE UpdateCancelled(r)
      BY <2>0, <3>18, ReturnFields DEF UpdateCancelled
    <3>19. CASE Record(r)
      BY <2>0, <3>19, ReturnFields DEF Record
    <3>20. QED BY <2>4, <3>1, <3>2, <3>3, <3>4, <3>5, <3>6, <3>7, <3>8, <3>9,
      <3>10, <3>11, <3>12, <3>13, <3>14, <3>15, <3>16, <3>17, <3>18, <3>19
      DEF Step
  <2>5. ASSUME NEW r \in Requests, Fault(r) PROVE OwnerInv'
    BY <2>0, <2>5, GotoFields, ReturnFields DEF Fault
  <2>6. CASE Crash
    BY <2>6 DEF Crash, Idle
  <2>7. CASE UNCHANGED vars
    BY <2>7 DEF vars
  <2>8. QED BY <2>1, <2>2, <2>3, <2>4, <2>5, <2>6, <2>7 DEF Next
<1>3. OwnerInv => OwnerOnly
  BY DEF OwnerInv, OwnerOnly
<1>4. QED BY <1>1, <1>2, <1>3, TypeCorrect, GrantInvariant, PTL DEF Spec

(***************************************************************************)
(* The release boundary.                                                   *)
(***************************************************************************)
\* What the registry disables never runs and never counts as done.
THEOREM DisabledNeverRuns == Spec => []FailClosed
<1> USE ConstantsAssumption
<1> DEFINE Inv == EnabledInv /\ FailClosed
<1> USE DEF Issuing, At
<1>1. Init => Inv
  BY DEF Init, EnabledInv, FailClosed, Idle
<1>2. TypeOK /\ GrantInv /\ Inv /\ [Next]_vars => Inv'
  <2> SUFFICES ASSUME TypeOK, GrantInv, Inv, [Next]_vars PROVE Inv'
    OBVIOUS
  <2>0. ThreadsOK /\ \A r \in Requests : ~At(r, "idle") => req[r].ap \in Approvals
    BY DEF TypeOK, ThreadsOK
  <2> USE DEF EnabledInv, FailClosed, Unharmed, store
  <2>1. ASSUME NEW s \in Sessions, EndSession(s) PROVE Inv'
    BY <2>1 DEF EndSession
  <2>2. ASSUME NEW a \in Approvals, PassDeadline(a) PROVE Inv'
    BY <2>2 DEF PassDeadline
  <2>3. ASSUME NEW r \in Requests, Start(r) PROVE Inv'
    <3>1. UNCHANGED <<approval, task, executions>>
      BY <2>3 DEF Start
    <3>2. \A q \in Requests : q # r => req'[q] = req[q]
      BY <2>0, <2>3, StartFields
    <3>3. req'[r].pc \in {"n_approval", "g_approval", "a_read", "d_read", "c_read"}
      BY <2>0, <2>3, StartFields
    <3>4. EnabledInv'
      BY <3>1, <3>2, <3>3
    <3>5. FailClosed'
      BY <3>1
    <3>6. QED BY <3>4, <3>5
  <2>4. ASSUME NEW r \in Requests, Step(r) PROVE Inv'
    <3>1. CASE CreateApproval(r)
      <4> DEFINE b == req[r].ap
      <4>1. /\ b \in Approvals /\ executions[b] = 0 /\ task[b] = "none"
            /\ \A q \in Requests : req[q].ap = b => q = r
            /\ UNCHANGED <<executions, task>>
        BY <2>0, <3>1 DEF CreateApproval, GrantInv, IssuerIsAlone, AbsentIsUntouched
      <4>2. \A q \in Requests :
              /\ req'[q].ap = req[q].ap /\ req'[q].saw = req[q].saw
              /\ q # r => req'[q].pc = req[q].pc
        BY <2>0, <3>1, GotoFields DEF CreateApproval
      <4>3. req'[r].pc \in {"n_task", "g_event"}
        BY <2>0, <3>1, GotoFields DEF CreateApproval
      <4>4. /\ \A a \in Approvals : a # b => approval'[a] = approval[a]
            /\ approval'[b].status = "pending"
        BY <3>1, <4>1 DEF CreateApproval, TypeOK
      <4> HIDE DEF b
      <4>5. EnabledInv'
        BY <2>0, <4>1, <4>2, <4>3, <4>4
      <4>6. FailClosed'
        BY <4>1, <4>4
      <4>7. QED BY <4>5, <4>6
    <3>2. CASE CreateTask(r)
      <4>1. EnabledInv'
        BY <2>0, <3>2, ReturnFields DEF CreateTask
      <4>2. FailClosed'
        BY <2>0, <3>2 DEF CreateTask, TypeOK
      <4>3. QED BY <4>1, <4>2
    <3>3. CASE ReadForApprove(r)
      BY <2>0, <3>3, GotoFields, ReturnFields DEF ReadForApprove
    <3>4. CASE MarkExpired(r)
      <4>1. EnabledInv'
        BY <2>0, <3>4, SetStatusFields, ReturnFields DEF MarkExpired
      <4>2. FailClosed'
        BY <2>0, <3>4, SetStatusFields DEF MarkExpired
      <4>3. QED BY <4>1, <4>2
    <3>5. CASE Claim(r)
      <4>1. EnabledInv'
        BY <2>0, <3>5, SetStatusFields, GotoFields, ReturnFields DEF Claim
      <4>2. FailClosed'
        BY <2>0, <3>5, SetStatusFields DEF Claim
      <4>3. QED BY <4>1, <4>2
    <3>6. CASE FindTask(r)
      BY <2>0, <3>6 DEF FindTask, ThreadsOK, Thread
    <3>7. CASE Invoke(r)
      <4>1. EnabledInv'
        BY <2>0, <3>7 DEF Invoke, Goto, ThreadsOK, Thread
      <4>2. FailClosed'
        BY <2>0, <3>7 DEF Invoke, TypeOK
      <4>3. QED BY <4>1, <4>2
    <3>8. CASE StoreResult(r)
      BY <2>0, <3>8, GotoFields DEF StoreResult
    <3>9. CASE WriteFile(r)
      BY <2>0, <3>9, GotoFields DEF WriteFile
    <3>10. CASE FinishTask(r)
      <4>1. req[r].ap \in Approvals /\ approval[req[r].ap].kind \in EnabledKinds
        <5>1. req[r].pc = "a_task"
          BY <3>10 DEF FinishTask
        <5>2. req[r].ap \in Approvals
          BY <2>0, <5>1
        <5>3. approval[req[r].ap].kind \in EnabledKinds
          BY <5>1
        <5>4. QED BY <5>2, <5>3
      <4>2. EnabledInv'
        BY <2>0, <3>10, GotoFields DEF FinishTask
      <4>3. \A a \in Approvals : a # req[r].ap => task'[a] = task[a]
        BY <3>10 DEF FinishTask, TypeOK
      <4>4. FailClosed'
        BY <3>10, <4>1, <4>3 DEF FinishTask
      <4>5. QED BY <4>2, <4>4
    <3>11. CASE MarkApproved(r)
      <4>1. EnabledInv'
        BY <2>0, <3>11, SetStatusFields, GotoFields DEF MarkApproved
      <4>2. req[r].ap \in Approvals /\ approval[req[r].ap].kind \in EnabledKinds
        <5>1. req[r].pc = "a_status"
          BY <3>11 DEF MarkApproved
        <5>2. req[r].ap \in Approvals
          BY <2>0, <5>1
        <5>3. approval[req[r].ap].kind \in EnabledKinds
          BY <5>1
        <5>4. QED BY <5>2, <5>3
      <4>3. \A a \in Approvals :
              /\ approval'[a].kind = approval[a].kind
              /\ a # req[r].ap => approval'[a].status = approval[a].status
        BY <3>11, <4>2, SetStatusFields DEF MarkApproved
      <4>4. FailClosed'
        BY <3>11, <4>2, <4>3 DEF MarkApproved
      <4>5. QED BY <4>1, <4>4
    <3>12. CASE MarkFailed(r)
      <4>1. EnabledInv'
        BY <2>0, <3>12, SetStatusFields, GotoFields DEF MarkFailed
      <4>2. FailClosed'
        BY <2>0, <3>12, SetStatusFields DEF MarkFailed
      <4>3. QED BY <4>1, <4>2
    <3>13. CASE FailTask(r)
      <4>1. EnabledInv'
        BY <2>0, <3>13, GotoFields DEF FailTask
      <4>2. FailClosed'
        BY <2>0, <3>13 DEF FailTask, TypeOK
      <4>3. QED BY <4>1, <4>2
    <3>14. CASE ReadForDeny(r)
      BY <2>0, <3>14, GotoFields, ReturnFields DEF ReadForDeny
    <3>15. CASE MarkDenied(r)
      <4>1. EnabledInv'
        BY <2>0, <3>15, SetStatusFields, GotoFields DEF MarkDenied
      <4>2. FailClosed'
        BY <2>0, <3>15, SetStatusFields DEF MarkDenied
      <4>3. QED BY <4>1, <4>2
    <3>16. CASE CancelDeniedTask(r)
      <4>1. EnabledInv'
        BY <2>0, <3>16, GotoFields DEF CancelDeniedTask
      <4>2. FailClosed'
        BY <2>0, <3>16 DEF CancelDeniedTask, TypeOK
      <4>3. QED BY <4>1, <4>2
    <3>17. CASE ReadForCancel(r)
      BY <2>0, <3>17, ReturnFields DEF ReadForCancel, ThreadsOK, Thread
    <3>18. CASE UpdateCancelled(r)
      <4>1. EnabledInv'
        BY <2>0, <3>18, ReturnFields DEF UpdateCancelled
      <4>2. FailClosed'
        BY <2>0, <3>18 DEF UpdateCancelled, TypeOK
      <4>3. QED BY <4>1, <4>2
    <3>19. CASE Record(r)
      BY <2>0, <3>19, ReturnFields DEF Record
    <3>20. QED BY <2>4, <3>1, <3>2, <3>3, <3>4, <3>5, <3>6, <3>7, <3>8, <3>9,
      <3>10, <3>11, <3>12, <3>13, <3>14, <3>15, <3>16, <3>17, <3>18, <3>19
      DEF Step
  <2>5. ASSUME NEW r \in Requests, Fault(r) PROVE Inv'
    BY <2>0, <2>5, GotoFields, ReturnFields DEF Fault
  <2>6. CASE Crash
    BY <2>6 DEF Crash, Idle
  <2>7. CASE UNCHANGED vars
    BY <2>7 DEF vars
  <2>8. QED BY <2>1, <2>2, <2>3, <2>4, <2>5, <2>6, <2>7 DEF Next
<1>3. Inv => FailClosed
  OBVIOUS
<1> HIDE DEF Inv
<1>4. QED BY <1>1, <1>2, <1>3, TypeCorrect, GrantInvariant, PTL DEF Spec

(***************************************************************************)
(* The refinement.                                                         *)
(***************************************************************************)
\* The statuses that a grant tells apart stay the same for a.
SameStage(a) ==
  \/ approval'[a].status = approval[a].status
  \/ /\ approval[a].status \notin {"absent", "pending"}
     /\ approval'[a].status \notin {"absent", "pending"}

\* A step that leaves the stage and the claims of every approval alone is a
\* stutter of the grants.
LEMMA SameGrants ==
  ASSUME \A a \in Approvals : SameStage(a),
         \A a \in Approvals, q \in Requests : Claiming(q, a)' <=> Claiming(q, a),
         executions' = executions
  PROVE  UNCHANGED OneTime!vars
<1>1. \A a \in Approvals : GrantOf(a)' = GrantOf(a)
  BY DEF GrantOf, SameStage
<1>2. QED BY <1>1 DEF OneTime!vars

\* Such is a step of one thread that neither enters nor leaves the claim.
LEMMA MoveKeepsGrants ==
  ASSUME ThreadsOK, NEW r \in Requests, NEW pc, Goto(r, pc),
         (req[r].pc \in {"a_link", "a_invoke"}) <=> (pc \in {"a_link", "a_invoke"}),
         \A a \in Approvals : SameStage(a),
         executions' = executions
  PROVE  UNCHANGED OneTime!vars
<1>1. \A a \in Approvals, q \in Requests : Claiming(q, a)' <=> Claiming(q, a)
  BY GotoFields DEF Claiming
<1>2. QED BY <1>1, SameGrants

\* And the return of a thread that holds no claim.
LEMMA ReturnKeepsGrants ==
  ASSUME ThreadsOK, NEW r \in Requests, Return(r),
         req[r].pc \notin {"a_link", "a_invoke"},
         \A a \in Approvals : SameStage(a),
         executions' = executions
  PROVE  UNCHANGED OneTime!vars
<1>1. \A a \in Approvals, q \in Requests : Claiming(q, a)' <=> Claiming(q, a)
  BY ReturnFields DEF Claiming
<1>2. QED BY <1>1, SameGrants

\* A thread at work on b leaves the grants of the other approvals alone.
LEMMA OthersKeepTheirGrants ==
  ASSUME NEW r \in Requests, NEW b \in Approvals, req[r].ap = b,
         req'[r].ap \in {b, None},
         \A q \in Requests : q # r =>
           req'[q].ap = req[q].ap /\ req'[q].pc = req[q].pc,
         \A a \in Approvals : a # b => approval'[a].status = approval[a].status
  PROVE  \A a \in Approvals : a # b => GrantOf(a)' = GrantOf(a)
<1>1. \A a \in Approvals, q \in Requests :
        a # b => (Claiming(q, a)' <=> Claiming(q, a))
  BY ConstantsAssumption DEF Claiming
<1>2. QED BY <1>1 DEF GrantOf

\* Writing "expired" or "denied" closes the grant of a pending approval, and
\* changes no other grant: who claimed b in the meantime keeps the claim.
LEMMA Closing ==
  ASSUME TypeOK, GrantInv,
         NEW r \in Requests, NEW b \in Approvals, req[r].ap = b,
         req[r].pc \in {"a_expire", "d_status"},
         NEW status \in {"expired", "denied"}, SetStatus(b, status),
         Return(r) \/ Goto(r, "d_link"),
         executions' = executions
  PROVE  OneTime!Close(b) \/ UNCHANGED OneTime!vars
<1>1. ThreadsOK
  BY DEF TypeOK
<1>2. \A a \in Approvals, q \in Requests : Claiming(q, a)' <=> Claiming(q, a)
  <2>1. /\ req'[r].pc \in {"idle", "d_link"}
        /\ \A q \in Requests : q # r =>
             req'[q].ap = req[q].ap /\ req'[q].pc = req[q].pc
    BY <1>1, GotoFields, ReturnFields
  <2>2. QED BY <2>1 DEF Claiming
<1>3. CASE approval[b].status = "pending"
  <2>1. \A q \in Requests : ~Claiming(q, b)
    BY <1>3 DEF GrantInv, ClaimIsSpent, InClaim, InTry, Claiming
  <2>2. \A a \in Approvals : GrantOf(a)' = IF a = b THEN "spent" ELSE GrantOf(a)
    BY <1>2, <2>1, SetStatusFields DEF GrantOf
  <2>3. GrantOf(b) = "open"
    BY <1>3, <2>1 DEF GrantOf
  <2>4. QED BY <2>2, <2>3 DEF OneTime!Close
<1>4. CASE approval[b].status # "pending"
  <2>1. approval[b].status # "absent"
    BY DEF GrantInv, AbsentIsUntouched, Issuing
  <2>2. \A a \in Approvals : SameStage(a)
    BY <1>4, <2>1, SetStatusFields DEF SameStage
  <2>3. QED BY <1>2, <2>2, SameGrants
<1>5. QED BY <1>3, <1>4

\* The handlers implement the one-time grant.
THEOREM GrantRefinement == Spec => ImplementsOneTimeGrant
<1>1. Init => OneTime!Init
  <2> SUFFICES ASSUME Init PROVE OneTime!Init
    OBVIOUS
  <2>1. \A a \in Approvals : GrantOf(a) = "none"
    BY DEF Init, GrantOf, Claiming, Idle
  <2>2. QED BY <2>1 DEF Init, OneTime!Init
<1>2. TypeOK /\ GrantInv /\ [Next]_vars => [OneTime!Next]_(OneTime!vars)
  <2> SUFFICES ASSUME TypeOK, GrantInv, [Next]_vars
               PROVE  OneTime!Next \/ UNCHANGED OneTime!vars
    BY DEF OneTime!vars
  <2>0. ThreadsOK /\ \A r \in Requests : ~At(r, "idle") => req[r].ap \in Approvals
    BY DEF TypeOK, ThreadsOK
  <2> USE DEF Unharmed, store
  <2>1. ASSUME NEW s \in Sessions, EndSession(s) PROVE UNCHANGED OneTime!vars
    BY <2>1, SameGrants DEF EndSession, SameStage, Claiming
  <2>2. ASSUME NEW a \in Approvals, PassDeadline(a) PROVE UNCHANGED OneTime!vars
    BY <2>2, SameGrants DEF PassDeadline, SameStage, Claiming
  <2>3. ASSUME NEW r \in Requests, Start(r) PROVE UNCHANGED OneTime!vars
    <3>1. \A a \in Approvals, q \in Requests : Claiming(q, a)' <=> Claiming(q, a)
      BY <2>0, <2>3, StartFields DEF Start, Claiming, At
    <3>2. QED BY <2>3, <3>1, SameGrants DEF Start, SameStage
  <2>4. ASSUME NEW r \in Requests, Step(r)
        PROVE  OneTime!Next \/ UNCHANGED OneTime!vars
    <3>0. PICK b : b = req[r].ap /\ (~At(r, "idle") => b \in Approvals)
      BY <2>0
    <3> USE <3>0
    <3>1. CASE CreateApproval(r)
      <4>1. /\ b \in Approvals /\ approval[b].status = "absent" /\ ~At(r, "idle")
            /\ \A q \in Requests : req[q].ap = b => q = r
            /\ UNCHANGED executions
        BY <3>0, <3>1 DEF CreateApproval, At, GrantInv, IssuerIsAlone, Issuing
      <4>2. /\ req'[r].ap = b /\ req'[r].pc \in {"n_task", "g_event"}
            /\ \A q \in Requests : q # r =>
                 req'[q].ap = req[q].ap /\ req'[q].pc = req[q].pc
        BY <2>0, <3>1, GotoFields DEF CreateApproval
      <4>3. /\ \A a \in Approvals : a # b => approval'[a].status = approval[a].status
            /\ approval'[b].status = "pending"
        BY <3>1, <4>1 DEF CreateApproval, TypeOK
      <4>4. GrantOf(b) = "none"
        BY <3>1, <4>1 DEF GrantOf, Claiming, CreateApproval
      <4>5. GrantOf(b)' = "open"
        BY <4>1, <4>2, <4>3 DEF GrantOf, Claiming
      <4>6. \A a \in Approvals : a # b => GrantOf(a)' = GrantOf(a)
        BY <4>1, <4>2, <4>3, OthersKeepTheirGrants
      <4>7. OneTime!Issue(b)
        BY <4>1, <4>4, <4>5, <4>6 DEF OneTime!Issue
      <4>8. QED BY <4>1, <4>7 DEF OneTime!Next
    <3>2. CASE CreateTask(r)
      BY <2>0, <3>2, ReturnKeepsGrants DEF CreateTask, SameStage, At
    <3>3. CASE ReadForApprove(r)
      BY <2>0, <3>3, MoveKeepsGrants, ReturnKeepsGrants
      DEF ReadForApprove, SameStage, At
    <3>4. CASE MarkExpired(r)
      <4>1. b \in Approvals /\ req[r].pc \in {"a_expire", "d_status"}
        BY <3>0, <3>4 DEF MarkExpired, At
      <4>2. OneTime!Close(b) \/ UNCHANGED OneTime!vars
        BY <3>4, <4>1, Closing DEF MarkExpired
      <4>3. QED BY <4>1, <4>2 DEF OneTime!Next
    <3>5. CASE Claim(r)
      <4>1. b \in Approvals /\ At(r, "a_claim") /\ UNCHANGED executions
        BY <3>0, <3>5 DEF Claim, At
      <4>2. CASE approval[b].status # "pending"
        BY <2>0, <3>5, <4>1, <4>2, ReturnKeepsGrants DEF Claim, SameStage, At
      <4>3. CASE approval[b].status = "pending"
        <5>1. \A q \in Requests : ~Claiming(q, b)
          BY <4>3 DEF GrantInv, ClaimIsSpent, InClaim, InTry, Claiming
        <5>2. /\ req'[r].ap = b /\ req'[r].pc = "a_link"
              /\ \A q \in Requests : q # r =>
                   req'[q].ap = req[q].ap /\ req'[q].pc = req[q].pc
          BY <2>0, <3>5, <4>3, GotoFields DEF Claim
        <5>3. \A a \in Approvals : a # b => approval'[a].status = approval[a].status
          BY <3>5, <4>1, <4>3, SetStatusFields DEF Claim
        <5>4. \A a \in Approvals : a # b => GrantOf(a)' = GrantOf(a)
          BY <4>1, <5>2, <5>3, OthersKeepTheirGrants
        <5>5. GrantOf(b) = "open"
          BY <4>3, <5>1 DEF GrantOf
        <5>6. GrantOf(b)' = "claimed"
          BY <5>2 DEF GrantOf, Claiming
        <5>7. OneTime!Claim(b)
          BY <4>1, <5>4, <5>5, <5>6 DEF OneTime!Claim
        <5>8. QED BY <4>1, <5>7 DEF OneTime!Next
      <4>4. QED BY <4>2, <4>3
    <3>6. CASE FindTask(r)
      <4>1. \A a \in Approvals, q \in Requests : Claiming(q, a)' <=> Claiming(q, a)
        BY <2>0, <3>6 DEF FindTask, Claiming, At, ThreadsOK, Thread
      <4>2. QED BY <3>6, <4>1, SameGrants DEF FindTask, SameStage
    <3>7. CASE Invoke(r)
      <4>1. b \in Approvals /\ At(r, "a_invoke") /\ UNCHANGED approval
        BY <3>0, <3>7 DEF Invoke, At
      <4>2. /\ req'[r].ap = b /\ req'[r].pc \in {"a_store", "f_status"}
            /\ \A q \in Requests : q # r =>
                 req'[q].ap = req[q].ap /\ req'[q].pc = req[q].pc
        BY <2>0, <3>7, GotoFields DEF Invoke, ThreadsOK, Thread
      <4>3. InClaim(r) /\ \A q \in Requests : Claiming(q, b) => q = r
        BY <4>1 DEF GrantInv, ClaimIsExclusive, InClaim, InTry, Claiming, At
      <4>4. GrantOf(b) = "claimed"
        BY <4>1 DEF GrantOf, Claiming, At
      <4>5. GrantOf(b)' = "spent"
        <5>1. approval'[b].status \notin {"absent", "pending"}
          BY <4>1, <4>3 DEF GrantInv, ClaimIsSpent
        <5>2. \A q \in Requests : ~Claiming(q, b)'
          BY <4>2, <4>3 DEF Claiming
        <5>3. QED BY <5>1, <5>2 DEF GrantOf
      <4>6. \A a \in Approvals : a # b => GrantOf(a)' = GrantOf(a)
        BY <4>1, <4>2, OthersKeepTheirGrants
      <4>7. CASE approval[b].kind \in EnabledKinds
        <5>1. executions' = [executions EXCEPT ![b] = @ + 1]
          BY <3>7, <4>7 DEF Invoke
        <5>2. OneTime!Use(b)
          BY <4>1, <4>4, <4>5, <4>6, <5>1 DEF OneTime!Use
        <5>3. QED BY <4>1, <5>2 DEF OneTime!Next
      <4>8. CASE approval[b].kind \notin EnabledKinds
        <5>1. UNCHANGED executions
          BY <3>7, <4>8 DEF Invoke
        <5>2. OneTime!Lose({b})
          BY <4>1, <4>4, <4>5, <4>6, <5>1 DEF OneTime!Lose
        <5>3. QED BY <4>1, <5>2 DEF OneTime!Next
      <4>9. QED BY <4>7, <4>8
    <3>8. CASE StoreResult(r)
      BY <2>0, <3>8, MoveKeepsGrants DEF StoreResult, SameStage, At
    <3>9. CASE WriteFile(r)
      BY <2>0, <3>9, MoveKeepsGrants DEF WriteFile, SameStage, At
    <3>10. CASE FinishTask(r)
      BY <2>0, <3>10, MoveKeepsGrants DEF FinishTask, SameStage, At
    <3>11. CASE MarkApproved(r)
      <4>1. At(r, "a_status") /\ InClaim(r) /\ b \in Approvals
        BY <3>0, <3>11 DEF MarkApproved, InClaim, InTry, At
      <4>2. \A a \in Approvals : SameStage(a)
        BY <3>11, <4>1, SetStatusFields
        DEF MarkApproved, SameStage, GrantInv, ClaimIsSpent
      <4>3. QED BY <2>0, <3>11, <4>1, <4>2, MoveKeepsGrants DEF MarkApproved, At
    <3>12. CASE MarkFailed(r)
      <4>1. /\ req[r].pc \in {"f_status", "x_status"} /\ InClaim(r)
            /\ b \in Approvals
        BY <3>0, <3>12 DEF MarkFailed, InClaim, InTry, Refusing, Failing, At
      <4>2. \A a \in Approvals : SameStage(a)
        BY <3>12, <4>1, SetStatusFields
        DEF MarkFailed, SameStage, GrantInv, ClaimIsSpent
      <4>3. QED BY <2>0, <3>12, <4>1, <4>2, MoveKeepsGrants DEF MarkFailed, At
    <3>13. CASE FailTask(r)
      BY <2>0, <3>13, MoveKeepsGrants DEF FailTask, SameStage, At
    <3>14. CASE ReadForDeny(r)
      BY <2>0, <3>14, MoveKeepsGrants, ReturnKeepsGrants
      DEF ReadForDeny, SameStage, At
    <3>15. CASE MarkDenied(r)
      <4>1. b \in Approvals /\ req[r].pc \in {"a_expire", "d_status"}
        BY <3>0, <3>15 DEF MarkDenied, At
      <4>2. OneTime!Close(b) \/ UNCHANGED OneTime!vars
        BY <3>15, <4>1, Closing DEF MarkDenied
      <4>3. QED BY <4>1, <4>2 DEF OneTime!Next
    <3>16. CASE CancelDeniedTask(r)
      BY <2>0, <3>16, MoveKeepsGrants DEF CancelDeniedTask, SameStage, At
    <3>17. CASE ReadForCancel(r)
      <4>1. \A a \in Approvals, q \in Requests : Claiming(q, a)' <=> Claiming(q, a)
        BY <2>0, <3>17, ReturnFields
        DEF ReadForCancel, Claiming, At, ThreadsOK, Thread
      <4>2. QED BY <3>17, <4>1, SameGrants DEF ReadForCancel, SameStage
    <3>18. CASE UpdateCancelled(r)
      BY <2>0, <3>18, ReturnKeepsGrants DEF UpdateCancelled, SameStage, At
    <3>19. CASE Record(r)
      BY <2>0, <3>19, ReturnKeepsGrants DEF Record, RecordAt, SameStage
    <3>20. QED BY <2>4, <3>1, <3>2, <3>3, <3>4, <3>5, <3>6, <3>7, <3>8, <3>9,
      <3>10, <3>11, <3>12, <3>13, <3>14, <3>15, <3>16, <3>17, <3>18, <3>19
      DEF Step
  <2>5. ASSUME NEW r \in Requests, Fault(r)
        PROVE  OneTime!Next \/ UNCHANGED OneTime!vars
    <3>0. PICK b : b = req[r].ap
      OBVIOUS
    <3> USE <3>0
    <3>1. /\ b \in Approvals /\ UNCHANGED <<approval, executions>>
          /\ Goto(r, "f_status") \/ Return(r)
      BY <2>0, <2>5 DEF Fault
    <3>2. CASE ~Claiming(r, b)
      BY <2>0, <3>1, <3>2, MoveKeepsGrants, ReturnKeepsGrants
      DEF SameStage, Claiming
    <3>3. CASE Claiming(r, b)
      <4>1. InClaim(r) /\ \A q \in Requests : Claiming(q, b) => q = r
        BY <3>3 DEF GrantInv, ClaimIsExclusive, InClaim, InTry, Claiming
      <4>2. /\ req'[r].ap \in {b, None} /\ req'[r].pc \in {"f_status", "idle"}
            /\ \A q \in Requests : q # r =>
                 req'[q].ap = req[q].ap /\ req'[q].pc = req[q].pc
        BY <2>0, <3>1, GotoFields, ReturnFields
      <4>3. GrantOf(b) = "claimed"
        BY <3>3 DEF GrantOf
      <4>4. GrantOf(b)' = "spent"
        <5>1. approval'[b].status \notin {"absent", "pending"}
          BY <3>1, <4>1 DEF GrantInv, ClaimIsSpent
        <5>2. \A q \in Requests : ~Claiming(q, b)'
          BY <4>1, <4>2 DEF Claiming
        <5>3. QED BY <5>1, <5>2 DEF GrantOf
      <4>5. \A a \in Approvals : a # b => GrantOf(a)' = GrantOf(a)
        BY <3>1, <4>2, OthersKeepTheirGrants
      <4>6. OneTime!Lose({b})
        BY <3>1, <4>3, <4>4, <4>5 DEF OneTime!Lose
      <4>7. QED BY <3>1, <4>6 DEF OneTime!Next
    <3>4. QED BY <3>2, <3>3
  <2>6. CASE Crash
    <3> DEFINE lost == {a \in Approvals : \E r \in Requests : Claiming(r, a)}
    <3>1. UNCHANGED <<approval, executions>>
      BY <2>6 DEF Crash
    <3>2. \A a \in Approvals, q \in Requests : ~Claiming(q, a)'
      BY <2>6 DEF Crash, Claiming, Idle
    <3>3. \A a \in Approvals : GrantOf(a)' = IF a \in lost THEN "spent" ELSE GrantOf(a)
      <4>1. \A a \in lost : approval[a].status \notin {"absent", "pending"}
        BY DEF Claiming, GrantInv, ClaimIsSpent, InClaim, InTry
      <4>2. QED BY <3>1, <3>2, <4>1 DEF GrantOf
    <3>4. \A a \in lost : a \in Approvals /\ GrantOf(a) = "claimed"
      BY DEF GrantOf
    <3> HIDE DEF lost
    <3>5. OneTime!Lose(lost)
      BY <3>1, <3>3, <3>4 DEF OneTime!Lose
    <3>6. lost \in SUBSET Approvals
      BY <3>4
    <3>7. QED BY <3>5, <3>6 DEF OneTime!Next
  <2>7. CASE UNCHANGED vars
    BY <2>7, SameGrants DEF vars, SameStage, Claiming
  <2>8. QED BY <2>1, <2>2, <2>3, <2>4, <2>5, <2>6, <2>7 DEF Next
<1>3. QED BY <1>1, <1>2, TypeCorrect, GrantInvariant, PTL
      DEF Spec, ImplementsOneTimeGrant, OneTime!Spec

(***************************************************************************)
(* The decision and its task.                                              *)
(***************************************************************************)
\* A new approval is unknown until it has its task or its event; what approve() found out about the
\* linked task stays true.
THEOREM LinksAreTrue == Spec => []LinkInv
<1> USE ConstantsAssumption
<1> USE DEF Issuing, InTry, Refusing, At
<1>1. Init => LinkInv
  BY DEF Init, LinkInv, NewIsUnknown, LinksStay, WrittenIsSettled, Idle
<1>2. TypeOK /\ GrantInv /\ LinkInv /\ [Next]_vars => LinkInv'
  <2> SUFFICES ASSUME TypeOK, GrantInv, LinkInv, [Next]_vars PROVE LinkInv'
    OBVIOUS
  <2>0. ThreadsOK /\ \A r \in Requests : ~At(r, "idle") => req[r].ap \in Approvals
    BY DEF TypeOK, ThreadsOK
  <2> USE DEF LinkInv, NewIsUnknown, LinksStay, WrittenIsSettled, Known, Unharmed, store
  <2>1. ASSUME NEW s \in Sessions, EndSession(s) PROVE LinkInv'
    BY <2>1 DEF EndSession
  <2>2. ASSUME NEW a \in Approvals, PassDeadline(a) PROVE LinkInv'
    BY <2>2 DEF PassDeadline
  <2>3. ASSUME NEW r \in Requests, Start(r) PROVE LinkInv'
    <3>1. UNCHANGED <<approval, task, executions, trail, interrupted>>
      BY <2>3 DEF Start
    <3>2. PICK b \in Approvals :
            /\ req'[r].ap = b /\ req'[r].linked = req[r].linked /\ At(r, "idle")
            /\ \/ req'[r].pc \in {"n_approval", "g_approval"} /\ Fresh(b)
               \/ req'[r].pc \in {"a_read", "d_read", "c_read"} /\ Known(b)
      BY <2>0, <2>3, StartFields DEF Start
    <3>3. \A q \in Requests : q # r => req'[q] = req[q]
      BY <2>0, <2>3, StartFields
    <3>4. \A q \in Requests : req[q].pc \in {"n_task", "g_event"} => req[q].ap # b
      BY <3>2 DEF Fresh
    <3>5. NewIsUnknown'
      BY <3>1, <3>2, <3>3, <3>4
    <3>6. LinksStay' /\ WrittenIsSettled'
      BY <3>1, <3>2, <3>3
    <3>7. QED BY <3>5, <3>6
  <2>4. ASSUME NEW r \in Requests, Step(r) PROVE LinkInv'
    <3>1. CASE CreateApproval(r)
      <4> DEFINE b == req[r].ap
      <4>1. /\ b \in Approvals /\ approval[b].status = "absent"
            /\ \A q \in Requests : req[q].ap = b => q = r
            /\ UNCHANGED <<task, trail>>
        BY <2>0, <3>1 DEF CreateApproval, GrantInv, IssuerIsAlone
      <4>2. /\ req'[r].pc \in {"n_task", "g_event"}
            /\ \A q \in Requests :
                 /\ req'[q].ap = req[q].ap /\ req'[q].linked = req[q].linked
                 /\ req'[q].saw = req[q].saw
                 /\ q # r => req'[q].pc = req[q].pc
        BY <2>0, <3>1, GotoFields DEF CreateApproval
      <4>3. /\ \A a \in Approvals : a # b => approval'[a] = approval[a]
            /\ approval'[b].status = "pending"
        BY <3>1, <4>1 DEF CreateApproval, TypeOK
      <4>4. ~Known(b)
        BY <4>1 DEF GrantInv, AbsentIsUntouched, Records
      <4>5. b = req[r].ap
        OBVIOUS
      <4> HIDE DEF b
      <4>6. NewIsUnknown'
        BY <2>0, <4>1, <4>2, <4>3, <4>4, <4>5
      <4>7. LinksStay' /\ WrittenIsSettled'
        BY <2>0, <4>1, <4>2
      <4>8. QED BY <4>6, <4>7
    <3>2. CASE CreateTask(r)
      <4>1. /\ At(r, "n_task") /\ req[r].ap \in Approvals
            /\ \A q \in Requests : q # r => req[q].ap # req[r].ap
            /\ UNCHANGED <<approval, trail>>
        BY <2>0, <3>2 DEF CreateTask
      <4>2. \A b \in Approvals : b # req[r].ap => task'[b] = task[b]
        BY <3>2, <4>1, SetTaskFields DEF CreateTask
      <4>3. /\ \A q \in Requests : q # r => req'[q] = req[q]
            /\ req'[r].pc = "idle" /\ req'[r].ap = None /\ ~req'[r].linked
        BY <2>0, <3>2, ReturnFields, ReturnForgets DEF CreateTask
      <4>4. LinksStay'
        BY <2>0, <4>1, <4>2, <4>3
      <4>5. NewIsUnknown'
        <5> SUFFICES ASSUME NEW q \in Requests, req'[q].pc \in {"n_task", "g_event"}
                     PROVE  /\ approval[req'[q].ap].status = "pending" /\ ~Known(req[q].ap)'
                            /\ \A p \in Requests : req'[p].ap = req'[q].ap => p = q
          BY <4>1 DEF NewIsUnknown
        <5>1. /\ q # r /\ req'[q] = req[q] /\ req[q].ap \in Approvals
              /\ approval[req[q].ap].status = "pending" /\ ~Known(req[q].ap)
              /\ \A p \in Requests : req[p].ap = req[q].ap => p = q
          BY <2>0, <4>3
        <5>2. req[q].ap # req[r].ap
          BY <4>1, <5>1
        <5>3. \A p \in Requests : req'[p].ap = req'[q].ap => p = q
          BY <4>3, <5>1
        <5>4. QED BY <4>1, <4>2, <5>1, <5>2, <5>3
      <4>6. WrittenIsSettled'
        BY <2>0, <4>1, <4>2, <4>3
      <4>7. QED BY <4>4, <4>5, <4>6
    <3>3. CASE ReadForApprove(r)
      BY <2>0, <3>3, GotoFields, ReturnFields, ReturnForgets DEF ReadForApprove
    <3>4. CASE MarkExpired(r)
      BY <2>0, <3>4, SetStatusFields, ReturnFields, ReturnForgets DEF MarkExpired
    <3>5. CASE Claim(r)
      BY <2>0, <3>5, SetStatusFields, GotoFields, ReturnFields, ReturnForgets DEF Claim
    <3>6. CASE FindTask(r)
      BY <2>0, <3>6, GotoFields DEF FindTask, ThreadsOK, Thread
    <3>7. CASE Invoke(r)
      BY <2>0, <3>7, InvokeFields DEF Invoke
    <3>8. CASE StoreResult(r)
      BY <2>0, <3>8, GotoFields DEF StoreResult
    <3>9. CASE WriteFile(r)
      BY <2>0, <3>9, GotoFields DEF WriteFile
    <3>10. CASE FinishTask(r)
      <4> DEFINE b == req[r].ap
      <4>1. /\ b \in Approvals /\ task[b] # "none" /\ b = req[r].ap
            /\ UNCHANGED <<approval, trail>>
        BY <2>0, <3>10 DEF FinishTask
      <4>2. /\ \A c \in Approvals : c # b => task'[c] = task[c]
            /\ task'[b] \notin {"none", "waiting_approval"}
        BY <2>0, <3>10, <4>1 DEF FinishTask, TypeOK
      <4> HIDE DEF b
      <4>3. LinksStay'
        BY <2>0, <3>10, <4>1, <4>2, GotoFields DEF FinishTask
      <4>4. NewIsUnknown'
        BY <2>0, <3>10, <4>1, <4>2, GotoFields DEF FinishTask
      <4>5. WrittenIsSettled'
        BY <2>0, <3>10, <4>1, <4>2, GotoFields DEF FinishTask
      <4>6. QED BY <4>3, <4>4, <4>5
    <3>11. CASE MarkApproved(r)
      BY <2>0, <3>11, SetStatusFields, GotoFields DEF MarkApproved
    <3>12. CASE MarkFailed(r)
      BY <2>0, <3>12, SetStatusFields, GotoFields DEF MarkFailed
    <3>13. CASE FailTask(r)
      <4> DEFINE b == req[r].ap
      <4>1. /\ b \in Approvals /\ task[b] # "none" /\ b = req[r].ap
            /\ UNCHANGED <<approval, trail>>
        BY <2>0, <3>13 DEF FailTask
      <4>2. /\ \A c \in Approvals : c # b => task'[c] = task[c]
            /\ task'[b] \notin {"none", "waiting_approval"}
        BY <2>0, <3>13, <4>1 DEF FailTask, TypeOK
      <4> HIDE DEF b
      <4>3. LinksStay'
        BY <2>0, <3>13, <4>1, <4>2, GotoFields DEF FailTask
      <4>4. NewIsUnknown'
        BY <2>0, <3>13, <4>1, <4>2, GotoFields DEF FailTask
      <4>5. WrittenIsSettled'
        BY <2>0, <3>13, <4>1, <4>2, GotoFields DEF FailTask
      <4>6. QED BY <4>3, <4>4, <4>5
    <3>14. CASE ReadForDeny(r)
      BY <2>0, <3>14, GotoFields, ReturnFields, ReturnForgets DEF ReadForDeny
    <3>15. CASE MarkDenied(r)
      BY <2>0, <3>15, SetStatusFields, GotoFields DEF MarkDenied
    <3>16. CASE CancelDeniedTask(r)
      <4> DEFINE b == req[r].ap
      <4>1. /\ b \in Approvals /\ task[b] # "none" /\ b = req[r].ap
            /\ UNCHANGED <<approval, trail>>
        BY <2>0, <3>16 DEF CancelDeniedTask
      <4>2. /\ \A c \in Approvals : c # b => task'[c] = task[c]
            /\ task'[b] \notin {"none", "waiting_approval"}
        BY <2>0, <3>16, <4>1 DEF CancelDeniedTask, TypeOK
      <4> HIDE DEF b
      <4>3. LinksStay'
        BY <2>0, <3>16, <4>1, <4>2, GotoFields DEF CancelDeniedTask
      <4>4. NewIsUnknown'
        BY <2>0, <3>16, <4>1, <4>2, GotoFields DEF CancelDeniedTask
      <4>5. WrittenIsSettled'
        BY <2>0, <3>16, <4>1, <4>2, GotoFields DEF CancelDeniedTask
      <4>6. QED BY <4>3, <4>4, <4>5
    <3>17. CASE ReadForCancel(r)
      BY <2>0, <3>17, GotoFields, ReturnFields, ReturnForgets DEF ReadForCancel, ThreadsOK, Thread
    <3>18. CASE UpdateCancelled(r)
      <4> DEFINE b == req[r].ap
      <4>1. /\ b \in Approvals /\ task[b] # "none" /\ req[r].saw # "none"
            /\ UNCHANGED <<approval, trail>>
        BY <2>0, <3>18 DEF UpdateCancelled
      <4>2. /\ \A c \in Approvals : c # b => task'[c] = task[c]
            /\ task'[b] \notin {"none", "waiting_approval"}
        BY <2>0, <3>18, <4>1 DEF UpdateCancelled, TypeOK
      <4> HIDE DEF b
      <4>3. /\ \A q \in Requests : q # r => req'[q] = req[q]
            /\ req'[r].pc = "idle" /\ req'[r].ap = None /\ ~req'[r].linked
        BY <2>0, <3>18, ReturnFields, ReturnForgets DEF UpdateCancelled
      <4>4. LinksStay' /\ WrittenIsSettled'
        BY <2>0, <4>1, <4>2, <4>3
      <4>5. NewIsUnknown'
        <5> SUFFICES ASSUME NEW q \in Requests, req'[q].pc \in {"n_task", "g_event"}
                     PROVE  /\ approval[req'[q].ap].status = "pending" /\ ~Known(req[q].ap)'
                            /\ \A p \in Requests : req'[p].ap = req'[q].ap => p = q
          BY <4>1 DEF NewIsUnknown
        <5>1. /\ q # r /\ req'[q] = req[q] /\ req[q].ap \in Approvals
              /\ approval[req[q].ap].status = "pending" /\ ~Known(req[q].ap)
              /\ \A p \in Requests : req[p].ap = req[q].ap => p = q
          BY <2>0, <4>3
        <5>2. req[q].ap # b
          BY <4>1, <5>1
        <5>3. \A p \in Requests : req'[p].ap = req'[q].ap => p = q
          BY <4>3, <5>1
        <5>4. QED BY <4>1, <4>2, <5>1, <5>2, <5>3
      <4>6. QED BY <4>4, <4>5
    <3>19. CASE Record(r)
      BY <2>0, <3>19, ReturnFields, ReturnForgets DEF Record, TypeOK, RecordAt
    <3>20. QED BY <2>4, <3>1, <3>2, <3>3, <3>4, <3>5, <3>6, <3>7, <3>8, <3>9,
      <3>10, <3>11, <3>12, <3>13, <3>14, <3>15, <3>16, <3>17, <3>18, <3>19
      DEF Step
  <2>5. ASSUME NEW r \in Requests, Fault(r) PROVE LinkInv'
    BY <2>0, <2>5, GotoFields, ReturnFields, ReturnForgets DEF Fault, Decisive
  <2>6. CASE Crash
    BY <2>6 DEF Crash, Idle, Decisive
  <2>7. CASE UNCHANGED vars
    BY <2>7 DEF vars
  <2>8. QED BY <2>1, <2>2, <2>3, <2>4, <2>5, <2>6, <2>7 DEF Next
<1>3. QED BY <1>1, <1>2, TypeCorrect, GrantInvariant, PTL DEF Spec

\* A decided approval's task leaves waiting_approval, or a request is still to write it, or the
\* decision was interrupted.
THEOREM DecisionIsTold == Spec => []DecisionReachesTask
<1> USE ConstantsAssumption
<1> USE DEF Deciding, InTry, Refusing, Failing, Denying, BeforeTask, At
<1>1. Init => DecisionReachesTask
  BY DEF Init, DecisionReachesTask
<1>2. TypeOK /\ GrantInv /\ LinkInv /\ DecisionReachesTask /\ [Next]_vars => DecisionReachesTask'
  <2> SUFFICES ASSUME TypeOK, GrantInv, LinkInv, DecisionReachesTask, [Next]_vars PROVE DecisionReachesTask'
    OBVIOUS
  <2>0. ThreadsOK /\ \A r \in Requests : ~At(r, "idle") => req[r].ap \in Approvals
    BY DEF TypeOK, ThreadsOK
  <2> USE DEF DecisionReachesTask, WillSettle, Unharmed, store
  <2>1. ASSUME NEW s \in Sessions, EndSession(s) PROVE DecisionReachesTask'
    BY <2>1 DEF EndSession
  <2>2. ASSUME NEW a \in Approvals, PassDeadline(a) PROVE DecisionReachesTask'
    BY <2>2 DEF PassDeadline
  <2>3. ASSUME NEW r \in Requests, Start(r) PROVE DecisionReachesTask'
    <3>1. UNCHANGED <<approval, task, executions, trail, interrupted>>
      BY <2>3 DEF Start, Unharmed
    <3>2. \A q \in Requests : q # r => req'[q] = req[q]
      BY <2>0, <2>3, StartFields
    <3>3. \A a \in Approvals : ~WillSettle(r, a)
      BY <2>0, <2>3 DEF Start, LinkInv, LinksStay
    <3>4. QED BY <3>1, <3>2, <3>3
  <2>4. ASSUME NEW r \in Requests, Step(r) PROVE DecisionReachesTask'
    <3>1. CASE CreateApproval(r)
      BY <2>0, <3>1, GotoFields DEF CreateApproval, TypeOK
    <3>2. CASE CreateTask(r)
      <4>1. /\ req[r].ap \in Approvals /\ approval[req[r].ap].status = "pending"
            /\ UNCHANGED <<approval, interrupted>>
        BY <2>0, <3>2 DEF CreateTask, LinkInv, NewIsUnknown
      <4>2. \A b \in Approvals : b # req[r].ap => task'[b] = task[b]
        BY <3>2, <4>1, SetTaskFields DEF CreateTask
      <4>3. \A q \in Requests : q # r => req'[q] = req[q]
        BY <2>0, <3>2, ReturnFields DEF CreateTask
      <4>4. \A b \in Approvals : ~WillSettle(r, b)
        BY <3>2 DEF CreateTask
      <4>5. QED BY <4>1, <4>2, <4>3, <4>4
    <3>3. CASE ReadForApprove(r)
      BY <2>0, <3>3, GotoFields, ReturnFields DEF ReadForApprove
    <3>4. CASE MarkExpired(r)
      BY <2>0, <3>4, SetStatusFields, ReturnFields DEF MarkExpired
    <3>5. CASE Claim(r)
      BY <2>0, <3>5, SetStatusFields, GotoFields, ReturnFields DEF Claim
    <3>6. CASE FindTask(r)
      BY <2>0, <3>6, GotoFields DEF FindTask, ThreadsOK, Thread
    <3>7. CASE Invoke(r)
      BY <2>0, <3>7, InvokeFields DEF Invoke
    <3>8. CASE StoreResult(r)
      BY <2>0, <3>8, GotoFields DEF StoreResult
    <3>9. CASE WriteFile(r)
      BY <2>0, <3>9, GotoFields DEF WriteFile
    <3>10. CASE FinishTask(r)
      BY <2>0, <3>10, GotoFields DEF FinishTask, TypeOK
    <3>11. CASE MarkApproved(r)
      <4>1. task[req[r].ap] # "waiting_approval"
        BY <3>11 DEF MarkApproved, LinkInv, WrittenIsSettled
      <4>2. QED BY <2>0, <3>11, <4>1, SetStatusFields, GotoFields DEF MarkApproved
    <3>12. CASE MarkFailed(r)
      <4>1. ~req[r].linked => task[req[r].ap] # "waiting_approval"
        BY <3>12 DEF MarkFailed, LinkInv, LinksStay
      <4>2. QED BY <2>0, <3>12, <4>1, SetStatusFields, GotoFields DEF MarkFailed
    <3>13. CASE FailTask(r)
      BY <2>0, <3>13, GotoFields DEF FailTask, TypeOK
    <3>14. CASE ReadForDeny(r)
      BY <2>0, <3>14, GotoFields, ReturnFields DEF ReadForDeny
    <3>15. CASE MarkDenied(r)
      BY <2>0, <3>15, SetStatusFields, GotoFields DEF MarkDenied
    <3>16. CASE CancelDeniedTask(r)
      BY <2>0, <3>16, GotoFields DEF CancelDeniedTask, TypeOK
    <3>17. CASE ReadForCancel(r)
      BY <2>0, <3>17, GotoFields, ReturnFields DEF ReadForCancel, ThreadsOK, Thread
    <3>18. CASE UpdateCancelled(r)
      BY <2>0, <3>18, ReturnFields DEF UpdateCancelled, TypeOK
    <3>19. CASE Record(r)
      BY <2>0, <3>19, ReturnFields DEF Record, TypeOK, RecordAt
    <3>20. QED BY <2>4, <3>1, <3>2, <3>3, <3>4, <3>5, <3>6, <3>7, <3>8, <3>9,
      <3>10, <3>11, <3>12, <3>13, <3>14, <3>15, <3>16, <3>17, <3>18, <3>19
      DEF Step
  <2>5. ASSUME NEW r \in Requests, Fault(r) PROVE DecisionReachesTask'
    <3>1. UNCHANGED <<approval, task>>
      BY <2>5 DEF Fault
    <3>2. CASE req[r].pc \in InTry /\ Goto(r, "f_status") /\ UNCHANGED interrupted
      <4>1. \A a \in Approvals : WillSettle(r, a) => req[r].linked
        BY <3>2 DEF LinkInv, LinksStay
      <4>2. QED BY <2>0, <3>1, <3>2, <4>1, GotoFields
    <3>3. CASE /\ req[r].pc \notin InTry /\ Return(r)
               /\ interrupted' = interrupted \cup {req[x].ap : x \in {r} \cap Decisive}
      <4>1. \A q \in Requests : q # r => req'[q] = req[q]
        BY <2>0, <3>3, ReturnFields
      <4>2. \A a \in Approvals : WillSettle(r, a) => a \in interrupted'
        BY <3>3 DEF Decisive
      <4>3. QED BY <3>1, <3>3, <4>1, <4>2
    <3>4. QED BY <2>5, <3>2, <3>3 DEF Fault
  <2>6. CASE Crash
    BY <2>6 DEF Crash, Idle, Decisive
  <2>7. CASE UNCHANGED vars
    BY <2>7 DEF vars
  <2>8. QED BY <2>1, <2>2, <2>3, <2>4, <2>5, <2>6, <2>7 DEF Next
<1>3. QED BY <1>1, <1>2, TypeCorrect, GrantInvariant, LinksAreTrue, PTL DEF Spec

\* What an approval has executed is audited, or a request is still to audit it, or that request was
\* interrupted.
THEOREM ExecutionLeavesTrail == Spec => []ExecutionIsAudited
<1> USE ConstantsAssumption
<1> USE DEF InTry, Refusing, Failing, Deciding, At
<1>1. Init => ExecutionIsAudited
  BY DEF Init, ExecutionIsAudited
<1>2. TypeOK /\ GrantInv /\ ExecutionIsAudited /\ [Next]_vars => ExecutionIsAudited'
  <2> SUFFICES ASSUME TypeOK, GrantInv, ExecutionIsAudited, [Next]_vars PROVE ExecutionIsAudited'
    OBVIOUS
  <2>0. ThreadsOK /\ \A r \in Requests : ~At(r, "idle") => req[r].ap \in Approvals
    BY DEF TypeOK, ThreadsOK
  <2> USE DEF ExecutionIsAudited, Unharmed, store
  <2>1. ASSUME NEW s \in Sessions, EndSession(s) PROVE ExecutionIsAudited'
    BY <2>1 DEF EndSession
  <2>2. ASSUME NEW a \in Approvals, PassDeadline(a) PROVE ExecutionIsAudited'
    BY <2>2 DEF PassDeadline
  <2>3. ASSUME NEW r \in Requests, Start(r) PROVE ExecutionIsAudited'
    <3>1. UNCHANGED <<executions, trail, interrupted>> /\ At(r, "idle")
      BY <2>3 DEF Start
    <3>2. \A q \in Requests : q # r => req'[q] = req[q]
      BY <2>0, <2>3, StartFields
    <3>3. QED BY <3>1, <3>2
  <2>4. ASSUME NEW r \in Requests, Step(r) PROVE ExecutionIsAudited'
    <3>1. CASE CreateApproval(r)
      BY <2>0, <3>1, GotoFields DEF CreateApproval
    <3>2. CASE CreateTask(r)
      BY <2>0, <3>2, ReturnFields DEF CreateTask, TypeOK
    <3>3. CASE ReadForApprove(r)
      BY <2>0, <3>3, GotoFields, ReturnFields DEF ReadForApprove
    <3>4. CASE MarkExpired(r)
      BY <2>0, <3>4, SetStatusFields, ReturnFields DEF MarkExpired
    <3>5. CASE Claim(r)
      BY <2>0, <3>5, SetStatusFields, GotoFields, ReturnFields DEF Claim
    <3>6. CASE FindTask(r)
      BY <2>0, <3>6, GotoFields DEF FindTask, ThreadsOK, Thread
    <3>7. CASE Invoke(r)
      <4> DEFINE b == req[r].ap
      <4>1. /\ b \in Approvals /\ UNCHANGED <<trail, interrupted>>
            /\ \A a \in Approvals : a # b => executions'[a] = executions[a]
        BY <2>0, <3>7 DEF Invoke, TypeOK
      <4>2. QED BY <4>1, <2>0, <3>7, InvokeFields DEF Invoke
    <3>8. CASE StoreResult(r)
      BY <2>0, <3>8, GotoFields DEF StoreResult
    <3>9. CASE WriteFile(r)
      BY <2>0, <3>9, GotoFields DEF WriteFile
    <3>10. CASE FinishTask(r)
      BY <2>0, <3>10, GotoFields DEF FinishTask, TypeOK
    <3>11. CASE MarkApproved(r)
      BY <2>0, <3>11, SetStatusFields, GotoFields DEF MarkApproved
    <3>12. CASE MarkFailed(r)
      BY <2>0, <3>12, SetStatusFields, GotoFields DEF MarkFailed
    <3>13. CASE FailTask(r)
      BY <2>0, <3>13, GotoFields DEF FailTask, TypeOK
    <3>14. CASE ReadForDeny(r)
      BY <2>0, <3>14, GotoFields, ReturnFields DEF ReadForDeny
    <3>15. CASE MarkDenied(r)
      BY <2>0, <3>15, SetStatusFields, GotoFields DEF MarkDenied
    <3>16. CASE CancelDeniedTask(r)
      BY <2>0, <3>16, GotoFields DEF CancelDeniedTask, TypeOK
    <3>17. CASE ReadForCancel(r)
      BY <2>0, <3>17, GotoFields, ReturnFields DEF ReadForCancel, ThreadsOK, Thread
    <3>18. CASE UpdateCancelled(r)
      BY <2>0, <3>18, ReturnFields DEF UpdateCancelled, TypeOK
    <3>19. CASE Record(r)
      <4>1. UNCHANGED <<executions, interrupted>> /\ trail \subseteq trail'
        BY <3>19 DEF Record
      <4>2. ASSUME req[r].pc \in InTry \cup Failing
            PROVE  {<<"approved", req[r].ap>>, <<"failed", req[r].ap>>} \cap trail' # {}
        <5>1. RecordAt[req[r].pc] \in {"approved", "failed"}
          BY <3>19, <4>2 DEF Record, RecordAt
        <5>2. <<RecordAt[req[r].pc], req[r].ap>> \in trail'
          BY <3>19 DEF Record
        <5>3. QED BY <5>1, <5>2
      <4>3. \A q \in Requests : q # r => req'[q] = req[q]
        BY <2>0, <3>19, ReturnFields DEF Record
      <4>4. QED BY <4>1, <4>2, <4>3
    <3>20. QED BY <2>4, <3>1, <3>2, <3>3, <3>4, <3>5, <3>6, <3>7, <3>8, <3>9,
      <3>10, <3>11, <3>12, <3>13, <3>14, <3>15, <3>16, <3>17, <3>18, <3>19
      DEF Step
  <2>5. ASSUME NEW r \in Requests, Fault(r) PROVE ExecutionIsAudited'
    BY <2>0, <2>5, GotoFields, ReturnFields DEF Fault, Decisive
  <2>6. CASE Crash
    BY <2>6 DEF Crash, Idle, Decisive
  <2>7. CASE UNCHANGED vars
    BY <2>7 DEF vars
  <2>8. QED BY <2>1, <2>2, <2>3, <2>4, <2>5, <2>6, <2>7 DEF Next
<1>3. QED BY <1>1, <1>2, TypeCorrect, GrantInvariant, PTL DEF Spec
=============================================================================
