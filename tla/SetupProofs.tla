----------------------------- MODULE SetupProofs -----------------------------
(***************************************************************************)
(* Theorems about the first admin, for any number of requests, tokens and  *)
(* starts.                                                                 *)
(***************************************************************************)
EXTENDS Setup, TLAPS

Payload == [pc : Steps, token : Tokens \cup {None}, name : Names, answer : Answers]

\* Where a request that goes on, or answers, is, and that no other moves.
LEMMA GotoFields ==
  ASSUME TypeOK, NEW r \in Requests, NEW next \in Steps, Goto(r, next)
  PROVE  /\ req' \in [Requests -> Payload]
         /\ req'[r].pc = next /\ req'[r].token = req[r].token
         /\ req'[r].name = req[r].name /\ req'[r].answer = req[r].answer
         /\ \A q \in Requests \ {r} : req'[q] = req[q]
BY DEF TypeOK, Goto, Payload

\* Who answers is done, with the answer given.
LEMMA AnswerFields ==
  ASSUME TypeOK, NEW r \in Requests, NEW answer \in Answers, Answer(r, answer)
  PROVE  /\ req' \in [Requests -> Payload]
         /\ req'[r].pc = "done" /\ req'[r].token = req[r].token
         /\ req'[r].name = req[r].name /\ req'[r].answer = answer
         /\ \A q \in Requests \ {r} : req'[q] = req[q]
BY DEF TypeOK, Answer, Payload, Steps

\* Who submits starts at the first check, without an answer.
LEMMA SubmitFields ==
  ASSUME TypeOK, NEW r \in Requests, Submit(r)
  PROVE  /\ req' \in [Requests -> Payload]
         /\ req'[r].pc = "users" /\ req'[r].answer = "none"
         /\ \A q \in Requests \ {r} : req'[q] = req[q]
<1>1. PICK t \in Tokens, n \in Names :
        req' = [req EXCEPT ![r] = [pc |-> "users", token |-> t, name |-> n,
                                   answer |-> "none"]]
  BY DEF Submit
<1>2. QED BY <1>1 DEF TypeOK, Payload, Steps, Answers

\* A kill answers nobody and moves only who was being served.
LEMMA CrashFields ==
  ASSUME TypeOK, Crash
  PROVE  /\ req' \in [Requests -> Payload]
         /\ \A q \in Requests :
              /\ req'[q].pc \in {"idle", "done"}
              /\ req'[q].name = req[q].name
              /\ \/ Active(q) /\ req'[q].answer = "lost" /\ req'[q].pc = "done"
                 \/ ~Active(q) /\ req'[q] = req[q]
BY DEF TypeOK, Crash, Payload, Active, Steps, Answers

\* One row more.
Rows == [name : Names, how : {"bootstrap", "enrolled"}, secret : Nat]

\* The users before a row is inserted, and after.
LEMMA OneMoreUser ==
  ASSUME NEW row \in Rows, users \in Seq(Rows), users' = Append(users, row)
  PROVE  /\ users' \in Seq(Rows)
         /\ Len(users) \in Nat /\ Len(users') = Len(users) + 1
         /\ users' # <<>> /\ users'[Len(users) + 1] = row
         /\ \A i \in 1..Len(users) : users'[i] = users[i]
         /\ users = <<>> <=> Len(users) = 0
OBVIOUS

\* The columns of a row of users.
LEMMA RowFields ==
  ASSUME NEW n \in Names, NEW how \in {"bootstrap", "enrolled"}, NEW secret \in Nat
  PROVE  /\ Row(n, how, secret) \in Rows /\ Row(n, how, secret).name = n
         /\ Row(n, how, secret).how = how /\ Row(n, how, secret).secret = secret
BY DEF Row, Rows

-----------------------------------------------------------------------------
\* Every variable keeps its type.
LEMMA StaysTyped == ASSUME TypeOK, [Next]_vars PROVE TypeOK'
<1> USE ConstantsAssumption
<1> USE DEF tables, transaction, boot, Release
<1>1. CASE Start
  BY <1>1 DEF Start, TypeOK, Boots
<1>2. CASE ReadAdmin
  BY <1>2 DEF ReadAdmin, TypeOK, Boots
<1>3. CASE DrawPassword
  BY <1>3 DEF DrawPassword, TypeOK, Boots
<1>4. CASE InsertBootstrapAdmin
  <2>1. Row(Admin, "bootstrap", IF config.password THEN 0 ELSE starts) \in Rows
    BY RowFields DEF TypeOK
  <2>2. users \in Seq(Rows)
    BY DEF TypeOK, Rows
  <2>3. users' \in Seq(Rows)
    BY <1>4, <2>1, <2>2, OneMoreUser DEF InsertBootstrapAdmin
  <2>4. QED BY <1>4, <2>3 DEF InsertBootstrapAdmin, TypeOK, Boots, Rows
<1>5. CASE ValidateInitialization
  BY <1>5 DEF ValidateInitialization, TypeOK, Boots
<1>6. CASE Crash
  BY <1>6, CrashFields DEF Crash, TypeOK, Payload
<1>7. CASE Tick
  BY <1>7 DEF Tick, TypeOK
<1>8. ASSUME NEW r \in Requests, Submit(r) PROVE TypeOK'
  BY <1>8, SubmitFields DEF Submit, TypeOK, Payload
<1>9. ASSUME NEW r \in Requests, Fault(r) PROVE TypeOK'
  BY <1>9, AnswerFields DEF Fault, TypeOK, Payload, Answers
<1>10. ASSUME NEW r \in Requests, Enroll(r) PROVE TypeOK'
  <2> USE DEF Payload, Answers, Steps, InTransaction, Tables
  <2>1. CASE CheckUsers(r)
    BY <2>1, GotoFields, AnswerFields DEF CheckUsers, TypeOK
  <2>2. CASE CheckConsumed(r)
    BY <2>2, GotoFields, AnswerFields DEF CheckConsumed, TypeOK
  <2>3. CASE CheckToken(r)
    BY <2>3, GotoFields, AnswerFields DEF CheckToken, TypeOK
  <2>4. CASE Begin(r)
    BY <2>4, GotoFields DEF Begin, TypeOK
  <2>5. CASE Recheck(r)
    <3>1. req' \in [Requests -> Payload]
      BY <2>5, GotoFields, AnswerFields DEF Recheck
    <3>2. QED BY <2>5, <3>1 DEF Recheck, TypeOK
  <2>6. CASE InsertUser(r)
    BY <2>6, GotoFields DEF InsertUser, TypeOK
  <2>7. CASE InsertMarker(r)
    BY <2>7, GotoFields DEF InsertMarker, TypeOK
  <2>8. CASE InsertAudit(r)
    BY <2>8, GotoFields DEF InsertAudit, TypeOK
  <2>9. CASE Commit(r)
    <3>1. Row(req[r].name, "enrolled", 0) \in Rows
      BY RowFields DEF TypeOK
    <3>2. users' \in Seq(Rows)
      BY <2>9, <3>1, OneMoreUser DEF Commit, TypeOK, Rows
    <3>3. req' \in [Requests -> Payload]
      BY <2>9, GotoFields DEF Commit
    <3>4. QED BY <2>9, <3>2, <3>3 DEF Commit, TypeOK, Rows
  <2>10. CASE Reply(r)
    BY <2>10, AnswerFields DEF Reply, TypeOK
  <2>11. QED
    BY <1>10, <2>1, <2>2, <2>3, <2>4, <2>5, <2>6, <2>7, <2>8, <2>9, <2>10
    DEF Enroll
<1>11. CASE UNCHANGED vars
  BY <1>11 DEF vars, TypeOK
<1>12. QED
  BY <1>1, <1>2, <1>3, <1>4, <1>5, <1>6, <1>7, <1>8, <1>9, <1>10, <1>11
  DEF Next, Boot

\* An empty database and a server that is down are well typed.
LEMMA InitiallyTyped == Init => TypeOK
BY ConstantsAssumption DEF Init, TypeOK, Configs, Idle, Steps, Answers

\* Every variable keeps its type.
THEOREM TypeCorrect == Spec => []TypeOK
<1>1. TypeOK /\ [Next]_vars => TypeOK'
  BY StaysTyped
<1>2. QED BY <1>1, InitiallyTyped, PTL DEF Spec

-----------------------------------------------------------------------------
\* What a step that leaves the tables and the requests alone keeps.
LEMMA Untouched ==
  ASSUME SetupInv, UNCHANGED <<users, marker, audited, req, lock, staged>>,
         server' = "up" \/ \A r \in Requests : ~Active(r)
  PROVE  LockInv' /\ AnswerInv' /\ FirstAdminOnly' /\ EnrollmentIsWhole'
<1>1. LockInv'
  BY DEF SetupInv, LockInv, Active
<1>2. AnswerInv'
  BY DEF SetupInv, AnswerInv, HasUsers
<1>3. QED BY <1>1, <1>2 DEF SetupInv, FirstAdminOnly, EnrollmentIsWhole, HasUsers

\* The steps of a start keep the invariant.
LEMMA StartKeeps ==
  ASSUME TypeOK, SetupInv, Boot PROVE SetupInv'
<1>0. \A r \in Requests : server # "up" => ~Active(r)
  BY DEF SetupInv, LockInv
<1> USE DEF tables, transaction
<1>1. CASE Start
  <2>1. UNCHANGED <<users, marker, audited, req, lock, staged, file>>
        /\ server = "down" /\ server' = "reading"
    BY <1>1 DEF Start
  <2>2. QED
    BY <1>0, <2>1, Untouched
    DEF SetupInv, BootInv, EmptyIsEnrollable, FileHoldsPassword, HasUsers
<1>2. CASE ReadAdmin
  <2>1. /\ UNCHANGED <<users, marker, audited, req, lock, staged, file, config,
                         starts>>
        /\ server = "reading" /\ server' \in {"validating", "inserting", "drawing"}
        /\ server' # "validating" => ~config.prod /\ ~Taken(Admin)
        /\ server' = "drawing" => ~config.password
        /\ server' = "inserting" => config.password
    BY <1>2 DEF ReadAdmin
  <2>2. BootInv'
    BY <2>1 DEF SetupInv, BootInv, Taken
  <2>3. QED
    BY <1>0, <2>1, <2>2, Untouched
    DEF SetupInv, EmptyIsEnrollable, FileHoldsPassword, HasUsers
<1>3. CASE DrawPassword
  <2>1. UNCHANGED <<users, marker, audited, req, lock, staged, config, starts>>
        /\ server = "drawing" /\ server' = "inserting" /\ file' = starts
    BY <1>3 DEF DrawPassword
  <2>2. BootInv'
    BY <2>1 DEF SetupInv, BootInv, Taken
  <2>3. FileHoldsPassword'
    BY <2>1 DEF SetupInv, BootInv, Taken, FileHoldsPassword
  <2>4. QED
    BY <1>0, <2>1, <2>2, <2>3, Untouched
    DEF SetupInv, EmptyIsEnrollable, HasUsers
<1>4. CASE InsertBootstrapAdmin
  <2> DEFINE secret == IF config.password THEN 0 ELSE starts
  <2>1. UNCHANGED <<marker, audited, req, lock, staged, file, config, starts>>
        /\ server = "inserting" /\ server' = "validating"
        /\ users' = Append(users, Row(Admin, "bootstrap", secret))
    BY <1>4 DEF InsertBootstrapAdmin
  <2>2. secret \in Nat /\ users \in Seq(Rows)
    BY DEF TypeOK, Rows
  <2>3. secret # 0 => file = secret
    BY <2>1 DEF SetupInv, BootInv
  <2> HIDE DEF secret
  <2>4. /\ Row(Admin, "bootstrap", secret) \in Rows
        /\ Row(Admin, "bootstrap", secret).name = Admin
        /\ Row(Admin, "bootstrap", secret).how = "bootstrap"
        /\ Row(Admin, "bootstrap", secret).secret = secret
    BY <2>2, RowFields, ConstantsAssumption
  <2> DEFINE row == Row(Admin, "bootstrap", secret)
  <2>5. /\ Len(users) \in Nat /\ Len(users') = Len(users) + 1
        /\ users' # <<>> /\ users'[Len(users) + 1] = row
        /\ \A i \in 1..Len(users) : users'[i] = users[i]
        /\ users = <<>> <=> Len(users) = 0
    BY <2>1, <2>2, <2>4, OneMoreUser
  <2>6. BootInv' /\ FileHoldsPassword'
    BY <2>1, <2>3, <2>4, <2>5 DEF SetupInv, BootInv, FileHoldsPassword, Taken
  <2>7. FirstAdminOnly' /\ EnrollmentIsWhole'
    BY <2>1, <2>4, <2>5 DEF SetupInv, FirstAdminOnly, EnrollmentIsWhole, HasUsers
  <2>8. LockInv'
    BY <1>0, <2>1 DEF SetupInv, LockInv, Active, InTransaction
  <2>9. AnswerInv'
    BY <2>1, <2>5 DEF SetupInv, AnswerInv, HasUsers
  <2>10. QED
    BY <2>1, <2>6, <2>7, <2>8, <2>9 DEF SetupInv, EmptyIsEnrollable
<1>5. CASE ValidateInitialization
  <2>1. /\ UNCHANGED <<users, marker, audited, req, lock, staged, file, config>>
        /\ server = "validating" /\ server' \in {"down", "up"}
        /\ server' = "up" /\ config.prod /\ ~HasUsers => config.token # None
    <3>1. PICK initialized \in {HasUsers, FALSE} :
            server' = IF config.prod /\ (initialized <=> config.token # None)
                      THEN "down" ELSE "up"
      BY <1>5, Zenon DEF ValidateInitialization
    <3>2. ~HasUsers => ~initialized
      BY <3>1, Zenon
    <3>3. server' \in {"down", "up"}
      BY <3>1, Zenon
    <3>4. server' = "up" /\ config.prod /\ ~HasUsers => config.token # None
      <4> SUFFICES ASSUME server' = "up", config.prod, ~HasUsers, config.token = None
                   PROVE FALSE
        OBVIOUS
      <4>1. server' = "down"
        BY <3>1, <3>2, Zenon
      <4>2. QED BY <4>1
    <3>5. QED BY <1>5, <3>3, <3>4 DEF ValidateInitialization
  <2>2. EmptyIsEnrollable' /\ FileHoldsPassword' /\ BootInv'
    BY <2>1 DEF SetupInv, EmptyIsEnrollable, FileHoldsPassword, BootInv, HasUsers
  <2>3. QED BY <1>0, <2>1, <2>2, Untouched DEF SetupInv
<1>6. QED BY <1>1, <1>2, <1>3, <1>4, <1>5 DEF Boot

\* What a request's step keeps that leaves the committed tables alone.
LEMMA TablesKept ==
  ASSUME SetupInv, UNCHANGED <<users, marker, audited, server, config, starts, file>>
  PROVE  BootInv' /\ FirstAdminOnly' /\ EnrollmentIsWhole' /\ EmptyIsEnrollable'
           /\ FileHoldsPassword'
BY DEF SetupInv, BootInv, FirstAdminOnly, EnrollmentIsWhole, EmptyIsEnrollable,
  FileHoldsPassword, HasUsers, Taken

\* The steps of a request keep the invariant.
LEMMA RequestKeeps ==
  ASSUME TypeOK, SetupInv, NEW r \in Requests, Submit(r) \/ Enroll(r) \/ Fault(r)
  PROVE  SetupInv'
<1> USE ConstantsAssumption
<1> USE DEF tables, transaction, boot, Release
<1>1. CASE Submit(r)
  <2>1. /\ UNCHANGED <<users, marker, audited, server, config, starts, file, lock,
                         staged>>
        /\ server = "up" /\ req[r].pc = "idle"
    BY <1>1 DEF Submit
  <2>2. LockInv'
    BY <1>1, <2>1, SubmitFields
    DEF SetupInv, LockInv, Active, InTransaction, Inserted
  <2>3. AnswerInv'
    BY <1>1, <2>1, SubmitFields DEF SetupInv, AnswerInv, HasUsers
  <2>4. QED BY <2>1, <2>2, <2>3, TablesKept DEF SetupInv
<1>2. ASSUME NEW answer \in {"refused", "raised"},
             Answer(r, answer), Active(r), req[r].pc # "reply" \/ answer = "raised",
             UNCHANGED <<users, marker, audited, server, config, starts, file>>,
             IF lock = r THEN lock' = None /\ staged' = {} ELSE UNCHANGED <<lock, staged>>
      PROVE  SetupInv'
  <2>1. /\ req'[r].pc = "done" /\ req'[r].name = req[r].name
        /\ req'[r].answer = answer
        /\ \A q \in Requests \ {r} : req'[q] = req[q]
    BY <1>2, AnswerFields DEF Answers
  <2>2. LockInv'
    BY <1>2, <2>1 DEF SetupInv, LockInv, Active, InTransaction, Inserted
  <2>3. AnswerInv'
    BY <1>2, <2>1 DEF SetupInv, AnswerInv, HasUsers, Active
  <2>4. QED BY <1>2, <2>2, <2>3, TablesKept DEF SetupInv
<1>3. ASSUME NEW next \in {"consumed", "token", "begin"}, Goto(r, next),
             req[r].pc \in {"users", "consumed", "token"},
             UNCHANGED <<users, marker, audited, server, config, starts, file, lock,
                         staged>>
      PROVE  SetupInv'
  <2>1. /\ req'[r].pc = next /\ req'[r].name = req[r].name
        /\ req'[r].answer = req[r].answer
        /\ \A q \in Requests \ {r} : req'[q] = req[q]
    BY <1>3, GotoFields DEF Steps
  <2>2. LockInv'
    BY <1>3, <2>1 DEF SetupInv, LockInv, Active, InTransaction, Inserted
  <2>3. AnswerInv'
    BY <1>3, <2>1 DEF SetupInv, AnswerInv, HasUsers
  <2>4. QED BY <1>3, <2>2, <2>3, TablesKept DEF SetupInv
<1>4. CASE Fault(r)
  BY <1>2, <1>4 DEF Fault
<1>5. ASSUME req[r].pc \in {"users", "consumed", "token", "recheck"} PROVE Active(r)
  BY <1>5 DEF Active
<1>6. ASSUME req[r].pc \notin InTransaction PROVE lock # r
  BY <1>6 DEF SetupInv, LockInv
<1>7. CASE CheckUsers(r)
  BY <1>2, <1>3, <1>5, <1>6, <1>7 DEF CheckUsers, InTransaction
<1>8. CASE CheckConsumed(r)
  BY <1>2, <1>3, <1>5, <1>6, <1>8 DEF CheckConsumed, InTransaction
<1>9. CASE CheckToken(r)
  BY <1>2, <1>3, <1>5, <1>6, <1>9 DEF CheckToken, InTransaction
<1>10. CASE Begin(r)
  <2>1. /\ req'[r].pc = "recheck" /\ req'[r].name = req[r].name
        /\ req'[r].answer = req[r].answer
        /\ \A q \in Requests \ {r} : req'[q] = req[q]
    BY <1>10, GotoFields DEF Begin, Steps, InTransaction
  <2>2. /\ UNCHANGED <<users, marker, audited, server, config, starts, file, staged>>
        /\ req[r].pc = "begin" /\ lock = None /\ lock' = r
    BY <1>10 DEF Begin
  <2>3. LockInv'
    BY <2>1, <2>2 DEF SetupInv, LockInv, Active, InTransaction, Inserted
  <2>4. AnswerInv'
    BY <2>1, <2>2 DEF SetupInv, AnswerInv, HasUsers
  <2>5. QED BY <2>2, <2>3, <2>4, TablesKept DEF SetupInv
<1>11. lock = r <=> req[r].pc \in InTransaction
  BY DEF SetupInv, LockInv
<1>12. CASE Recheck(r)
  <2>1. CASE Answer(r, "refused") /\ lock' = None /\ staged' = {}
    BY <1>2, <1>5, <1>11, <1>12, <2>1 DEF Recheck, InTransaction
  <2>2. CASE ~HasUsers /\ marker = None /\ Goto(r, "user") /\ UNCHANGED <<lock, staged>>
    <3>1. /\ req'[r].pc = "user" /\ req'[r].name = req[r].name
          /\ req'[r].answer = req[r].answer
          /\ \A q \in Requests \ {r} : req'[q] = req[q]
      BY <2>2, GotoFields DEF Steps, InTransaction
    <3>2. /\ UNCHANGED <<users, marker, audited, server, config, starts, file, lock,
                           staged>>
          /\ req[r].pc = "recheck" /\ users = <<>> /\ marker = None /\ audited = 0
      BY <1>12, <2>2 DEF Recheck, HasUsers, SetupInv, EnrollmentIsWhole
    <3>3. LockInv'
      BY <3>1, <3>2 DEF SetupInv, LockInv, Active, InTransaction, Inserted
    <3>4. AnswerInv'
      BY <3>1, <3>2 DEF SetupInv, AnswerInv, HasUsers
    <3>5. QED BY <3>2, <3>3, <3>4, TablesKept DEF SetupInv
  <2>3. QED BY <1>12, <2>1, <2>2 DEF Recheck
<1>13. ASSUME NEW table \in Tables, NEW next \in {"marker", "audit", "commit"},
              req[r].pc \in {"user", "marker", "audit"}, Goto(r, next),
              staged' = staged \cup {table},
              Inserted(next) = Inserted(req[r].pc) \cup {table},
              UNCHANGED <<users, marker, audited, server, config, starts, file, lock>>
       PROVE  SetupInv'
  <2>1. /\ req'[r].pc = next /\ req'[r].name = req[r].name
        /\ req'[r].answer = req[r].answer
        /\ \A q \in Requests \ {r} : req'[q] = req[q]
    BY <1>13, GotoFields DEF Steps, InTransaction
  <2>2. lock = r /\ staged = Inserted(req[r].pc) /\ staged' = Inserted(next)
    BY <1>11, <1>13 DEF SetupInv, LockInv, InTransaction
  <2>3. LockInv'
    BY <1>13, <2>1, <2>2 DEF SetupInv, LockInv, Active, InTransaction
  <2>4. AnswerInv'
    BY <1>13, <2>1 DEF SetupInv, AnswerInv, HasUsers
  <2>5. QED BY <1>13, <2>3, <2>4, TablesKept DEF SetupInv
<1>14. /\ Inserted("marker") = Inserted("user") \cup {"users"}
       /\ Inserted("audit") = Inserted("marker") \cup {"setup_state"}
       /\ Inserted("commit") = Inserted("audit") \cup {"audit_records"}
  BY DEF Inserted, Tables
<1>15. CASE InsertUser(r)
  BY <1>13, <1>14, <1>15 DEF InsertUser, Tables
<1>16. CASE InsertMarker(r)
  BY <1>13, <1>14, <1>16 DEF InsertMarker, Tables
<1>17. CASE InsertAudit(r)
  BY <1>13, <1>14, <1>17 DEF InsertAudit, Tables
<1>18. CASE Commit(r)
  <2> DEFINE row == Row(req[r].name, "enrolled", 0)
  <2>1. /\ lock = r /\ staged = Tables /\ users = <<>> /\ marker = None /\ audited = 0
        /\ req[r].pc = "commit"
    BY <1>11, <1>18 DEF Commit, SetupInv, LockInv, InTransaction, Inserted
  <2>2. /\ req'[r].pc = "reply" /\ req'[r].name = req[r].name
        /\ req'[r].answer = req[r].answer
        /\ \A q \in Requests \ {r} : req'[q] = req[q]
    BY <1>18, GotoFields DEF Commit, Steps
  <2>3. /\ users' = Append(users, row) /\ marker' = r /\ audited' = 1
        /\ lock' = None /\ staged' = {} /\ UNCHANGED <<server, config, starts, file>>
    BY <1>18, <2>1 DEF Commit, Tables
  <2>4. row \in Rows /\ row.name = req[r].name /\ row.how = "enrolled" /\ row.secret = 0
    BY RowFields DEF TypeOK
  <2> HIDE DEF row
  <2>5. users' # <<>> /\ Len(users') = 1 /\ users'[1] = row
    BY <2>1, <2>3, <2>4, OneMoreUser
  <2>6. LockInv'
    BY <2>1, <2>2, <2>3 DEF SetupInv, LockInv, Active, InTransaction
  <2>7. AnswerInv'
    BY <2>1, <2>2, <2>3, <2>4, <2>5 DEF SetupInv, AnswerInv, HasUsers
  <2>8. FirstAdminOnly' /\ EnrollmentIsWhole' /\ EmptyIsEnrollable'
    BY <2>1, <2>3, <2>4, <2>5
    DEF FirstAdminOnly, EnrollmentIsWhole, EmptyIsEnrollable, HasUsers
  <2>9. server = "up"
    BY <2>1 DEF SetupInv, LockInv, Active
  <2>10. BootInv' /\ FileHoldsPassword'
    BY <2>3, <2>4, <2>5, <2>9 DEF BootInv, FileHoldsPassword
  <2>11. QED BY <2>6, <2>7, <2>8, <2>10 DEF SetupInv
<1>19. CASE Reply(r)
  <2>1. /\ req'[r].pc = "done" /\ req'[r].name = req[r].name
        /\ req'[r].answer = "initialized"
        /\ \A q \in Requests \ {r} : req'[q] = req[q]
    BY <1>19, AnswerFields DEF Reply, Answers
  <2>2. /\ UNCHANGED <<users, marker, audited, server, config, starts, file, lock,
                         staged>>
        /\ req[r].pc = "reply"
    BY <1>19 DEF Reply
  <2>3. LockInv'
    BY <2>1, <2>2 DEF SetupInv, LockInv, Active, InTransaction
  <2>4. AnswerInv'
    BY <2>1, <2>2 DEF SetupInv, AnswerInv, HasUsers
  <2>5. QED BY <2>2, <2>3, <2>4, TablesKept DEF SetupInv
<1>20. QED
  BY <1>1, <1>4, <1>7, <1>8, <1>9, <1>10, <1>12, <1>15, <1>16, <1>17, <1>18, <1>19
  DEF Enroll

\* A kill keeps the invariant: the open transaction is undone.
LEMMA CrashKeeps ==
  ASSUME TypeOK, SetupInv, Crash PROVE SetupInv'
<1>1. /\ UNCHANGED <<users, marker, audited, config, starts, file>>
      /\ server' = "down" /\ lock' = None /\ staged' = {}
  BY DEF Crash, Release, tables
<1>2. LockInv'
  BY <1>1, CrashFields, ConstantsAssumption
  DEF LockInv, Active, InTransaction
<1>3. AnswerInv'
  BY <1>1, CrashFields DEF SetupInv, AnswerInv, HasUsers, Active
<1>4. QED
  BY <1>1, <1>2, <1>3 DEF SetupInv, BootInv, FirstAdminOnly, EnrollmentIsWhole,
    EmptyIsEnrollable, FileHoldsPassword, HasUsers

\* What is known of the lock, of the answers, of the start and of the tables.
THEOREM SetupInvariant == Spec => [](TypeOK /\ SetupInv)
<1>1. Init => TypeOK /\ SetupInv
  <2>1. Init => \A r \in Requests :
                  req[r].pc = "idle" /\ req[r].answer = "none" /\ ~Active(r)
    <3>1. ASSUME Init, NEW r \in Requests PROVE req[r] = Idle
      BY <3>1 DEF Init
    <3>2. Idle.pc = "idle" /\ Idle.answer = "none"
      BY DEF Idle
    <3>3. QED BY <3>1, <3>2 DEF Active
  <2>2. Init => LockInv
    <3> SUFFICES ASSUME Init PROVE LockInv
      OBVIOUS
    <3>1. lock = None /\ staged = {}
      BY DEF Init
    <3>2. QED BY <2>1, <3>1, ConstantsAssumption DEF LockInv, InTransaction
  <2>3. Init => AnswerInv
    BY <2>1, ConstantsAssumption DEF Init, AnswerInv
  <2>4. Init => /\ BootInv /\ FirstAdminOnly /\ EnrollmentIsWhole
                /\ EmptyIsEnrollable /\ FileHoldsPassword
    BY DEF Init, BootInv, FirstAdminOnly, EnrollmentIsWhole, EmptyIsEnrollable,
      FileHoldsPassword, HasUsers
  <2>5. QED BY <2>2, <2>3, <2>4, InitiallyTyped DEF SetupInv
<1>2. TypeOK /\ SetupInv /\ [Next]_vars => (TypeOK /\ SetupInv)'
  <2> SUFFICES ASSUME TypeOK, SetupInv, [Next]_vars PROVE (TypeOK /\ SetupInv)'
    OBVIOUS
  <2>1. CASE Tick \/ UNCHANGED vars
    <3>1. UNCHANGED <<users, marker, audited, server, config, starts, file, lock,
                      staged, req>>
      BY <2>1 DEF Tick, vars, tables, transaction
    <3>2. LockInv' /\ AnswerInv'
      BY <3>1 DEF SetupInv, LockInv, AnswerInv, HasUsers, Active
    <3>3. QED BY <3>1, <3>2, StaysTyped, TablesKept DEF SetupInv
  <2>2. QED
    BY <2>1, StaysTyped, StartKeeps, RequestKeeps, CrashKeeps DEF Next
<1>3. QED BY <1>1, <1>2, PTL DEF Spec

\* The enrolled admin is the first user, and there is one at most.
THEOREM FirstAdminIsEnrolled == Spec => []FirstAdminOnly
BY SetupInvariant, PTL DEF SetupInv

\* Admin, marker and audit record are there together or not at all.
THEOREM EnrollmentIsAtomic == Spec => []EnrollmentIsWhole
BY SetupInvariant, PTL DEF SetupInv

\* What the client is told of the enrollment is so.
THEOREM AnswersAreTrue == Spec => []AnswerIsTrue
<1>1. SetupInv => AnswerIsTrue
  BY DEF SetupInv, AnswerInv, AnswerIsTrue
<1>2. QED BY <1>1, SetupInvariant, PTL

\* A production server without users was given a token.
THEOREM SetupIsPossible == Spec => []EmptyIsEnrollable
BY SetupInvariant, PTL DEF SetupInv

\* The file holds the password that was drawn for the bootstrap admin.
THEOREM PasswordIsKept == Spec => []FileHoldsPassword
BY SetupInvariant, PTL DEF SetupInv

\* In production only an enrollment adds a user.
THEOREM ProductionOnlyEnrolls == Spec => ProductionEnrolls
<1>1. TypeOK /\ SetupInv /\ [Next]_vars =>
        [config.prod /\ users' # users => marker = None /\ marker' # None]_users
  <2> SUFFICES ASSUME TypeOK, SetupInv, [Next]_vars, config.prod, users' # users
               PROVE  marker = None /\ marker' # None
    OBVIOUS
  <2>1. ~InsertBootstrapAdmin
    BY DEF InsertBootstrapAdmin, SetupInv, BootInv
  <2>2. \E r \in Requests : Commit(r)
    BY <2>1 DEF Next, vars, Boot, Start, ReadAdmin, DrawPassword,
      ValidateInitialization, Crash, Tick, Submit, Fault, Enroll, CheckUsers,
      CheckConsumed, CheckToken, Begin, Recheck, InsertUser, InsertMarker,
      InsertAudit, Reply, tables, boot
  <2>3. PICK r \in Requests : Commit(r)
    BY <2>2
  <2>4. lock = r /\ req[r].pc = "commit" /\ marker = None
    BY <2>3 DEF Commit, SetupInv, LockInv, InTransaction
  <2>5. "setup_state" \in staged
    BY <2>4 DEF SetupInv, LockInv, Inserted, Tables
  <2>6. marker' = r
    BY <2>3, <2>5 DEF Commit
  <2>7. QED BY <2>4, <2>6, ConstantsAssumption
<1>2. QED BY <1>1, SetupInvariant, PTL DEF Spec, ProductionEnrolls

=============================================================================
