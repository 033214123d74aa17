-------------------------------- MODULE Setup --------------------------------
(***************************************************************************)
(* The first admin: start-up (lifespan, init_db and the configuration      *)
(* checks), and enrollment in production, one action per statement.        *)
(*                                                                         *)
(* One process serves one database file.  It may be killed at any step,    *)
(* and started again in the other environment or with another token; all   *)
(* other settings are taken to be valid, since a start that they refuse    *)
(* changes nothing.  A read that fails answers FALSE (has_users,           *)
(* setup_consumed); every other call that fails raises.                    *)
(***************************************************************************)
EXTENDS Naturals, Sequences

CONSTANTS
  Requests,   \* calls of setup_enroll
  Tokens,     \* setup tokens that operators choose
  Names,      \* user names
  Admin,      \* the name of the bootstrap admin
  None,       \* no token, no request
  MaxTTL,     \* MAX_SETUP_TTL
  MaxClock,   \* bound on the clock
  MaxStarts   \* bound on the starts of the server

ASSUME ConstantsAssumption ==
  /\ Admin \in Names /\ None \notin Tokens \cup Requests
  /\ MaxTTL \in Nat /\ MaxClock \in Nat /\ MaxStarts \in Nat

VARIABLES
  server,   \* "down", a step of the start, or "up"
  config,   \* the settings of this run of the server
  starts,   \* starts so far
  clock,
  users,    \* committed rows of users, in the order of their insertion
  marker,   \* admin_user_id of setup_state: the request that made it, or None
  audited,  \* audit records of an enrollment
  file,     \* the bootstrap password in the file: the start that drew it, or 0
  lock,     \* the request in a write transaction, or None
  staged,   \* the tables that transaction has inserted into
  req       \* request -> where it is, its payload, its answer

vars == <<server, config, starts, clock, users, marker, audited, file, lock,
          staged, req>>

Configs == [prod : BOOLEAN, token : Tokens \cup {None}, expires : 0..MaxClock,
            password : BOOLEAN]
Tables == {"users", "setup_state", "audit_records"}
Idle == [pc |-> "idle", token |-> None, name |-> Admin, answer |-> "none"]
Row(name, how, secret) == [name |-> name, how |-> how, secret |-> secret]
Taken(name) == \E i \in 1..Len(users) : users[i].name = name
HasUsers == users # <<>>

Init ==
  /\ server = "down" /\ config = [prod |-> FALSE, token |-> None, expires |-> 0,
                                  password |-> FALSE]
  /\ starts = 0 /\ clock = 0 /\ users = <<>> /\ marker = None /\ audited = 0
  /\ file = 0 /\ lock = None /\ staged = {} /\ req = [r \in Requests |-> Idle]

tables == <<users, marker, audited>>
transaction == <<lock, staged>>

-----------------------------------------------------------------------------
(***************************************************************************)
(* Start-up.                                                               *)
(***************************************************************************)
\* Settings.validate_static, as far as the first admin goes
StaticOK(c) ==
  c.prod => /\ ~c.password
            /\ c.token # None => c.expires > clock /\ c.expires - clock <= MaxTTL

Start ==
  /\ server = "down" /\ starts < MaxStarts
  /\ \E c \in Configs :
       /\ c.token = None => c.expires = 0
       /\ StaticOK(c)
       /\ config' = c
  /\ server' = "reading" /\ starts' = starts + 1
  /\ UNCHANGED <<clock, tables, file, transaction, req>>

\* init_db: only outside production, and only if there is no admin.
ReadAdmin ==
  /\ server = "reading"
  /\ server' = IF config.prod \/ Taken(Admin) THEN "validating"
               ELSE IF config.password THEN "inserting" ELSE "drawing"
  /\ UNCHANGED <<config, starts, clock, tables, file, transaction, req>>

\* Mutant: the file is kept if there is one.
KeepPassword ==
  /\ server = "drawing"
  /\ file' = (IF file = 0 THEN starts ELSE file) /\ server' = "inserting"
  /\ UNCHANGED <<config, starts, clock, tables, transaction, req>>

\* The password drawn by this start replaces the file's.
DrawPassword ==
  /\ server = "drawing"
  /\ file' = starts /\ server' = "inserting"
  /\ UNCHANGED <<config, starts, clock, tables, transaction, req>>

InsertBootstrapAdmin ==
  /\ server = "inserting"
  /\ users' = Append(users, Row(Admin, "bootstrap",
                                IF config.password THEN 0 ELSE starts))
  /\ server' = "validating"
  /\ UNCHANGED <<config, starts, clock, marker, audited, file, transaction, req>>

\* Settings.validate_initialization: in production a token, or users, not both.
ValidateInitialization ==
  /\ server = "validating"
  /\ \E initialized \in {HasUsers, FALSE} :
       server' = IF config.prod /\ (initialized <=> config.token # None)
                 THEN "down" ELSE "up"
  /\ UNCHANGED <<config, starts, clock, tables, file, transaction, req>>

-----------------------------------------------------------------------------
(***************************************************************************)
(* setup_enroll, up to the transaction.                                    *)
(***************************************************************************)
Goto(r, next) == req' = [req EXCEPT ![r].pc = next]
Answer(r, answer) ==
  req' = [req EXCEPT ![r] = [pc |-> "done", token |-> @.token, name |-> @.name,
                             answer |-> answer]]
boot == <<server, config, starts, clock, file>>

Submit(r) ==
  /\ server = "up" /\ req[r].pc = "idle"
  /\ \E t \in Tokens, n \in Names :
       req' = [req EXCEPT ![r] = [pc |-> "users", token |-> t, name |-> n,
                                  answer |-> "none"]]
  /\ UNCHANGED <<boot, tables, transaction>>

CheckUsers(r) ==
  /\ req[r].pc = "users"
  /\ \/ (~config.prod \/ HasUsers) /\ Answer(r, "refused")
     \/ config.prod /\ Goto(r, "consumed")  \* no users, or the read fails
  /\ UNCHANGED <<boot, tables, transaction>>

CheckConsumed(r) ==
  /\ req[r].pc = "consumed"
  /\ \/ marker # None /\ Answer(r, "refused")
     \/ Goto(r, "token")
  /\ UNCHANGED <<boot, tables, transaction>>

Admitted(r) == config.token # None /\ clock < config.expires
                 /\ req[r].token = config.token

CheckToken(r) ==
  /\ req[r].pc = "token"
  /\ IF Admitted(r) THEN Goto(r, "begin") ELSE Answer(r, "refused")
  /\ UNCHANGED <<boot, tables, transaction>>

-----------------------------------------------------------------------------
(***************************************************************************)
(* complete_initial_setup: one immediate transaction.                      *)
(***************************************************************************)
Release == lock' = None /\ staged' = {}

\* begin immediate waits for the write lock, or raises (Fault).
Begin(r) ==
  /\ req[r].pc = "begin" /\ lock = None
  /\ lock' = r /\ Goto(r, "recheck")
  /\ UNCHANGED <<boot, tables, staged>>

\* Mutant: only the marker is looked at.
RecheckMarker(r) ==
  /\ req[r].pc = "recheck"
  /\ \/ marker # None /\ Answer(r, "refused") /\ Release
     \/ marker = None /\ Goto(r, "user") /\ UNCHANGED transaction
  /\ UNCHANGED <<boot, tables>>

Recheck(r) ==
  /\ req[r].pc = "recheck"
  /\ \/ (HasUsers \/ marker # None) /\ Answer(r, "refused") /\ Release
     \/ ~HasUsers /\ marker = None /\ Goto(r, "user") /\ UNCHANGED transaction
  /\ UNCHANGED <<boot, tables>>

\* Inserting a name or a marker that exists would raise.
InsertUser(r) ==
  /\ req[r].pc = "user" /\ ~Taken(req[r].name)
  /\ staged' = staged \cup {"users"} /\ Goto(r, "marker")
  /\ UNCHANGED <<boot, tables, lock>>

InsertMarker(r) ==
  /\ req[r].pc = "marker" /\ marker = None
  /\ staged' = staged \cup {"setup_state"} /\ Goto(r, "audit")
  /\ UNCHANGED <<boot, tables, lock>>

\* Mutant: insert_audit, which has a connection of its own.
InsertAuditAside(r) ==
  /\ req[r].pc = "audit"
  /\ audited' = audited + 1 /\ Goto(r, "commit")
  /\ UNCHANGED <<boot, users, marker, transaction>>

InsertAudit(r) ==
  /\ req[r].pc = "audit"
  /\ staged' = staged \cup {"audit_records"} /\ Goto(r, "commit")
  /\ UNCHANGED <<boot, tables, lock>>

\* Mutant: the commit is not waited for.
CommitLater(r) ==
  /\ req[r].pc = "commit"
  /\ \/ /\ users' = Append(users, Row(req[r].name, "enrolled", 0))
        /\ marker' = r /\ audited' = audited + 1
     \/ UNCHANGED tables
  /\ Release /\ Goto(r, "reply")
  /\ UNCHANGED boot

Commit(r) ==
  /\ req[r].pc = "commit"
  /\ users' = IF "users" \in staged
              THEN Append(users, Row(req[r].name, "enrolled", 0)) ELSE users
  /\ marker' = IF "setup_state" \in staged THEN r ELSE marker
  /\ audited' = IF "audit_records" \in staged THEN audited + 1 ELSE audited
  /\ Release /\ Goto(r, "reply")
  /\ UNCHANGED boot

Reply(r) ==
  /\ req[r].pc = "reply"
  /\ Answer(r, "initialized")
  /\ UNCHANGED <<boot, tables, transaction>>

Enroll(r) ==
  \/ CheckUsers(r) \/ CheckConsumed(r) \/ CheckToken(r) \/ Begin(r) \/ Recheck(r)
  \/ InsertUser(r) \/ InsertMarker(r) \/ InsertAudit(r) \/ Commit(r) \/ Reply(r)

-----------------------------------------------------------------------------
(***************************************************************************)
(* Failures, time, and the whole.                                          *)
(***************************************************************************)
InTransaction == {"recheck", "user", "marker", "audit", "commit"}
Active(r) == req[r].pc \notin {"idle", "done"}

\* Mutant: the connection of a request that raised is not rolled back.
FaultWithLock(r) ==
  /\ Active(r)
  /\ Answer(r, "raised")
  /\ UNCHANGED <<boot, tables, transaction>>

\* A call that raises: connect() rolls back and closes.
Fault(r) ==
  /\ Active(r)
  /\ Answer(r, "raised")
  /\ IF lock = r THEN Release ELSE UNCHANGED transaction
  /\ UNCHANGED <<boot, tables>>

\* The end of the process: requests are lost, an open transaction is undone.
Crash ==
  /\ server # "down"
  /\ server' = "down" /\ Release
  /\ req' = [r \in Requests |->
               IF Active(r)
               THEN [pc |-> "done", token |-> req[r].token, name |-> req[r].name,
                     answer |-> "lost"]
               ELSE req[r]]
  /\ UNCHANGED <<config, starts, clock, tables, file>>

Tick ==
  /\ clock < MaxClock
  /\ clock' = clock + 1
  /\ UNCHANGED <<server, config, starts, tables, file, transaction, req>>

Boot ==
  Start \/ ReadAdmin \/ DrawPassword \/ InsertBootstrapAdmin \/ ValidateInitialization

Next ==
  \/ Boot \/ Crash \/ Tick
  \/ \E r \in Requests : Submit(r) \/ Enroll(r) \/ Fault(r)

Spec == Init /\ [][Next]_vars

\* What the server has started it goes on with; nothing need fail.
LiveSpec == Spec /\ \A r \in Requests : WF_vars(Enroll(r))

-----------------------------------------------------------------------------
(***************************************************************************)
(* Properties.                                                             *)
(***************************************************************************)
Steps == {"idle", "users", "consumed", "token", "begin", "reply", "done"}
           \cup InTransaction
Answers == {"none", "refused", "raised", "lost", "initialized"}
Boots == {"reading", "drawing", "inserting", "validating"}

TypeOK ==
  /\ server \in {"down", "up"} \cup Boots
  /\ config \in Configs
  /\ starts \in Nat /\ clock \in Nat /\ audited \in Nat /\ file \in Nat
  /\ users \in Seq([name : Names, how : {"bootstrap", "enrolled"}, secret : Nat])
  /\ marker \in Requests \cup {None} /\ lock \in Requests \cup {None}
  /\ staged \subseteq Tables
  /\ req \in [Requests -> [pc : Steps, token : Tokens \cup {None}, name : Names,
                           answer : Answers]]

\* An enrolled admin is the first user there ever was, so there is one at most,
\* however the checks before the transaction raced or failed.
FirstAdminOnly == \A i \in 1..Len(users) : users[i].how = "enrolled" => i = 1

\* The admin, the marker and the audit record of an enrollment are there
\* together or not at all.
EnrollmentIsWhole ==
  /\ marker # None <=> HasUsers /\ users[1].how = "enrolled"
  /\ audited = IF marker = None THEN 0 ELSE 1

\* Who is told that the instance is initialized has initialized it, under the
\* name it gave; who is refused has not.  Of an error or a lost answer neither
\* is known.
AnswerIsTrue ==
  \A r \in Requests :
    /\ req[r].answer = "initialized" =>
         marker = r /\ users[1].name = req[r].name
    /\ req[r].answer = "refused" => marker # r

\* A production server without users can be enrolled: it was given a token.
EmptyIsEnrollable == server = "up" /\ config.prod /\ ~HasUsers => config.token # None

\* The file holds the password that was drawn for the bootstrap admin, also when
\* an earlier start was killed between the file and the row.
FileHoldsPassword ==
  \A i \in 1..Len(users) : users[i].secret # 0 => file = users[i].secret

\* A production run adds users only by enrollment.
ProductionEnrolls ==
  [][config.prod /\ users' # users => marker = None /\ marker' # None]_users

\* A request that was started is answered; nobody waits for a lock that is
\* never released.
EnrollEnds == \A r \in Requests : Active(r) ~> ~Active(r)

-----------------------------------------------------------------------------
(***************************************************************************)
(* The inductive invariant behind the safety properties.                   *)
(***************************************************************************)
Inserted(pc) ==
  CASE pc = "marker" -> {"users"}
    [] pc = "audit" -> {"users", "setup_state"}
    [] pc = "commit" -> Tables
    [] OTHER -> {}

\* Who holds the lock is in the transaction, alone, and sees an empty database
\* after the recheck.  Nobody is served while the server starts.
LockInv ==
  /\ \A r \in Requests : req[r].pc \in InTransaction <=> lock = r
  /\ \A r \in Requests : lock = r => staged = Inserted(req[r].pc)
  /\ lock = None => staged = {}
  /\ \A r \in Requests : Active(r) => server = "up"
  /\ \A r \in Requests :
       req[r].pc \in InTransaction \ {"recheck"} =>
         users = <<>> /\ marker = None /\ audited = 0

\* What the marker says of the request that made it, and the other way round.
AnswerInv ==
  \A r \in Requests :
    /\ req[r].pc = "reply" \/ req[r].answer = "initialized" =>
         marker = r /\ HasUsers /\ users[1].name = req[r].name
    /\ marker = r => req[r].pc \in {"reply", "done"} /\ req[r].answer # "refused"
    /\ req[r].pc # "done" => req[r].answer = "none"

\* The bootstrap password is drawn only for a row that is not there yet.
BootInv ==
  /\ server \in {"drawing", "inserting"} => ~config.prod /\ ~Taken(Admin)
  /\ server = "drawing" => ~config.password
  /\ server = "inserting" /\ ~config.password => file = starts
  /\ \A i \in 1..Len(users) : users[i].secret # 0 => users[i].name = Admin

SetupInv ==
  /\ LockInv /\ AnswerInv /\ BootInv
  /\ FirstAdminOnly /\ EnrollmentIsWhole /\ EmptyIsEnrollable /\ FileHoldsPassword
=============================================================================
