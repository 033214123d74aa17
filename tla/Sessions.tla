------------------------------ MODULE Sessions ------------------------------
(***************************************************************************)
(* Sessions and the password of one account: login, logout, the change of  *)
(* the password, and the identity that every other route asks for.  A      *)
(* route is one action per call of db.py, in the order of its              *)
(* dependencies; routes run in the threads of a pool, so they interleave.  *)
(*                                                                         *)
(* The server may be killed at any step and started with another session   *)
(* secret or another debug switch.  The account is there from the start    *)
(* (module Setup) and no route removes it.  A client presents no cookie,   *)
(* or one that it was given, also after the answer that clears it.         *)
(***************************************************************************)
EXTENDS Naturals, Sequences

CONSTANTS
  Requests,    \* requests that may be under way together
  Ids,         \* session ids; their number bounds the logins
  Passwords,
  Long,        \* the passwords of 12 characters or more
  Secrets,     \* session secrets of the runs of the server
  None,
  Lifetime,    \* how long a session lives, in ticks of the clock
  MaxClock,    \* bound on the clock
  MaxChanges   \* bound on the changes of the password

ASSUME ConstantsAssumption ==
  /\ Long \subseteq Passwords /\ None \notin [id : Ids, secret : Secrets]
  /\ Lifetime \in Nat /\ MaxClock \in Nat /\ MaxChanges \in Nat

VARIABLES
  server,    \* "up" or "down"
  secret,    \* session_secret of this run
  skip,      \* debug_skip_password_change of this run
  clock,
  user,      \* the row of the account: its password and must_change_password
  sessions,  \* id -> row of sessions, and whether it was earned (history)
  cookies,   \* the session cookies that clients were given
  past,      \* history: the passwords of the account, the first one first
  req        \* request -> where it is and what it holds

vars == <<server, secret, skip, clock, user, sessions, cookies, past, req>>
run == <<server, secret, skip>>

Cookies == [id : Ids, secret : Secrets]
Kinds == {"login", "logout", "password", "other"}
Idle == [pc |-> "idle", kind |-> "other", cookie |-> None, shown |-> None,
         new |-> None, seen |-> None, must |-> FALSE, expires |-> 0,
         id |-> None, since |-> 1, late |-> FALSE]
NoSession == [state |-> "none", expires |-> 0, earned |-> TRUE]
Closed(s) == \/ sessions[s].state = "revoked"
             \/ sessions[s].state # "none" /\ sessions[s].expires < clock

Init ==
  /\ server = "up" /\ secret \in Secrets /\ skip \in BOOLEAN /\ clock = 0
  /\ \E p \in Passwords, must \in BOOLEAN :  \* a bootstrap admin, or an enrolled one
       /\ user = [password |-> p, must |-> must]
       /\ past = <<[value |-> p, must |-> must, shown |-> p, since |-> 1]>>
  /\ sessions = [s \in Ids |-> NoSession] /\ cookies = {}
  /\ req = [r \in Requests |-> Idle]

\* p was the account's password at some time from the i-th one to the j-th.
Held(p, i, j) == \E k \in 1..Len(past) : i <= k /\ k <= j /\ past[k].value = p

\* sign and unpack_session: a cookie that this run of the server has signed
Signed(c) == c # None /\ c.secret = secret

-----------------------------------------------------------------------------
(***************************************************************************)
(* The steps of a request.                                                 *)
(***************************************************************************)
At(r, place) == req[r].pc = place
Goto(r, place) == req' = [req EXCEPT ![r].pc = place]
Reply(r) == req' = [req EXCEPT ![r] = Idle]  \* with success, a refusal or an error

\* A request comes in.  It remembers whether its session was closed and which
\* password was current then (history).
Receive(r) ==
  /\ server = "up" /\ At(r, "idle")
  /\ \/ req' = [req EXCEPT ![r] = [Idle EXCEPT !.pc = "csrf", !.kind = "login",
                                              !.since = Len(past)]]
     \/ \E kind \in Kinds \ {"login"}, c \in cookies \cup {None} :
          req' = [req EXCEPT ![r] = [Idle EXCEPT
            !.pc = "session", !.kind = kind, !.cookie = c,
            !.since = IF kind = "password" THEN Len(past) ELSE 1,
            !.late = c # None /\ Closed(c.id)]]
  /\ UNCHANGED <<run, clock, user, sessions, cookies, past>>

\* require_identity: the signature of the cookie, and the row of the session.
\* Mutant: get_session forgets "revoked = 0".
ReadAnySession(r) ==
  /\ At(r, "session")
  /\ LET c == req[r].cookie
     IN  IF Signed(c) /\ sessions[c.id].state # "none"
         THEN Goto(r, "expiry") ELSE Reply(r)
  /\ UNCHANGED <<run, clock, user, sessions, cookies, past>>

ReadSession(r) ==
  /\ At(r, "session")
  /\ LET c == req[r].cookie
     IN  IF Signed(c) /\ sessions[c.id].state = "open"
         THEN Goto(r, "expiry") ELSE Reply(r)
  /\ UNCHANGED <<run, clock, user, sessions, cookies, past>>

CheckExpiry(r) ==
  /\ At(r, "expiry")
  /\ IF sessions[req[r].cookie.id].expires < clock THEN Reply(r) ELSE Goto(r, "identity")
  /\ UNCHANGED <<run, clock, user, sessions, cookies, past>>

\* The row of the user makes the identity; a GET goes without require_csrf,
\* and some need no more than the identity.
\* Mutant: the debug switch alone decides.
TrustSwitch(r) ==
  /\ At(r, "identity")
  /\ \/ req[r].kind = "other" /\ Reply(r)
     \/ \E next \in IF req[r].kind = "other" THEN {"csrf", "ready"} ELSE {"csrf"} :
          req' = [req EXCEPT ![r].pc = next, ![r].must = FALSE]
  /\ UNCHANGED <<run, clock, user, sessions, cookies, past>>

ReadIdentity(r) ==
  /\ At(r, "identity")
  /\ \/ req[r].kind = "other" /\ Reply(r)
     \/ \E next \in IF req[r].kind = "other" THEN {"csrf", "ready"} ELSE {"csrf"} :
          req' = [req EXCEPT ![r].pc = next, ![r].must = user.must /\ ~skip]
  /\ UNCHANGED <<run, clock, user, sessions, cookies, past>>

\* Origin, cookie and header agree, or they do not: all are the client's.
AfterCsrf(kind) == CASE kind = "login" -> "account" [] kind = "password" -> "account"
                     [] kind = "logout" -> "revoke" [] OTHER -> "ready"
RequireCsrf(r) ==
  /\ At(r, "csrf")
  /\ Goto(r, AfterCsrf(req[r].kind)) \/ Reply(r)
  /\ UNCHANGED <<run, clock, user, sessions, cookies, past>>

\* get_user (the name may be unknown) or get_user_by_id.  The passwords of the
\* payload are first looked at here, so the model chooses them here.
ReadAccount(r) ==
  /\ At(r, "account")
  /\ \/ \E p \in Passwords, q \in IF req[r].kind = "login" THEN {None} ELSE Passwords :
          req' = [req EXCEPT ![r].pc = "verify", ![r].seen = user.password,
                             ![r].shown = p, ![r].new = q]
     \/ req[r].kind = "login" /\ Reply(r)
  /\ UNCHANGED <<run, clock, user, sessions, cookies, past>>

\* login: verify_password; create_session stamps the row and then inserts it.
VerifyLogin(r) ==
  /\ At(r, "verify") /\ req[r].kind = "login"
  /\ IF req[r].shown # req[r].seen THEN Reply(r)
     ELSE req' = [req EXCEPT ![r].pc = "insert", ![r].expires = clock + Lifetime]
  /\ UNCHANGED <<run, clock, user, sessions, cookies, past>>

InsertSession(r) ==
  /\ At(r, "insert")
  /\ \E s \in Ids :
       /\ sessions[s].state = "none"
       /\ sessions' = [sessions EXCEPT ![s] =
            [state |-> "open", expires |-> req[r].expires,
             earned |-> Held(req[r].shown, req[r].since, Len(past))]]
       /\ req' = [req EXCEPT ![r].pc = "cookie", ![r].id = s]
  /\ UNCHANGED <<run, clock, user, cookies, past>>

SetCookie(r) ==
  /\ At(r, "cookie")
  /\ cookies' = cookies \cup {[id |-> req[r].id, secret |-> secret]}
  /\ Reply(r)
  /\ UNCHANGED <<run, clock, user, sessions, past>>

\* change_password: verify_password, then the length of the new one.
\* Mutant: the current password is not asked for.
VerifyNothing(r) ==
  /\ At(r, "verify") /\ req[r].kind = "password"
  /\ IF req[r].new \in Long THEN Goto(r, "store") ELSE Reply(r)
  /\ UNCHANGED <<run, clock, user, sessions, cookies, past>>

VerifyChange(r) ==
  /\ At(r, "verify") /\ req[r].kind = "password"
  /\ IF req[r].shown = req[r].seen /\ req[r].new \in Long THEN Goto(r, "store") ELSE Reply(r)
  /\ UNCHANGED <<run, clock, user, sessions, cookies, past>>

\* set_password
StorePassword(r) ==
  /\ At(r, "store") /\ Len(past) <= MaxChanges
  /\ user' = [password |-> req[r].new, must |-> FALSE]
  /\ past' = Append(past, [value |-> req[r].new, must |-> FALSE,
                           shown |-> req[r].shown, since |-> req[r].since])
  /\ Reply(r)
  /\ UNCHANGED <<run, clock, sessions, cookies>>

\* require_ready_identity, then the work of the route (the other modules)
RequireReady(r) ==
  /\ At(r, "ready")
  /\ IF req[r].must THEN Reply(r) ELSE Goto(r, "acting")
  /\ UNCHANGED <<run, clock, user, sessions, cookies, past>>

Act(r) == At(r, "acting") /\ Reply(r) /\ UNCHANGED <<run, clock, user, sessions, cookies, past>>

\* logout
RevokeSession(r) ==
  /\ At(r, "revoke")
  /\ sessions' = [sessions EXCEPT ![req[r].cookie.id].state = "revoked"]
  /\ Reply(r)
  /\ UNCHANGED <<run, clock, user, cookies, past>>

\* A call of db.py raises: the request ends and nothing is written.
Fail(r) ==
  /\ req[r].pc \in {"session", "identity", "account", "insert", "store", "revoke"}
  /\ Reply(r)
  /\ UNCHANGED <<run, clock, user, sessions, cookies, past>>

-----------------------------------------------------------------------------
(***************************************************************************)
(* The server and the clock.                                               *)
(***************************************************************************)
Stop ==
  /\ server = "up"
  /\ server' = "down" /\ req' = [r \in Requests |-> Idle]
  /\ UNCHANGED <<secret, skip, clock, user, sessions, cookies, past>>

\* lifespan: init_db leaves the rows alone; the secret and the switch are new.
Start ==
  /\ server = "down"
  /\ server' = "up" /\ secret' \in Secrets /\ skip' \in BOOLEAN
  /\ UNCHANGED <<clock, user, sessions, cookies, past, req>>

Tick == clock < MaxClock /\ clock' = clock + 1
        /\ UNCHANGED <<run, user, sessions, cookies, past, req>>

Step(r) ==
  \/ Receive(r) \/ ReadSession(r) \/ CheckExpiry(r) \/ ReadIdentity(r)
  \/ RequireCsrf(r) \/ ReadAccount(r) \/ VerifyLogin(r) \/ InsertSession(r)
  \/ SetCookie(r) \/ VerifyChange(r) \/ StorePassword(r) \/ RequireReady(r)
  \/ Act(r) \/ RevokeSession(r) \/ Fail(r)

Next == Stop \/ Start \/ Tick \/ \E r \in Requests : Step(r)

Spec == Init /\ [][Next]_vars

-----------------------------------------------------------------------------
(***************************************************************************)
(* Properties.                                                             *)
(***************************************************************************)
Places == {"idle", "csrf", "session", "expiry", "identity", "account", "verify",
           "insert", "cookie", "store", "revoke", "ready", "acting"}
Maybe(S) == S \cup {None}

\* Every variable has its type.
TypeOK ==
  /\ server \in {"up", "down"} /\ secret \in Secrets /\ skip \in BOOLEAN
  /\ clock \in Nat /\ user \in [password : Passwords, must : BOOLEAN]
  /\ sessions \in [Ids -> [state : {"none", "open", "revoked"}, expires : Nat,
                           earned : BOOLEAN]]
  /\ cookies \subseteq Cookies
  /\ past \in Seq([value : Passwords, must : BOOLEAN, shown : Passwords, since : Nat])
  /\ req \in [Requests -> [pc : Places, kind : Kinds, cookie : Maybe(Cookies),
        shown : Maybe(Passwords), new : Maybe(Passwords), seen : Maybe(Passwords),
        must : BOOLEAN, expires : Nat, id : Maybe(Ids), since : Nat,
        late : BOOLEAN]]

\* The requests that were given an identity.
Identified(r) == /\ req[r].kind # "login"
                 /\ ~(req[r].pc \in {"idle", "session", "expiry"})

\* A session that was logged out or had expired when a request came in, or
\* whose cookie another secret signed, gives that request no identity,
\* whatever happened to the session, the clock or the server before
\* (require_identity, logout).
ClosedIsRefused ==
  \A r \in Requests : Identified(r) =>
    /\ req[r].cookie \in cookies /\ req[r].cookie.secret = secret
    /\ ~req[r].late

\* A session, and a new password, are earned: the request showed a password
\* that was the account's at some time between its arrival and its effect,
\* even when other changes overlap; and a new password is long enough (login,
\* change_password).
SecretsAreShown ==
  /\ \A s \in Ids : sessions[s].earned
  /\ \A i \in 2..Len(past) :
       past[i].value \in Long /\ Held(past[i].shown, past[i].since, i - 1)

\* A bootstrap password opens no route that asks for a ready identity: the
\* account was enrolled or its password was changed before, unless this run
\* of the server has the debug switch; a login, a restart or a race of two
\* changes does not bring the duty back or lift it (require_ready_identity).
ReadyGate ==
  /\ user.password = past[Len(past)].value
  /\ user.must <=> past[1].must /\ Len(past) = 1
  /\ \A r \in Requests : At(r, "acting") => skip \/ ~past[1].must \/ Len(past) > 1

-----------------------------------------------------------------------------
(***************************************************************************)
(* What makes them inductive: what a request knows at each place.          *)
(***************************************************************************)
Ready == skip \/ ~past[1].must \/ Len(past) > 1
Genuine(c) == c \in cookies /\ c.secret = secret

ByCookie(r) ==
  /\ At(r, "session") =>
       /\ req[r].cookie \in cookies \cup {None}
       /\ req[r].late => req[r].cookie # None /\ Closed(req[r].cookie.id)
  /\ At(r, "expiry") => /\ Genuine(req[r].cookie)
                        /\ req[r].late => sessions[req[r].cookie.id].expires < clock
  /\ Identified(r) => Genuine(req[r].cookie) /\ ~req[r].late

ByPassword(r) ==
  /\ req[r].since \in 1..Len(past)
  /\ At(r, "verify") =>
       /\ req[r].shown \in Passwords /\ Held(req[r].seen, req[r].since, Len(past))
       /\ req[r].kind # "login" => req[r].new \in Passwords
  /\ req[r].pc \in {"insert", "store"} =>
       req[r].shown \in Passwords /\ Held(req[r].shown, req[r].since, Len(past))
  /\ At(r, "store") => req[r].new \in Long
  /\ At(r, "cookie") => req[r].id \in Ids /\ sessions[req[r].id].state # "none"

ByKind(r) ==
  /\ req[r].pc \in {"session", "expiry", "identity", "revoke", "store"} =>
       req[r].kind # "login"
  /\ req[r].pc \in {"csrf", "ready"} /\ req[r].kind = "other" /\ ~req[r].must => Ready
  /\ At(r, "ready") => req[r].kind = "other"
  /\ At(r, "acting") => Ready

Known(r) == ByCookie(r) /\ ByPassword(r) /\ ByKind(r)

Inv ==
  /\ TypeOK /\ Len(past) >= 1
  /\ \A r \in Requests : Known(r) /\ (server = "down" => req[r] = Idle)
  /\ \A c \in cookies : sessions[c.id].state # "none"
  /\ SecretsAreShown
  /\ user.password = past[Len(past)].value
  /\ user.must <=> past[1].must /\ Len(past) = 1
=============================================================================
