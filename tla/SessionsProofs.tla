--------------------------- MODULE SessionsProofs ---------------------------
(***************************************************************************)
(* Theorems about sessions and the password, for any number of requests,   *)
(* sessions, passwords and session secrets.                                *)
(***************************************************************************)
EXTENDS Sessions, TLAPS

Local == [pc : Places, kind : Kinds, cookie : Maybe(Cookies),
          shown : Maybe(Passwords), new : Maybe(Passwords), seen : Maybe(Passwords),
          must : BOOLEAN, expires : Nat, id : Maybe(Ids), since : Nat, late : BOOLEAN]
Row == [state : {"none", "open", "revoked"}, expires : Nat, earned : BOOLEAN]
Entry == [value : Passwords, must : BOOLEAN, shown : Passwords, since : Nat]

LEMMA IdleIsLocal == Idle \in Local
BY DEF Idle, Local, Places, Kinds, Maybe

\* The request that moves, and nobody else.
Moves(r, local) == req' = [req EXCEPT ![r] = local]

LEMMA MoveFields ==
  ASSUME req \in [Requests -> Local], NEW r \in Requests, NEW local \in Local,
         Moves(r, local)
  PROVE  /\ req' \in [Requests -> Local] /\ req'[r] = local
         /\ \A q \in Requests \ {r} : req'[q] = req[q]
BY DEF Moves

LEMMA GotoFields ==
  ASSUME req \in [Requests -> Local], NEW r \in Requests, NEW place \in Places,
         Goto(r, place)
  PROVE  /\ req' \in [Requests -> Local]
         /\ req'[r].pc = place
         /\ req'[r].kind = req[r].kind /\ req'[r].cookie = req[r].cookie
         /\ req'[r].shown = req[r].shown /\ req'[r].new = req[r].new
         /\ req'[r].seen = req[r].seen /\ req'[r].must = req[r].must
         /\ req'[r].expires = req[r].expires /\ req'[r].id = req[r].id
         /\ req'[r].since = req[r].since /\ req'[r].late = req[r].late
         /\ \A q \in Requests \ {r} : req'[q] = req[q]
BY DEF Goto, Local

LEMMA ReplyFields ==
  ASSUME req \in [Requests -> Local], NEW r \in Requests, Reply(r)
  PROVE  /\ req' \in [Requests -> Local] /\ req'[r] = Idle
         /\ \A q \in Requests \ {r} : req'[q] = req[q]
BY IdleIsLocal DEF Reply

-----------------------------------------------------------------------------
\* What never goes back within a run of the server.
Grows ==
  /\ run' = run /\ clock' \in Nat /\ clock <= clock' /\ cookies \subseteq cookies'
  /\ \A s \in Ids : sessions[s].state # "none" =>
       /\ sessions'[s].state # "none" /\ sessions'[s].expires = sessions[s].expires
       /\ sessions[s].state = "revoked" => sessions'[s].state = "revoked"
  /\ Len(past) <= Len(past') /\ \A i \in 1..Len(past) : past'[i] = past[i]

LEMMA ClosedStays ==
  ASSUME Grows, TypeOK, NEW s \in Ids, Closed(s)
  PROVE  Closed(s)'
BY DEF Grows, TypeOK, Closed

\* A request that does not move keeps what it knows.
LEMMA KnownStays ==
  ASSUME Inv, Grows, past' \in Seq(Entry), NEW q \in Requests, req'[q] = req[q]
  PROVE  Known(q)'
<1>. /\ req[q] \in Local /\ past \in Seq(Entry) /\ Len(past) \in Nat
     /\ Len(past') \in Nat
  BY DEF Inv, TypeOK, Local, Entry
<1>. Known(q) BY DEF Inv
<1>0. Identified(q)' <=> Identified(q) BY DEF Identified
<1>1. ByCookie(q)'
  <2>1. ASSUME NEW c, Genuine(c)
        PROVE  Genuine(c)' /\ c.id \in Ids /\ sessions[c.id].state # "none"
    BY <2>1 DEF Genuine, Grows, Inv, TypeOK, Cookies, run
  <2>0. At(q, "session") => req[q].cookie \in cookies' \cup {None}
    BY DEF Known, ByCookie, Grows
  <2>2. ASSUME At(q, "session"), req[q].late
        PROVE  req[q].cookie # None /\ Closed(req[q].cookie.id)'
    <3>1. req[q].cookie # None /\ Closed(req[q].cookie.id)
      BY <2>2 DEF Known, ByCookie
    <3>2. req[q].cookie.id \in Ids BY <3>1 DEF Local, Maybe, Cookies
    <3>3. \A s \in Ids : Closed(s) => Closed(s)' BY ClosedStays DEF Inv
    <3>4. QED BY <3>1, <3>2, <3>3 DEF Closed
  <2>3. ASSUME At(q, "expiry")
        PROVE  /\ Genuine(req[q].cookie)'
               /\ req[q].late => sessions'[req[q].cookie.id].expires < clock'
    <3>1. /\ Genuine(req[q].cookie)
          /\ req[q].late => sessions[req[q].cookie.id].expires < clock
      BY <2>3 DEF Known, ByCookie
    <3>2. /\ Genuine(req[q].cookie)' /\ req[q].cookie.id \in Ids
          /\ sessions[req[q].cookie.id].state # "none"
      BY <2>1, <3>1
    <3>3. sessions[req[q].cookie.id].expires \in Nat /\ clock \in Nat
      BY <3>2 DEF Inv, TypeOK
    <3>4. QED BY <3>1, <3>2, <3>3 DEF Grows
  <2>4. ASSUME Identified(q) PROVE Genuine(req[q].cookie)' /\ ~req[q].late
    BY <2>1, <2>4 DEF Known, ByCookie
  <2>5. /\ At(q, "session")' <=> At(q, "session")
        /\ At(q, "expiry")' <=> At(q, "expiry")
    BY DEF At
  <2>6. QED BY <1>0, <2>0, <2>2, <2>3, <2>4, <2>5 DEF ByCookie
<1>2. ByPassword(q)'
  <2>1. ASSUME NEW p, Held(p, req[q].since, Len(past))
        PROVE  Held(p, req[q].since, Len(past))'
    <3>1. PICK x \in 1..Len(past) : /\ req[q].since <= x /\ x <= Len(past)
                                    /\ past[x].value = p
      BY <2>1 DEF Held
    <3>2. /\ x \in 1..Len(past') /\ past'[x].value = p /\ x <= Len(past')
          /\ req'[q].since <= x
      BY <3>1 DEF Grows
    <3>3. QED BY <3>2 DEF Held
  <2>2. req[q].since \in 1..Len(past') BY DEF Known, ByPassword, Grows
  <2>3. At(q, "cookie") => req[q].id \in Ids /\ sessions'[req[q].id].state # "none"
    BY DEF Known, ByPassword, Grows
  <2>4. At(q, "verify") => /\ req[q].shown \in Passwords
                           /\ Held(req[q].seen, req[q].since, Len(past))'
                           /\ req[q].kind # "login" => req[q].new \in Passwords
    BY <2>1 DEF Known, ByPassword
  <2>5. /\ req[q].pc \in {"insert", "store"} =>
             req[q].shown \in Passwords /\ Held(req[q].shown, req[q].since, Len(past))'
        /\ At(q, "store") => req[q].new \in Long
    BY <2>1 DEF Known, ByPassword
  <2>6. QED BY <2>2, <2>3, <2>4, <2>5 DEF ByPassword, At, Held
<1>3. ByKind(q)'
  <2>1. Ready => Ready' BY DEF Ready, Grows, Inv, run
  <2>2. QED BY <2>1 DEF ByKind, Known, At
<1>4. QED BY <1>1, <1>2, <1>3 DEF Known

\* A request that is over knows nothing that could be wrong.
LEMMA IdleIsKnown ==
  ASSUME NEW q \in Requests, req'[q] = Idle, Len(past') \in Nat, Len(past') >= 1
  PROVE  Known(q)'
BY DEF Idle, Known, ByCookie, ByPassword, ByKind, At, Identified

\* A step of one request that leaves the tables alone.
Quiet == UNCHANGED <<run, clock, user, sessions, cookies, past>>

LEMMA QuietGrows ==
  ASSUME Inv, Quiet
  PROVE  Grows /\ past' = past /\ past' \in Seq(Entry) /\ Len(past') \in Nat
BY DEF Inv, TypeOK, Quiet, Grows, Entry, run

LEMMA QuietStep ==
  ASSUME Inv, Quiet, server = "up", NEW r \in Requests, Known(r)',
         req' \in [Requests -> Local],
         \A q \in Requests \ {r} : req'[q] = req[q]
  PROVE  Inv'
<1>1. Grows /\ past' = past /\ past' \in Seq(Entry) BY QuietGrows
<1>2. \A q \in Requests : Known(q)'
  BY <1>1, KnownStays
<1>3. TypeOK' BY DEF Inv, TypeOK, Quiet, Local, run, Cookies
<1>4. SecretsAreShown' BY <1>1 DEF Inv, SecretsAreShown, Quiet, Held
<1>5. server' = "up" BY DEF Quiet, run
<1>6. QED BY <1>2, <1>3, <1>4, <1>5 DEF Inv, Quiet, run

\* A request that ends without a trace.
LEMMA QuietReply ==
  ASSUME Inv, Quiet, server = "up", NEW r \in Requests, Reply(r)
  PROVE  Inv'
<1>1. req \in [Requests -> Local] BY DEF Inv, TypeOK, Local
<1>2. /\ req' \in [Requests -> Local] /\ req'[r] = Idle
      /\ \A q \in Requests \ {r} : req'[q] = req[q]
  BY <1>1, ReplyFields
<1>3. Len(past') \in Nat /\ Len(past') >= 1 BY QuietGrows DEF Inv
<1>4. Known(r)' BY <1>2, <1>3, IdleIsKnown
<1>5. QED BY <1>2, <1>4, QuietStep

\* Only a server that is up serves.
LEMMA ServingIsUp ==
  ASSUME Inv, NEW r \in Requests, ~At(r, "idle")
  PROVE  server = "up"
BY DEF Inv, TypeOK, At, Idle

-----------------------------------------------------------------------------
\* A request comes in.
LEMMA ReceiveKeeps ==
  ASSUME Inv, NEW r \in Requests, Receive(r)
  PROVE  Inv'
<1>. server = "up" /\ Quiet BY DEF Receive, Quiet
<1>1. req \in [Requests -> Local] /\ Len(past) \in Nat /\ past' = past
  BY QuietGrows DEF Inv, TypeOK, Local
<1>2. CASE req' = [req EXCEPT ![r] = [Idle EXCEPT !.pc = "csrf", !.kind = "login",
                                                 !.since = Len(past)]]
  <2>. DEFINE local == [Idle EXCEPT !.pc = "csrf", !.kind = "login", !.since = Len(past)]
  <2>1. local \in Local BY <1>1 DEF Idle, Local, Places, Kinds, Maybe
  <2>2. /\ req' \in [Requests -> Local] /\ req'[r] = local
        /\ \A q \in Requests \ {r} : req'[q] = req[q]
    BY <1>1, <1>2, <2>1, MoveFields DEF Moves
  <2>3. Known(r)'
    BY <1>1, <2>2 DEF Idle, Known, ByCookie, ByPassword, ByKind, At, Identified, Inv
  <2>4. QED BY <2>2, <2>3, QuietStep
<1>3. ASSUME NEW kind \in Kinds \ {"login"}, NEW c \in cookies \cup {None},
             req' = [req EXCEPT ![r] = [Idle EXCEPT
               !.pc = "session", !.kind = kind, !.cookie = c,
               !.since = IF kind = "password" THEN Len(past) ELSE 1,
               !.late = c # None /\ Closed(c.id)]]
      PROVE  Inv'
  <2>. DEFINE late == c # None /\ Closed(c.id)
              since == IF kind = "password" THEN Len(past) ELSE 1
              local == [Idle EXCEPT !.pc = "session", !.kind = kind, !.cookie = c,
                                    !.since = since, !.late = late]
  <2>1. late \in BOOLEAN BY DEF Closed
  <2>2. since \in 1..Len(past) BY <1>1 DEF Inv
  <2>3. c \in Maybe(Cookies) BY DEF Inv, TypeOK, Maybe
  <2>. HIDE DEF late, since
  <2>4. local \in Local
    <3>1. "session" \in Places /\ kind \in Kinds /\ since \in Nat
      BY <1>1, <2>2 DEF Places
    <3>2. QED BY <2>1, <2>3, <3>1, IdleIsLocal DEF Local
  <2>5. /\ req' \in [Requests -> Local] /\ req'[r] = local
        /\ \A q \in Requests \ {r} : req'[q] = req[q]
    BY <1>1, <1>3, <2>4, MoveFields DEF Moves, late, since
  <2>6. /\ req'[r].pc = "session" /\ req'[r].kind = kind /\ req'[r].cookie = c
        /\ req'[r].since = since /\ req'[r].late = late
    BY <2>5 DEF Idle
  <2>7. late => c # None /\ Closed(c.id)'
    BY DEF late, Closed, Quiet
  <2>8. ByCookie(r)' BY <2>6, <2>7 DEF ByCookie, At, Identified, Closed, Quiet
  <2>9. ByPassword(r)' BY <1>1, <2>2, <2>6 DEF ByPassword, At
  <2>10. ByKind(r)' BY <2>6 DEF ByKind, At
  <2>11. QED BY <2>5, <2>8, <2>9, <2>10, QuietStep DEF Known
<1>4. QED BY <1>2, <1>3 DEF Receive

\* The signature and the row of the session.
LEMMA ReadSessionKeeps ==
  ASSUME Inv, NEW r \in Requests, ReadSession(r)
  PROVE  Inv'
<1>. server = "up" /\ Quiet BY ServingIsUp DEF ReadSession, Quiet, At
<1>. DEFINE c == req[r].cookie
<1>1. req \in [Requests -> Local] /\ past' = past BY QuietGrows DEF Inv, TypeOK, Local
<1>2. CASE Reply(r) BY <1>2, QuietReply
<1>3. CASE Goto(r, "expiry") /\ c # None /\ c.secret = secret /\ sessions[c.id].state = "open"
  <2>1. /\ req' \in [Requests -> Local] /\ req'[r].pc = "expiry"
        /\ req'[r].kind = req[r].kind /\ req'[r].cookie = c
        /\ req'[r].since = req[r].since /\ req'[r].late = req[r].late
        /\ \A q \in Requests \ {r} : req'[q] = req[q]
    BY <1>1, <1>3, GotoFields DEF Places
  <2>2. Known(r) /\ At(r, "session") BY DEF Inv, ReadSession
  <2>3. c \in cookies /\ (req[r].late => Closed(c.id))
    BY <1>3, <2>2 DEF Known, ByCookie
  <2>4. req[r].late => sessions[c.id].expires < clock BY <1>3, <2>3 DEF Closed
  <2>5. Known(r)'
    BY <1>1, <1>3, <2>1, <2>2, <2>3, <2>4
    DEF Known, ByCookie, ByPassword, ByKind, At, Identified, Genuine, Quiet, run
  <2>6. QED BY <2>1, <2>5, QuietStep
<1>4. QED BY <1>2, <1>3 DEF ReadSession, Signed

\* The expiry: who was late is turned away here at the latest.
LEMMA CheckExpiryKeeps ==
  ASSUME Inv, NEW r \in Requests, CheckExpiry(r)
  PROVE  Inv'
<1>. server = "up" /\ Quiet BY ServingIsUp DEF CheckExpiry, Quiet, At
<1>1. req \in [Requests -> Local] /\ past' = past BY QuietGrows DEF Inv, TypeOK, Local
<1>2. CASE Reply(r) BY <1>2, QuietReply
<1>3. CASE Goto(r, "identity") /\ ~(sessions[req[r].cookie.id].expires < clock)
  <2>1. /\ req' \in [Requests -> Local] /\ req'[r].pc = "identity"
        /\ req'[r].kind = req[r].kind /\ req'[r].cookie = req[r].cookie
        /\ req'[r].since = req[r].since /\ req'[r].late = req[r].late
        /\ \A q \in Requests \ {r} : req'[q] = req[q]
    BY <1>1, <1>3, GotoFields DEF Places
  <2>2. Known(r) /\ At(r, "expiry") BY DEF Inv, CheckExpiry
  <2>3. Genuine(req[r].cookie) /\ ~req[r].late BY <1>3, <2>2 DEF Known, ByCookie
  <2>4. Known(r)'
    BY <1>1, <2>1, <2>2, <2>3
    DEF Known, ByCookie, ByPassword, ByKind, At, Identified, Genuine, Quiet, run
  <2>5. QED BY <2>1, <2>4, QuietStep
<1>4. QED BY <1>2, <1>3 DEF CheckExpiry

\* The identity says whether a change of the password is due.
LEMMA ReadIdentityKeeps ==
  ASSUME Inv, NEW r \in Requests, ReadIdentity(r)
  PROVE  Inv'
<1>. server = "up" /\ Quiet BY ServingIsUp DEF ReadIdentity, Quiet, At
<1>1. req \in [Requests -> Local] /\ past' = past BY QuietGrows DEF Inv, TypeOK, Local
<1>2. CASE Reply(r) BY <1>2, QuietReply
<1>3. ASSUME NEW next \in IF req[r].kind = "other" THEN {"csrf", "ready"} ELSE {"csrf"},
             req' = [req EXCEPT ![r].pc = next, ![r].must = user.must /\ ~skip]
      PROVE  Inv'
  <2>1. next \in Places /\ (user.must /\ ~skip) \in BOOLEAN
    BY DEF Places, Inv, TypeOK
  <2>2. /\ req' \in [Requests -> Local] /\ req'[r].pc = next
        /\ req'[r].must = (user.must /\ ~skip)
        /\ req'[r].kind = req[r].kind /\ req'[r].cookie = req[r].cookie
        /\ req'[r].since = req[r].since /\ req'[r].late = req[r].late
        /\ \A q \in Requests \ {r} : req'[q] = req[q]
    BY <1>1, <1>3, <2>1 DEF Local
  <2>3. Known(r) /\ At(r, "identity") BY DEF Inv, ReadIdentity
  <2>4. ~(user.must /\ ~skip) => Ready
    <3>1. Len(past) \in Nat /\ Len(past) >= 1 BY QuietGrows DEF Inv
    <3>2. user.must <=> past[1].must /\ Len(past) = 1 BY DEF Inv
    <3>3. \A n \in Nat : n >= 1 => n = 1 \/ n > 1 OBVIOUS
    <3>4. Len(past) = 1 \/ Len(past) > 1 BY <3>1, <3>3, Zenon
    <3>5. QED BY <3>2, <3>4, Zenon DEF Ready
  <2>5. Ready' <=> Ready BY <1>1 DEF Ready, Quiet, run
  <2>6. next \in {"csrf", "ready"} /\ (next = "ready" => req[r].kind = "other") OBVIOUS
  <2>7. ByCookie(r)'
    BY <2>2, <2>3, <2>6 DEF Known, ByCookie, At, Identified, Genuine, Quiet, run
  <2>8. ByPassword(r)' BY <1>1, <2>2, <2>3, <2>6 DEF Known, ByPassword, At
  <2>9. ByKind(r)' BY <2>2, <2>3, <2>4, <2>5, <2>6 DEF Known, ByKind, At
  <2>10. QED BY <2>2, <2>7, <2>8, <2>9, QuietStep DEF Known
<1>4. QED BY <1>2, <1>3 DEF ReadIdentity

\* Origin, cookie and header agree.
LEMMA RequireCsrfKeeps ==
  ASSUME Inv, NEW r \in Requests, RequireCsrf(r)
  PROVE  Inv'
<1>. server = "up" /\ Quiet BY ServingIsUp DEF RequireCsrf, Quiet, At
<1>1. req \in [Requests -> Local] /\ past' = past BY QuietGrows DEF Inv, TypeOK, Local
<1>2. CASE Reply(r) BY <1>2, QuietReply
<1>3. CASE Goto(r, AfterCsrf(req[r].kind))
  <2>. DEFINE next == AfterCsrf(req[r].kind)
  <2>1. /\ next \in {"account", "revoke", "ready"}
        /\ next = "ready" => req[r].kind = "other"
        /\ next = "revoke" => req[r].kind # "login"
    <3>1. req[r].kind \in Kinds BY <1>1 DEF Local
    <3>2. QED BY <3>1 DEF AfterCsrf, Kinds
  <2>. HIDE DEF next
  <2>2. /\ req' \in [Requests -> Local] /\ req'[r].pc = next
        /\ req'[r].kind = req[r].kind /\ req'[r].cookie = req[r].cookie
        /\ req'[r].must = req[r].must
        /\ req'[r].since = req[r].since /\ req'[r].late = req[r].late
        /\ \A q \in Requests \ {r} : req'[q] = req[q]
    <3>1. next \in Places BY <2>1 DEF Places
    <3>2. Goto(r, next) BY <1>3 DEF next
    <3>3. QED BY <1>1, <3>1, <3>2, GotoFields
  <2>3. Known(r) /\ At(r, "csrf") BY DEF Inv, RequireCsrf
  <2>4. Ready' <=> Ready BY <1>1 DEF Ready, Quiet, run
  <2>5. ByCookie(r)'
    BY <2>1, <2>2, <2>3 DEF Known, ByCookie, At, Identified, Genuine, Quiet, run
  <2>6. ByPassword(r)' BY <1>1, <2>1, <2>2, <2>3 DEF Known, ByPassword, At
  <2>7. ByKind(r)' BY <2>1, <2>2, <2>3, <2>4 DEF Known, ByKind, At
  <2>8. QED BY <2>2, <2>5, <2>6, <2>7, QuietStep DEF Known
<1>4. QED BY <1>2, <1>3 DEF RequireCsrf

\* The password that is read is the last one, so it was held since.
LEMMA ReadAccountKeeps ==
  ASSUME Inv, NEW r \in Requests, ReadAccount(r)
  PROVE  Inv'
<1>. server = "up" /\ Quiet BY ServingIsUp DEF ReadAccount, Quiet, At
<1>1. req \in [Requests -> Local] /\ past' = past BY QuietGrows DEF Inv, TypeOK, Local
<1>2. CASE Reply(r) BY <1>2, QuietReply
<1>3. ASSUME NEW shown \in Passwords,
             NEW new \in IF req[r].kind = "login" THEN {None} ELSE Passwords,
             req' = [req EXCEPT ![r].pc = "verify", ![r].seen = user.password,
                                ![r].shown = shown, ![r].new = new]
      PROVE  Inv'
  <2>1. /\ user.password \in Maybe(Passwords) /\ user.password \in Passwords
        /\ shown \in Maybe(Passwords) /\ new \in Maybe(Passwords)
        /\ "verify" \in Places
        /\ req[r].kind # "login" => new \in Passwords
    BY DEF Inv, TypeOK, Maybe, Places
  <2>2. /\ req' \in [Requests -> Local] /\ req'[r].pc = "verify"
        /\ req'[r].seen = user.password /\ req'[r].shown = shown /\ req'[r].new = new
        /\ req'[r].kind = req[r].kind /\ req'[r].cookie = req[r].cookie
        /\ req'[r].since = req[r].since /\ req'[r].late = req[r].late
        /\ \A q \in Requests \ {r} : req'[q] = req[q]
    <3>. DEFINE local == [req[r] EXCEPT !.pc = "verify", !.seen = user.password,
                                        !.shown = shown, !.new = new]
    <3>1. local \in Local BY <1>1, <2>1 DEF Local
    <3>2. Moves(r, local) BY <1>3 DEF Moves
    <3>3. /\ local.pc = "verify" /\ local.seen = user.password
          /\ local.shown = shown /\ local.new = new
          /\ local.kind = req[r].kind /\ local.cookie = req[r].cookie
          /\ local.since = req[r].since /\ local.late = req[r].late
      BY <1>1 DEF Local
    <3>. HIDE DEF local
    <3>4. QED BY <1>1, <3>1, <3>2, <3>3, MoveFields
  <2>3. Known(r) /\ At(r, "account") BY DEF Inv, ReadAccount
  <2>4. Held(user.password, req[r].since, Len(past))
    <3>1. Len(past) \in Nat /\ user.password = past[Len(past)].value
      BY QuietGrows DEF Inv
    <3>2. req[r].since \in 1..Len(past) BY <2>3 DEF Known, ByPassword
    <3>3. QED BY <3>1, <3>2 DEF Held
  <2>5. ByCookie(r)'
    BY <2>2, <2>3 DEF Known, ByCookie, At, Identified, Genuine, Quiet, run
  <2>6. ByPassword(r)'
    BY <1>1, <2>2, <2>3, <2>4 DEF Known, ByPassword, At, Held
  <2>7. ByKind(r)' BY <2>2, <2>3 DEF Known, ByKind, At
  <2>8. QED BY <2>2, <2>5, <2>6, <2>7, QuietStep DEF Known
<1>4. QED BY <1>2, <1>3 DEF ReadAccount

\* The password that was shown is the one that was read.
LEMMA VerifyLoginKeeps ==
  ASSUME Inv, NEW r \in Requests, VerifyLogin(r)
  PROVE  Inv'
<1>. server = "up" /\ Quiet BY ServingIsUp DEF VerifyLogin, Quiet, At
<1>1. req \in [Requests -> Local] /\ past' = past BY QuietGrows DEF Inv, TypeOK, Local
<1>2. CASE Reply(r) BY <1>2, QuietReply
<1>3. CASE /\ req[r].shown = req[r].seen
           /\ req' = [req EXCEPT ![r].pc = "insert", ![r].expires = clock + Lifetime]
  <2>1. clock + Lifetime \in Nat BY ConstantsAssumption DEF Inv, TypeOK
  <2>2. /\ req' \in [Requests -> Local] /\ req'[r].pc = "insert"
        /\ req'[r].shown = req[r].shown
        /\ req'[r].kind = req[r].kind /\ req'[r].cookie = req[r].cookie
        /\ req'[r].since = req[r].since /\ req'[r].late = req[r].late
        /\ \A q \in Requests \ {r} : req'[q] = req[q]
    <3>. DEFINE later == clock + Lifetime
                local == [req[r] EXCEPT !.pc = "insert", !.expires = later]
    <3>1. later \in Nat /\ Moves(r, local) BY <1>3, <2>1 DEF Moves
    <3>. HIDE DEF later
    <3>2. "insert" \in Places BY DEF Places
    <3>3. local \in Local BY <1>1, <3>1, <3>2 DEF Local
    <3>4. /\ local.pc = "insert" /\ local.shown = req[r].shown
          /\ local.kind = req[r].kind /\ local.cookie = req[r].cookie
          /\ local.since = req[r].since /\ local.late = req[r].late
      BY <1>1 DEF Local
    <3>. HIDE DEF local
    <3>5. QED BY <1>1, <3>1, <3>3, <3>4, MoveFields
  <2>3. Known(r) /\ At(r, "verify") /\ req[r].kind = "login" BY DEF Inv, VerifyLogin
  <2>4. req[r].shown \in Passwords /\ Held(req[r].shown, req[r].since, Len(past))
    BY <1>3, <2>3 DEF Known, ByPassword
  <2>5. ByCookie(r)'
    BY <2>2, <2>3 DEF Known, ByCookie, At, Identified, Genuine, Quiet, run
  <2>6. ByPassword(r)'
    BY <1>1, <2>2, <2>3, <2>4 DEF Known, ByPassword, At, Held
  <2>7. ByKind(r)' BY <2>2, <2>3 DEF Known, ByKind, At
  <2>8. QED BY <2>2, <2>5, <2>6, <2>7, QuietStep DEF Known
<1>4. QED BY <1>2, <1>3 DEF VerifyLogin

LEMMA VerifyChangeKeeps ==
  ASSUME Inv, NEW r \in Requests, VerifyChange(r)
  PROVE  Inv'
<1>. server = "up" /\ Quiet BY ServingIsUp DEF VerifyChange, Quiet, At
<1>1. req \in [Requests -> Local] /\ past' = past BY QuietGrows DEF Inv, TypeOK, Local
<1>2. CASE Reply(r) BY <1>2, QuietReply
<1>3. CASE req[r].shown = req[r].seen /\ req[r].new \in Long /\ Goto(r, "store")
  <2>1. /\ req' \in [Requests -> Local] /\ req'[r].pc = "store"
        /\ req'[r].shown = req[r].shown /\ req'[r].new = req[r].new
        /\ req'[r].kind = req[r].kind /\ req'[r].cookie = req[r].cookie
        /\ req'[r].since = req[r].since /\ req'[r].late = req[r].late
        /\ \A q \in Requests \ {r} : req'[q] = req[q]
    BY <1>1, <1>3, GotoFields DEF Places
  <2>2. Known(r) /\ At(r, "verify") /\ req[r].kind = "password"
    BY DEF Inv, VerifyChange
  <2>3. req[r].shown \in Passwords /\ Held(req[r].shown, req[r].since, Len(past))
    BY <1>3, <2>2 DEF Known, ByPassword
  <2>4. ByCookie(r)'
    BY <2>1, <2>2 DEF Known, ByCookie, At, Identified, Genuine, Quiet, run
  <2>5. ByPassword(r)'
    BY <1>1, <1>3, <2>1, <2>2, <2>3 DEF Known, ByPassword, At, Held
  <2>6. ByKind(r)' BY <2>1, <2>2 DEF Known, ByKind, At
  <2>7. QED BY <2>1, <2>4, <2>5, <2>6, QuietStep DEF Known
<1>4. QED BY <1>2, <1>3 DEF VerifyChange

\* Who still owes a change goes no further.
LEMMA RequireReadyKeeps ==
  ASSUME Inv, NEW r \in Requests, RequireReady(r)
  PROVE  Inv'
<1>. server = "up" /\ Quiet BY ServingIsUp DEF RequireReady, Quiet, At
<1>1. req \in [Requests -> Local] /\ past' = past BY QuietGrows DEF Inv, TypeOK, Local
<1>2. CASE Reply(r) BY <1>2, QuietReply
<1>3. CASE ~req[r].must /\ Goto(r, "acting")
  <2>1. /\ req' \in [Requests -> Local] /\ req'[r].pc = "acting"
        /\ req'[r].kind = req[r].kind /\ req'[r].cookie = req[r].cookie
        /\ req'[r].since = req[r].since /\ req'[r].late = req[r].late
        /\ \A q \in Requests \ {r} : req'[q] = req[q]
    BY <1>1, <1>3, GotoFields DEF Places
  <2>2. Known(r) /\ At(r, "ready") BY DEF Inv, RequireReady
  <2>3. Ready' BY <1>1, <1>3, <2>2 DEF Ready, Quiet, run, Known, ByKind, At
  <2>4. ByCookie(r)'
    BY <2>1, <2>2 DEF Known, ByCookie, At, Identified, Genuine, Quiet, run
  <2>5. ByPassword(r)' BY <1>1, <2>1, <2>2 DEF Known, ByPassword, At
  <2>6. ByKind(r)' BY <2>1, <2>2, <2>3 DEF Known, ByKind, At
  <2>7. QED BY <2>1, <2>4, <2>5, <2>6, QuietStep DEF Known
<1>4. QED BY <1>2, <1>3 DEF RequireReady

-----------------------------------------------------------------------------
\* A step that writes a table: the others keep what they know.
LEMMA WritingStep ==
  ASSUME Inv, Grows, TypeOK', SecretsAreShown', server = "up",
         NEW r \in Requests, Known(r)', \A q \in Requests \ {r} : req'[q] = req[q],
         \A c \in cookies' : sessions'[c.id].state # "none",
         user'.password = past'[Len(past')].value,
         user'.must <=> past'[1].must /\ Len(past') = 1
  PROVE  Inv'
<1>1. past' \in Seq(Entry) /\ Len(past') \in Nat BY DEF TypeOK, Entry
<1>2. \A q \in Requests : Known(q)' BY <1>1, KnownStays
<1>3. Len(past') >= 1 BY <1>1 DEF Grows, Inv, TypeOK
<1>4. server' = "up" BY DEF Grows, run
<1>5. QED BY <1>2, <1>3, <1>4 DEF Inv

LEMMA InsertSessionKeeps ==
  ASSUME Inv, NEW r \in Requests, InsertSession(r)
  PROVE  Inv'
<1>. /\ server = "up" /\ UNCHANGED <<run, clock, user, cookies, past>>
     /\ At(r, "insert")
  BY ServingIsUp DEF InsertSession, At
<1>1. PICK s \in Ids :
        /\ sessions[s].state = "none"
        /\ sessions' = [sessions EXCEPT ![s] =
             [state |-> "open", expires |-> req[r].expires,
              earned |-> Held(req[r].shown, req[r].since, Len(past))]]
        /\ req' = [req EXCEPT ![r].pc = "cookie", ![r].id = s]
  BY DEF InsertSession
<1>2. /\ req \in [Requests -> Local] /\ sessions \in [Ids -> Row]
      /\ clock \in Nat /\ past \in Seq(Entry) /\ Len(past) \in Nat
  BY DEF Inv, TypeOK, Local, Row, Entry
<1>3. Known(r) BY DEF Inv
<1>4. Held(req[r].shown, req[r].since, Len(past)) BY <1>3 DEF Known, ByPassword, At
<1>5. /\ sessions' \in [Ids -> Row] /\ sessions'[s].state = "open" /\ sessions'[s].earned
      /\ \A x \in Ids \ {s} : sessions'[x] = sessions[x]
  <2>1. [state |-> "open", expires |-> req[r].expires, earned |-> TRUE] \in Row
    BY <1>2 DEF Local, Row
  <2>2. sessions' = [sessions EXCEPT ![s] =
             [state |-> "open", expires |-> req[r].expires, earned |-> TRUE]]
    BY <1>1, <1>4
  <2>3. QED BY <1>2, <2>1, <2>2
<1>6. /\ req' \in [Requests -> Local] /\ req'[r].pc = "cookie" /\ req'[r].id = s
      /\ req'[r].kind = req[r].kind /\ req'[r].cookie = req[r].cookie
      /\ req'[r].since = req[r].since /\ req'[r].late = req[r].late
      /\ \A q \in Requests \ {r} : req'[q] = req[q]
  <2>1. s \in Maybe(Ids) /\ "cookie" \in Places BY DEF Maybe, Places
  <2>2. QED BY <1>1, <1>2, <2>1 DEF Local
<1>7. Grows BY <1>1, <1>2, <1>5 DEF Grows
<1>8. TypeOK' BY <1>5, <1>6 DEF Inv, TypeOK, Local, Row, run
<1>9. SecretsAreShown' BY <1>5 DEF Inv, SecretsAreShown, Held
<1>10. Known(r)'
  <2>1. ByCookie(r)' BY <1>3, <1>6 DEF Known, ByCookie, At, Identified, Genuine, run
  <2>2. ByPassword(r)' BY <1>2, <1>3, <1>5, <1>6 DEF Known, ByPassword, At
  <2>3. ByKind(r)' BY <1>6 DEF ByKind, At
  <2>4. QED BY <2>1, <2>2, <2>3 DEF Known
<1>11. \A c \in cookies' : sessions'[c.id].state # "none"
  BY <1>5 DEF Inv, TypeOK, Cookies
<1>12. /\ user'.password = past'[Len(past')].value
       /\ user'.must <=> past'[1].must /\ Len(past') = 1
  BY DEF Inv
<1>13. QED BY <1>6, <1>7, <1>8, <1>9, <1>10, <1>11, <1>12, WritingStep

LEMMA SetCookieKeeps ==
  ASSUME Inv, NEW r \in Requests, SetCookie(r)
  PROVE  Inv'
<1>. /\ server = "up" /\ UNCHANGED <<run, clock, user, sessions, past>>
     /\ cookies' = cookies \cup {[id |-> req[r].id, secret |-> secret]}
  BY ServingIsUp DEF SetCookie, At
<1>1. /\ req \in [Requests -> Local] /\ past \in Seq(Entry) /\ Len(past) \in Nat
      /\ clock \in Nat /\ secret \in Secrets /\ Len(past) >= 1
  BY DEF Inv, TypeOK, Local, Entry
<1>2. /\ req' \in [Requests -> Local] /\ req'[r] = Idle
      /\ \A q \in Requests \ {r} : req'[q] = req[q]
  BY <1>1, ReplyFields DEF SetCookie
<1>3. Known(r)' BY <1>1, <1>2, IdleIsKnown
<1>4. req[r].id \in Ids /\ sessions[req[r].id].state # "none"
  BY DEF Inv, Known, ByPassword, SetCookie
<1>5. Grows BY <1>1 DEF Grows
<1>6. TypeOK'
  <2>1. [id |-> req[r].id, secret |-> secret] \in Cookies BY <1>1, <1>4 DEF Cookies
  <2>2. QED BY <1>2, <2>1 DEF Inv, TypeOK, Local, run
<1>7. SecretsAreShown' BY DEF Inv, SecretsAreShown, Held
<1>8. \A c \in cookies' : sessions'[c.id].state # "none" BY <1>4 DEF Inv
<1>9. /\ user'.password = past'[Len(past')].value
      /\ user'.must <=> past'[1].must /\ Len(past') = 1
  BY DEF Inv
<1>10. QED BY <1>2, <1>3, <1>5, <1>6, <1>7, <1>8, <1>9, WritingStep

\* The new password is the last one, and it was earned.
LEMMA StorePasswordKeeps ==
  ASSUME Inv, NEW r \in Requests, StorePassword(r)
  PROVE  Inv'
<1>. DEFINE entry == [value |-> req[r].new, must |-> FALSE,
                      shown |-> req[r].shown, since |-> req[r].since]
            n == Len(past)
<1>. /\ server = "up" /\ UNCHANGED <<run, clock, sessions, cookies>>
     /\ user' = [password |-> req[r].new, must |-> FALSE]
     /\ past' = Append(past, entry) /\ At(r, "store")
  BY ServingIsUp DEF StorePassword, At
<1>1. /\ req \in [Requests -> Local] /\ past \in Seq(Entry) /\ n \in Nat
      /\ clock \in Nat /\ n >= 1
  BY DEF Inv, TypeOK, Local, Entry
<1>2. /\ req' \in [Requests -> Local] /\ req'[r] = Idle
      /\ \A q \in Requests \ {r} : req'[q] = req[q]
  BY <1>1, ReplyFields DEF StorePassword
<1>3. /\ req[r].shown \in Passwords /\ Held(req[r].shown, req[r].since, n)
      /\ req[r].new \in Long /\ req[r].new \in Passwords /\ req[r].since \in Nat
  BY <1>1, ConstantsAssumption DEF Inv, Known, ByPassword, At
<1>4. entry \in Entry BY <1>3 DEF Entry
<1>5. /\ past' \in Seq(Entry) /\ Len(past') = n + 1 /\ past'[n + 1] = entry
      /\ \A i \in 1..n : past'[i] = past[i]
  <2>. HIDE DEF entry
  <2>1. QED BY <1>1, <1>4
<1>6. Grows BY <1>1, <1>5 DEF Grows
<1>7. user' \in [password : Passwords, must : BOOLEAN] BY <1>3
<1>8. TypeOK' BY <1>2, <1>5, <1>7 DEF Inv, TypeOK, Local, run, Entry
<1>9. Known(r)' BY <1>1, <1>2, <1>5, IdleIsKnown
<1>10. SecretsAreShown'
  <2>1. ASSUME NEW i \in 2..Len(past')
        PROVE  past'[i].value \in Long /\ Held(past[i].shown, past[i].since, i - 1)'
    <3>1. CASE i = n + 1
      <4>1. PICK k \in 1..n : /\ req[r].since <= k /\ k <= n
                              /\ past[k].value = req[r].shown
        BY <1>3 DEF Held
      <4>2. k \in 1..Len(past') /\ past'[k].value = req[r].shown /\ i - 1 = n
        BY <1>1, <1>5, <3>1, <4>1
      <4>3. past'[i].shown = req[r].shown /\ past'[i].since = req[r].since
        BY <1>5, <3>1
      <4>4. Held(past[i].shown, past[i].since, i - 1)' BY <4>1, <4>2, <4>3 DEF Held
      <4>5. past'[i].value \in Long BY <1>3, <1>5, <3>1
      <4>6. QED BY <4>4, <4>5
    <3>2. CASE i \in 2..n
      <4>1. past[i].value \in Long /\ Held(past[i].shown, past[i].since, i - 1)
        BY <3>2 DEF Inv, SecretsAreShown
      <4>2. PICK k \in 1..n : /\ past[i].since <= k /\ k <= i - 1
                              /\ past[k].value = past[i].shown
        BY <4>1 DEF Held
      <4>3. past'[i] = past[i] /\ past'[k] = past[k] /\ k \in 1..Len(past')
        BY <1>1, <1>5, <3>2, <4>2
      <4>4. QED BY <4>1, <4>2, <4>3 DEF Held
    <3>3. QED BY <1>1, <1>5, <3>1, <3>2
  <2>2. \A x \in Ids : sessions'[x].earned BY DEF Inv, SecretsAreShown
  <2>3. QED BY <2>1, <2>2 DEF SecretsAreShown
<1>11. \A c \in cookies' : sessions'[c.id].state # "none" BY DEF Inv
<1>12. /\ user'.password = past'[Len(past')].value
       /\ user'.must <=> past'[1].must /\ Len(past') = 1
  BY <1>1, <1>5
<1>13. QED BY <1>2, <1>6, <1>8, <1>9, <1>10, <1>11, <1>12, WritingStep

LEMMA RevokeSessionKeeps ==
  ASSUME Inv, NEW r \in Requests, RevokeSession(r)
  PROVE  Inv'
<1>. DEFINE id == req[r].cookie.id
<1>. /\ server = "up" /\ UNCHANGED <<run, clock, user, cookies, past>>
     /\ sessions' = [sessions EXCEPT ![id].state = "revoked"] /\ At(r, "revoke")
  BY ServingIsUp DEF RevokeSession, At
<1>1. /\ req \in [Requests -> Local] /\ sessions \in [Ids -> Row]
      /\ past \in Seq(Entry) /\ Len(past) \in Nat /\ clock \in Nat /\ Len(past) >= 1
  BY DEF Inv, TypeOK, Local, Entry, Row
<1>2. /\ req' \in [Requests -> Local] /\ req'[r] = Idle
      /\ \A q \in Requests \ {r} : req'[q] = req[q]
  BY <1>1, ReplyFields DEF RevokeSession
<1>3. id \in Ids
  BY DEF Inv, Known, ByCookie, ByKind, Identified, At, Genuine, TypeOK, Cookies
<1>4. /\ sessions' \in [Ids -> Row]
      /\ sessions'[id].state = "revoked" /\ sessions'[id].expires = sessions[id].expires
      /\ sessions'[id].earned = sessions[id].earned
      /\ \A s \in Ids \ {id} : sessions'[s] = sessions[s]
  <2>. HIDE DEF id
  <2>1. QED BY <1>1, <1>3 DEF Row
<1>. HIDE DEF id
<1>5. Grows BY <1>1, <1>3, <1>4 DEF Grows
<1>6. TypeOK' BY <1>2, <1>4 DEF Inv, TypeOK, Local, Row, run
<1>7. SecretsAreShown'
  <2>1. \A s \in Ids : sessions'[s].earned BY <1>4 DEF Inv, SecretsAreShown
  <2>2. QED BY <2>1 DEF Inv, SecretsAreShown, Held
<1>8. Known(r)' BY <1>1, <1>2, IdleIsKnown
<1>9. \A c \in cookies' : sessions'[c.id].state # "none"
  BY <1>4 DEF Inv, TypeOK, Cookies
<1>10. /\ user'.password = past'[Len(past')].value
       /\ user'.must <=> past'[1].must /\ Len(past') = 1
  BY DEF Inv
<1>11. QED BY <1>2, <1>5, <1>6, <1>7, <1>8, <1>9, <1>10, WritingStep

-----------------------------------------------------------------------------
LEMMA InitKeeps == Init => Inv
<1>. SUFFICES ASSUME Init PROVE Inv OBVIOUS
<1>1. PICK p \in Passwords, must \in BOOLEAN :
        /\ user = [password |-> p, must |-> must]
        /\ past = <<[value |-> p, must |-> must, shown |-> p, since |-> 1]>>
  BY DEF Init
<1>2. /\ past \in Seq(Entry) /\ Len(past) = 1 /\ past[1].value = p
      /\ past[1].must = must
  BY <1>1 DEF Entry
<1>3. /\ req \in [Requests -> Local] /\ \A r \in Requests : req[r] = Idle
  BY IdleIsLocal DEF Init
<1>4. ASSUME NEW r \in Requests PROVE Known(r)
  <2>1. req[r] = Idle BY <1>3
  <2>2. ByCookie(r) BY <2>1 DEF Idle, ByCookie, At, Identified
  <2>3. ByPassword(r) BY <1>2, <2>1 DEF Idle, ByPassword, At
  <2>4. ByKind(r) BY <2>1 DEF Idle, ByKind, At
  <2>5. QED BY <2>2, <2>3, <2>4 DEF Known
<1>5. sessions \in [Ids -> Row] BY DEF Init, NoSession, Row
<1>6. TypeOK BY <1>1, <1>2, <1>3, <1>5 DEF Init, TypeOK, Local, Row, Entry, Cookies
<1>7. SecretsAreShown BY <1>2 DEF Init, NoSession, SecretsAreShown
<1>8. QED BY <1>1, <1>2, <1>3, <1>4, <1>6, <1>7 DEF Inv, Init

\* A kill ends every request, and a start gives the others nothing to keep.
LEMMA RestartKeeps ==
  ASSUME Inv, Stop \/ Start \/ Tick
  PROVE  Inv'
<1>1. /\ req \in [Requests -> Local] /\ past \in Seq(Entry) /\ Len(past) \in Nat
      /\ Len(past) >= 1 /\ past' = past /\ clock \in Nat
  BY DEF Inv, TypeOK, Local, Entry, Stop, Start, Tick
<1>2. UNCHANGED <<user, sessions, cookies, past>> BY DEF Stop, Start, Tick
<1>3. SecretsAreShown' BY <1>2 DEF Inv, SecretsAreShown, Held
<1>4. CASE Stop
  <2>1. req' \in [Requests -> Local] /\ \A r \in Requests : req'[r] = Idle
    BY <1>4, IdleIsLocal DEF Stop
  <2>2. \A r \in Requests : Known(r)' BY <1>1, <2>1, IdleIsKnown
  <2>3. TypeOK' BY <1>2, <1>4, <2>1 DEF Inv, TypeOK, Local, Stop
  <2>4. QED BY <1>2, <1>3, <2>1, <2>2, <2>3 DEF Inv
<1>5. CASE Start
  <2>1. \A r \in Requests : req'[r] = Idle BY <1>5 DEF Start, Inv
  <2>2. \A r \in Requests : Known(r)' BY <1>1, <2>1, IdleIsKnown
  <2>3. TypeOK' BY <1>2, <1>5 DEF Inv, TypeOK, Start
  <2>4. QED BY <1>2, <1>3, <2>1, <2>2, <2>3 DEF Inv
<1>6. CASE Tick
  <2>1. Grows BY <1>1, <1>2, <1>6 DEF Grows, Tick, run
  <2>2. req' = req BY <1>6 DEF Tick
  <2>3. \A r \in Requests : Known(r)' BY <1>1, <2>1, <2>2, KnownStays
  <2>4. TypeOK' BY <1>1, <1>2, <1>6 DEF Inv, TypeOK, Tick, run
  <2>5. QED BY <1>2, <1>3, <1>6, <2>2, <2>3, <2>4 DEF Inv, Tick, run
<1>7. QED BY <1>4, <1>5, <1>6

\* Every step of a request keeps the invariant.
LEMMA StepKeeps ==
  ASSUME Inv, NEW r \in Requests, Step(r)
  PROVE  Inv'
<1>1. ASSUME Act(r) \/ Fail(r) PROVE Inv'
  <2>1. server = "up" /\ Quiet /\ Reply(r)
    BY <1>1, ServingIsUp DEF Act, Fail, Quiet, At
  <2>2. QED BY <2>1, QuietReply
<1>2. QED
  BY <1>1, ReceiveKeeps, ReadSessionKeeps, CheckExpiryKeeps, ReadIdentityKeeps,
     RequireCsrfKeeps, ReadAccountKeeps, VerifyLoginKeeps, InsertSessionKeeps,
     SetCookieKeeps, VerifyChangeKeeps, StorePasswordKeeps, RequireReadyKeeps,
     RevokeSessionKeeps
  DEF Step

LEMMA StutterKeeps ==
  ASSUME Inv, UNCHANGED vars
  PROVE  Inv'
<1>1. Quiet /\ req' = req BY DEF vars, Quiet, run
<1>2. Grows /\ past' = past /\ past' \in Seq(Entry) BY <1>1, QuietGrows
<1>3. \A r \in Requests : Known(r)' BY <1>1, <1>2, KnownStays
<1>4. TypeOK' BY <1>1 DEF Inv, TypeOK, Quiet, run
<1>5. SecretsAreShown' BY <1>1 DEF Inv, SecretsAreShown, Held, Quiet
<1>6. QED BY <1>1, <1>3, <1>4, <1>5 DEF Inv, Quiet, run

-----------------------------------------------------------------------------
\* What each request knows at its place, with the types, is an invariant.
THEOREM SessionsInvariant == Spec => []Inv
<1>1. Inv /\ [Next]_vars => Inv'
  BY RestartKeeps, StepKeeps, StutterKeeps DEF Next
<1>2. QED BY InitKeeps, <1>1, PTL DEF Spec

\* Every variable has its type, always.
THEOREM TypeCorrect == Spec => []TypeOK
<1>1. Inv => TypeOK BY DEF Inv
<1>2. QED BY SessionsInvariant, <1>1, PTL

\* A request that came after its session was logged out, or had expired, gets
\* no identity; nor does a cookie that another secret signed.
THEOREM ClosedSessionsStayOut == Spec => []ClosedIsRefused
<1>1. Inv => ClosedIsRefused
  BY DEF Inv, Known, ByCookie, ClosedIsRefused, Genuine
<1>2. QED BY SessionsInvariant, <1>1, PTL

\* No session and no password without the password of the account.
THEOREM SecretsAreEarned == Spec => []SecretsAreShown
<1>1. Inv => SecretsAreShown BY DEF Inv
<1>2. QED BY SessionsInvariant, <1>1, PTL

\* A bootstrap password opens no route that asks for a ready identity.
THEOREM BootstrapOpensNothing == Spec => []ReadyGate
<1>1. Inv => ReadyGate BY DEF Inv, Known, ByKind, ReadyGate, Ready
<1>2. QED BY SessionsInvariant, <1>1, PTL
=============================================================================
