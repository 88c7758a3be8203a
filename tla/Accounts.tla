------------------------------ MODULE Accounts ------------------------------
(***************************************************************************)
(* One account: its password, sessions, API tokens, e-mail tokens and the  *)
(* requests that use them (accounts/service.py, api/auth.py, api/deps.py), *)
(* each one READ COMMITTED transaction (hunter/db.py get_db).              *)
(*                                                                         *)
(* A request decides on the rows it loaded, then writes.  The first write  *)
(* of a row takes its lock, which the request keeps until it commits or is *)
(* rolled back; a raised HTTPException rolls back everything it flushed.   *)
(* Of requests that wait for each other PostgreSQL aborts one.             *)
(***************************************************************************)
EXTENDS Naturals, FiniteSets

CONSTANTS Passwords,      \* passwords of the account, past and future
          FirstPassword,  \* the password at the start
          FirstHash,      \* "current", or "outdated": argon2 was tuned since
          Sessions,       \* user_sessions rows, in use or to come
          OpenSessions,   \* sessions open at the start
          ApiTokens,      \* api_tokens rows, in use or to come
          OpenApiTokens,  \* API tokens that are valid at the start
          OpenTokens,     \* e-mail tokens sent before the start
          ResetTokens,    \* email_tokens rows of purpose reset_password
          VerifyTokens,   \* email_tokens rows of purpose verify_email
          Requests,
          MaxFailed,      \* MAX_FAILED_LOGINS
          MaxChanges,     \* bound: password changes that commit
          MaxMisses,      \* bound: failed logins the observer counts
          Account,        \* the users row, as something to lock
          None

Tokens == ResetTokens \cup VerifyTokens
Credentials == Sessions \cup ApiTokens
Rows == {Account} \cup Credentials \cup Tokens

ASSUME AccountsAssumption ==
  /\ FirstPassword \in Passwords /\ None \notin Passwords
  /\ FirstHash \in {"current", "outdated"}
  /\ OpenSessions \subseteq Sessions /\ OpenTokens \subseteq Tokens
  /\ OpenApiTokens \subseteq ApiTokens
  /\ MaxFailed \in Nat \ {0} /\ MaxChanges \in Nat /\ MaxMisses \in Nat
  /\ ResetTokens \cap VerifyTokens = {} /\ Credentials \cap Tokens = {}
  /\ Sessions \cap ApiTokens = {}
  /\ Account \notin Credentials \cup Tokens
  /\ None \notin Rows

\* Bounds, for counting requests and the rows left for them.
ASSUME FiniteAssumption == IsFiniteSet(Rows) /\ IsFiniteSet(Requests)

\* The mails that are out were asked for by as many requests at once, at most.
ASSUME OutstandingAssumption ==
  \A purpose \in {ResetTokens, VerifyTokens} :
    Cardinality(OpenTokens \cap purpose) <= Cardinality(Requests)

VARIABLES
  user,      \* the users row
  sessions,  \* committed user_sessions rows
  keys,      \* committed api_tokens rows
  tokens,    \* committed email_tokens rows
  mailed,    \* tokens whose message was sent
  request,   \* requests in flight
  changes,   \* observer: password changes and resets committed
  opened,    \* observer: of each session, "changes" when it was committed
  misses     \* observer: logins refused for a wrong password since the last
             \* success or password change

data == <<user, sessions, keys, tokens>>
observers == <<changes, opened, misses>>
vars == <<user, sessions, keys, tokens, mailed, request, changes, opened,
          misses>>

User == [password : Passwords, hash : {"current", "outdated"},
         failed : 0..MaxFailed, locked : {"no", "yes"},
         verified : {"no", "yes"}]

\* "live" rows have no revoked_at / used_at and have not expired.
RowStates == {"none", "live", "dead"}

\* pc     the next thing the request does
\* cred   the session or API token it came with
\* seen   the users row it loaded
\* row    the users row it leaves, once it has flushed one
\* todo   rows its UPDATE statement has still to lock
\* locks  rows it holds;  kills: those it revokes or marks as used
Request == [op : {"none", "login", "change", "reset", "verify", "revoke", "mint",
                  "visit", "mail"},
            pc : {"idle", "touch", "token", "user", "rows", "mail", "commit",
                  "raise"},
            password : Passwords \cup {None},
            cred : Credentials \cup {None}, token : Tokens \cup {None},
            seen : User \cup {None}, row : User \cup {None},
            todo : SUBSET Rows, locks : SUBSET Rows, kills : SUBSET Rows]

NoRequest == [op |-> "none", pc |-> "idle", password |-> None, cred |-> None,
              token |-> None, seen |-> None, row |-> None,
              todo |-> {}, locks |-> {}, kills |-> {}]

Init ==
  /\ user = [password |-> FirstPassword, hash |-> FirstHash, failed |-> 0,
             locked |-> "no", verified |-> "no"]
  /\ sessions = [s \in Sessions |-> IF s \in OpenSessions THEN "live" ELSE "none"]
  /\ keys = [k \in ApiTokens |-> IF k \in OpenApiTokens THEN "live" ELSE "none"]
  /\ tokens = [t \in Tokens |-> IF t \in OpenTokens THEN "live" ELSE "none"]
  /\ mailed = OpenTokens
  /\ request = [r \in Requests |-> NoRequest]
  /\ changes = 0
  /\ opened = [s \in Sessions |-> 0]
  /\ misses = 0

-----------------------------------------------------------------------------
(* A request arrives and reads *)

InFlight(ops) == Cardinality({r \in Requests : request[r].op \in ops})

\* Bounds: rows are left for every login and every new API token, changes for
\* every request.
RoomForSession ==
  InFlight({"login"}) < Cardinality({s \in Sessions : sessions[s] = "none"})

RoomForKey ==
  InFlight({"mint"}) < Cardinality({k \in ApiTokens : keys[k] = "none"})

RoomForChange == changes + InFlight({"change", "reset"}) < MaxChanges

Arrive(r, record) ==
  /\ request[r].pc = "idle"
  /\ request' = [request EXCEPT ![r] = record]
  /\ UNCHANGED <<data, mailed, observers>>

\* authenticate loads the user and verifies the password; a failure, too,
\* goes on to write the user.  A locked account is refused unwritten.
Login(r, p) ==
  /\ user.locked = "no" /\ RoomForSession
  /\ Arrive(r, [NoRequest EXCEPT !.op = "login", !.pc = "user",
                                 !.password = p, !.seen = user])

State(x) == CASE x \in Sessions  -> sessions[x]
              [] x \in ApiTokens -> keys[x]
              [] OTHER           -> tokens[x]

\* What a request with credentials does once it is let in.
Inside(op) == CASE op = "change" -> "user"
                [] op = "revoke" -> "rows"
                [] OTHER         -> "commit"

\* get_principal finds credential c valid, and writes its row first: an API
\* token's always, a session's when it was last seen a minute ago.
LetIn(r, c, record) ==
  /\ State(c) = "live"
  /\ \E first \in {"touch"} \cup (IF c \in Sessions THEN {Inside(record.op)} ELSE {}) :
       Arrive(r, [record EXCEPT !.cred = c, !.pc = first])

\* change_password, with the right current password.
ChangePassword(r, c, p) ==
  /\ p # user.password /\ RoomForChange
  /\ LetIn(r, c, [NoRequest EXCEPT !.op = "change", !.password = p, !.seen = user])

\* A valid credential of the account is to be revoked.
Revoke(r, c, target) ==
  /\ State(target) = "live"
  /\ LetIn(r, c, [NoRequest EXCEPT !.op = "revoke", !.todo = {target}])

\* A browser ends its own session; with an API token it is only a visit.
Logout(r, s) == Revoke(r, s, s)

\* revoke_session_route and revoke_token, for any credential of the account.
RevokeSession(r, c, s) == Revoke(r, c, s)

RevokeApiToken(r, c, k) == Revoke(r, c, k)

\* create_token.
MintApiToken(r, c) ==
  /\ RoomForKey
  /\ LetIn(r, c, [NoRequest EXCEPT !.op = "mint"])

\* Any other request: it only leaves last_seen_at or last_used_at.
Visit(r, c) == LetIn(r, c, [NoRequest EXCEPT !.op = "visit"])

\* consume_email_token finds the token neither used nor expired.
ResetPassword(r, t, p) ==
  /\ t \in mailed /\ tokens[t] = "live" /\ RoomForChange
  /\ Arrive(r, [NoRequest EXCEPT !.op = "reset", !.pc = "token",
                                 !.token = t, !.password = p])

VerifyEmail(r, t) ==
  /\ t \in mailed /\ tokens[t] = "live"
  /\ Arrive(r, [NoRequest EXCEPT !.op = "verify", !.pc = "token", !.token = t])

\* The tokens that the UPDATE of issue_email_token finds when t is issued.
Outstanding(t) ==
  {x \in Tokens : tokens[x] = "live" /\ (x \in ResetTokens <=> t \in ResetTokens)}

\* forgot_password, or resend_verification of an address not yet verified:
\* issue_email_token for a new token t.
RequestMail(r, t) ==
  /\ request[r].pc = "idle"
  /\ tokens[t] = "none" /\ t \notin mailed
  /\ \A q \in Requests : request[q].token # t
  /\ t \in VerifyTokens => user.verified = "no"
  /\ request' = [request EXCEPT ![r] =
       [NoRequest EXCEPT !.op = "mail", !.pc = "rows", !.token = t,
                         !.todo = Outstanding(t)]]
  /\ UNCHANGED <<data, mailed, observers>>

-----------------------------------------------------------------------------
(* It writes *)

\* Faulty variant of Free: writers of a row do not wait for each other.
AlwaysFree(r, x) == TRUE

\* No other request holds row x.
Free(r, x) == \A q \in Requests \ {r} : x \notin request[q].locks

\* A step of request r that only it can see.
Private(r, record) ==
  /\ request' = [request EXCEPT ![r] = record]
  /\ UNCHANGED <<data, mailed, observers>>

\* touch_session flushes last_seen_at, get_principal last_used_at, whether or
\* not the credential is still valid.
Touch(r) ==
  LET q == request[r]
  IN /\ q.pc = "touch" /\ Free(r, q.cred)
     /\ Private(r, [q EXCEPT !.locks = @ \cup {q.cred}, !.pc = Inside(q.op)])

\* used_at is flushed, whoever used the token since it was read; then the
\* user is loaded, and verify_email is done if it is verified.
FlushToken(r) ==
  LET q == request[r]
  IN /\ q.pc = "token" /\ Free(r, q.token)
     /\ Private(r, [q EXCEPT !.locks = @ \cup {q.token},
                             !.kills = @ \cup {q.token}, !.seen = user,
                             !.pc = IF q.op = "verify" /\ user.verified = "yes"
                                      THEN "commit" ELSE "user"])

\* The counter of failed logins after one more, and the lock it trips.
Missed(seen) ==
  IF seen.failed + 1 >= MaxFailed
    THEN [failed |-> 0, locked |-> "yes"]
    ELSE [failed |-> seen.failed + 1, locked |-> seen.locked]

\* The users row after the UPDATE of request q: the columns in which its
\* record differs from what it loaded.
Updated(q) ==
  CASE q.op = "verify" -> [user EXCEPT !.verified = "yes"]
    [] q.op \in {"change", "reset"} ->
         [user EXCEPT !.password = q.password, !.hash = "current",
                      !.failed = IF q.seen.failed = 0 THEN @ ELSE 0,
                      !.locked = IF q.seen.locked = "no" THEN @ ELSE "no"]
    [] q.op = "login" /\ q.password = q.seen.password ->
         [user EXCEPT !.password = IF q.seen.hash = "current" THEN @ ELSE q.password,
                      !.hash = IF q.seen.hash = "current" THEN @ ELSE "current",
                      !.failed = IF q.seen.failed = 0 THEN @ ELSE 0]
    [] OTHER -> [user EXCEPT !.failed = Missed(q.seen).failed,
                             !.locked = Missed(q.seen).locked]

\* Faulty variant of LiveSessions: a password change revokes nothing.
NoSession == {}

\* The rows revoke_all_sessions finds.
LiveSessions == {s \in Sessions : sessions[s] = "live"}

\* Faulty variant of FlushUser: revoke_all_sessions is sent before the user
\* row is written.
FlushUserLast(r) ==
  LET q == request[r]
      changed == q.op \in {"change", "reset"}
  IN /\ q.pc = "user" /\ (changed \/ Free(r, Account))
     /\ Private(r, [q EXCEPT
          !.locks = IF changed THEN @ ELSE @ \cup {Account}, !.row = Updated(q),
          !.todo = IF changed THEN LiveSessions ELSE {},
          !.pc = IF changed THEN "rows"
                 ELSE IF q.op = "login" /\ q.password # q.seen.password THEN "raise"
                 ELSE "commit"])

\* The flush of the user.  set_password then starts its UPDATE of sessions.
FlushUser(r) ==
  LET q == request[r]
  IN /\ q.pc = "user" /\ Free(r, Account)
     /\ Private(r, [q EXCEPT
          !.locks = @ \cup {Account}, !.row = Updated(q),
          !.todo = IF q.op \in {"change", "reset"} THEN LiveSessions ELSE {},
          !.pc = CASE q.op \in {"change", "reset"} -> "rows"
                   [] q.op = "login" /\ q.password # q.seen.password -> "raise"
                   [] OTHER -> "commit"])

\* An UPDATE locks its next row.  One by user skips a row that no longer
\* qualifies; that of revoke_session or revoke_api_token names the row's id.
LockRow(r, x) ==
  LET q == request[r]
  IN /\ q.pc = "rows" /\ x \in q.todo /\ Free(r, x)
     /\ Private(r, IF q.op = "revoke" \/ State(x) = "live"
          THEN [q EXCEPT !.todo = @ \ {x}, !.locks = @ \cup {x}, !.kills = @ \cup {x}]
          ELSE [q EXCEPT !.todo = @ \ {x}])

UpdateDone(r) ==
  LET q == request[r]
  IN /\ q.pc = "rows" /\ q.todo = {}
     /\ Private(r, [q EXCEPT !.pc = IF q.op = "mail" THEN "mail" ELSE "commit"])

\* The message leaves before the transaction commits; a mail error is logged.
SendMail(r) ==
  LET q == request[r]
  IN /\ q.pc = "mail"
     /\ request' = [request EXCEPT ![r].pc = "commit"]
     /\ mailed' \in {mailed, mailed \cup {q.token}}
     /\ UNCHANGED <<data, observers>>

-----------------------------------------------------------------------------
(* It ends *)

\* Faulty variant of RowAfter: an UPDATE writes all columns as they were loaded.
WholeRowAfter(q, new, x) ==
  IF x \in q.kills THEN "dead"
  ELSE IF x = new \/ x \in q.locks THEN "live" ELSE State(x)

\* Row x after request q has committed, having inserted row "new".  What it
\* only touched keeps the revoked_at that others gave it.
RowAfter(q, new, x) ==
  IF x \in q.kills THEN "dead" ELSE IF x = new THEN "live" ELSE State(x)

\* The rows from which the one that request q inserts is taken.
Insertable(q) ==
  CASE q.op = "login" -> {s \in Sessions : sessions[s] = "none"}
    [] q.op = "mint"  -> {k \in ApiTokens : keys[k] = "none"}
    [] q.op = "mail"  -> {q.token}
    [] OTHER          -> {None}

\* get_db commits.
Commit(r, new) ==
  LET q == request[r]
      changed == q.op \in {"change", "reset"}
  IN /\ q.pc = "commit" /\ new \in Insertable(q)
     /\ user' = IF q.row = None THEN user ELSE q.row
     /\ sessions' = [x \in Sessions |-> RowAfter(q, new, x)]
     /\ keys' = [x \in ApiTokens |-> RowAfter(q, new, x)]
     /\ tokens' = [x \in Tokens |-> RowAfter(q, new, x)]
     /\ request' = [request EXCEPT ![r] = NoRequest]
     /\ changes' = IF changed THEN changes + 1 ELSE changes
     /\ opened' = [x \in Sessions |-> IF x = new THEN changes ELSE opened[x]]
     /\ misses' = IF changed \/ q.op = "login" THEN 0 ELSE misses
     /\ UNCHANGED mailed

\* AuthError becomes a 401, an HTTPException that passes through get_db: the
\* counter, the lock and the login_attempts row are rolled back.
RaiseUnauthorized(r) ==
  /\ request[r].pc = "raise"
  /\ request' = [request EXCEPT ![r] = NoRequest]
  /\ misses' = IF misses < MaxMisses THEN misses + 1 ELSE misses
  /\ UNCHANGED <<data, mailed, changes, opened>>

\* The rows for which request r may have to wait.
Needs(r) ==
  LET q == request[r]
  IN CASE q.pc = "touch" -> {q.cred}
       [] q.pc = "token" -> {q.token}
       [] q.pc = "user"  -> {Account}
       [] q.pc = "rows"  -> q.todo
       [] OTHER          -> {}

WaitsFor(r) == {q \in Requests \ {r} : Needs(r) \cap request[q].locks # {}}

\* Each of these requests waits for another of them.
Stuck(circle) ==
  circle # {} /\ \A q \in circle : WaitsFor(q) \cap circle # {}

\* r waits in a circle.
Deadlocked(r) == \E circle \in SUBSET Requests : r \in circle /\ Stuck(circle)

\* PostgreSQL aborts a transaction of a deadlock: 500.
AbortDeadlocked(r) ==
  /\ Deadlocked(r)
  /\ Private(r, NoRequest)

\* The process dies, a weak password is refused (422), the driver fails.
Abandon(r) ==
  /\ request[r].pc # "idle"
  /\ Private(r, NoRequest)

\* Time passes.
ExpireSession(s) ==
  /\ sessions[s] = "live"
  /\ sessions' = [sessions EXCEPT ![s] = "dead"]
  /\ UNCHANGED <<user, keys, tokens, mailed, request, observers>>

ExpireApiToken(k) ==
  /\ keys[k] = "live"
  /\ keys' = [keys EXCEPT ![k] = "dead"]
  /\ UNCHANGED <<user, sessions, tokens, mailed, request, observers>>

ExpireToken(t) ==
  /\ tokens[t] = "live"
  /\ tokens' = [tokens EXCEPT ![t] = "dead"]
  /\ UNCHANGED <<user, sessions, keys, mailed, request, observers>>

-----------------------------------------------------------------------------

Begin(r) ==
  \/ \E p \in Passwords : Login(r, p)
  \/ \E c \in Credentials, p \in Passwords : ChangePassword(r, c, p)
  \/ \E s \in Sessions : Logout(r, s)
  \/ \E c \in Credentials, s \in Sessions : RevokeSession(r, c, s)
  \/ \E c \in Credentials, k \in ApiTokens : RevokeApiToken(r, c, k)
  \/ \E c \in Credentials : MintApiToken(r, c)
  \/ \E c \in Credentials : Visit(r, c)
  \/ \E t \in ResetTokens, p \in Passwords : ResetPassword(r, t, p)
  \/ \E t \in VerifyTokens : VerifyEmail(r, t)
  \/ \E t \in Tokens : RequestMail(r, t)

Continue(r) ==
  \/ Touch(r)
  \/ FlushToken(r)
  \/ FlushUser(r)
  \/ \E x \in Rows \ {Account} : LockRow(r, x)
  \/ UpdateDone(r)
  \/ SendMail(r)
  \/ \E new \in Rows \cup {None} : Commit(r, new)
  \/ RaiseUnauthorized(r)

Next ==
  \/ \E r \in Requests : Begin(r) \/ Continue(r) \/ AbortDeadlocked(r) \/ Abandon(r)
  \/ \E s \in Sessions : ExpireSession(s)
  \/ \E k \in ApiTokens : ExpireApiToken(k)
  \/ \E t \in Tokens : ExpireToken(t)

Spec == Init /\ [][Next]_vars

-----------------------------------------------------------------------------
(* Properties *)

\* The type invariant; no row is locked twice.
TypeOK ==
  /\ user \in User
  /\ sessions \in [Sessions -> RowStates]
  /\ keys \in [ApiTokens -> RowStates]
  /\ tokens \in [Tokens -> RowStates]
  /\ mailed \subseteq Tokens
  /\ request \in [Requests -> Request]
  /\ changes \in Nat
  /\ opened \in [Sessions -> Nat]
  /\ misses \in 0..MaxMisses
  /\ \A q, r \in Requests : q # r => request[q].locks \cap request[r].locks = {}

\* A password change or reset that has committed has revoked every session
\* committed before it, although it revokes by a statement that cannot see
\* sessions of transactions still open (set_password: "revoke every existing
\* session").
ChangeRevokesSessions ==
  \A s \in Sessions : sessions[s] = "live" => opened[s] = changes

\* The valid e-mail tokens of a purpose never outnumber the requests that can
\* overlap: a new token invalidates all that are committed, and those of
\* requests that run beside it are all that it can miss (issue_email_token).
LiveTokensBounded ==
  \A purpose \in {ResetTokens, VerifyTokens} :
    Cardinality({t \in purpose : tokens[t] = "live"}) <= Cardinality(Requests)

\* Of the tokens of a purpose one is valid ("One live token per purpose means an
\* old email cannot be replayed after the user requests a new one").
OneLiveToken ==
  \A purpose \in {ResetTokens, VerifyTokens} : \A t, u \in purpose :
    tokens[t] = "live" /\ tokens[u] = "live" => t = u

\* A session, an API token or an e-mail token that was revoked, used or expired
\* never comes back, although requests that found it valid write its row later
\* (touch_session, get_principal, consume_email_token).
DeadIsFinal ==
  [][\A x \in Rows \ {Account} : State(x) = "dead" => State(x)' = "dead"]_vars

\* The row of a credential is locked before all others, by touch_session or
\* get_principal, or two mails mark the tokens of one purpose.
OutOfOrder(circle) ==
  \/ \E r \in circle : request[r].cred \in request[r].locks
  \/ \E q, r \in circle : q # r /\ request[q].op = "mail" /\ request[r].op = "mail"

\* Requests deadlock, and one of them ends in a 500, only if one has touched its
\* credential first or two of them send mail: the rest of the code takes its
\* rows in one order, e-mail token, user, sessions (set_password, reset_password).
DeadlocksNeedATouch ==
  \A circle \in SUBSET Requests : Stuck(circle) => OutOfOrder(circle)

\* Failed logins lock the account ("Failed logins increment a counter that
\* trips a time-boxed lockout").
LockoutTrips == misses >= MaxFailed => user.locked = "yes"

=============================================================================
