--------------------------- MODULE AccountsProofs ---------------------------
(***************************************************************************)
(* Theorems about Accounts, for any passwords, credentials, tokens and     *)
(* requests.                                                               *)
(***************************************************************************)
EXTENDS Accounts, FiniteSetTheorems, TLAPS

-----------------------------------------------------------------------------
(* The inductive invariant *)

\* What is known of a request at each stage.
StageOK(q) ==
  /\ q.pc = "idle" => q.op = "none" /\ q.locks = {}
  /\ q.pc = "touch" => /\ q.cred \in Credentials
                       /\ q.op \in {"change", "revoke", "mint", "visit"}
  /\ q.pc = "token" => q.op \in {"reset", "verify"}
  /\ q.op \in {"reset", "verify"} => q.token \in Tokens
  /\ q.pc = "user" => q.op \in {"login", "change", "reset", "verify"}
  /\ q.pc = "rows" => q.op \in {"change", "reset", "revoke", "mail"}
  /\ q.pc = "mail" => q.op = "mail"
  /\ q.pc = "raise" => q.op = "login"
  /\ q.op \in {"login", "change", "reset"} => q.password \in Passwords
  /\ q.op \in {"login", "change"} => q.seen \in User
  /\ q.op = "reset" /\ q.pc = "user" => q.seen \in User
  /\ q.op = "mail" => q.token \in Tokens /\ q.pc \in {"rows", "mail", "commit"}

\* A request that has flushed the user holds the user's row; one that changes
\* the password still finds or has found every live session.
Sweeping(q) ==
  /\ q.op = "login" /\ q.pc = "commit" => Account \in q.locks
  /\ q.op \in {"change", "reset"} /\ q.pc \in {"rows", "commit"} =>
       /\ Account \in q.locks
       /\ \A s \in Sessions : sessions[s] = "live" =>
            s \in q.kills \/ (s \in q.todo /\ q.pc = "rows")

\* The token of a mail request is not there yet.
Mailing(q) == q.op = "mail" => tokens[q.token] = "none"

\* Which rows a request holds, and is to find, at each stage: but for a touched
\* credential, e-mail token, user and sessions in this order.
Locking(q) ==
  /\ Account \in q.locks =>
       /\ q.pc \in {"rows", "commit", "raise"}
       /\ q.pc = "rows" => q.op \in {"change", "reset"}
  /\ q.locks \cap Tokens # {} => q.op \in {"reset", "verify", "mail"} /\ q.pc # "token"
  /\ \A x \in q.locks \cap Credentials :
       \/ x = q.cred
       \/ Account \in q.locks
       \/ q.op = "revoke" /\ q.todo = {}
  /\ q.op \in {"change", "reset"} /\ q.pc = "rows" => q.todo \subseteq Sessions
  /\ q.op = "revoke" =>
       \/ \E x \in Credentials : q.todo = {x}
       \/ q.todo = {} /\ q.pc \in {"rows", "commit"}
  /\ q.op = "mail" => q.todo \subseteq Tokens /\ (q.pc # "rows" => q.todo = {})

\* What is revoked or used was committed.
Found(q) ==
  /\ q.op \in {"reset", "verify"} => tokens[q.token] # "none"
  /\ \A x \in q.kills \cap Tokens : tokens[x] # "none"

RequestOK(q) ==
  q \in Request /\ StageOK(q) /\ Sweeping(q) /\ Mailing(q) /\ Found(q) /\ Locking(q)

\* No two mail requests have the same token.
OwnTokens ==
  \A q, r \in Requests :
    q # r /\ request[q].op = "mail" /\ request[r].op = "mail" =>
      request[q].token # request[r].token

Inv ==
  /\ TypeOK
  /\ \A r \in Requests : RequestOK(request[r])
  /\ OwnTokens
  /\ ChangeRevokesSessions

-----------------------------------------------------------------------------
(* Steps that only the request sees *)

LEMMA AloneKeepsInv ==
  ASSUME Inv, NEW r \in Requests, NEW rec,
         request' = [request EXCEPT ![r] = rec],
         UNCHANGED <<data, changes, opened>>,
         mailed' \subseteq Tokens, misses' \in 0..MaxMisses,
         RequestOK(rec),
         \A q \in Requests \ {r} : rec.locks \cap request[q].locks = {},
         rec.op = "mail" => request[r].op = "mail" /\ rec.token = request[r].token
  PROVE  Inv'
<1> USE DEF Inv, TypeOK, data
<1>1. /\ request' \in [Requests -> Request]
      /\ request'[r] = rec
      /\ \A q \in Requests \ {r} : request'[q] = request[q]
  BY DEF RequestOK
<1>2. TypeOK'
  <2>1. ASSUME NEW p \in Requests, NEW q \in Requests, p # q
        PROVE  request'[p].locks \cap request'[q].locks = {}
    BY <1>1, <2>1
  <2> QED  BY <1>1, <2>1
<1>3. ASSUME NEW q \in Requests PROVE RequestOK(request[q])'
  <2>1. RequestOK(request'[q])
    BY <1>1
  <2> QED  BY <2>1 DEF RequestOK, StageOK, Sweeping, Mailing, Found, Locking
<1>4. OwnTokens'
  BY <1>1 DEF OwnTokens
<1>5. ChangeRevokesSessions'
  BY DEF ChangeRevokesSessions
<1> QED  BY <1>2, <1>3, <1>4, <1>5

LEMMA IdleIsOK == NoRequest \in Request /\ RequestOK(NoRequest)
<1>1. NoRequest \in Request
  BY DEF NoRequest, Request
<1>2. StageOK(NoRequest) /\ Sweeping(NoRequest)
  BY DEF NoRequest, StageOK, Sweeping
<1>3. Mailing(NoRequest) /\ Found(NoRequest) /\ Locking(NoRequest)
  BY DEF NoRequest, Mailing, Found, Locking
<1> QED  BY <1>1, <1>2, <1>3 DEF RequestOK

LEMMA InitInv == Init => Inv
<1> SUFFICES ASSUME Init PROVE Inv
  OBVIOUS
<1> USE AccountsAssumption DEF Init
<1>1. TypeOK
  <2>1. user \in User
    BY DEF User
  <2>2. request \in [Requests -> Request]
    BY IdleIsOK
  <2>3. \A q, r \in Requests : request[q].locks \cap request[r].locks = {}
    BY DEF NoRequest
  <2> QED  BY <2>1, <2>2, <2>3 DEF TypeOK, RowStates
<1>2. \A r \in Requests : RequestOK(request[r])
  BY IdleIsOK
<1>3. OwnTokens
  BY DEF OwnTokens, NoRequest
<1> QED
  BY <1>1, <1>2, <1>3 DEF Inv, ChangeRevokesSessions

LEMMA AbandonKeepsInv ==
  ASSUME Inv, NEW r \in Requests, Abandon(r) \/ AbortDeadlocked(r) \/ RaiseUnauthorized(r)
  PROVE  Inv'
<1>1. /\ request' = [request EXCEPT ![r] = NoRequest]
      /\ UNCHANGED <<data, changes, opened, mailed>>
      /\ misses' \in 0..MaxMisses
  <2>1. misses \in 0..MaxMisses /\ MaxMisses \in Nat
    BY AccountsAssumption DEF Inv, TypeOK
  <2>2. CASE Abandon(r) \/ AbortDeadlocked(r)
    BY <2>1, <2>2 DEF Abandon, AbortDeadlocked, Private, observers
  <2>3. CASE RaiseUnauthorized(r)
    BY <2>1, <2>3 DEF RaiseUnauthorized
  <2> QED  BY <2>2, <2>3
<1>2. NoRequest.op # "mail" /\ NoRequest.locks = {} /\ mailed \subseteq Tokens
  BY DEF NoRequest, Inv, TypeOK
<1> QED  BY <1>1, <1>2, IdleIsOK, AloneKeepsInv

\* A request arrives.
LEMMA ArriveKeepsInv ==
  ASSUME Inv, NEW r \in Requests, NEW rec, Arrive(r, rec),
         RequestOK(rec), rec.locks = {}, rec.op # "mail"
  PROVE  Inv'
<1>1. /\ request' = [request EXCEPT ![r] = rec]
      /\ UNCHANGED <<data, changes, opened, mailed, misses>>
  BY DEF Arrive, observers
<1>2. mailed \subseteq Tokens /\ misses \in 0..MaxMisses
  BY DEF Inv, TypeOK
<1> QED  BY <1>1, <1>2, AloneKeepsInv

LEMMA LetInKeepsInv ==
  ASSUME Inv, NEW r \in Requests, NEW c \in Credentials, NEW record,
         LetIn(r, c, record), record \in Request,
         record.locks = {}, record.kills = {}, record.op \in {"change", "revoke", "mint", "visit"},
         record.op = "revoke" => \E x \in Credentials : record.todo = {x},
         record.op = "change" => record.todo = {},
         record.op = "change" => record.password \in Passwords /\ record.seen \in User
  PROVE  Inv'
<1>1. PICK first \in {"touch", Inside(record.op)} :
        Arrive(r, [record EXCEPT !.cred = c, !.pc = first])
  BY DEF LetIn
<1> DEFINE q == [record EXCEPT !.cred = c, !.pc = first]
<1>2. first \in {"touch", "user", "rows", "commit"}
  BY <1>1 DEF Inside
<1>3. q \in Request /\ q.op = record.op /\ q.locks = {} /\ q.kills = {} /\ q.cred = c /\ q.pc = first
      /\ q.password = record.password /\ q.seen = record.seen /\ q.todo = record.todo
  BY <1>2 DEF Request
<1>4. /\ q.pc = "user" => q.op = "change"
      /\ q.pc = "rows" => q.op = "revoke"
      /\ q.pc = "commit" => q.op \in {"mint", "visit"}
  BY <1>1, <1>3 DEF Inside
<1> HIDE DEF q
<1>5. StageOK(q)
  BY <1>2, <1>3, <1>4 DEF StageOK
<1>6. Sweeping(q) /\ Mailing(q) /\ Found(q) /\ Locking(q)
  BY <1>3, <1>4 DEF Sweeping, Mailing, Found, Locking
<1>7. RequestOK(q) /\ q.op # "mail"
  BY <1>3, <1>5, <1>6 DEF RequestOK
<1>8. Arrive(r, q)
  BY <1>1 DEF q
<1> QED  BY <1>3, <1>7, <1>8, ArriveKeepsInv

LEMMA BeginKeepsInv ==
  ASSUME Inv, NEW r \in Requests, Begin(r)
  PROVE  Inv'
<1> USE AccountsAssumption
<1>0. user \in User /\ NoRequest \in Request
  BY IdleIsOK DEF Inv, TypeOK
<1>1. ASSUME NEW p \in Passwords, Login(r, p) PROVE Inv'
  <2> DEFINE q == [NoRequest EXCEPT !.op = "login", !.pc = "user",
                                    !.password = p, !.seen = user]
  <2>1. /\ q \in Request /\ q.op = "login" /\ q.pc = "user" /\ q.password = p
        /\ q.seen = user /\ q.locks = {} /\ q.kills = {}
    BY <1>0 DEF Request, NoRequest
  <2>2. Arrive(r, q)
    BY <1>1 DEF Login
  <2> HIDE DEF q
  <2>3. RequestOK(q)
    BY <1>0, <2>1 DEF RequestOK, StageOK, Sweeping, Mailing, Found, Locking
  <2> QED  BY <2>1, <2>2, <2>3, ArriveKeepsInv
<1>2. ASSUME NEW c \in Credentials, NEW p \in Passwords, ChangePassword(r, c, p)
      PROVE  Inv'
  <2> DEFINE q == [NoRequest EXCEPT !.op = "change", !.password = p, !.seen = user]
  <2>1. /\ q \in Request /\ q.op = "change" /\ q.password = p
        /\ q.seen = user /\ q.locks = {} /\ q.kills = {} /\ q.todo = {}
    BY <1>0 DEF Request, NoRequest
  <2>2. LetIn(r, c, q)
    BY <1>2 DEF ChangePassword
  <2> HIDE DEF q
  <2> QED  BY <1>0, <2>1, <2>2, LetInKeepsInv
<1>3. ASSUME NEW c \in Credentials, NEW target \in Credentials, Revoke(r, c, target)
      PROVE  Inv'
  <2> DEFINE q == [NoRequest EXCEPT !.op = "revoke", !.todo = {target}]
  <2>1. q \in Request /\ q.op = "revoke" /\ q.locks = {} /\ q.kills = {} /\ q.todo = {target}
    BY <1>0 DEF Request, NoRequest, Rows
  <2>2. LetIn(r, c, q)
    BY <1>3 DEF Revoke
  <2> HIDE DEF q
  <2> QED  BY <2>1, <2>2, LetInKeepsInv
<1>4. ASSUME NEW c \in Credentials, MintApiToken(r, c) \/ Visit(r, c) PROVE Inv'
  <2>1. ASSUME NEW op \in {"mint", "visit"}, LetIn(r, c, [NoRequest EXCEPT !.op = op])
        PROVE  Inv'
    <3> DEFINE q == [NoRequest EXCEPT !.op = op]
    <3>1. q \in Request /\ q.op = op /\ q.locks = {} /\ q.kills = {} /\ q.todo = {}
      BY <1>0 DEF Request, NoRequest
    <3>2. LetIn(r, c, q)
      BY <2>1
    <3> HIDE DEF q
    <3> QED  BY <3>1, <3>2, LetInKeepsInv
  <2> QED  BY <1>4, <2>1 DEF MintApiToken, Visit
<1>5. ASSUME NEW t \in ResetTokens, NEW p \in Passwords, ResetPassword(r, t, p)
      PROVE  Inv'
  <2> DEFINE q == [NoRequest EXCEPT !.op = "reset", !.pc = "token",
                                    !.token = t, !.password = p]
  <2>1. /\ q \in Request /\ q.op = "reset" /\ q.pc = "token" /\ q.token \in Tokens
        /\ q.password = p /\ q.locks = {} /\ q.kills = {}
    BY <1>0 DEF Request, NoRequest, Tokens
  <2>2. Arrive(r, q) /\ q.token = t /\ tokens[t] # "none"
    BY <1>5 DEF ResetPassword
  <2> HIDE DEF q
  <2>3. RequestOK(q)
    BY <2>1, <2>2 DEF RequestOK, StageOK, Sweeping, Mailing, Found, Locking
  <2> QED  BY <2>1, <2>2, <2>3, ArriveKeepsInv
<1>6. ASSUME NEW t \in VerifyTokens, VerifyEmail(r, t) PROVE Inv'
  <2> DEFINE q == [NoRequest EXCEPT !.op = "verify", !.pc = "token", !.token = t]
  <2>1. /\ q \in Request /\ q.op = "verify" /\ q.pc = "token" /\ q.token \in Tokens
        /\ q.locks = {} /\ q.kills = {}
    BY <1>0 DEF Request, NoRequest, Tokens
  <2>2. Arrive(r, q) /\ q.token = t /\ tokens[t] # "none"
    BY <1>6 DEF VerifyEmail
  <2> HIDE DEF q
  <2>3. RequestOK(q)
    BY <2>1, <2>2 DEF RequestOK, StageOK, Sweeping, Mailing, Found, Locking
  <2> QED  BY <2>1, <2>2, <2>3, ArriveKeepsInv
<1>7. ASSUME NEW t \in Tokens, RequestMail(r, t) PROVE Inv'
  <2> DEFINE q == [NoRequest EXCEPT !.op = "mail", !.pc = "rows", !.token = t,
                                    !.todo = Outstanding(t)]
  <2>1. /\ q \in Request /\ q.op = "mail" /\ q.pc = "rows" /\ q.token = t
        /\ q.todo = Outstanding(t) /\ q.locks = {} /\ q.kills = {}
    BY <1>0 DEF Request, NoRequest, Rows, Outstanding
  <2>2. /\ request' = [request EXCEPT ![r] = q]
        /\ UNCHANGED <<data, mailed, changes, opened, misses>>
        /\ tokens[t] = "none" /\ \A p \in Requests : request[p].token # t
    BY <1>7 DEF RequestMail, observers
  <2>3. q.todo \subseteq Tokens
    BY <2>1 DEF Outstanding
  <2> HIDE DEF q
  <2>4. TypeOK
    BY DEF Inv
  <2>5. /\ request' \in [Requests -> Request] /\ request'[r] = q
        /\ \A p \in Requests \ {r} : request'[p] = request[p]
    BY <2>1, <2>2, <2>4 DEF TypeOK
  <2>6. TypeOK'
    <3>1. ASSUME NEW o \in Requests, NEW p \in Requests, o # p
          PROVE  request'[o].locks \cap request'[p].locks = {}
      BY <2>1, <2>4, <2>5, <3>1 DEF TypeOK
    <3> QED  BY <2>2, <2>4, <2>5, <3>1 DEF TypeOK, data
  <2>7. RequestOK(q)
    <3>1. StageOK(q) /\ Sweeping(q)
      BY <2>1 DEF StageOK, Sweeping
    <3>2. Mailing(q) /\ Found(q) /\ Locking(q)
      BY <2>1, <2>2, <2>3 DEF Mailing, Found, Locking
    <3> QED  BY <2>1, <3>1, <3>2 DEF RequestOK
  <2>8. ASSUME NEW p \in Requests PROVE RequestOK(request[p])'
    <3>1. RequestOK(request'[p])
      BY <2>5, <2>7 DEF Inv
    <3> QED
      BY <2>2, <3>1
      DEF RequestOK, StageOK, Sweeping, Mailing, Found, Locking, data
  <2>9. OwnTokens'
    BY <2>1, <2>2, <2>5 DEF OwnTokens, Inv
  <2>10. ChangeRevokesSessions'
    BY <2>2 DEF Inv, ChangeRevokesSessions, data
  <2> QED  BY <2>6, <2>8, <2>9, <2>10 DEF Inv
<1>8. ASSUME \/ \E s \in Sessions : Logout(r, s)
             \/ \E c \in Credentials, s \in Sessions : RevokeSession(r, c, s)
             \/ \E c \in Credentials, k \in ApiTokens : RevokeApiToken(r, c, k)
      PROVE  Inv'
  BY <1>3, <1>8 DEF Logout, RevokeSession, RevokeApiToken, Credentials
<1> QED  BY <1>1, <1>2, <1>4, <1>5, <1>6, <1>7, <1>8 DEF Begin

\* A request that only changes its own record: what AloneKeepsInv asks of it.
LEMMA PrivateKeepsInv ==
  ASSUME Inv, NEW r \in Requests, NEW rec, Private(r, rec), RequestOK(rec),
         \A q \in Requests \ {r} : rec.locks \cap request[q].locks = {},
         rec.op = request[r].op, rec.token = request[r].token
  PROVE  Inv'
<1>1. /\ request' = [request EXCEPT ![r] = rec]
      /\ UNCHANGED <<data, changes, opened, mailed, misses>>
  BY DEF Private, observers
<1>2. mailed \subseteq Tokens /\ misses \in 0..MaxMisses
  BY DEF Inv, TypeOK
<1> QED  BY <1>1, <1>2, AloneKeepsInv

LEMMA StateFacts ==
  /\ \A s \in Sessions : State(s) = sessions[s]
  /\ \A k \in ApiTokens : State(k) = keys[k]
  /\ \A t \in Tokens : State(t) = tokens[t]
BY AccountsAssumption DEF State, Credentials

\* A lock is taken when no other request holds the row.
LEMMA LocksApart ==
  ASSUME Inv, NEW r \in Requests, NEW x, Free(r, x)
  PROVE  \A q \in Requests \ {r} :
           /\ request[r].locks \cap request[q].locks = {}
           /\ (request[r].locks \cup {x}) \cap request[q].locks = {}
BY DEF Inv, TypeOK, Free

LEMMA TouchKeepsInv ==
  ASSUME Inv, NEW r \in Requests, Touch(r)
  PROVE  Inv'
<1> DEFINE q == request[r]
           p == [q EXCEPT !.locks = @ \cup {q.cred}, !.pc = Inside(q.op)]
<1>1. /\ q \in Request /\ StageOK(q) /\ Found(q) /\ Locking(q) /\ q.pc = "touch"
      /\ Free(r, q.cred) /\ Private(r, p)
  BY DEF Touch, Inv, RequestOK
<1>2. q.cred \in Credentials /\ q.op \in {"change", "revoke", "mint", "visit"}
  BY <1>1 DEF StageOK
<1>3. /\ p \in Request /\ p.op = q.op /\ p.token = q.token
      /\ p.password = q.password /\ p.seen = q.seen /\ p.kills = q.kills
      /\ p.locks = q.locks \cup {q.cred} /\ p.pc = Inside(q.op)
      /\ p.cred = q.cred /\ p.todo = q.todo
  BY <1>1, <1>2 DEF Request, Inside, Rows
<1>4. \A o \in Requests \ {r} : p.locks \cap request[o].locks = {}
  BY <1>1, <1>3, LocksApart
<1> HIDE DEF p
<1>5. RequestOK(p)
  <2>1. StageOK(p)
    BY <1>1, <1>2, <1>3 DEF StageOK, Inside
  <2>2. Sweeping(p) /\ Mailing(p)
    BY <1>2, <1>3 DEF Sweeping, Mailing, Inside
  <2>3. Found(p)
    BY <1>1, <1>3 DEF Found
  <2>4. Locking(p)
    <3>1. q.locks \cap Tokens = {} /\ Account \notin q.locks
      BY <1>1, <1>2 DEF Locking
    <3>2. p.locks \cap Tokens = {} /\ Account \notin p.locks
      BY <1>2, <1>3, <3>1, AccountsAssumption
    <3> QED  BY <1>1, <1>2, <1>3, <3>1, <3>2 DEF Locking, Inside
  <2> QED  BY <1>3, <2>1, <2>2, <2>3, <2>4 DEF RequestOK
<1> QED  BY <1>1, <1>3, <1>4, <1>5, PrivateKeepsInv

LEMMA FlushTokenKeepsInv ==
  ASSUME Inv, NEW r \in Requests, FlushToken(r)
  PROVE  Inv'
<1> DEFINE q == request[r]
           next == IF q.op = "verify" /\ user.verified = "yes" THEN "commit" ELSE "user"
           p == [q EXCEPT !.locks = @ \cup {q.token}, !.kills = @ \cup {q.token},
                          !.seen = user, !.pc = next]
<1>1. /\ q \in Request /\ StageOK(q) /\ Found(q) /\ Locking(q) /\ q.pc = "token"
      /\ Free(r, q.token) /\ Private(r, p)
  BY DEF FlushToken, Inv, RequestOK
<1>2. q.token \in Tokens /\ q.op \in {"reset", "verify"} /\ user \in User
  BY <1>1 DEF StageOK, Inv, TypeOK
<1>3. /\ p \in Request /\ p.op = q.op /\ p.token = q.token
      /\ p.password = q.password /\ p.seen = user
      /\ p.locks = q.locks \cup {q.token} /\ p.kills = q.kills \cup {q.token}
      /\ p.pc = next /\ p.cred = q.cred /\ p.todo = q.todo
  BY <1>1, <1>2 DEF Request, Rows
<1>4. \A o \in Requests \ {r} : p.locks \cap request[o].locks = {}
  BY <1>1, <1>3, LocksApart
<1> HIDE DEF p
<1>5. RequestOK(p)
  <2>1. StageOK(p)
    BY <1>1, <1>2, <1>3 DEF StageOK
  <2>2. Sweeping(p) /\ Mailing(p)
    BY <1>2, <1>3 DEF Sweeping, Mailing
  <2>3. Found(p)
    BY <1>1, <1>2, <1>3 DEF Found
  <2>4. Locking(p)
    <3>1. q.token # Account /\ q.token \notin Credentials
      BY <1>2, AccountsAssumption
    <3>2. Account \notin p.locks
      BY <1>1, <1>3, <3>1 DEF Locking
    <3>3. \A x \in p.locks \cap Credentials : x \in q.locks
      BY <1>3, <3>1
    <3> QED  BY <1>1, <1>2, <1>3, <3>2, <3>3 DEF Locking
  <2> QED  BY <1>3, <2>1, <2>2, <2>3, <2>4 DEF RequestOK
<1> QED  BY <1>1, <1>3, <1>4, <1>5, PrivateKeepsInv

LEMMA UpdatedIsUser ==
  ASSUME NEW q \in Request, user \in User, StageOK(q), q.pc = "user"
  PROVE  Updated(q) \in User
<1>1. CASE q.op = "verify"
  BY <1>1 DEF Updated, User
<1>2. CASE q.op # "verify"
  <2>1. /\ q.op \in {"login", "change", "reset"} /\ q.seen \in User
        /\ q.password \in Passwords
    BY <1>2 DEF StageOK
  <2>2. MaxFailed \in Nat \ {0}
    BY AccountsAssumption
  <2>3. Missed(q.seen).failed \in 0..MaxFailed /\ Missed(q.seen).locked \in {"no", "yes"}
    BY <2>1, <2>2 DEF Missed, User
  <2>4. /\ user.failed \in 0..MaxFailed /\ 0 \in 0..MaxFailed
        /\ user.locked \in {"no", "yes"} /\ user.hash \in {"current", "outdated"}
        /\ user.password \in Passwords /\ user.verified \in {"no", "yes"}
    BY <2>2 DEF User
  <2>5. CASE q.op \in {"change", "reset"}
    BY <2>1, <2>4, <2>5 DEF Updated, User
  <2>6. CASE q.op = "login" /\ q.password = q.seen.password
    BY <2>1, <2>4, <2>6 DEF Updated, User
  <2>7. CASE q.op = "login" /\ q.password # q.seen.password
    BY <2>3, <2>4, <2>7 DEF Updated, User
  <2> QED  BY <2>1, <2>5, <2>6, <2>7
<1> QED  BY <1>1, <1>2

LEMMA FlushUserKeepsInv ==
  ASSUME Inv, NEW r \in Requests, FlushUser(r)
  PROVE  Inv'
<1> DEFINE q == request[r]
           todo == IF q.op \in {"change", "reset"} THEN LiveSessions ELSE {}
           next == CASE q.op \in {"change", "reset"} -> "rows"
                     [] q.op = "login" /\ q.password # q.seen.password -> "raise"
                     [] OTHER -> "commit"
           p == [q EXCEPT !.locks = @ \cup {Account}, !.row = Updated(q),
                          !.todo = todo, !.pc = next]
<1>1. /\ q \in Request /\ StageOK(q) /\ Found(q) /\ Locking(q) /\ q.pc = "user"
      /\ Free(r, Account) /\ Private(r, p)
  BY DEF FlushUser, Inv, RequestOK
<1>2. q.op \in {"login", "change", "reset", "verify"} /\ Updated(q) \in User
  BY <1>1, UpdatedIsUser DEF StageOK, Inv, TypeOK
<1>3. /\ p \in Request /\ p.op = q.op /\ p.token = q.token
      /\ p.password = q.password /\ p.seen = q.seen /\ p.todo = todo
      /\ p.kills = q.kills
      /\ p.locks = q.locks \cup {Account} /\ p.pc = next
  <2>1. next \in {"rows", "raise", "commit"} /\ todo \subseteq Rows /\ Account \in Rows
    BY <1>2 DEF LiveSessions, Rows, Credentials
  <2> HIDE DEF next, todo
  <2> QED  BY <1>1, <1>2, <2>1 DEF Request
<1>4. \A o \in Requests \ {r} : p.locks \cap request[o].locks = {}
  BY <1>1, <1>3, LocksApart
<1>5. /\ next = "rows" => q.op \in {"change", "reset"}
      /\ next = "raise" => q.op = "login"
      /\ next = "commit" => q.op \in {"login", "verify"}
      /\ next \in {"rows", "raise", "commit"}
      /\ q.op \in {"change", "reset"} => todo = LiveSessions
  BY <1>2
<1> HIDE DEF p, next, todo
<1>6. RequestOK(p)
  <2>1. StageOK(p)
    BY <1>1, <1>2, <1>3, <1>5 DEF StageOK
  <2>2. Sweeping(p)
    BY <1>2, <1>3, <1>5 DEF Sweeping, LiveSessions
  <2>3. Mailing(p)
    BY <1>2, <1>3 DEF Mailing
  <2>4. Found(p)
    BY <1>1, <1>3 DEF Found
  <2>5. Locking(p)
    <3>1. p.locks \cap Tokens = q.locks \cap Tokens /\ Account \in p.locks
      BY <1>3, AccountsAssumption
    <3> QED  BY <1>1, <1>2, <1>3, <1>5, <3>1 DEF Locking, LiveSessions
  <2> QED  BY <1>3, <2>1, <2>2, <2>3, <2>4, <2>5 DEF RequestOK
<1> QED  BY <1>1, <1>3, <1>4, <1>6, PrivateKeepsInv

LEMMA LockRowKeepsInv ==
  ASSUME Inv, NEW r \in Requests, NEW x \in Rows \ {Account}, LockRow(r, x)
  PROVE  Inv'
<1> DEFINE q == request[r]
           found == [q EXCEPT !.todo = @ \ {x}, !.locks = @ \cup {x}, !.kills = @ \cup {x}]
           skipped == [q EXCEPT !.todo = @ \ {x}]
<1>1. /\ q \in Request /\ RequestOK(q) /\ q.pc = "rows" /\ x \in q.todo /\ Free(r, x)
      /\ x \in Rows /\ x \notin {Account}
  BY DEF LockRow, Inv, RequestOK
<1>2. CASE q.op = "revoke" \/ State(x) = "live"
  <2>1. /\ found \in Request /\ found.op = q.op /\ found.token = q.token
        /\ found.pc = q.pc /\ found.password = q.password /\ found.seen = q.seen
        /\ found.locks = q.locks \cup {x} /\ found.kills = q.kills \cup {x}
        /\ found.todo = q.todo \ {x} /\ found.cred = q.cred
    BY <1>1 DEF Request
  <2>2. Private(r, found)
    BY <1>2 DEF LockRow
  <2>3. \A o \in Requests \ {r} : found.locks \cap request[o].locks = {}
    BY <1>1, <2>1, LocksApart
  <2> HIDE DEF found
  <2>4. StageOK(found)
    BY <1>1, <2>1 DEF RequestOK, StageOK
  <2>5. Sweeping(found)
    BY <1>1, <2>1 DEF RequestOK, Sweeping
  <2>6. Mailing(found)
    BY <1>1, <2>1 DEF RequestOK, Mailing
  <2>7. Found(found)
    <3>1. q.op = "revoke" => x \notin Tokens
      BY <1>1, AccountsAssumption DEF RequestOK, Locking
    <3>2. x \in Tokens => tokens[x] # "none"
      BY <1>2, <3>1, StateFacts
    <3> QED  BY <1>1, <2>1, <3>2 DEF RequestOK, Found
  <2>8. Locking(found)
    <3>1. /\ x # Account /\ x \in Rows
          /\ q.op \in {"change", "reset", "revoke", "mail"}
          /\ q.op \in {"change", "reset"} => x \in Sessions /\ Account \in q.locks
          /\ q.op = "mail" => x \in Tokens
          /\ q.op = "revoke" => x \in Credentials /\ found.todo = {}
      BY <1>1, <2>1 DEF RequestOK, StageOK, Sweeping, Locking
    <3>2. /\ x \in Tokens => q.op = "mail"
          /\ x \in Credentials => q.op \in {"change", "reset", "revoke"}
      BY <3>1, AccountsAssumption DEF Credentials
    <3> QED  BY <1>1, <2>1, <3>1, <3>2 DEF RequestOK, Locking
  <2> QED  BY <2>1, <2>2, <2>3, <2>4, <2>5, <2>6, <2>7, <2>8, PrivateKeepsInv DEF RequestOK
<1>3. CASE ~(q.op = "revoke" \/ State(x) = "live")
  <2>1. /\ skipped \in Request /\ skipped.op = q.op /\ skipped.token = q.token
        /\ skipped.pc = q.pc /\ skipped.password = q.password /\ skipped.seen = q.seen
        /\ skipped.locks = q.locks /\ skipped.kills = q.kills
        /\ skipped.todo = q.todo \ {x} /\ skipped.cred = q.cred
    BY <1>1 DEF Request
  <2>2. Private(r, skipped)
    BY <1>3 DEF LockRow
  <2>3. \A o \in Requests \ {r} : skipped.locks \cap request[o].locks = {}
    BY <1>1, <2>1, LocksApart
  <2> HIDE DEF skipped
  <2>4. StageOK(skipped)
    BY <1>1, <2>1 DEF RequestOK, StageOK
  <2>5. Sweeping(skipped)
    <3>1. \A s \in Sessions : sessions[s] = "live" => s # x
      BY <1>3, StateFacts
    <3> QED  BY <1>1, <2>1, <3>1 DEF RequestOK, Sweeping
  <2>6. Mailing(skipped) /\ Found(skipped)
    BY <1>1, <2>1 DEF RequestOK, Mailing, Found
  <2>7. Locking(skipped)
    BY <1>1, <1>3, <2>1 DEF RequestOK, Locking
  <2> QED  BY <2>1, <2>2, <2>3, <2>4, <2>5, <2>6, <2>7, PrivateKeepsInv DEF RequestOK
<1> QED  BY <1>2, <1>3

LEMMA UpdateDoneKeepsInv ==
  ASSUME Inv, NEW r \in Requests, UpdateDone(r)
  PROVE  Inv'
<1> DEFINE q == request[r]
           next == IF q.op = "mail" THEN "mail" ELSE "commit"
           p == [q EXCEPT !.pc = next]
<1>1. q \in Request /\ RequestOK(q) /\ q.pc = "rows" /\ q.todo = {} /\ Private(r, p)
  BY DEF UpdateDone, Inv, RequestOK
<1>2. /\ p \in Request /\ p.op = q.op /\ p.token = q.token /\ p.pc = next
      /\ p.password = q.password /\ p.seen = q.seen /\ p.locks = q.locks
      /\ p.kills = q.kills /\ p.todo = {} /\ p.cred = q.cred
  BY <1>1 DEF Request
<1>3. \A o \in Requests \ {r} : p.locks \cap request[o].locks = {}
  BY <1>2 DEF Inv, TypeOK
<1>4. q.op \in {"change", "reset", "revoke", "mail"}
  BY <1>1 DEF RequestOK, StageOK
<1> HIDE DEF p
<1>5. StageOK(p)
  BY <1>1, <1>2, <1>4 DEF RequestOK, StageOK
<1>6. Sweeping(p)
  BY <1>1, <1>2, <1>4 DEF RequestOK, Sweeping
<1>7. Mailing(p) /\ Found(p) /\ Locking(p)
  BY <1>1, <1>2, <1>4 DEF RequestOK, Mailing, Found, Locking
<1> QED  BY <1>1, <1>2, <1>3, <1>5, <1>6, <1>7, PrivateKeepsInv DEF RequestOK

LEMMA SendMailKeepsInv ==
  ASSUME Inv, NEW r \in Requests, SendMail(r)
  PROVE  Inv'
<1> DEFINE q == request[r]
           p == [q EXCEPT !.pc = "commit"]
<1>1. q \in Request /\ RequestOK(q) /\ q.pc = "mail" /\ q.op = "mail"
      /\ q.token \in Tokens
  BY DEF SendMail, Inv, RequestOK, StageOK
<1>2. /\ p \in Request /\ p.op = q.op /\ p.token = q.token /\ p.pc = "commit"
      /\ p.locks = q.locks /\ p.kills = q.kills /\ p.todo = q.todo /\ p.cred = q.cred
  BY <1>1 DEF Request
<1>3. request' = [request EXCEPT ![r] = p]
  BY <1>1 DEF SendMail, Inv, TypeOK
<1>4. UNCHANGED <<data, changes, opened, misses>>
  BY DEF SendMail, observers
<1>5. mailed' \subseteq Tokens /\ misses' \in 0..MaxMisses
  BY <1>1, <1>4 DEF SendMail, Inv, TypeOK
<1>6. \A o \in Requests \ {r} : p.locks \cap request[o].locks = {}
  BY <1>2 DEF Inv, TypeOK
<1> HIDE DEF p
<1>7. StageOK(p) /\ Sweeping(p) /\ Mailing(p) /\ Found(p) /\ Locking(p)
  BY <1>1, <1>2 DEF RequestOK, StageOK, Sweeping, Mailing, Found, Locking
<1> QED  BY <1>1, <1>2, <1>3, <1>4, <1>5, <1>6, <1>7, AloneKeepsInv DEF RequestOK

-----------------------------------------------------------------------------
(* Steps that others see *)

\* Time passes: a live row dies.
LEMMA ExpiryKeepsInv ==
  ASSUME Inv, (\E s \in Sessions : ExpireSession(s))
              \/ (\E k \in ApiTokens : ExpireApiToken(k))
              \/ (\E t \in Tokens : ExpireToken(t))
  PROVE  Inv'
<1>1. /\ UNCHANGED <<user, mailed, request, changes, opened, misses>>
      /\ sessions' \in [Sessions -> RowStates]
      /\ keys' \in [ApiTokens -> RowStates]
      /\ tokens' \in [Tokens -> RowStates]
      /\ \A s \in Sessions : sessions'[s] = "live" => sessions[s] = "live"
      /\ \A t \in Tokens : tokens'[t] = tokens[t] \/ (tokens[t] = "live" /\ tokens'[t] = "dead")
  <2> USE DEF Inv, TypeOK, RowStates, observers
  <2>1. CASE \E s \in Sessions : ExpireSession(s)
    BY <2>1 DEF ExpireSession
  <2>2. CASE \E k \in ApiTokens : ExpireApiToken(k)
    BY <2>2 DEF ExpireApiToken
  <2>3. CASE \E t \in Tokens : ExpireToken(t)
    BY <2>3 DEF ExpireToken
  <2> QED  BY <2>1, <2>2, <2>3
<1>2. TypeOK'
  BY <1>1 DEF Inv, TypeOK
<1>4. ASSUME NEW r \in Requests PROVE RequestOK(request[r])'
  <2>1. RequestOK(request[r])
    BY DEF Inv
  <2>2. Sweeping(request[r])'
    BY <1>1, <2>1 DEF RequestOK, Sweeping
  <2>3. request[r].op = "mail" => request[r].token \in Tokens
    BY <2>1 DEF RequestOK, StageOK
  <2>4. Mailing(request[r])'
    BY <1>1, <2>1, <2>3 DEF RequestOK, Mailing
  <2>5. request'[r] \in Request /\ StageOK(request[r])' /\ Locking(request[r])'
    BY <1>1, <2>1 DEF RequestOK, StageOK, Locking
  <2>6. request[r].op \in {"reset", "verify"} => request[r].token \in Tokens
    BY <2>1 DEF RequestOK, StageOK
  <2>7. Found(request[r])'
    BY <1>1, <2>1, <2>6 DEF RequestOK, Found
  <2> QED  BY <2>2, <2>4, <2>5, <2>7 DEF RequestOK
<1>5. OwnTokens'
  BY <1>1 DEF Inv, OwnTokens
<1>6. ChangeRevokesSessions'
  BY <1>1 DEF Inv, ChangeRevokesSessions
<1> QED  BY <1>2, <1>4, <1>5, <1>6 DEF Inv

\* What the commit of request r does to the rows of others: it kills rows that
\* were there, and may insert a session or a token that was not.
LEMMA CommitFacts ==
  ASSUME Inv, NEW r \in Requests, NEW new, Commit(r, new)
  PROVE  LET q == request[r] IN
         /\ \A s \in Sessions :
              /\ s \in q.kills => sessions'[s] = "dead"
              /\ s \notin q.kills /\ s = new =>
                   sessions'[s] = "live" /\ sessions[s] = "none" /\ q.op = "login"
              /\ s \notin q.kills /\ s # new => sessions'[s] = sessions[s]
         /\ \A k \in ApiTokens :
              /\ keys'[k] \in {"live", "dead", keys[k]}
              /\ keys[k] = "dead" => keys'[k] = "dead"
         /\ \A t \in Tokens :
              /\ t \in q.kills => tokens'[t] = "dead" /\ tokens[t] # "none"
              /\ t \notin q.kills /\ t = new =>
                   /\ tokens'[t] = "live" /\ tokens[t] = "none"
                   /\ q.op = "mail" /\ t = q.token
              /\ t \notin q.kills /\ t # new => tokens'[t] = tokens[t]
<1> DEFINE q == request[r]
<1>1. /\ new \in Insertable(q) /\ RequestOK(q)
      /\ sessions' = [x \in Sessions |-> RowAfter(q, new, x)]
      /\ keys' = [x \in ApiTokens |-> RowAfter(q, new, x)]
      /\ tokens' = [x \in Tokens |-> RowAfter(q, new, x)]
  BY DEF Commit, Inv
<1>2. /\ new \in Sessions => q.op = "login" /\ sessions[new] = "none"
      /\ new \in ApiTokens => q.op = "mint" /\ keys[new] = "none"
      /\ new \in Tokens => q.op = "mail" /\ new = q.token /\ tokens[new] = "none"
  <2>1. /\ None \notin Sessions \cup ApiTokens \cup Tokens
        /\ Sessions \cap ApiTokens = {} /\ (Sessions \cup ApiTokens) \cap Tokens = {}
    BY AccountsAssumption DEF Rows, Credentials
  <2>2. q.op = "mail" => q.token \in Tokens /\ tokens[q.token] = "none"
    BY <1>1 DEF RequestOK, StageOK, Mailing
  <2>3. CASE q.op = "login"
    BY <1>1, <2>1, <2>3 DEF Insertable
  <2>4. CASE q.op = "mint"
    BY <1>1, <2>1, <2>4 DEF Insertable
  <2>5. CASE q.op = "mail"
    BY <1>1, <2>1, <2>2, <2>5 DEF Insertable
  <2>6. CASE q.op \notin {"login", "mint", "mail"}
    BY <1>1, <2>1, <2>6 DEF Insertable
  <2> QED  BY <2>3, <2>4, <2>5, <2>6
<1>3. \A t \in Tokens : t \in q.kills => tokens[t] # "none"
  BY <1>1 DEF RequestOK, Found
<1> HIDE DEF q
<1>4. ASSUME NEW s \in Sessions
      PROVE  /\ s \in q.kills => sessions'[s] = "dead"
             /\ s \notin q.kills /\ s = new => 
                  sessions'[s] = "live" /\ sessions[s] = "none" /\ q.op = "login"
             /\ s \notin q.kills /\ s # new => sessions'[s] = sessions[s]
  BY <1>1, <1>2, StateFacts DEF RowAfter
<1>5. ASSUME NEW k \in ApiTokens
      PROVE  keys'[k] \in {"live", "dead", keys[k]} /\ (keys[k] = "dead" => keys'[k] = "dead")
  BY <1>1, <1>2, StateFacts DEF RowAfter
<1>6. ASSUME NEW t \in Tokens
      PROVE  /\ t \in q.kills => tokens'[t] = "dead" /\ tokens[t] # "none"
             /\ t \notin q.kills /\ t = new =>
                  /\ tokens'[t] = "live" /\ tokens[t] = "none"
                  /\ q.op = "mail" /\ t = q.token
             /\ t \notin q.kills /\ t # new => tokens'[t] = tokens[t]
  BY <1>1, <1>2, <1>3, StateFacts DEF RowAfter
<1> QED  BY <1>4, <1>5, <1>6 DEF q

LEMMA CommitKeepsInv ==
  ASSUME Inv, NEW r \in Requests, NEW new, Commit(r, new)
  PROVE  Inv'
<1> DEFINE q == request[r]
           changed == q.op \in {"change", "reset"}
<1>1. /\ RequestOK(q) /\ q.pc = "commit"
      /\ TypeOK
      /\ \A p \in Requests : RequestOK(request[p])
  BY DEF Commit, Inv
<1>2. /\ user' = IF q.row = None THEN user ELSE q.row
      /\ request' = [request EXCEPT ![r] = NoRequest]
      /\ changes' = IF changed THEN changes + 1 ELSE changes
      /\ opened' = [x \in Sessions |-> IF x = new THEN changes ELSE opened[x]]
      /\ misses' = IF changed \/ q.op = "login" THEN 0 ELSE misses
      /\ UNCHANGED mailed
  BY DEF Commit
<1>3. /\ \A s \in Sessions :
           /\ s \in q.kills => sessions'[s] = "dead"
           /\ s \notin q.kills /\ s = new =>
                sessions'[s] = "live" /\ sessions[s] = "none" /\ q.op = "login"
           /\ s \notin q.kills /\ s # new => sessions'[s] = sessions[s]
      /\ \A k \in ApiTokens : keys'[k] \in {"live", "dead", keys[k]}
      /\ \A t \in Tokens :
           /\ t \in q.kills => tokens'[t] = "dead" /\ tokens[t] # "none"
           /\ t \notin q.kills /\ t = new =>
                /\ tokens'[t] = "live" /\ tokens[t] = "none"
                /\ q.op = "mail" /\ t = q.token
           /\ t \notin q.kills /\ t # new => tokens'[t] = tokens[t]
  BY CommitFacts
<1>4. /\ request' \in [Requests -> Request] /\ request'[r] = NoRequest
      /\ \A p \in Requests \ {r} : request'[p] = request[p]
  BY <1>1, <1>2, IdleIsOK DEF TypeOK
<1>5. \A p \in Requests \ {r} : request[p].locks \cap q.locks = {}
  BY <1>1 DEF TypeOK
<1> HIDE DEF q
<1>6. TypeOK'
  <2>1. user' \in User
    BY <1>1, <1>2 DEF TypeOK, RequestOK, Request
  <2>2. sessions' \in [Sessions -> RowStates] /\ tokens' \in [Tokens -> RowStates]
        /\ keys' \in [ApiTokens -> RowStates]
    <3>1. /\ sessions' = [s \in Sessions |-> sessions'[s]]
          /\ keys' = [k \in ApiTokens |-> keys'[k]]
          /\ tokens' = [t \in Tokens |-> tokens'[t]]
      BY DEF Commit
    <3>2. ASSUME NEW s \in Sessions PROVE sessions'[s] \in RowStates
      BY <1>1, <1>3 DEF TypeOK, RowStates
    <3>3. ASSUME NEW k \in ApiTokens PROVE keys'[k] \in RowStates
      BY <1>1, <1>3 DEF TypeOK, RowStates
    <3>4. ASSUME NEW t \in Tokens PROVE tokens'[t] \in RowStates
      BY <1>1, <1>3 DEF TypeOK, RowStates
    <3> QED  BY <3>1, <3>2, <3>3, <3>4
  <2>3. changes' \in Nat /\ opened' \in [Sessions -> Nat] /\ misses' \in 0..MaxMisses
    BY <1>1, <1>2, AccountsAssumption DEF TypeOK
  <2>4. ASSUME NEW o \in Requests, NEW p \in Requests, o # p
        PROVE  request'[o].locks \cap request'[p].locks = {}
    BY <1>1, <1>4, <2>4 DEF TypeOK, NoRequest
  <2> QED  BY <1>1, <1>2, <1>4, <2>1, <2>2, <2>3, <2>4 DEF TypeOK
<1>7. ASSUME NEW p \in Requests PROVE RequestOK(request[p])'
  <2>1. CASE p = r
    <3>1. request'[p] \in Request /\ StageOK(request[p])' /\ Sweeping(request[p])'
      BY <1>4, <2>1, IdleIsOK DEF StageOK, Sweeping, NoRequest
    <3>2. Mailing(request[p])' /\ Found(request[p])' /\ Locking(request[p])'
      BY <1>4, <2>1 DEF Mailing, Found, Locking, NoRequest
    <3> QED  BY <3>1, <3>2 DEF RequestOK
  <2>2. CASE p # r
    <3>1. RequestOK(request[p]) /\ request'[p] = request[p]
      BY <1>1, <1>4, <2>2
    <3>2. request'[p] \in Request /\ StageOK(request[p])' /\ Locking(request[p])'
      BY <3>1 DEF RequestOK, StageOK, Locking
    <3>3. Account \in request[p].locks => q.op # "login"
      BY <1>1, <1>5, <2>2 DEF RequestOK, Sweeping
    <3>4. Sweeping(request[p])'
      <4>1. ASSUME request[p].op \in {"change", "reset"},
                   request[p].pc \in {"rows", "commit"},
                   NEW s \in Sessions, sessions'[s] = "live"
            PROVE  sessions[s] = "live"
        BY <1>3, <3>1, <3>3, <4>1 DEF RequestOK, Sweeping
      <4> QED  BY <3>1, <4>1 DEF RequestOK, Sweeping
    <3>5. Mailing(request[p])'
      <4> SUFFICES ASSUME request[p].op = "mail" PROVE Mailing(request[p])'
        BY <3>1 DEF Mailing
      <4>1. request[p].token \in Tokens /\ tokens[request[p].token] = "none"
        BY <3>1 DEF RequestOK, StageOK, Mailing
      <4>2. q.op = "mail" => q.token # request[p].token
        BY <2>2 DEF Inv, OwnTokens, q
      <4>3. tokens'[request[p].token] = "none"
        BY <1>3, <4>1, <4>2
      <4> QED  BY <3>1, <4>3 DEF Mailing
    <3>6. Found(request[p])'
      <4>1. \A x \in Tokens : tokens[x] # "none" => tokens'[x] # "none"
        BY <1>3
      <4>2. request[p].op \in {"reset", "verify"} => request[p].token \in Tokens
        BY <3>1 DEF RequestOK, StageOK
      <4> QED  BY <3>1, <4>1, <4>2 DEF RequestOK, Found
    <3> QED  BY <3>2, <3>4, <3>5, <3>6 DEF RequestOK
  <2> QED  BY <2>1, <2>2
<1>8. OwnTokens'
  BY <1>4 DEF Inv, OwnTokens, NoRequest
<1>9. ChangeRevokesSessions'
  <2> SUFFICES ASSUME NEW s \in Sessions, sessions'[s] = "live"
               PROVE  opened'[s] = changes'
    BY DEF ChangeRevokesSessions
  <2>1. CASE changed
    <3>1. sessions[s] = "live" => s \in q.kills
      BY <1>1, <2>1 DEF RequestOK, Sweeping, q
    <3> QED  BY <1>3, <2>1, <3>1 DEF q
  <2>2. CASE ~changed
    BY <1>2, <1>3, <2>2 DEF Inv, ChangeRevokesSessions
  <2> QED  BY <2>1, <2>2
<1> QED  BY <1>6, <1>7, <1>8, <1>9 DEF Inv

-----------------------------------------------------------------------------
(* The theorems *)

LEMMA StepKeepsInv == Inv /\ [Next]_vars => Inv'
<1> SUFFICES ASSUME Inv, [Next]_vars PROVE Inv'
  OBVIOUS
<1>1. ASSUME NEW r \in Requests, Continue(r) PROVE Inv'
  <2>1. CASE Touch(r)
    BY <2>1, TouchKeepsInv
  <2>2. CASE FlushToken(r)
    BY <2>2, FlushTokenKeepsInv
  <2>3. CASE FlushUser(r)
    BY <2>3, FlushUserKeepsInv
  <2>4. CASE \E x \in Rows \ {Account} : LockRow(r, x)
    BY <2>4, LockRowKeepsInv
  <2>5. CASE UpdateDone(r)
    BY <2>5, UpdateDoneKeepsInv
  <2>6. CASE SendMail(r)
    BY <2>6, SendMailKeepsInv
  <2>7. CASE \E new \in Rows \cup {None} : Commit(r, new)
    BY <2>7, CommitKeepsInv
  <2>8. CASE RaiseUnauthorized(r)
    BY <2>8, AbandonKeepsInv
  <2> QED  BY <1>1, <2>1, <2>2, <2>3, <2>4, <2>5, <2>6, <2>7, <2>8 DEF Continue
<1>2. ASSUME NEW r \in Requests, Begin(r) \/ AbortDeadlocked(r) \/ Abandon(r)
      PROVE  Inv'
  BY <1>2, BeginKeepsInv, AbandonKeepsInv
<1>3. CASE UNCHANGED vars
  BY <1>3
  DEF vars, Inv, TypeOK, RequestOK, StageOK, Sweeping, Mailing, Found, Locking,
      OwnTokens, ChangeRevokesSessions
<1> QED  BY <1>1, <1>2, <1>3, ExpiryKeepsInv DEF Next

LEMMA InvIsInvariant == Spec => []Inv
BY InitInv, StepKeepsInv, PTL DEF Spec

\* Rows, requests and observers keep their types, and no row is locked twice.
THEOREM TypeCorrect == Spec => []TypeOK
<1>1. Inv => TypeOK
  BY DEF Inv
<1> QED  BY <1>1, InvIsInvariant, PTL

\* A committed password change or reset has revoked every session committed
\* before it (set_password): a login holds the user's row until its session is
\* committed, so none can slip in while the sessions are being found.
THEOREM ChangesRevoke == Spec => []ChangeRevokesSessions
<1>1. Inv => ChangeRevokesSessions
  BY DEF Inv
<1> QED  BY <1>1, InvIsInvariant, PTL

\* What was revoked, used or has expired stays so, whoever writes its row later.
THEOREM DeadStaysDead == Spec => DeadIsFinal
<1>1. ASSUME Inv, [Next]_vars, NEW x \in Rows \ {Account}, State(x) = "dead"
      PROVE  State(x)' = "dead"
  <2>1. x \in Sessions \/ x \in ApiTokens \/ x \in Tokens
    BY DEF Rows, Credentials
  <2>2. /\ x \in Sessions => State(x) = sessions[x] /\ State(x)' = sessions'[x]
        /\ x \in ApiTokens => State(x) = keys[x] /\ State(x)' = keys'[x]
        /\ x \in Tokens => State(x) = tokens[x] /\ State(x)' = tokens'[x]
    BY AccountsAssumption DEF State, Credentials
  <2>3. /\ x \in Sessions => sessions[x] = "dead"
        /\ x \in ApiTokens => keys[x] = "dead"
        /\ x \in Tokens => tokens[x] = "dead"
    BY <1>1, <2>2
  <2> SUFFICES /\ x \in Sessions => sessions'[x] = "dead"
               /\ x \in ApiTokens => keys'[x] = "dead"
               /\ x \in Tokens => tokens'[x] = "dead"
    BY <2>1, <2>2
  <2>4. CASE UNCHANGED <<sessions, keys, tokens>>
    BY <2>3, <2>4
  <2>5. ASSUME NEW r \in Requests, NEW new, Commit(r, new)
        PROVE  /\ x \in Sessions => sessions'[x] = "dead"
               /\ x \in ApiTokens => keys'[x] = "dead"
               /\ x \in Tokens => tokens'[x] = "dead"
    BY <1>1, <2>3, <2>5, CommitFacts
  <2>6. ASSUME \/ \E s \in Sessions : ExpireSession(s)
               \/ \E k \in ApiTokens : ExpireApiToken(k)
               \/ \E t \in Tokens : ExpireToken(t)
        PROVE  /\ x \in Sessions => sessions'[x] = "dead"
               /\ x \in ApiTokens => keys'[x] = "dead"
               /\ x \in Tokens => tokens'[x] = "dead"
    BY <1>1, <2>3, <2>6 DEF ExpireSession, ExpireApiToken, ExpireToken, Inv, TypeOK
  <2>7. ASSUME NEW r \in Requests, NEW rec, Arrive(r, rec) \/ Private(r, rec)
        PROVE  UNCHANGED <<sessions, keys, tokens>>
    BY <2>7 DEF Arrive, Private, data
  <2>8. ASSUME NEW r \in Requests, Begin(r)
        PROVE  UNCHANGED <<sessions, keys, tokens>>
    BY <2>7, <2>8
    DEF Begin, Login, ChangePassword, Logout, RevokeSession, RevokeApiToken,
        Revoke, MintApiToken, Visit, LetIn,
        ResetPassword, VerifyEmail, RequestMail, data
  <2>9. ASSUME NEW r \in Requests, Continue(r),
               ~ \E new \in Rows \cup {None} : Commit(r, new)
        PROVE  UNCHANGED <<sessions, keys, tokens>>
    BY <2>7, <2>9
    DEF Continue, Touch, FlushToken, FlushUser, LockRow, UpdateDone, SendMail,
        RaiseUnauthorized, data
  <2>10. ASSUME NEW r \in Requests, AbortDeadlocked(r) \/ Abandon(r)
         PROVE  UNCHANGED <<sessions, keys, tokens>>
    BY <2>7, <2>10 DEF AbortDeadlocked, Abandon
  <2> QED  BY <1>1, <2>4, <2>5, <2>6, <2>8, <2>9, <2>10 DEF Next, vars
<1>2. Inv /\ [Next]_vars => [\A x \in Rows \ {Account} : State(x) = "dead" => State(x)' = "dead"]_vars
  BY <1>1
<1> QED  BY <1>2, InvIsInvariant, PTL DEF Spec, DeadIsFinal

-----------------------------------------------------------------------------
(* How many e-mail tokens are valid *)

Mails(purpose) == {r \in Requests : request[r].op = "mail" /\ request[r].token \in purpose}

\* The valid tokens that none of the mail requests in S is to invalidate.
Spared(purpose, S) ==
  {t \in purpose : /\ tokens[t] = "live"
                   /\ \A r \in S : t \notin request[r].todo \cup request[r].kills}

\* Each mail request in S will add a token to those that all of S spare.
FewAreSpared ==
  \A purpose \in {ResetTokens, VerifyTokens} : \A S \in SUBSET Mails(purpose) :
    Cardinality(Spared(purpose, S)) + Cardinality(S) <= Cardinality(Requests)

LEMMA CountedTokens ==
  ASSUME NEW purpose \in {ResetTokens, VerifyTokens}, NEW S \in SUBSET Requests
  PROVE  /\ purpose \subseteq Tokens
         /\ IsFiniteSet(purpose) /\ IsFiniteSet(S)
         /\ Cardinality(S) \in Nat /\ Cardinality(Requests) \in Nat
         /\ Cardinality(S) <= Cardinality(Requests)
<1>1. purpose \subseteq Tokens /\ Tokens \subseteq Rows
  BY DEF Tokens, Rows
<1> QED  BY <1>1, FiniteAssumption, FS_Subset, FS_CardinalityType

\* Sets of tokens of a purpose, by size.
LEMMA FewerTokens ==
  ASSUME NEW purpose \in {ResetTokens, VerifyTokens},
         NEW V \in SUBSET purpose, NEW W \in SUBSET V
  PROVE  /\ Cardinality(W) \in Nat /\ Cardinality(V) \in Nat
         /\ Cardinality(W) <= Cardinality(V)
<1>1. IsFiniteSet(purpose)
  BY CountedTokens
<1>2. IsFiniteSet(V)
  BY <1>1, FS_Subset
<1> QED  BY <1>2, FS_Subset, FS_CardinalityType

\* No new token, no new mail request, and each still means to invalidate what
\* it meant to.
LEMMA QuietSparesFew ==
  ASSUME FewAreSpared,
         \A t \in Tokens : tokens'[t] = "live" => tokens[t] = "live",
         \A q \in Requests : request'[q].op = "mail" =>
           /\ request[q].op = "mail" /\ request'[q].token = request[q].token
           /\ \A t \in request[q].todo \cup request[q].kills :
                t \in Tokens /\ tokens[t] = "live" =>
                  t \in request'[q].todo \cup request'[q].kills
  PROVE  FewAreSpared'
<1> SUFFICES ASSUME NEW purpose \in {ResetTokens, VerifyTokens},
                    NEW S \in SUBSET Mails(purpose)'
             PROVE  Cardinality(Spared(purpose, S)') + Cardinality(S) <= Cardinality(Requests)
  BY DEF FewAreSpared
<1>1. S \subseteq Mails(purpose) /\ S \subseteq Requests
  BY DEF Mails
<1>2. purpose \subseteq Tokens
  BY CountedTokens
<1>3. Spared(purpose, S)' \subseteq Spared(purpose, S) /\ Spared(purpose, S) \subseteq purpose
  <2>1. ASSUME NEW t \in purpose, tokens'[t] = "live",
               \A r \in S : t \notin request'[r].todo \cup request'[r].kills
        PROVE  /\ tokens[t] = "live"
               /\ \A r \in S : t \notin request[r].todo \cup request[r].kills
    BY <1>1, <1>2, <2>1 DEF Mails
  <2> QED  BY <2>1 DEF Spared
<1>4. Cardinality(Spared(purpose, S)') <= Cardinality(Spared(purpose, S))
      /\ Cardinality(Spared(purpose, S)') \in Nat /\ Cardinality(Spared(purpose, S)) \in Nat
  BY <1>3, FewerTokens
<1>5. Cardinality(Spared(purpose, S)) + Cardinality(S) <= Cardinality(Requests)
  BY <1>1 DEF FewAreSpared
<1> QED  BY <1>1, <1>4, <1>5, CountedTokens

\* A new mail request means to invalidate all that are valid.
LEMMA RequestMailSparesFew ==
  ASSUME Inv, FewAreSpared, NEW r \in Requests, NEW t \in Tokens, RequestMail(r, t)
  PROVE  FewAreSpared'
<1> DEFINE q == [NoRequest EXCEPT !.op = "mail", !.pc = "rows", !.token = t,
                                  !.todo = Outstanding(t)]
<1>1. q.op = "mail" /\ q.token = t /\ q.todo = Outstanding(t)
  BY DEF NoRequest
<1>2. request' = [request EXCEPT ![r] = q] /\ tokens' = tokens /\ request[r].op = "none"
  BY DEF RequestMail, data, Inv, RequestOK, StageOK
<1> HIDE DEF q
<1>3. request'[r] = q /\ \A p \in Requests \ {r} : request'[p] = request[p]
  BY <1>2 DEF Inv, TypeOK
<1> SUFFICES ASSUME NEW purpose \in {ResetTokens, VerifyTokens},
                    NEW S \in SUBSET Mails(purpose)'
             PROVE  Cardinality(Spared(purpose, S)') + Cardinality(S) <= Cardinality(Requests)
  BY DEF FewAreSpared
<1>4. S \subseteq Requests /\ purpose \subseteq Tokens
  BY CountedTokens DEF Mails
<1>5. CASE r \in S
  <2>1. t \in purpose
    BY <1>1, <1>3, <1>5 DEF Mails
  <2>2. \A x \in purpose : tokens[x] = "live" => x \in Outstanding(t)
    BY <1>4, <2>1, AccountsAssumption DEF Outstanding, Tokens
  <2>3. Spared(purpose, S)' = {}
    BY <1>1, <1>2, <1>3, <1>5, <2>2 DEF Spared
  <2> QED  BY <1>4, <2>3, CountedTokens, FS_EmptySet
<1>6. CASE r \notin S
  <2>1. S \subseteq Mails(purpose) /\ Spared(purpose, S)' = Spared(purpose, S)
    BY <1>2, <1>3, <1>4, <1>6 DEF Mails, Spared
  <2> QED  BY <2>1 DEF FewAreSpared
<1> QED  BY <1>5, <1>6

\* A mail request that commits leaves its token in its own place.
LEMMA CommitSparesFew ==
  ASSUME Inv, FewAreSpared, NEW r \in Requests, NEW new, Commit(r, new)
  PROVE  FewAreSpared'
<1> DEFINE q == request[r]
<1>1. RequestOK(q) /\ q.pc = "commit" /\ TypeOK
  BY DEF Commit, Inv
<1>2. /\ request'[r] = NoRequest /\ NoRequest.op = "none"
      /\ \A p \in Requests \ {r} : request'[p] = request[p]
  BY <1>1 DEF Commit, TypeOK, NoRequest
<1>3. \A t \in Tokens :
        /\ t \in q.kills => tokens'[t] = "dead"
        /\ t \notin q.kills /\ t = new => q.op = "mail" /\ t = q.token
        /\ t \notin q.kills /\ t # new => tokens'[t] = tokens[t]
  BY CommitFacts
<1> SUFFICES ASSUME NEW purpose \in {ResetTokens, VerifyTokens},
                    NEW S \in SUBSET Mails(purpose)'
             PROVE  Cardinality(Spared(purpose, S)') + Cardinality(S) <= Cardinality(Requests)
  BY DEF FewAreSpared
<1>4. S \subseteq Requests /\ r \notin S /\ S \subseteq Mails(purpose) /\ purpose \subseteq Tokens
  BY <1>2, CountedTokens DEF Mails
<1>5. CASE q.op = "mail" /\ q.token \in purpose
  <2> DEFINE T == S \cup {r}
  <2>1. T \in SUBSET Mails(purpose) /\ q.todo = {}
    BY <1>1, <1>4, <1>5 DEF Mails, RequestOK, Locking
  <2>2. Spared(purpose, S)' \subseteq Spared(purpose, T) \cup {q.token}
    <3> SUFFICES ASSUME NEW t \in Spared(purpose, S)', t # q.token
                 PROVE  t \in Spared(purpose, T)
      OBVIOUS
    <3>1. t \in purpose /\ t \in Tokens /\ tokens'[t] = "live"
      BY <1>4 DEF Spared
    <3>2. t \notin q.kills /\ tokens[t] = "live"
      BY <1>3, <3>1
    <3>3. \A p \in S : t \notin request[p].todo \cup request[p].kills
      BY <1>2, <1>4 DEF Spared
    <3> QED  BY <2>1, <3>1, <3>2, <3>3 DEF Spared
  <2>3. /\ Spared(purpose, T) \subseteq purpose /\ q.token \in purpose
        /\ IsFiniteSet(Spared(purpose, T))
        /\ Cardinality(Spared(purpose, T)) \in Nat
    <3>1. Spared(purpose, T) \subseteq purpose
      BY DEF Spared
    <3> QED  BY <1>5, <3>1, CountedTokens, FS_Subset, FS_CardinalityType
  <2> HIDE DEF T
  <2>4. /\ Cardinality(Spared(purpose, T) \cup {q.token}) \in Nat
        /\ Cardinality(Spared(purpose, T) \cup {q.token}) <= Cardinality(Spared(purpose, T)) + 1
    <3> DEFINE A == Spared(purpose, T)
    <3>1. IsFiniteSet(A) /\ Cardinality(A) \in Nat
      BY <2>3
    <3> HIDE DEF A
    <3>2. Cardinality(A \cup {q.token})
            = IF q.token \in A THEN Cardinality(A) ELSE Cardinality(A) + 1
      BY <3>1, FS_AddElement
    <3>3. Cardinality(A \cup {q.token}) \in Nat /\ Cardinality(A \cup {q.token}) <= Cardinality(A) + 1
      BY <3>1, <3>2
    <3> QED  BY <3>3 DEF A
  <2>5. /\ Cardinality(Spared(purpose, S)') \in Nat
        /\ Cardinality(Spared(purpose, S)') <= Cardinality(Spared(purpose, T) \cup {q.token})
    <3>1. Spared(purpose, T) \cup {q.token} \subseteq purpose
      BY <2>3
    <3> QED  BY <2>2, <3>1, FewerTokens
  <2>6. Cardinality(T) = Cardinality(S) + 1 /\ Cardinality(S) \in Nat
    BY <1>4, CountedTokens, FS_AddElement DEF T
  <2>7. Cardinality(Spared(purpose, T)) + Cardinality(T) <= Cardinality(Requests)
    BY <2>1 DEF FewAreSpared
  <2>8. Cardinality(Requests) \in Nat
    BY FiniteAssumption, FS_CardinalityType
  <2> QED  BY <2>3, <2>4, <2>5, <2>6, <2>7, <2>8
<1>6. CASE ~(q.op = "mail" /\ q.token \in purpose)
  <2>1. Spared(purpose, S)' \subseteq Spared(purpose, S) /\ Spared(purpose, S) \subseteq purpose
    BY <1>2, <1>3, <1>4, <1>6 DEF Spared
  <2>2. /\ Cardinality(Spared(purpose, S)') <= Cardinality(Spared(purpose, S))
        /\ Cardinality(Spared(purpose, S)') \in Nat /\ Cardinality(Spared(purpose, S)) \in Nat
    BY <2>1, FewerTokens
  <2>3. Cardinality(Spared(purpose, S)) + Cardinality(S) <= Cardinality(Requests)
    BY <1>4 DEF FewAreSpared
  <2> QED  BY <1>4, <2>2, <2>3, CountedTokens
<1> QED  BY <1>5, <1>6

LEMMA InitSparesFew == Init => FewAreSpared
<1> SUFFICES ASSUME Init, NEW purpose \in {ResetTokens, VerifyTokens},
                    NEW S \in SUBSET Mails(purpose)
             PROVE  Cardinality(Spared(purpose, S)) + Cardinality(S) <= Cardinality(Requests)
  BY DEF FewAreSpared
<1>1. S = {}
  BY DEF Init, Mails, NoRequest
<1>2. Spared(purpose, S) \subseteq OpenTokens \cap purpose
  BY CountedTokens DEF Spared, Init
<1>3. /\ Cardinality(Spared(purpose, S)) \in Nat /\ Cardinality(OpenTokens \cap purpose) \in Nat
      /\ Cardinality(Spared(purpose, S)) <= Cardinality(OpenTokens \cap purpose)
  BY <1>2, FewerTokens
<1>4. Cardinality(OpenTokens \cap purpose) <= Cardinality(Requests)
  BY OutstandingAssumption
<1> QED  BY <1>1, <1>3, <1>4, CountedTokens, FS_EmptySet

\* Steps of a request other than its arrival and its commit.
LEMMA ContinueSparesFew ==
  ASSUME Inv, FewAreSpared, NEW r \in Requests,
         \/ Touch(r) \/ FlushToken(r) \/ FlushUser(r)
         \/ \E x \in Rows \ {Account} : LockRow(r, x)
         \/ UpdateDone(r) \/ SendMail(r) \/ RaiseUnauthorized(r)
         \/ AbortDeadlocked(r) \/ Abandon(r)
  PROVE  FewAreSpared'
<1> DEFINE q == request[r]
<1>1. q \in Request /\ RequestOK(q) /\ request \in [Requests -> Request]
  BY DEF Inv, RequestOK, TypeOK
<1>2. ASSUME NEW rec, request' = [request EXCEPT ![r] = rec], UNCHANGED data,
             rec.op = "mail" =>
               /\ q.op = "mail" /\ rec.token = q.token
               /\ \A t \in q.todo \cup q.kills :
                    t \in Tokens /\ tokens[t] = "live" => t \in rec.todo \cup rec.kills
      PROVE  FewAreSpared'
  <2>1. request'[r] = rec /\ \A p \in Requests \ {r} : request'[p] = request[p]
    BY <1>1, <1>2
  <2>2. tokens' = tokens
    BY <1>2 DEF data
  <2> QED  BY <1>2, <2>1, <2>2, QuietSparesFew
<1>3. CASE Touch(r) \/ FlushToken(r) \/ FlushUser(r)
  <2>1. q.op # "mail"
    BY <1>1, <1>3 DEF Touch, FlushToken, FlushUser, RequestOK, StageOK
  <2>2. PICK rec : request' = [request EXCEPT ![r] = rec] /\ UNCHANGED data /\ rec.op = q.op
    <3>1. CASE Touch(r)
      <4> DEFINE rec == [q EXCEPT !.locks = @ \cup {q.cred}, !.pc = Inside(q.op)]
      <4>1. rec.op = q.op
        BY <1>1 DEF Request
      <4>2. request' = [request EXCEPT ![r] = rec] /\ UNCHANGED data
        BY <3>1 DEF Touch, Private
      <4> HIDE DEF rec
      <4> QED  BY <4>1, <4>2
    <3>2. CASE FlushToken(r)
      <4> DEFINE rec == [q EXCEPT !.locks = @ \cup {q.token}, !.kills = @ \cup {q.token},
                                  !.seen = user,
                                  !.pc = IF q.op = "verify" /\ user.verified = "yes"
                                           THEN "commit" ELSE "user"]
      <4>1. rec.op = q.op
        BY <1>1 DEF Request
      <4>2. request' = [request EXCEPT ![r] = rec] /\ UNCHANGED data
        BY <3>2 DEF FlushToken, Private
      <4> HIDE DEF rec
      <4> QED  BY <4>1, <4>2
    <3>3. ASSUME NEW locks, NEW row, NEW todo, NEW pc,
                 request' = [request EXCEPT ![r] =
                   [q EXCEPT !.locks = locks, !.row = row, !.todo = todo, !.pc = pc]],
                 UNCHANGED data
          PROVE  \E rec : /\ request' = [request EXCEPT ![r] = rec] /\ UNCHANGED data
                          /\ rec.op = q.op
      <4> DEFINE rec == [q EXCEPT !.locks = locks, !.row = row, !.todo = todo, !.pc = pc]
      <4>1. rec.op = q.op
        BY <1>1 DEF Request
      <4>2. request' = [request EXCEPT ![r] = rec] /\ UNCHANGED data
        BY <3>3
      <4> HIDE DEF rec
      <4> QED  BY <4>1, <4>2
    <3>4. CASE FlushUser(r)
      BY <3>3, <3>4 DEF FlushUser, Private
    <3> QED  BY <1>3, <3>1, <3>2, <3>4
  <2> QED  BY <1>2, <2>1, <2>2
<1>4. ASSUME NEW x \in Rows \ {Account}, LockRow(r, x) PROVE FewAreSpared'
  <2> DEFINE rec == IF q.op = "revoke" \/ State(x) = "live"
          THEN [q EXCEPT !.todo = @ \ {x}, !.locks = @ \cup {x}, !.kills = @ \cup {x}]
          ELSE [q EXCEPT !.todo = @ \ {x}]
  <2>1. /\ rec.op = q.op /\ rec.token = q.token /\ rec.todo = q.todo \ {x}
        /\ rec.kills = IF q.op = "revoke" \/ State(x) = "live" THEN q.kills \cup {x} ELSE q.kills
    BY <1>1 DEF Request
  <2>2. request' = [request EXCEPT ![r] = rec] /\ UNCHANGED data
    BY <1>4 DEF LockRow, Private
  <2> HIDE DEF rec
  <2>3. x \in Tokens => State(x) = tokens[x]
    BY StateFacts
  <2> QED  BY <1>2, <2>1, <2>2, <2>3
<1>5. CASE UpdateDone(r)
  <2> DEFINE rec == [q EXCEPT !.pc = IF q.op = "mail" THEN "mail" ELSE "commit"]
  <2>1. rec.op = q.op /\ rec.token = q.token /\ rec.todo = q.todo /\ rec.kills = q.kills
    BY <1>1 DEF Request
  <2>2. request' = [request EXCEPT ![r] = rec] /\ UNCHANGED data
    BY <1>5 DEF UpdateDone, Private
  <2> HIDE DEF rec
  <2> QED  BY <1>2, <2>1, <2>2
<1>6. CASE SendMail(r)
  <2> DEFINE rec == [q EXCEPT !.pc = "commit"]
  <2>1. rec.op = q.op /\ rec.token = q.token /\ rec.todo = q.todo /\ rec.kills = q.kills
    BY <1>1 DEF Request
  <2>2. request' = [request EXCEPT ![r] = rec] /\ UNCHANGED data
    BY <1>6 DEF SendMail
  <2> HIDE DEF rec
  <2> QED  BY <1>2, <2>1, <2>2
<1>7. CASE RaiseUnauthorized(r) \/ AbortDeadlocked(r) \/ Abandon(r)
  <2>1. request' = [request EXCEPT ![r] = NoRequest] /\ UNCHANGED data
    BY <1>7 DEF RaiseUnauthorized, AbortDeadlocked, Abandon, Private
  <2>2. NoRequest.op = "none"
    BY DEF NoRequest
  <2> QED  BY <1>2, <2>1, <2>2
<1> QED  BY <1>3, <1>4, <1>5, <1>6, <1>7

LEMMA LetInArrives ==
  ASSUME NEW r \in Requests, NEW c \in Credentials, NEW record, LetIn(r, c, record),
         record \in Request
  PROVE  \E rec : /\ Arrive(r, rec) /\ rec.op = record.op
                  /\ rec.todo = record.todo /\ rec.kills = record.kills
<1>1. PICK first : Arrive(r, [record EXCEPT !.cred = c, !.pc = first])
  BY DEF LetIn
<1> DEFINE rec == [record EXCEPT !.cred = c, !.pc = first]
<1>2. Arrive(r, rec) /\ rec.op = record.op /\ rec.todo = record.todo
      /\ rec.kills = record.kills
  BY <1>1 DEF Request
<1> QED  BY <1>2

\* Requests that arrive, but for those that send mail.
LEMMA BeginSparesFew ==
  ASSUME Inv, FewAreSpared, NEW r \in Requests, Begin(r)
  PROVE  FewAreSpared'
<1>0. request \in [Requests -> Request]
  BY DEF Inv, TypeOK
<1>1. ASSUME NEW rec, Arrive(r, rec), rec.op # "mail" PROVE FewAreSpared'
  <2>1. /\ request'[r] = rec /\ \A p \in Requests \ {r} : request'[p] = request[p]
        /\ tokens' = tokens
    BY <1>0, <1>1 DEF Arrive, data
  <2> QED  BY <1>1, <2>1, QuietSparesFew
<1>2. ASSUME NEW c \in Credentials, NEW record \in Request, LetIn(r, c, record),
             record.op # "mail"
      PROVE  FewAreSpared'
  <2>1. PICK rec : Arrive(r, rec) /\ rec.op = record.op
    BY <1>2, LetInArrives
  <2> QED  BY <1>1, <1>2, <2>1
<1>3. NoRequest \in Request /\ user \in User
  BY IdleIsOK DEF Inv, TypeOK
<1>4. ASSUME NEW p \in Passwords, Login(r, p) PROVE FewAreSpared'
  <2> DEFINE q == [NoRequest EXCEPT !.op = "login", !.pc = "user",
                                    !.password = p, !.seen = user]
  <2>1. q.op = "login" /\ Arrive(r, q)
    BY <1>4 DEF NoRequest, Login
  <2> QED  BY <1>1, <2>1
<1>5. ASSUME NEW c \in Credentials, NEW p \in Passwords, ChangePassword(r, c, p)
      PROVE  FewAreSpared'
  <2> DEFINE q == [NoRequest EXCEPT !.op = "change", !.password = p, !.seen = user]
  <2>1. q \in Request /\ q.op = "change" /\ LetIn(r, c, q)
    BY <1>3, <1>5 DEF Request, NoRequest, ChangePassword
  <2> QED  BY <1>2, <2>1
<1>6. ASSUME NEW c \in Credentials, NEW target \in Credentials, Revoke(r, c, target)
      PROVE  FewAreSpared'
  <2> DEFINE q == [NoRequest EXCEPT !.op = "revoke", !.todo = {target}]
  <2>1. q \in Request /\ q.op = "revoke" /\ LetIn(r, c, q)
    BY <1>3, <1>6 DEF Request, NoRequest, Rows, Revoke
  <2> QED  BY <1>2, <2>1
<1>7. ASSUME NEW c \in Credentials, NEW op \in {"mint", "visit"},
             LetIn(r, c, [NoRequest EXCEPT !.op = op])
      PROVE  FewAreSpared'
  <2> DEFINE q == [NoRequest EXCEPT !.op = op]
  <2>1. q \in Request /\ q.op = op /\ LetIn(r, c, q)
    BY <1>3, <1>7 DEF Request, NoRequest
  <2> QED  BY <1>2, <2>1
<1>8. ASSUME NEW t \in ResetTokens, NEW p \in Passwords, ResetPassword(r, t, p)
      PROVE  FewAreSpared'
  <2> DEFINE q == [NoRequest EXCEPT !.op = "reset", !.pc = "token",
                                    !.token = t, !.password = p]
  <2>1. q.op = "reset" /\ Arrive(r, q)
    BY <1>8 DEF NoRequest, ResetPassword
  <2> QED  BY <1>1, <2>1
<1>9. ASSUME NEW t \in VerifyTokens, VerifyEmail(r, t) PROVE FewAreSpared'
  <2> DEFINE q == [NoRequest EXCEPT !.op = "verify", !.pc = "token", !.token = t]
  <2>1. q.op = "verify" /\ Arrive(r, q)
    BY <1>9 DEF NoRequest, VerifyEmail
  <2> QED  BY <1>1, <2>1
<1>10. ASSUME \/ \E s \in Sessions : Logout(r, s)
              \/ \E c \in Credentials, s \in Sessions : RevokeSession(r, c, s)
              \/ \E c \in Credentials, k \in ApiTokens : RevokeApiToken(r, c, k)
       PROVE  FewAreSpared'
  BY <1>6, <1>10 DEF Logout, RevokeSession, RevokeApiToken, Credentials
<1>11. ASSUME NEW c \in Credentials, MintApiToken(r, c) \/ Visit(r, c)
       PROVE  FewAreSpared'
  BY <1>7, <1>11 DEF MintApiToken, Visit
<1> QED
  BY <1>4, <1>5, <1>8, <1>9, <1>10, <1>11, RequestMailSparesFew DEF Begin

\* Never more tokens of a purpose are valid than requests can overlap
\* (issue_email_token): as many as run at once can miss each other's, no more.
THEOREM TokensAreFew == Spec => []LiveTokensBounded
<1>1. Inv /\ FewAreSpared /\ [Next]_vars => FewAreSpared'
  <2> SUFFICES ASSUME Inv, FewAreSpared, [Next]_vars PROVE FewAreSpared'
    OBVIOUS
  <2>1. ASSUME NEW r \in Requests, Continue(r) PROVE FewAreSpared'
    BY <2>1, ContinueSparesFew, CommitSparesFew DEF Continue
  <2>2. CASE \/ \E s \in Sessions : ExpireSession(s)
             \/ \E k \in ApiTokens : ExpireApiToken(k)
             \/ \E t \in Tokens : ExpireToken(t)
    <3>1. request' = request /\ \A t \in Tokens : tokens'[t] = "live" => tokens[t] = "live"
      BY <2>2 DEF ExpireSession, ExpireApiToken, ExpireToken, Inv, TypeOK
    <3> QED  BY <3>1, QuietSparesFew
  <2>3. CASE UNCHANGED vars
    <3>1. request' = request /\ tokens' = tokens
      BY <2>3 DEF vars
    <3> QED  BY <3>1, QuietSparesFew
  <2> QED  BY <2>1, <2>2, <2>3, BeginSparesFew, ContinueSparesFew DEF Next
<1>2. FewAreSpared => LiveTokensBounded
  <2> SUFFICES ASSUME FewAreSpared, NEW purpose \in {ResetTokens, VerifyTokens}
               PROVE  Cardinality({t \in purpose : tokens[t] = "live"}) <= Cardinality(Requests)
    BY DEF LiveTokensBounded
  <2>1. Cardinality(Spared(purpose, {})) + Cardinality({}) <= Cardinality(Requests)
    BY DEF FewAreSpared
  <2>2. Spared(purpose, {}) = {t \in purpose : tokens[t] = "live"}
    BY DEF Spared
  <2>3. Cardinality(Spared(purpose, {})) \in Nat
    <3>1. Spared(purpose, {}) \in SUBSET purpose
      BY DEF Spared
    <3> QED  BY <3>1, FewerTokens
  <2> QED  BY <2>1, <2>2, <2>3, FS_EmptySet
<1> QED  BY <1>1, <1>2, InitSparesFew, InvIsInvariant, PTL DEF Spec

-----------------------------------------------------------------------------
(* Every request can end *)

Asking(op) == {r \in Requests : request[r].op \in {op}}
NewSessions == {s \in Sessions : sessions[s] = "none"}
NewKeys == {k \in ApiTokens : keys[k] = "none"}

\* A row is left for each login and each new API token; what a request locks or
\* has revoked is a row that is there, and not the user's.
RoomLeft ==
  /\ Cardinality(Asking("login")) <= Cardinality(NewSessions)
  /\ Cardinality(Asking("mint")) <= Cardinality(NewKeys)
  /\ \A r \in Requests :
       /\ request[r].todo \cup request[r].kills \subseteq Rows \ {Account}
       /\ \A x \in request[r].todo \cup request[r].kills : State(x) # "none"

LEMMA Finite ==
  ASSUME NEW op
  PROVE  /\ IsFiniteSet(Asking(op)) /\ Cardinality(Asking(op)) \in Nat
         /\ IsFiniteSet(NewSessions) /\ Cardinality(NewSessions) \in Nat
         /\ IsFiniteSet(NewKeys) /\ Cardinality(NewKeys) \in Nat
<1>1. Asking(op) \subseteq Requests
  BY DEF Asking
<1>2. NewSessions \subseteq Rows /\ NewKeys \subseteq Rows
  BY DEF NewSessions, NewKeys, Rows, Credentials
<1> QED  BY <1>1, <1>2, FiniteAssumption, FS_Subset, FS_CardinalityType

\* A step that changes no row and lets no request ask for one.
LEMMA QuietKeepsRoom ==
  ASSUME Inv, RoomLeft, NEW r \in Requests, NEW rec,
         request' = [request EXCEPT ![r] = rec], UNCHANGED data,
         rec.op = request[r].op \/ rec.op \notin {"login", "mint"},
         rec.todo \cup rec.kills \subseteq Rows \ {Account},
         \A x \in rec.todo \cup rec.kills : State(x) # "none"
  PROVE  RoomLeft'
<1>1. /\ request'[r] = rec
      /\ \A q \in Requests \ {r} : request'[q] = request[q]
  BY DEF Inv, TypeOK
<1>2. NewSessions' = NewSessions /\ NewKeys' = NewKeys
  BY DEF NewSessions, NewKeys, data
<1>3. ASSUME NEW op \in {"login", "mint"}
      PROVE  Cardinality(Asking(op)') <= Cardinality(Asking(op))
  <2>1. Asking(op)' \subseteq Asking(op)
    BY <1>1 DEF Asking
  <2> QED  BY <2>1, Finite, FS_Subset
<1>4. Cardinality(Asking("login")') <= Cardinality(NewSessions')
  <2>1. Cardinality(Asking("login")') \in Nat
    <3>1. Asking("login")' \subseteq Requests
      BY DEF Asking
    <3> QED  BY <3>1, FiniteAssumption, FS_Subset, FS_CardinalityType
  <2> QED  BY <1>2, <1>3, <2>1, Finite DEF RoomLeft
<1>5. Cardinality(Asking("mint")') <= Cardinality(NewKeys')
  <2>1. Cardinality(Asking("mint")') \in Nat
    <3>1. Asking("mint")' \subseteq Requests
      BY DEF Asking
    <3> QED  BY <3>1, FiniteAssumption, FS_Subset, FS_CardinalityType
  <2> QED  BY <1>2, <1>3, <2>1, Finite DEF RoomLeft
<1>6. \A x : State(x)' = State(x)
  BY DEF State, data
<1> QED  BY <1>1, <1>4, <1>5, <1>6 DEF RoomLeft

\* A request that asks for a row arrives while one is left.
LEMMA AskingKeepsRoom ==
  ASSUME Inv, RoomLeft, NEW r \in Requests, NEW rec,
         request' = [request EXCEPT ![r] = rec], UNCHANGED data,
         request[r].op = "none", rec.todo = {}, rec.kills = {},
         \/ rec.op = "login" /\ RoomForSession
         \/ rec.op = "mint" /\ RoomForKey
  PROVE  RoomLeft'
<1>1. /\ request'[r] = rec
      /\ \A q \in Requests \ {r} : request'[q] = request[q]
  BY DEF Inv, TypeOK
<1>2. NewSessions' = NewSessions /\ NewKeys' = NewKeys
  BY DEF NewSessions, NewKeys, data
<1>3. \A x : State(x)' = State(x)
  BY DEF State, data
<1>4. /\ RoomForSession => Cardinality(Asking("login")) < Cardinality(NewSessions)
      /\ RoomForKey => Cardinality(Asking("mint")) < Cardinality(NewKeys)
  BY DEF RoomForSession, RoomForKey, InFlight, Asking, NewSessions, NewKeys
<1>5. ASSUME NEW op \in {"login", "mint"}
      PROVE  IF rec.op = op THEN Cardinality(Asking(op)') = Cardinality(Asking(op)) + 1
                            ELSE Asking(op)' = Asking(op)
  <2>1. CASE rec.op = op
    <3>1. Asking(op)' = Asking(op) \cup {r} /\ r \notin Asking(op)
      BY <1>1, <2>1 DEF Asking
    <3>2. Cardinality(Asking(op) \cup {r}) = Cardinality(Asking(op)) + 1
      <4>1. IsFiniteSet(Asking(op))
        BY Finite
      <4> QED  BY <3>1, <4>1, FS_AddElement
    <3> QED  BY <2>1, <3>1, <3>2
  <2>2. CASE rec.op # op
    BY <1>1, <2>2 DEF Asking
  <2> QED  BY <2>1, <2>2
<1>6. /\ Cardinality(Asking("login")) \in Nat /\ Cardinality(NewSessions) \in Nat
      /\ Cardinality(Asking("mint")) \in Nat /\ Cardinality(NewKeys) \in Nat
  BY Finite
<1>7. Cardinality(Asking("login")') <= Cardinality(NewSessions')
  <2>1. rec.op = "login" => Cardinality(Asking("login")') = Cardinality(Asking("login")) + 1
    BY <1>5
  <2>2. rec.op # "login" => Asking("login")' = Asking("login")
    BY <1>5
  <2> QED  BY <1>2, <1>4, <1>6, <2>1, <2>2 DEF RoomLeft
<1>8. Cardinality(Asking("mint")') <= Cardinality(NewKeys')
  <2>1. rec.op = "mint" => Cardinality(Asking("mint")') = Cardinality(Asking("mint")) + 1
    BY <1>5
  <2>2. rec.op # "mint" => Asking("mint")' = Asking("mint")
    BY <1>5
  <2> QED  BY <1>2, <1>4, <1>6, <2>1, <2>2 DEF RoomLeft
<1>9. \A q \in Requests :
        /\ request'[q].todo \cup request'[q].kills \subseteq Rows \ {Account}
        /\ \A x \in request'[q].todo \cup request'[q].kills : State(x)' # "none"
  BY <1>1, <1>3 DEF RoomLeft
<1> QED  BY <1>7, <1>8, <1>9 DEF RoomLeft

\* A commit uses up the row its request asked for, and no other.
LEMMA CommitKeepsRoom ==
  ASSUME Inv, RoomLeft, NEW r \in Requests, NEW new, Commit(r, new)
  PROVE  RoomLeft'
<1> DEFINE q == request[r]
<1>1. /\ request'[r] = NoRequest
      /\ \A p \in Requests \ {r} : request'[p] = request[p]
      /\ new \in Insertable(q) /\ q \in Request
  BY DEF Commit, Inv, TypeOK
<1>2. /\ sessions' = [x \in Sessions |-> RowAfter(q, new, x)]
      /\ keys' = [x \in ApiTokens |-> RowAfter(q, new, x)]
      /\ tokens' = [x \in Tokens |-> RowAfter(q, new, x)]
  BY DEF Commit
<1>3. /\ \A x \in Sessions : sessions'[x] = "none" <=> sessions[x] = "none" /\ x # new
      /\ \A x \in ApiTokens : keys'[x] = "none" <=> keys[x] = "none" /\ x # new
      /\ \A x \in Tokens : tokens'[x] = "none" <=> tokens[x] = "none" /\ x # new
  BY <1>2, StateFacts DEF RoomLeft, RowAfter
<1>4. \A x \in Rows \ {Account} : State(x) # "none" => State(x)' # "none"
  <2>1. ASSUME NEW x \in Sessions PROVE State(x)' = sessions'[x]
    BY AccountsAssumption DEF State, Credentials
  <2>2. ASSUME NEW x \in ApiTokens PROVE State(x)' = keys'[x]
    BY AccountsAssumption DEF State
  <2>3. ASSUME NEW x \in Tokens PROVE State(x)' = tokens'[x]
    BY AccountsAssumption DEF State, Credentials
  <2>4. ASSUME NEW x \in Sessions \cup ApiTokens \cup Tokens, State(x) # "none"
        PROVE  State(x)' # "none"
    <3>1. CASE x \in Sessions
      BY <1>3, <2>1, <2>4, <3>1, StateFacts, <1>2 DEF RowAfter
    <3>2. CASE x \in ApiTokens
      BY <1>3, <2>2, <2>4, <3>2, StateFacts, <1>2 DEF RowAfter
    <3>3. CASE x \in Tokens
      BY <1>3, <2>3, <2>4, <3>3, StateFacts, <1>2 DEF RowAfter
    <3> QED  BY <2>4, <3>1, <3>2, <3>3
  <2> QED  BY <2>4 DEF Rows, Credentials
<1>5. \A p \in Requests :
        /\ request'[p].todo \cup request'[p].kills \subseteq Rows \ {Account}
        /\ \A x \in request'[p].todo \cup request'[p].kills : State(x)' # "none"
  BY <1>1, <1>4 DEF RoomLeft, NoRequest
<1>6. /\ q.op = "login" => new \in NewSessions
      /\ q.op = "mint" => new \in NewKeys
      /\ q.op # "login" => new \notin NewSessions
      /\ q.op # "mint" => new \notin NewKeys
  <2>1. Sessions \cap ApiTokens = {} /\ Credentials \cap Tokens = {} /\ None \notin Rows
    BY AccountsAssumption
  <2>2. q.op = "mail" => q.token \in Tokens
    BY DEF Inv, RequestOK, StageOK
  <2>3. CASE q.op = "login"
    BY <1>1, <2>1, <2>3 DEF Insertable, NewSessions, NewKeys
  <2>4. CASE q.op = "mint"
    BY <1>1, <2>1, <2>4 DEF Insertable, NewSessions, NewKeys
  <2>5. CASE q.op = "mail"
    BY <1>1, <2>1, <2>2, <2>5 DEF Insertable, NewSessions, NewKeys, Credentials
  <2>6. CASE q.op \notin {"login", "mint", "mail"}
    BY <1>1, <2>1, <2>6 DEF Insertable, NewSessions, NewKeys, Rows, Credentials
  <2> QED  BY <2>3, <2>4, <2>5, <2>6
<1>7. NewSessions' = NewSessions \ {new} /\ NewKeys' = NewKeys \ {new}
  BY <1>3 DEF NewSessions, NewKeys
<1>8. ASSUME NEW op \in {"login", "mint"}
      PROVE  Asking(op)' = Asking(op) \ {r} /\ (r \in Asking(op) <=> q.op = op)
  BY <1>1 DEF Asking, NoRequest
<1> HIDE DEF q
<1>9. Cardinality(Asking("login")') <= Cardinality(NewSessions')
  <2>1. /\ Cardinality(Asking("login")') =
             IF q.op = "login" THEN Cardinality(Asking("login")) - 1
                             ELSE Cardinality(Asking("login"))
        /\ Cardinality(NewSessions') =
             IF q.op = "login" THEN Cardinality(NewSessions) - 1
                             ELSE Cardinality(NewSessions)
    BY <1>6, <1>7, <1>8, Finite, FS_RemoveElement
  <2> QED  BY <2>1, Finite DEF RoomLeft
<1>10. Cardinality(Asking("mint")') <= Cardinality(NewKeys')
  <2>1. /\ Cardinality(Asking("mint")') =
             IF q.op = "mint" THEN Cardinality(Asking("mint")) - 1
                             ELSE Cardinality(Asking("mint"))
        /\ Cardinality(NewKeys') =
             IF q.op = "mint" THEN Cardinality(NewKeys) - 1
                             ELSE Cardinality(NewKeys)
    BY <1>6, <1>7, <1>8, Finite, FS_RemoveElement
  <2> QED  BY <2>1, Finite DEF RoomLeft
<1> QED  BY <1>5, <1>9, <1>10 DEF RoomLeft

\* Rows that expire were there.
LEMMA ExpiryKeepsRoom ==
  ASSUME Inv, RoomLeft,
         \/ \E s \in Sessions : ExpireSession(s)
         \/ \E k \in ApiTokens : ExpireApiToken(k)
         \/ \E t \in Tokens : ExpireToken(t)
  PROVE  RoomLeft'
<1>1. /\ request' = request
      /\ \A x \in Sessions : sessions'[x] = "none" <=> sessions[x] = "none"
      /\ \A x \in ApiTokens : keys'[x] = "none" <=> keys[x] = "none"
      /\ \A x \in Tokens : tokens'[x] = "none" <=> tokens[x] = "none"
  BY DEF ExpireSession, ExpireApiToken, ExpireToken, Inv, TypeOK
<1>2. ASSUME NEW x \in Rows \ {Account}, State(x) # "none"
      PROVE  State(x)' # "none"
  <2>1. CASE x \in Sessions
    BY <1>1, <1>2, <2>1, AccountsAssumption DEF State, Credentials
  <2>2. CASE x \in ApiTokens
    BY <1>1, <1>2, <2>2, AccountsAssumption DEF State, Credentials
  <2>3. CASE x \in Tokens
    BY <1>1, <1>2, <2>3, AccountsAssumption DEF State, Credentials
  <2> QED  BY <2>1, <2>2, <2>3 DEF Rows, Credentials
<1>3. NewSessions' = NewSessions /\ NewKeys' = NewKeys
  BY <1>1 DEF NewSessions, NewKeys
<1>4. \A op : Asking(op)' = Asking(op)
  BY <1>1 DEF Asking
<1> QED  BY <1>1, <1>2, <1>3, <1>4 DEF RoomLeft

LEMMA BeginKeepsRoom ==
  ASSUME Inv, RoomLeft, NEW r \in Requests, Begin(r)
  PROVE  RoomLeft'
<1>0. NoRequest \in Request /\ NoRequest.todo = {} /\ NoRequest.kills = {}
  BY IdleIsOK DEF NoRequest
<1>1. ASSUME NEW rec, Arrive(r, rec), rec.todo \subseteq Rows \ {Account}, rec.kills = {},
             \A x \in rec.todo : State(x) # "none",
             \/ rec.op \notin {"login", "mint"}
             \/ rec.op = "login" /\ rec.todo = {} /\ RoomForSession
             \/ rec.op = "mint" /\ rec.todo = {} /\ RoomForKey
      PROVE  RoomLeft'
  <2>1. /\ request' = [request EXCEPT ![r] = rec]
        /\ UNCHANGED data
        /\ request[r].op = "none"
    BY <1>1 DEF Arrive, Inv, RequestOK, StageOK
  <2>2. CASE rec.op \notin {"login", "mint"}
    BY <1>1, <2>1, <2>2, QuietKeepsRoom
  <2>3. CASE rec.op \in {"login", "mint"}
    BY <1>1, <2>1, <2>3, AskingKeepsRoom
  <2> QED  BY <2>2, <2>3
<1>2. ASSUME NEW p \in Passwords, Login(r, p) PROVE RoomLeft'
  <2> DEFINE q == [NoRequest EXCEPT !.op = "login", !.pc = "user",
                                    !.password = p, !.seen = user]
  <2>1. q.op = "login" /\ q.todo = {} /\ q.kills = {}
    BY DEF NoRequest
  <2>2. Arrive(r, q) /\ RoomForSession
    BY <1>2 DEF Login
  <2> HIDE DEF q
  <2> QED  BY <1>1, <2>1, <2>2
<1>3. ASSUME NEW c \in Credentials, NEW record \in Request, LetIn(r, c, record),
             record.todo \subseteq Rows \ {Account}, record.kills = {},
             \A x \in record.todo : State(x) # "none",
             \/ record.op \notin {"login", "mint"}
             \/ record.op = "mint" /\ record.todo = {} /\ RoomForKey
      PROVE  RoomLeft'
  <2>1. PICK rec : /\ Arrive(r, rec) /\ rec.op = record.op
                   /\ rec.todo = record.todo /\ rec.kills = record.kills
    BY <1>3, LetInArrives
  <2> QED  BY <1>1, <1>3, <2>1
<1>4. ASSUME NEW c \in Credentials, NEW p \in Passwords, ChangePassword(r, c, p)
      PROVE  RoomLeft'
  <2> DEFINE q == [NoRequest EXCEPT !.op = "change", !.password = p, !.seen = user]
  <2>1. q \in Request /\ q.op = "change" /\ q.todo = {} /\ q.kills = {}
    BY <1>0 DEF Request, NoRequest, Inv, TypeOK
  <2>2. LetIn(r, c, q)
    BY <1>4 DEF ChangePassword
  <2> HIDE DEF q
  <2> QED  BY <1>3, <2>1, <2>2
<1>5. ASSUME NEW c \in Credentials, NEW target \in Credentials, Revoke(r, c, target)
      PROVE  RoomLeft'
  <2> DEFINE q == [NoRequest EXCEPT !.op = "revoke", !.todo = {target}]
  <2>1. /\ q \in Request /\ q.op = "revoke" /\ q.kills = {}
        /\ q.todo \subseteq Rows \ {Account} /\ q.todo = {target}
    BY <1>0, AccountsAssumption DEF Request, NoRequest, Rows
  <2>2. LetIn(r, c, q) /\ State(target) = "live"
    BY <1>5 DEF Revoke
  <2> HIDE DEF q
  <2> QED  BY <1>3, <2>1, <2>2
<1>6. ASSUME NEW c \in Credentials, MintApiToken(r, c) PROVE RoomLeft'
  <2> DEFINE q == [NoRequest EXCEPT !.op = "mint"]
  <2>1. q \in Request /\ q.op = "mint" /\ q.kills = {} /\ q.todo = {}
    BY <1>0 DEF Request, NoRequest
  <2>2. LetIn(r, c, q) /\ RoomForKey
    BY <1>6 DEF MintApiToken
  <2> HIDE DEF q
  <2> QED  BY <1>3, <2>1, <2>2
<1>7. ASSUME NEW c \in Credentials, Visit(r, c) PROVE RoomLeft'
  <2> DEFINE q == [NoRequest EXCEPT !.op = "visit"]
  <2>1. q \in Request /\ q.op = "visit" /\ q.kills = {} /\ q.todo = {}
    BY <1>0 DEF Request, NoRequest
  <2>2. LetIn(r, c, q)
    BY <1>7 DEF Visit
  <2> HIDE DEF q
  <2> QED  BY <1>3, <2>1, <2>2
<1>8. ASSUME NEW t \in ResetTokens, NEW p \in Passwords, ResetPassword(r, t, p)
      PROVE  RoomLeft'
  <2> DEFINE q == [NoRequest EXCEPT !.op = "reset", !.pc = "token",
                                    !.token = t, !.password = p]
  <2>1. q.op = "reset" /\ q.kills = {} /\ q.todo = {}
    BY DEF NoRequest
  <2>2. Arrive(r, q)
    BY <1>8 DEF ResetPassword
  <2> HIDE DEF q
  <2> QED  BY <1>1, <2>1, <2>2
<1>9. ASSUME NEW t \in VerifyTokens, VerifyEmail(r, t) PROVE RoomLeft'
  <2> DEFINE q == [NoRequest EXCEPT !.op = "verify", !.pc = "token", !.token = t]
  <2>1. q.op = "verify" /\ q.kills = {} /\ q.todo = {}
    BY DEF NoRequest
  <2>2. Arrive(r, q)
    BY <1>9 DEF VerifyEmail
  <2> HIDE DEF q
  <2> QED  BY <1>1, <2>1, <2>2
<1>10. ASSUME NEW t \in Tokens, RequestMail(r, t) PROVE RoomLeft'
  <2> DEFINE q == [NoRequest EXCEPT !.op = "mail", !.pc = "rows", !.token = t,
                                    !.todo = Outstanding(t)]
  <2>1. /\ q.op = "mail" /\ q.kills = {} /\ q.todo = Outstanding(t)
        /\ Outstanding(t) \subseteq Tokens
    BY DEF NoRequest, Outstanding
  <2>2. request' = [request EXCEPT ![r] = q] /\ UNCHANGED data
    BY <1>10 DEF RequestMail
  <2> HIDE DEF q
  <2>3. q.todo \cup q.kills \subseteq Rows \ {Account}
    BY <2>1, AccountsAssumption DEF Rows
  <2>4. \A x \in q.todo \cup q.kills : State(x) # "none"
    BY <2>1, StateFacts DEF Outstanding
  <2> QED  BY <2>1, <2>2, <2>3, <2>4, QuietKeepsRoom
<1>11. ASSUME \/ \E s \in Sessions : Logout(r, s)
              \/ \E c \in Credentials, s \in Sessions : RevokeSession(r, c, s)
              \/ \E c \in Credentials, k \in ApiTokens : RevokeApiToken(r, c, k)
       PROVE  RoomLeft'
  BY <1>5, <1>11 DEF Logout, RevokeSession, RevokeApiToken, Credentials
<1> QED
  BY <1>2, <1>4, <1>6, <1>7, <1>8, <1>9, <1>10, <1>11 DEF Begin

\* A request goes on or is rolled back, and commits nothing yet.
LEMMA ContinueKeepsRoom ==
  ASSUME Inv, RoomLeft, NEW r \in Requests,
         \/ Touch(r) \/ FlushToken(r) \/ FlushUser(r)
         \/ \E x \in Rows \ {Account} : LockRow(r, x)
         \/ UpdateDone(r) \/ SendMail(r) \/ RaiseUnauthorized(r)
         \/ AbortDeadlocked(r) \/ Abandon(r)
  PROVE  RoomLeft'
<1> DEFINE q == request[r]
<1>1. /\ q \in Request /\ StageOK(q) /\ Found(q)
      /\ q.todo \cup q.kills \subseteq Rows \ {Account}
      /\ \A x \in q.todo \cup q.kills : State(x) # "none"
  BY DEF Inv, RequestOK, RoomLeft
<1>2. ASSUME NEW rec, request' = [request EXCEPT ![r] = rec], UNCHANGED data,
             rec.op = q.op \/ rec.op = "none",
             rec.todo \cup rec.kills \subseteq Rows \ {Account},
             \A x \in rec.todo \cup rec.kills : State(x) # "none"
      PROVE  RoomLeft'
  BY <1>2, QuietKeepsRoom
<1>3. CASE Touch(r)
  <2> DEFINE rec == [q EXCEPT !.locks = @ \cup {q.cred}, !.pc = Inside(q.op)]
  <2>1. rec.op = q.op /\ rec.todo = q.todo /\ rec.kills = q.kills
    BY <1>1 DEF Request
  <2>2. request' = [request EXCEPT ![r] = rec] /\ UNCHANGED data
    BY <1>3 DEF Touch, Private
  <2> HIDE DEF rec
  <2> QED  BY <1>1, <1>2, <2>1, <2>2
<1>4. CASE FlushToken(r)
  <2> DEFINE rec == [q EXCEPT !.locks = @ \cup {q.token},
                             !.kills = @ \cup {q.token}, !.seen = user,
                             !.pc = IF q.op = "verify" /\ user.verified = "yes"
                                      THEN "commit" ELSE "user"]
  <2>1. /\ rec.op = q.op /\ rec.todo = q.todo /\ rec.kills = q.kills \cup {q.token}
        /\ q.token \in Tokens /\ tokens[q.token] # "none"
    BY <1>1, <1>4 DEF Request, FlushToken, StageOK, Found
  <2>2. request' = [request EXCEPT ![r] = rec] /\ UNCHANGED data
    BY <1>4 DEF FlushToken, Private
  <2> HIDE DEF rec
  <2>3. q.token \in Rows \ {Account} /\ State(q.token) # "none"
    BY <2>1, StateFacts, AccountsAssumption DEF Rows
  <2> QED  BY <1>1, <1>2, <2>1, <2>2, <2>3
<1>5. CASE FlushUser(r)
  <2> DEFINE rec == [q EXCEPT
          !.locks = @ \cup {Account}, !.row = Updated(q),
          !.todo = IF q.op \in {"change", "reset"} THEN LiveSessions ELSE {},
          !.pc = CASE q.op \in {"change", "reset"} -> "rows"
                   [] q.op = "login" /\ q.password # q.seen.password -> "raise"
                   [] OTHER -> "commit"]
  <2>1. /\ rec.op = q.op /\ rec.todo \subseteq Sessions /\ rec.kills = q.kills
        /\ \A x \in rec.todo : State(x) = "live"
    BY <1>1, StateFacts DEF Request, LiveSessions
  <2>2. request' = [request EXCEPT ![r] = rec] /\ UNCHANGED data
    BY <1>5 DEF FlushUser, Private
  <2> HIDE DEF rec
  <2>3. Sessions \subseteq Rows \ {Account}
    BY AccountsAssumption DEF Rows, Credentials
  <2> QED  BY <1>1, <1>2, <2>1, <2>2, <2>3
<1>6. ASSUME NEW x \in Rows \ {Account}, LockRow(r, x) PROVE RoomLeft'
  <2> DEFINE rec == IF q.op = "revoke" \/ State(x) = "live"
          THEN [q EXCEPT !.todo = @ \ {x}, !.locks = @ \cup {x}, !.kills = @ \cup {x}]
          ELSE [q EXCEPT !.todo = @ \ {x}]
  <2>1. /\ rec.op = q.op /\ rec.todo = q.todo \ {x}
        /\ rec.kills = IF q.op = "revoke" \/ State(x) = "live" THEN q.kills \cup {x} ELSE q.kills
        /\ x \in q.todo
    BY <1>1, <1>6 DEF Request, LockRow
  <2>2. request' = [request EXCEPT ![r] = rec] /\ UNCHANGED data
    BY <1>6 DEF LockRow, Private
  <2> HIDE DEF rec
  <2> QED  BY <1>1, <1>2, <2>1, <2>2
<1>7. CASE UpdateDone(r)
  <2> DEFINE rec == [q EXCEPT !.pc = IF q.op = "mail" THEN "mail" ELSE "commit"]
  <2>1. rec.op = q.op /\ rec.todo = q.todo /\ rec.kills = q.kills
    BY <1>1 DEF Request
  <2>2. request' = [request EXCEPT ![r] = rec] /\ UNCHANGED data
    BY <1>7 DEF UpdateDone, Private
  <2> HIDE DEF rec
  <2> QED  BY <1>1, <1>2, <2>1, <2>2
<1>8. CASE SendMail(r)
  <2> DEFINE rec == [q EXCEPT !.pc = "commit"]
  <2>1. rec.op = q.op /\ rec.todo = q.todo /\ rec.kills = q.kills
    BY <1>1 DEF Request
  <2>2. request' = [request EXCEPT ![r] = rec] /\ UNCHANGED data
    BY <1>8 DEF SendMail
  <2> HIDE DEF rec
  <2> QED  BY <1>1, <1>2, <2>1, <2>2
<1>9. CASE RaiseUnauthorized(r) \/ AbortDeadlocked(r) \/ Abandon(r)
  <2>1. request' = [request EXCEPT ![r] = NoRequest] /\ UNCHANGED data
    BY <1>9 DEF RaiseUnauthorized, AbortDeadlocked, Abandon, Private
  <2>2. NoRequest.op = "none" /\ NoRequest.todo = {} /\ NoRequest.kills = {}
    BY DEF NoRequest
  <2> QED  BY <1>2, <2>1, <2>2
<1> QED  BY <1>3, <1>4, <1>5, <1>6, <1>7, <1>8, <1>9

LEMMA RoomInv == Spec => []RoomLeft
<1>1. Init => RoomLeft
  <2> SUFFICES ASSUME Init PROVE RoomLeft
    OBVIOUS
  <2>1. \A r \in Requests : request[r] = NoRequest
    BY DEF Init
  <2>2. Asking("login") = {} /\ Asking("mint") = {}
    BY <2>1 DEF Asking, NoRequest
  <2>3. Cardinality({}) = 0
    BY FS_EmptySet
  <2> QED  BY <2>1, <2>2, <2>3, Finite DEF RoomLeft, NoRequest
<1>2. Inv /\ RoomLeft /\ [Next]_vars => RoomLeft'
  <2> SUFFICES ASSUME Inv, RoomLeft, [Next]_vars PROVE RoomLeft'
    OBVIOUS
  <2>1. ASSUME NEW r \in Requests, Continue(r) PROVE RoomLeft'
    BY <2>1, ContinueKeepsRoom, CommitKeepsRoom DEF Continue
  <2>2. CASE UNCHANGED vars
    BY <2>2 DEF vars, data, RoomLeft, Asking, NewSessions, NewKeys, State
  <2> QED
    BY <2>1, <2>2, BeginKeepsRoom, ContinueKeepsRoom, ExpiryKeepsRoom DEF Next
<1> QED  BY <1>1, <1>2, InvIsInvariant, PTL DEF Spec

\* What Continue asks for, in each stage.
MayGoOn(r) ==
  LET q == request[r]
  IN \/ q.pc \in {"touch", "token", "user"} /\ \A x \in Needs(r) : Free(r, x)
     \/ q.pc = "rows" /\ (q.todo = {} \/ \E x \in q.todo \ {Account} : Free(r, x))
     \/ q.pc \in {"mail", "raise"}
     \/ q.pc = "commit" /\ Insertable(q) \cap (Rows \cup {None}) # {}

\* Of requests that wait for nobody but each other one can go on, unless all of
\* them are stuck and some locked rows out of order.
NobodyWaitsInVain ==
  \A crowd \in SUBSET {r \in Requests : request[r].pc # "idle"} :
    crowd # {} /\ (\A r \in crowd : WaitsFor(r) \subseteq crowd) =>
      (\E r \in crowd : MayGoOn(r)) \/ (Stuck(crowd) /\ OutOfOrder(crowd))

\* The stages a request has still to pass, at most.
StagesLeft(pc) == CASE pc = "idle"              -> 0
                    [] pc \in {"commit", "raise"} -> 1
                    [] pc = "mail"              -> 2
                    [] pc = "rows"              -> 3
                    [] pc = "user"              -> 4
                    [] OTHER                    -> 5

StepsLeft(q) == StagesLeft(q.pc) * (Cardinality(Rows) + 1) + Cardinality(q.todo)

\* A step that a request makes leaves it less to do, and nothing else gives it
\* more.
EachStepIsProgress ==
  [][\A r \in Requests :
       Continue(r) \/ (request[r].pc # "idle" /\ request'[r] # request[r]) =>
         StepsLeft(request'[r]) < StepsLeft(request[r])]_vars

LEMMA CountedSteps ==
  ASSUME NEW p \in Request, NEW q \in Request
  PROVE  /\ IsFiniteSet(p.todo)
         /\ StepsLeft(p) \in Nat
         /\ StagesLeft(p.pc) < StagesLeft(q.pc) => StepsLeft(p) < StepsLeft(q)
<1> DEFINE n == Cardinality(Rows) + 1
           a == StagesLeft(p.pc)  b == StagesLeft(q.pc)
           c == Cardinality(p.todo)  d == Cardinality(q.todo)
<1>1. p.todo \subseteq Rows /\ q.todo \subseteq Rows
  BY DEF Request
<1>2. IsFiniteSet(p.todo) /\ n \in Nat /\ c \in 0..(n - 1) /\ d \in Nat
  BY <1>1, FiniteAssumption, FS_Subset, FS_CardinalityType
<1>3. a \in 0..5 /\ b \in 0..5
  BY DEF StagesLeft
<1>4. StepsLeft(p) = a * n + c /\ StepsLeft(q) = b * n + d
  BY DEF StepsLeft
<1> HIDE DEF n, a, b, c, d
<1>5. a * n \in Nat /\ b * n \in Nat
  BY <1>2, <1>3
<1>6. a < b => a * n + n <= b * n
  <2> SUFFICES ASSUME a < b PROVE a * n + n <= b * n
    OBVIOUS
  <2>1. a * n + n = (a + 1) * n
    BY <1>2, <1>3
  <2>2. ASSUME NEW x \in 0..6, NEW y \in 0..6, x <= y PROVE x * n <= y * n
    BY <1>2, <2>2
  <2> QED  BY <1>2, <1>3, <2>1, <2>2
<1> QED  BY <1>2, <1>4, <1>5, <1>6 DEF a, b

LEMMA ContinueIsProgress ==
  ASSUME Inv, NEW r \in Requests, Continue(r)
  PROVE  StepsLeft(request'[r]) < StepsLeft(request[r])
<1> DEFINE q == request[r]
           p == request'[r]
<1>0. /\ q \in Request /\ StageOK(q) /\ request \in [Requests -> Request]
      /\ p \in Request
  <2>1. Inv'
    BY StepKeepsInv DEF Next
  <2> QED  BY <2>1 DEF Inv, RequestOK, TypeOK
<1>1. SUFFICES \/ StagesLeft(p.pc) < StagesLeft(q.pc)
               \/ p.pc = q.pc /\ \E x \in q.todo : p.todo = q.todo \ {x}
  <2>1. ASSUME p.pc = q.pc, NEW x \in q.todo, p.todo = q.todo \ {x}
        PROVE  StepsLeft(p) < StepsLeft(q)
    <3>1. IsFiniteSet(q.todo) /\ IsFiniteSet(p.todo)
      BY <1>0, CountedSteps
    <3>2. Cardinality(p.todo) = Cardinality(q.todo) - 1
          /\ Cardinality(p.todo) \in Nat /\ Cardinality(q.todo) \in Nat
      BY <2>1, <3>1, FS_RemoveElement, FS_CardinalityType
    <3>3. StagesLeft(q.pc) * (Cardinality(Rows) + 1) \in Nat
      BY FiniteAssumption, FS_CardinalityType DEF StagesLeft
    <3> QED  BY <2>1, <3>2, <3>3 DEF StepsLeft
  <2> QED  BY <1>0, <2>1, CountedSteps
<1>2. CASE Touch(r)
  <2>1. q.pc = "touch" /\ p.pc = Inside(q.op)
    BY <1>0, <1>2 DEF Touch, Private, Request
  <2> QED  BY <2>1 DEF Inside, StagesLeft
<1>3. CASE FlushToken(r)
  <2>1. q.pc = "token" /\ p.pc \in {"commit", "user"}
    BY <1>0, <1>3 DEF FlushToken, Private, Request
  <2> QED  BY <2>1 DEF StagesLeft
<1>4. CASE FlushUser(r)
  <2>1. q.pc = "user" /\ p.pc \in {"rows", "raise", "commit"}
    BY <1>0, <1>4 DEF FlushUser, Private, Request
  <2> QED  BY <2>1 DEF StagesLeft
<1>5. ASSUME NEW x \in Rows \ {Account}, LockRow(r, x)
      PROVE  p.pc = q.pc /\ x \in q.todo /\ p.todo = q.todo \ {x}
  <2>1. x \in q.todo /\ Private(r, IF q.op = "revoke" \/ State(x) = "live"
          THEN [q EXCEPT !.todo = @ \ {x}, !.locks = @ \cup {x}, !.kills = @ \cup {x}]
          ELSE [q EXCEPT !.todo = @ \ {x}])
    BY <1>5 DEF LockRow
  <2>2. CASE q.op = "revoke" \/ State(x) = "live"
    BY <1>0, <2>1, <2>2 DEF Private, Request
  <2>3. CASE ~(q.op = "revoke" \/ State(x) = "live")
    BY <1>0, <2>1, <2>3 DEF Private, Request
  <2> QED  BY <2>1, <2>2, <2>3
<1>6. CASE UpdateDone(r)
  <2>1. q.pc = "rows" /\ p.pc \in {"mail", "commit"}
    BY <1>0, <1>6 DEF UpdateDone, Private, Request
  <2> QED  BY <2>1 DEF StagesLeft
<1>7. CASE SendMail(r)
  <2>1. q.pc = "mail" /\ p.pc = "commit"
    BY <1>0, <1>7 DEF SendMail, Request
  <2> QED  BY <2>1 DEF StagesLeft
<1>8. CASE RaiseUnauthorized(r) \/ \E new \in Rows \cup {None} : Commit(r, new)
  <2>1. q.pc \in {"raise", "commit"} /\ p.pc = "idle"
    BY <1>0, <1>8 DEF RaiseUnauthorized, Commit, NoRequest
  <2> QED  BY <2>1 DEF StagesLeft
<1> QED  BY <1>2, <1>3, <1>4, <1>5, <1>6, <1>7, <1>8 DEF Continue

\* Every request makes finitely many steps, whatever the others do: each one
\* leaves it less to do (get_db, the row locks of accounts/service.py).
THEOREM RequestsComeToAnEnd == Spec => EachStepIsProgress
<1>1. ASSUME Inv, [Next]_vars, NEW r \in Requests,
             Continue(r) \/ (request[r].pc # "idle" /\ request'[r] # request[r])
      PROVE  StepsLeft(request'[r]) < StepsLeft(request[r])
  <2>1. request[r] \in Request /\ request \in [Requests -> Request]
    BY <1>1 DEF Inv, TypeOK
  <2>2. ASSUME NEW o \in Requests, AbortDeadlocked(o) \/ Abandon(o), request[r].pc # "idle",
               request'[r] # request[r]
        PROVE  StepsLeft(request'[r]) < StepsLeft(request[r])
    <3>1. request' = [request EXCEPT ![o] = NoRequest]
      BY <2>2 DEF AbortDeadlocked, Abandon, Private
    <3>2. request'[r] = NoRequest
      BY <2>1, <2>2, <3>1
    <3>3. NoRequest \in Request /\ NoRequest.pc = "idle"
      BY IdleIsOK DEF NoRequest
    <3>4. StagesLeft("idle") < StagesLeft(request[r].pc)
      BY <2>2 DEF StagesLeft
    <3> QED  BY <2>1, <3>2, <3>3, <3>4, CountedSteps
  <2>3. ASSUME NEW o \in Requests, Begin(o), request[r].pc # "idle"
        PROVE  request'[r] = request[r]
    <3>1. request[o].pc = "idle" /\ \E rec : request' = [request EXCEPT ![o] = rec]
      BY <2>3
      DEF Begin, Login, ChangePassword, Logout, RevokeSession, RevokeApiToken,
          Revoke, MintApiToken, Visit, LetIn, ResetPassword, VerifyEmail,
          RequestMail, Arrive
    <3> QED  BY <2>1, <2>3, <3>1
  <2>4. ASSUME NEW o \in Requests, Continue(o), o # r
        PROVE  request'[r] = request[r]
    <3>1. \E rec : request' = [request EXCEPT ![o] = rec]
      BY <2>4
      DEF Continue, Touch, FlushToken, FlushUser, LockRow, UpdateDone, SendMail,
          Commit, RaiseUnauthorized, Private
    <3> QED  BY <2>1, <2>4, <3>1
  <2>5. ASSUME \/ \E s \in Sessions : ExpireSession(s)
               \/ \E k \in ApiTokens : ExpireApiToken(k)
               \/ \E t \in Tokens : ExpireToken(t)
               \/ UNCHANGED vars
        PROVE  request' = request
    BY <2>5 DEF ExpireSession, ExpireApiToken, ExpireToken, vars
  <2>6. CASE Continue(r)
    BY <1>1, <2>6, ContinueIsProgress
  <2>7. CASE ~Continue(r)
    BY <1>1, <2>2, <2>3, <2>4, <2>5, <2>7 DEF Next
  <2> QED  BY <2>6, <2>7
<1>2. Inv /\ [Next]_vars =>
        [\A r \in Requests :
           Continue(r) \/ (request[r].pc # "idle" /\ request'[r] # request[r]) =>
             StepsLeft(request'[r]) < StepsLeft(request[r])]_vars
  BY <1>1
<1> QED  BY <1>2, InvIsInvariant, PTL DEF Spec, EachStepIsProgress

\* Requests that wait for each other have locked rows out of order.
LEMMA StuckIsOutOfOrder ==
  ASSUME Inv, NEW circle \in SUBSET Requests, Stuck(circle)
  PROVE  OutOfOrder(circle)
<1> SUFFICES ASSUME ~OutOfOrder(circle) PROVE FALSE
  OBVIOUS
<1>1. /\ \A r \in circle : RequestOK(request[r]) /\ request[r].cred \notin request[r].locks
      /\ \A q, r \in circle : request[q].op = "mail" /\ request[r].op = "mail" => q = r
  BY DEF OutOfOrder, Inv
<1>2. ASSUME NEW r \in circle
      PROVE  /\ request[r].pc \in {"touch", "token", "user", "rows"}
             /\ request[r].pc = "rows" => request[r].todo # {}
             /\ \E h \in circle \ {r} : Needs(r) \cap request[h].locks # {}
  <2>1. PICK h \in circle : h \in WaitsFor(r)
    BY DEF Stuck
  <2>2. h # r /\ Needs(r) \cap request[h].locks # {}
    BY <2>1 DEF WaitsFor
  <2> QED  BY <2>2 DEF Needs
\* Who holds a credential that he has not touched holds the user's row or waits
\* for nothing.
<1>3. ASSUME NEW h \in circle, Account \notin request[h].locks
      PROVE  request[h].locks \cap Credentials = {}
  <2> SUFFICES ASSUME NEW x \in request[h].locks \cap Credentials PROVE FALSE
    OBVIOUS
  <2>1. request[h].op = "revoke" /\ request[h].todo = {}
    BY <1>1, <1>3 DEF RequestOK, Locking
  <2>2. request[h].pc \in {"rows", "commit"}
    BY <1>1, <2>1 DEF RequestOK, Locking
  <2> QED  BY <1>2, <2>1, <2>2
\* Who holds the user's row waits for a session.
<1>4. ASSUME NEW h \in circle PROVE Account \notin request[h].locks
  <2> SUFFICES ASSUME Account \in request[h].locks PROVE FALSE
    OBVIOUS
  <2>1. request[h].pc = "rows" /\ request[h].todo \subseteq Sessions
    BY <1>1, <1>2 DEF RequestOK, Locking
  <2>2. PICK o \in circle \ {h} : request[h].todo \cap request[o].locks # {}
    BY <1>2, <2>1 DEF Needs
  <2>3. request[o].locks \cap Credentials # {}
    BY <2>1, <2>2 DEF Credentials
  <2>4. Account \notin request[o].locks
    BY <2>2 DEF Inv, TypeOK
  <2> QED  BY <1>3, <2>2, <2>3, <2>4
\* Who holds a token sends mail: the others that do wait for the user's row or
\* hold it.
<1>5. ASSUME NEW h \in circle, request[h].locks \cap Tokens # {}
      PROVE  request[h].op = "mail" /\ request[h].pc = "rows"
  <2>1. request[h].op \in {"reset", "verify", "mail"} /\ request[h].pc # "token"
    BY <1>1, <1>5 DEF RequestOK, Locking
  <2>2. request[h].pc # "user"
    BY <1>2, <1>4 DEF Needs
  <2>3. request[h].pc = "rows"
    BY <1>1, <1>2, <2>1, <2>2 DEF RequestOK, StageOK
  <2>4. request[h].op = "mail"
    BY <1>1, <1>4, <2>1, <2>3 DEF RequestOK, StageOK, Sweeping
  <2> QED  BY <2>3, <2>4
<1>6. PICK r \in circle : TRUE
  BY DEF Stuck
<1>7. PICK h \in circle \ {r} : Needs(r) \cap request[h].locks # {}
  BY <1>2
<1>8. request[h].locks \subseteq Rows
  BY <1>1, <1>7 DEF RequestOK, Request
<1>9. request[h].locks \cap Tokens # {}
  BY <1>3, <1>4, <1>7, <1>8 DEF Rows
<1>10. request[h].op = "mail" /\ request[h].pc = "rows" /\ request[h].todo \subseteq Tokens
  BY <1>1, <1>5, <1>7, <1>9 DEF RequestOK, Locking
<1>11. PICK o \in circle \ {h} : request[h].todo \cap request[o].locks # {}
  BY <1>2, <1>7, <1>10 DEF Needs
<1>12. request[o].op = "mail"
  BY <1>5, <1>10, <1>11
<1> QED  BY <1>1, <1>7, <1>10, <1>11, <1>12

\* Only a request that touched its credential first, or two that send mail, can
\* be part of a deadlock (touch_session, get_principal, issue_email_token).
THEOREM OrderedLocksAreSafe == Spec => []DeadlocksNeedATouch
<1>1. Inv => DeadlocksNeedATouch
  BY StuckIsOutOfOrder DEF DeadlocksNeedATouch
<1> QED  BY <1>1, InvIsInvariant, PTL

\* Requests stop each other only if some took their rows out of order: else
\* whoever waits waits in the end for one that can go on.
THEOREM WaitersAreServed == Spec => []NobodyWaitsInVain
<1>1. ASSUME Inv, RoomLeft,
             NEW crowd \in SUBSET {r \in Requests : request[r].pc # "idle"},
             crowd # {}, \A r \in crowd : WaitsFor(r) \subseteq crowd,
             \A r \in crowd : ~MayGoOn(r)
      PROVE  Stuck(crowd)
  <2>1. ASSUME NEW r \in crowd PROVE \E o \in Requests \ {r} : Needs(r) \cap request[o].locks # {}
    <3> DEFINE q == request[r]
    <3>0. q \in Request /\ StageOK(q) /\ q.pc # "idle" /\ ~MayGoOn(r) /\ q.todo \subseteq Rows \ {Account}
      BY <1>1 DEF Inv, RequestOK, RoomLeft
    <3>1. q.pc # "commit"
      <4> SUFFICES ASSUME q.pc = "commit" PROVE FALSE
        OBVIOUS
      <4>1. Insertable(q) \cap (Rows \cup {None}) = {}
        BY <3>0 DEF MayGoOn
      <4>2. CASE q.op = "login"
        <5>1. NewSessions = {}
          BY <4>1, <4>2 DEF Insertable, NewSessions, Rows, Credentials
        <5>2. r \in Asking("login")
          BY <4>2 DEF Asking
        <5> QED  BY <1>1, <5>1, <5>2, Finite, FS_EmptySet DEF RoomLeft
      <4>3. CASE q.op = "mint"
        <5>1. NewKeys = {}
          BY <4>1, <4>3 DEF Insertable, NewKeys, Rows, Credentials
        <5>2. r \in Asking("mint")
          BY <4>3 DEF Asking
        <5> QED  BY <1>1, <5>1, <5>2, Finite, FS_EmptySet DEF RoomLeft
      <4>4. CASE q.op = "mail"
        BY <3>0, <4>1, <4>4 DEF Insertable, StageOK, Rows
      <4>5. CASE q.op \notin {"login", "mint", "mail"}
        BY <4>1, <4>5 DEF Insertable
      <4> QED  BY <4>2, <4>3, <4>4, <4>5
    <3>2. q.pc \in {"touch", "token", "user", "rows"}
      BY <3>0, <3>1 DEF MayGoOn, Request
    <3>3. CASE q.pc = "rows"
      <4>1. q.todo # {} /\ \A x \in q.todo : ~Free(r, x)
        BY <3>0, <3>3 DEF MayGoOn
      <4>2. Needs(r) = q.todo
        BY <3>3 DEF Needs
      <4> QED  BY <4>1, <4>2 DEF Free
    <3>4. CASE q.pc # "rows"
      <4>1. \E x \in Needs(r) : ~Free(r, x)
        BY <3>0, <3>2, <3>4 DEF MayGoOn
      <4> QED  BY <4>1 DEF Free
    <3> QED  BY <3>3, <3>4
  <2>2. \A r \in crowd : WaitsFor(r) \cap crowd # {}
    BY <1>1, <2>1 DEF WaitsFor
  <2> QED  BY <1>1, <2>2 DEF Stuck
<1>2. ASSUME Inv, RoomLeft,
             NEW crowd \in SUBSET {r \in Requests : request[r].pc # "idle"},
             crowd # {}, \A r \in crowd : WaitsFor(r) \subseteq crowd,
             \A r \in crowd : ~MayGoOn(r)
      PROVE  Stuck(crowd) /\ OutOfOrder(crowd)
  <2>1. Stuck(crowd)
    BY <1>1, <1>2
  <2>2. crowd \in SUBSET Requests
    BY <1>2
  <2> QED  BY <1>2, <2>1, <2>2, StuckIsOutOfOrder
<1>3. ASSUME Inv, RoomLeft,
             NEW crowd \in SUBSET {r \in Requests : request[r].pc # "idle"},
             crowd # {}, \A r \in crowd : WaitsFor(r) \subseteq crowd
      PROVE  (\E r \in crowd : MayGoOn(r)) \/ (Stuck(crowd) /\ OutOfOrder(crowd))
  <2>1. CASE \E r \in crowd : MayGoOn(r)
    BY <2>1
  <2>2. CASE \A r \in crowd : ~MayGoOn(r)
    BY <1>2, <1>3, <2>2
  <2> QED  BY <2>1, <2>2
<1>4. Inv /\ RoomLeft => NobodyWaitsInVain
  BY <1>3 DEF NobodyWaitsInVain
<1> QED  BY <1>4, InvIsInvariant, RoomInv, PTL

=============================================================================
