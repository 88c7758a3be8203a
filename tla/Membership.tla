----------------------------- MODULE Membership -----------------------------
(***************************************************************************)
(* Who belongs to which nonprofit, with which role: signup, invitations,   *)
(* role changes and removals (accounts/service.py, api/auth.py), guarded   *)
(* by the scope and rank checks of api/deps.py.  Each request is one READ  *)
(* COMMITTED transaction.  It decides on rows that it read at different    *)
(* moments; an INSERT waits for an uncommitted one of the same unique key, *)
(* an UPDATE or DELETE for an uncommitted one of the same row.             *)
(***************************************************************************)
EXTENDS Naturals, FiniteSets

CONSTANTS Users,       \* e-mail addresses, with an account or not
          MaxTenants,  \* bound: nonprofits that sign up
          MaxRows,     \* bound: membership rows inserted, committed or not
          Requests,
          None

\* Every signup gives the same name, so that slugs collide: tenant n is the
\* one whose slug is the n-th candidate (base, base-2, ...).
Tenants == 1..MaxTenants

ASSUME MembershipAssumption ==
  /\ MaxTenants \in Nat /\ MaxRows \in Nat
  /\ None \notin Users /\ None \notin Tenants
  /\ None \notin [id : Nat, role : {"viewer", "member", "admin", "owner"}]

Roles == {"viewer", "member", "admin", "owner"}
Rank == [viewer |-> 10, member |-> 20, admin |-> 30, owner |-> 40]

VARIABLES
  users,    \* committed users rows
  tenants,  \* committed nonprofits rows
  member,   \* committed memberships rows, by their unique key
  lastId,   \* the sequence of memberships.id; a rollback does not return ids
  request,  \* requests in flight
  founder   \* observer: the account that signed each tenant up

vars == <<users, tenants, member, lastId, request, founder>>

Member == [id : Nat, role : Roles]

\* actor   the caller, and "as" its role when get_tenant_scope read it
\* target  the account acted on;  new: the role it is to get
\* made    it inserted the account of the target
\* id      the membership row it examined or inserted, 0 if none
Request == [op : {"none", "signup", "invite", "change", "remove"},
            pc : {"idle", "account", "slug", "tenant", "find", "check", "join",
                  "adopt", "target", "write", "commit"},
            actor : Users \cup {None}, as : Roles \cup {None},
            tenant : Tenants \cup {None}, target : Users \cup {None},
            new : Roles \cup {None}, made : BOOLEAN, id : Nat]

NoRequest == [op |-> "none", pc |-> "idle", actor |-> None, as |-> None,
              tenant |-> None, target |-> None, new |-> None,
              made |-> FALSE, id |-> 0]

Init ==
  /\ users = {} /\ tenants = {} /\ lastId = 0
  /\ member = [t \in Tenants |-> [u \in Users |-> None]]
  /\ request = [r \in Requests |-> NoRequest]
  /\ founder = [t \in Tenants |-> None]

-----------------------------------------------------------------------------
(* Guards *)

\* ensure_can_manage: only a role strictly below one's own is given.
\* Faulty variant of CanAssign: one's own role, too.
CanAssignOwn(as, role) == Rank[role] <= Rank[as]

CanAssign(as, role) == Rank[role] < Rank[as]

\* assert_outranks: only a member of strictly lower rank is acted on.
Outranks(as, role) == Rank[as] > Rank[role]

IsAdmin(t, u) == member[t][u] # None /\ Rank[member[t][u].role] >= Rank["admin"]

Owners(t) ==
  {u \in Users : member[t][u] # None /\ member[t][u].role = "owner"}

\* The membership row that request q examined is still there.
\* Faulty variant of StillThere: any membership of that user will do.
AnyIsThere(q) == member[q.tenant][q.target] # None

StillThere(q) ==
  member[q.tenant][q.target] # None /\ member[q.tenant][q.target].id = q.id

\* Keys and rows that uncommitted writes hold.
HoldsAccount(r, u) == request[r].made /\ request[r].target = u

HoldsTenant(r, t) ==
  request[r].op = "signup" /\ request[r].pc \in {"join", "commit"} /\ request[r].tenant = t

HoldsMember(r, t, u) ==
  /\ request[r].pc = "commit" /\ request[r].id # 0
  /\ request[r].tenant = t /\ request[r].target = u

\* The requests that r's next statement has to wait for.
\* Faulty variant of WaitsFor: the handler has a session of its own beside the
\* one of its dependencies (the hazard of api/deps.py:60), so that its INSERT
\* waits for the account that its own request inserted.
WaitsForOwnSession(r) ==
  LET q == request[r]
  IN  {o \in Requests :
         \/ q.pc \in {"account", "join"} /\ HoldsAccount(o, q.target)
         \/ q.pc = "tenant" /\ o # r /\ HoldsTenant(o, q.tenant)
         \/ q.pc \in {"join", "write"} /\ HoldsMember(o, q.tenant, q.target)}

WaitsFor(r) ==
  LET q == request[r]
  IN  {o \in Requests \ {r} :
         \/ q.pc = "account" /\ HoldsAccount(o, q.target)
         \/ q.pc = "tenant" /\ HoldsTenant(o, q.tenant)
         \/ q.pc \in {"join", "write"} /\ HoldsMember(o, q.tenant, q.target)}

Joining == {r \in Requests : request[r].op \in {"signup", "invite"}
                             /\ request[r].pc \notin {"idle", "commit"}}

RoomForRow == lastId + Cardinality(Joining) < MaxRows

-----------------------------------------------------------------------------
(* Steps of a request that write nothing others can see *)

Step(r, record) ==
  /\ request' = [request EXCEPT ![r] = record]
  /\ UNCHANGED <<users, tenants, member, lastId, founder>>

\* An HTTPException, an IntegrityError nobody handles, or a crash: rollback.
\* Faulty variant of Abort: create_user has committed the account.
AbortKeepingAccount(r) ==
  /\ users' = IF request[r].made THEN users \cup {request[r].target} ELSE users
  /\ request' = [request EXCEPT ![r] = NoRequest]
  /\ UNCHANGED <<tenants, member, lastId, founder>>

Abort(r) == Step(r, NoRequest)

Signup(r, u) ==
  /\ request[r].pc = "idle" /\ u \notin users
  /\ RoomForRow /\ tenants # Tenants
  /\ Step(r, [NoRequest EXCEPT !.op = "signup", !.pc = "account",
                               !.target = u, !.new = "owner"])

\* get_tenant_scope, has_role(ROLE_ADMIN), ensure_can_manage.
Invite(r, actor, t, u, role) ==
  /\ request[r].pc = "idle" /\ IsAdmin(t, actor)
  /\ CanAssign(member[t][actor].role, role) /\ RoomForRow
  /\ Step(r, [NoRequest EXCEPT !.op = "invite", !.pc = "find", !.actor = actor,
                               !.as = member[t][actor].role, !.tenant = t,
                               !.target = u, !.new = role])

ChangeRole(r, actor, t, u, role) ==
  /\ request[r].pc = "idle" /\ IsAdmin(t, actor) /\ u # actor
  /\ Step(r, [NoRequest EXCEPT !.op = "change", !.pc = "target", !.actor = actor,
                               !.as = member[t][actor].role, !.tenant = t,
                               !.target = u, !.new = role])

Remove(r, actor, t, u) ==
  /\ request[r].pc = "idle" /\ IsAdmin(t, actor) /\ u # actor
  /\ Step(r, [NoRequest EXCEPT !.op = "remove", !.pc = "target", !.actor = actor,
                               !.as = member[t][actor].role, !.tenant = t,
                               !.target = u])

\* invite_member looks the address up.
FindAccount(r) ==
  /\ request[r].pc = "find"
  /\ Step(r, [request[r] EXCEPT !.pc =
                IF request[r].target \in users THEN "check" ELSE "account"])

\* create_user: the unique index decides between two that saw no account.
InsertAccount(r) ==
  /\ request[r].pc = "account" /\ WaitsFor(r) = {}
  /\ IF request[r].target \in users
     THEN Abort(r)
     ELSE Step(r, [request[r] EXCEPT !.made = TRUE, !.pc =
                     IF request[r].op = "signup" THEN "slug" ELSE "join"])

\* create_nonprofit takes the first slug it sees free ...
\* Faulty variant of FirstFree: the counter starts one too low.
OneTooLow == Cardinality(tenants)

FirstFree == CHOOSE t \in Tenants \ tenants : \A o \in Tenants \ tenants : t <= o

PickSlug(r) ==
  /\ request[r].pc = "slug" /\ tenants # Tenants
  /\ Step(r, [request[r] EXCEPT !.tenant = FirstFree, !.pc = "tenant"])

\* (bound: the instance has no slug left)
OutOfSlugs(r) == request[r].pc = "slug" /\ tenants = Tenants /\ Abort(r)

\* ... and inserts; it does not handle the IntegrityError of the loser.
InsertTenant(r) ==
  /\ request[r].pc = "tenant"
  /\ WaitsFor(r) = {}
  /\ IF request[r].tenant \in tenants
     THEN Abort(r)
     ELSE Step(r, [request[r] EXCEPT !.pc = "join"])

\* 409 for a member.  add_membership looks again: a row that came between is
\* taken as it is, like the one its INSERT runs into (Adopt).
CheckMember(r) ==
  /\ request[r].pc = "check"
  /\ IF member[request[r].tenant][request[r].target] # None
     THEN Abort(r)
     ELSE Step(r, [request[r] EXCEPT !.pc = "join"])

\* add_membership: the loser of a race rolls everything back ...
InsertMember(r) ==
  /\ request[r].pc = "join"
  /\ WaitsFor(r) = {}
  /\ IF member[request[r].tenant][request[r].target] = None
     THEN /\ lastId' = lastId + 1
          /\ request' = [request EXCEPT ![r].id = lastId + 1, ![r].pc = "commit"]
          /\ UNCHANGED <<users, tenants, member, founder>>
     ELSE Step(r, [request[r] EXCEPT !.made = FALSE, !.pc = "adopt"])

\* Faulty variant of Adopt: the winner's row gets the role of this invitation.
AdoptWithRole(r) ==
  LET row == member[request[r].tenant][request[r].target]
  IN  /\ request[r].pc = "adopt"
      /\ IF row # None
         THEN Step(r, [request[r] EXCEPT !.pc = "commit", !.id = row.id])
         ELSE Abort(r)

\* ... and goes on with the winner's row, unless that is gone again.
Adopt(r) ==
  /\ request[r].pc = "adopt"
  /\ IF member[request[r].tenant][request[r].target] # None
     THEN Step(r, [request[r] EXCEPT !.pc = "commit"])
     ELSE Abort(r)

LastOwner(t, u, op, new) ==
  /\ member[t][u].role = "owner" /\ (op = "remove" \/ new # "owner")
  /\ Cardinality(Owners(t)) <= 1

Allowed(q) ==
  LET row == member[q.tenant][q.target]
  IN  /\ row # None /\ Outranks(q.as, row.role)
      /\ q.op = "change" => CanAssign(q.as, q.new)
      /\ ~LastOwner(q.tenant, q.target, q.op, q.new)

\* change_member_role, remove_member: 404, assert_outranks, ensure_can_manage,
\* the last owner.  The role a member has already is not written.
ReadTarget(r) ==
  LET q == request[r]
  IN  /\ q.pc = "target"
      /\ IF ~Allowed(q)
         THEN Abort(r)
         ELSE Step(r, IF q.op = "change" /\ member[q.tenant][q.target].role = q.new
                      THEN [q EXCEPT !.pc = "commit"]
                      ELSE [q EXCEPT !.pc = "write",
                                     !.id = member[q.tenant][q.target].id])

\* UPDATE or DELETE ... WHERE id = :id.  An UPDATE that finds no row is an
\* error to the ORM, a DELETE that finds none is not.
WriteTarget(r) ==
  LET q == request[r]
  IN  /\ q.pc = "write"
      /\ WaitsFor(r) = {}
      /\ IF StillThere(q) THEN Step(r, [q EXCEPT !.pc = "commit"])
         ELSE IF q.op = "change" THEN Abort(r)
         ELSE Step(r, [q EXCEPT !.pc = "commit", !.id = 0])

-----------------------------------------------------------------------------
(* get_db commits what the request flushed *)

\* The row the request leaves for its target.
RowAfter(q) ==
  IF q.id = 0 THEN member[q.tenant][q.target]
  ELSE IF q.op = "remove" THEN None
  ELSE [id |-> q.id, role |-> q.new]

Commit(r) ==
  LET q == request[r]
  IN  /\ q.pc = "commit"
      /\ users' = IF q.made THEN users \cup {q.target} ELSE users
      /\ tenants' = IF q.op = "signup" THEN tenants \cup {q.tenant} ELSE tenants
      /\ founder' = IF q.op = "signup"
                    THEN [founder EXCEPT ![q.tenant] = q.target] ELSE founder
      /\ member' = [member EXCEPT ![q.tenant][q.target] = RowAfter(q)]
      /\ request' = [request EXCEPT ![r] = NoRequest]
      /\ UNCHANGED lastId

\* A failure of a later statement or of the process.
Fail(r) == request[r].pc # "idle" /\ Abort(r)

-----------------------------------------------------------------------------

Proceed(r) ==
  \/ FindAccount(r) \/ InsertAccount(r)
  \/ PickSlug(r) \/ OutOfSlugs(r) \/ InsertTenant(r)
  \/ CheckMember(r) \/ InsertMember(r) \/ Adopt(r)
  \/ ReadTarget(r) \/ WriteTarget(r) \/ Commit(r)

Arrive(r) ==
  \/ \E u \in Users : Signup(r, u)
  \/ \E actor, u \in Users, t \in Tenants :
       \/ Remove(r, actor, t, u)
       \/ \E role \in Roles : \/ Invite(r, actor, t, u, role)
                              \/ ChangeRole(r, actor, t, u, role)

Next == \E r \in Requests : Arrive(r) \/ Proceed(r) \/ Fail(r)

Spec == Init /\ [][Next]_vars

-----------------------------------------------------------------------------
(* Properties *)

\* Every variable keeps to the values its table or request can have.
TypeOK ==
  /\ users \subseteq Users /\ tenants \subseteq Tenants
  /\ member \in [Tenants -> [Users -> Member \cup {None}]]
  /\ lastId \in Nat
  /\ request \in [Requests -> Request]
  /\ founder \in [Tenants -> Users \cup {None}]

\* Whatever is invited, promoted, demoted or removed at once, the account that
\* signed a nonprofit up is its owner for good, and no other ever is: nobody
\* can be locked out of a tenant, nor anybody become its second owner.
FounderIsOnlyOwner ==
  \A t \in tenants : Owners(t) = {founder[t]}

\* An account appears together with a membership, and a nonprofit together
\* with its owner: no failure, lost race or rollback on the way leaves an
\* account without a tenant or a tenant without an owner (signup's docstring;
\* the rollback inside add_membership must not drop a new account either).
BornWhole ==
  [][/\ \A u \in users' \ users : \E t \in Tenants : member'[t][u] # None
     /\ \A t \in tenants' \ tenants : \E u \in users' :
          member'[t][u] # None /\ member'[t][u].role = "owner"]_vars

Finishes(r) == request[r].pc = "commit" /\ request'[r].pc = "idle"

Changes(t, u) == member'[t][u] # member[t][u]

\* A role change or removal acts on the membership it checked the rank of, and
\* never on one that the same person was given after being removed.
ActsOnWhatItRead ==
  [][\A r \in Requests, t \in Tenants, u \in Users :
       Finishes(r) /\ request[r].op \in {"change", "remove"} /\ Changes(t, u)
       => member[t][u] # None /\ member[t][u].id = request[r].id]_vars

\* An invitation or a signup only ever adds a membership: one that lost a race
\* leaves the role of the winner as it is ("Lost a race with a concurrent
\* invite; the row now exists"), and is no way around the rank checks of a role
\* change.
InvitesOnlyAdd ==
  [][\A r \in Requests, t \in Tenants, u \in Users :
       Finishes(r) /\ request[r].op \in {"signup", "invite"} /\ Changes(t, u)
       => member[t][u] = None]_vars

\* Only the owner ever makes an admin, though roles are read long before they
\* are written: an admin who is demoted meanwhile cannot leave another behind.
AdminsComeFromTheOwner ==
  [][\A r \in Requests, t \in Tenants, u \in Users :
       /\ Finishes(r) /\ Changes(t, u)
       /\ member'[t][u] # None /\ member'[t][u].role = "admin"
       => request[r].actor = founder[t]]_vars

\* However requests interleave, one of them can go on: accounts, slugs and
\* memberships are inserted in one order, and nobody waits for a request that
\* waits for a row of the same kind.
WaitsEnd ==
  LET InFlight == {r \in Requests : request[r].pc # "idle"}
  IN  InFlight # {} => \E r \in InFlight : WaitsFor(r) = {}
=============================================================================
