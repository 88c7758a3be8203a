-------------------------- MODULE MembershipProofs --------------------------
(***************************************************************************)
(* Theorems about Membership, for any users and requests, any number of    *)
(* nonprofits and of rows.                                                 *)
(***************************************************************************)
EXTENDS Membership, FiniteSetTheorems, WellFoundedInduction, TLAPS

-----------------------------------------------------------------------------
(* Ranks *)

LEMMA RankFacts ==
  ASSUME NEW as \in Roles, NEW role \in Roles
  PROVE  /\ CanAssign(as, role) => role # "owner"
         /\ CanAssign(as, "admin") => as = "owner"
         /\ Outranks(as, role) => role # "owner"
<1>1. /\ Rank["viewer"] = 10 /\ Rank["member"] = 20
      /\ Rank["admin"] = 30 /\ Rank["owner"] = 40
  BY DEF Rank
<1>2. ASSUME NEW x \in Roles
      PROVE  Rank[x] \in Nat /\ Rank[x] <= 40 /\ (x # "owner" => Rank[x] <= 30)
  <2>1. x = "viewer" \/ x = "member" \/ x = "admin" \/ x = "owner"
    BY DEF Roles
  <2>2. CASE x = "viewer"
    BY <1>1, <2>2
  <2>3. CASE x = "member"
    BY <1>1, <2>3
  <2>4. CASE x = "admin"
    BY <1>1, <2>4
  <2>5. CASE x = "owner"
    BY <1>1, <2>5
  <2> QED  BY <2>1, <2>2, <2>3, <2>4, <2>5
<1>3. /\ Rank[as] \in Nat /\ Rank[as] <= 40 /\ (as # "owner" => Rank[as] <= 30)
      /\ Rank[role] \in Nat
  BY <1>2
<1> DEFINE a == Rank[as]
           b == Rank[role]
<1>4. /\ CanAssign(as, role) => b < a
      /\ Outranks(as, role) => b < a
      /\ CanAssign(as, "admin") => 30 < a
      /\ role = "owner" => b = 40
      /\ a \in Nat /\ b \in Nat /\ a <= 40 /\ (as # "owner" => a <= 30)
  <2>1. CanAssign(as, role) => b < a
    BY DEF CanAssign
  <2>2. Outranks(as, role) => b < a
    BY <1>3 DEF Outranks
  <2>3. CanAssign(as, "admin") => 30 < a
    BY <1>1 DEF CanAssign
  <2>4. ASSUME role = "owner" PROVE b = 40
    BY <1>1, <2>4
  <2>5. a \in Nat /\ b \in Nat /\ a <= 40 /\ (as # "owner" => a <= 30)
    BY <1>3
  <2> HIDE DEF a, b
  <2> QED  BY <2>1, <2>2, <2>3, <2>4, <2>5
<1> HIDE DEF a, b
<1>5. ASSUME b < a PROVE role # "owner"
  <2> SUFFICES ASSUME role = "owner" PROVE FALSE
    OBVIOUS
  <2>1. a \in Nat /\ b = 40 /\ a <= 40
    BY <1>4
  <2> QED  BY <1>5, <2>1
<1>6. ASSUME 30 < a PROVE as = "owner"
  <2> SUFFICES ASSUME as # "owner" PROVE FALSE
    OBVIOUS
  <2>1. a \in Nat /\ a <= 30
    BY <1>4
  <2> QED  BY <1>6, <2>1
<1> QED  BY <1>4, <1>5, <1>6

-----------------------------------------------------------------------------
(* The inductive invariant *)

\* What a request of one of the four operations has found and made so far.
SignupOK(q) ==
  /\ q.pc \in {"account", "slug", "tenant", "join", "commit"}
  /\ q.target \in Users /\ q.new = "owner"
  /\ q.pc \in {"tenant", "join", "commit"} => q.tenant \in Tenants
  /\ q.pc # "account" => q.made
  /\ q.pc \in {"join", "commit"} => q.tenant \notin tenants
  /\ q.pc = "commit" => q.id # 0

\* The caller of the others: an owner is the founder.
ActorOK(q) ==
  /\ q.actor \in Users /\ q.as \in Roles
  /\ q.target \in Users /\ q.tenant \in tenants
  /\ q.as = "owner" => q.actor = founder[q.tenant]

InviteOK(q) ==
  /\ q.pc \in {"find", "account", "check", "join", "adopt", "commit"}
  /\ ActorOK(q)
  /\ q.new \in Roles /\ CanAssign(q.as, q.new)
  /\ q.pc = "commit" /\ q.id # 0 => q.target # founder[q.tenant]

ActOK(q) ==
  /\ q.pc \in {"target", "write", "commit"}
  /\ ActorOK(q)
  /\ q.op = "change" => q.new \in Roles
  /\ q.pc \in {"write", "commit"} =>
       /\ q.target # founder[q.tenant]
       /\ q.op = "change" => CanAssign(q.as, q.new)
  /\ q.pc = "commit" /\ q.id # 0 => StillThere(q)

ReqOK(q) ==
  /\ q.op = "none" => q.pc = "idle"
  /\ q.op = "signup" => SignupOK(q)
  /\ q.op = "invite" => InviteOK(q)
  /\ q.op \in {"change", "remove"} => ActOK(q)
  /\ q.made => /\ q.op \in {"signup", "invite"}
               /\ q.pc \in {"slug", "tenant", "join", "commit"}
               /\ q.pc = "commit" => q.id # 0
  /\ q.pc \notin {"write", "commit"} => q.id = 0

\* A tenant that does not exist has no members; one that does has one owner.
TenantsOK ==
  /\ \A t \in Tenants \ tenants : \A u \in Users : member[t][u] = None
  /\ \A t \in tenants : /\ founder[t] \in Users
                        /\ \A u \in Users : (member[t][u] # None /\ member[t][u].role = "owner")
                                              <=> u = founder[t]

\* Uncommitted rows have one writer each.
Exclusive ==
  \A r, o \in Requests :
    /\ \A t \in Tenants : HoldsTenant(r, t) /\ HoldsTenant(o, t) => r = o
    /\ \A t \in Tenants, u \in Users : HoldsMember(r, t, u) /\ HoldsMember(o, t, u) => r = o

Inv == TypeOK /\ TenantsOK /\ Exclusive /\ \A r \in Requests : ReqOK(request[r])

LEMMA NoRequestOK == NoRequest \in Request /\ ReqOK(NoRequest)
  BY DEF NoRequest, Request, ReqOK

LEMMA InitInv == Init => Inv
<1> SUFFICES ASSUME Init PROVE Inv
  OBVIOUS
<1>1. TypeOK
  BY NoRequestOK DEF Init, TypeOK
<1>2. TenantsOK
  BY DEF Init, TenantsOK
<1>3. Exclusive
  BY DEF Init, NoRequest, Exclusive, HoldsTenant, HoldsMember
<1> QED  BY <1>1, <1>2, <1>3, NoRequestOK DEF Init, Inv

\* A step that changes one request's record, and no committed row.
LEMMA RecordKept ==
  ASSUME Inv, NEW r \in Requests, NEW q \in Request, ReqOK(q),
         request' = [request EXCEPT ![r] = q], lastId' \in Nat,
         UNCHANGED <<users, tenants, member, founder>>,
         q.op = "signup" /\ q.pc \in {"join", "commit"} =>
           \A o \in Requests \ {r} : ~HoldsTenant(o, q.tenant),
         q.pc = "commit" /\ q.id # 0 =>
           \A o \in Requests \ {r} : ~HoldsMember(o, q.tenant, q.target)
  PROVE  Inv'
<1>1. request'[r] = q /\ \A o \in Requests \ {r} : request'[o] = request[o]
  BY DEF Inv, TypeOK
<1>2. TypeOK'
  BY DEF Inv, TypeOK
<1>3. TenantsOK'
  BY DEF Inv, TenantsOK
<1>4. \A o \in Requests : ReqOK(request'[o])
  BY <1>1 DEF Inv
<1>5. \A o \in Requests : ReqOK(request[o])'
  BY <1>4 DEF ReqOK, SignupOK, InviteOK, ActOK, ActorOK, StillThere
<1>6. Exclusive'
  BY <1>1 DEF Inv, Exclusive, HoldsTenant, HoldsMember
<1> QED  BY <1>2, <1>3, <1>5, <1>6 DEF Inv

LEMMA StepKept ==
  ASSUME Inv, NEW r \in Requests, NEW q \in Request, ReqOK(q), Step(r, q),
         q.op = "signup" /\ q.pc \in {"join", "commit"} =>
           \A o \in Requests \ {r} : ~HoldsTenant(o, q.tenant),
         q.pc = "commit" /\ q.id # 0 =>
           \A o \in Requests \ {r} : ~HoldsMember(o, q.tenant, q.target)
  PROVE  Inv'
<1>1. lastId' \in Nat /\ request' = [request EXCEPT ![r] = q]
      /\ UNCHANGED <<users, tenants, member, founder>>
  BY DEF Step, Inv, TypeOK
<1> QED  BY <1>1, RecordKept

LEMMA AbortKept == ASSUME Inv, NEW r \in Requests, Abort(r) PROVE Inv'
<1>1. NoRequest.op = "none" /\ NoRequest.pc = "idle"
  BY DEF NoRequest
<1> QED  BY <1>1, NoRequestOK, StepKept DEF Abort

-----------------------------------------------------------------------------
(* Arrivals *)

\* A caller who is admin of a tenant is its member, and as owner its founder.
LEMMA CallerOK ==
  ASSUME Inv, NEW t \in Tenants, NEW actor \in Users, IsAdmin(t, actor)
  PROVE  /\ t \in tenants /\ member[t][actor].role \in Roles
         /\ member[t][actor].role = "owner" => actor = founder[t]
<1>1. member[t][actor] # None /\ member[t][actor] \in Member \cup {None}
  BY DEF IsAdmin, Inv, TypeOK
<1>2. t \in tenants
  BY <1>1 DEF Inv, TenantsOK
<1> QED  BY <1>1, <1>2 DEF Member, Inv, TenantsOK

LEMMA ArriveInv == ASSUME Inv, NEW r \in Requests, Arrive(r) PROVE Inv'
<1>1. ASSUME NEW u \in Users, Signup(r, u) PROVE Inv'
  <2> DEFINE q == [NoRequest EXCEPT !.op = "signup", !.pc = "account",
                                    !.target = u, !.new = "owner"]
  <2>1. q \in Request /\ ReqOK(q) /\ q.pc = "account"
    BY DEF NoRequest, Request, Roles, ReqOK, SignupOK
  <2>2. Step(r, q)
    BY <1>1 DEF Signup
  <2> HIDE DEF q
  <2> QED  BY <2>1, <2>2, StepKept
<1>2. ASSUME NEW actor \in Users, NEW u \in Users, NEW t \in Tenants, Remove(r, actor, t, u)
      PROVE  Inv'
  <2> DEFINE q == [NoRequest EXCEPT !.op = "remove", !.pc = "target", !.actor = actor,
                               !.as = member[t][actor].role, !.tenant = t, !.target = u]
  <2>1. /\ t \in tenants /\ member[t][actor].role \in Roles
        /\ member[t][actor].role = "owner" => actor = founder[t]
    BY <1>2, CallerOK DEF Remove
  <2>2. q \in Request /\ ReqOK(q) /\ q.pc = "target"
    BY <2>1 DEF NoRequest, Request, ReqOK, ActOK, ActorOK
  <2>3. Step(r, q)
    BY <1>2 DEF Remove
  <2> HIDE DEF q
  <2> QED  BY <2>2, <2>3, StepKept
<1>3. ASSUME NEW actor \in Users, NEW u \in Users, NEW t \in Tenants, NEW role \in Roles,
             Invite(r, actor, t, u, role)
      PROVE  Inv'
  <2> DEFINE q == [NoRequest EXCEPT !.op = "invite", !.pc = "find", !.actor = actor,
                               !.as = member[t][actor].role, !.tenant = t,
                               !.target = u, !.new = role]
  <2>1. /\ t \in tenants /\ member[t][actor].role \in Roles
        /\ member[t][actor].role = "owner" => actor = founder[t]
    BY <1>3, CallerOK DEF Invite
  <2>2. CanAssign(member[t][actor].role, role)
    BY <1>3 DEF Invite
  <2>3. q \in Request /\ ReqOK(q) /\ q.pc = "find"
    BY <2>1, <2>2 DEF NoRequest, Request, ReqOK, InviteOK, ActorOK
  <2>4. Step(r, q)
    BY <1>3 DEF Invite
  <2> HIDE DEF q
  <2> QED  BY <2>3, <2>4, StepKept
<1>4. ASSUME NEW actor \in Users, NEW u \in Users, NEW t \in Tenants, NEW role \in Roles,
             ChangeRole(r, actor, t, u, role)
      PROVE  Inv'
  <2> DEFINE q == [NoRequest EXCEPT !.op = "change", !.pc = "target", !.actor = actor,
                               !.as = member[t][actor].role, !.tenant = t,
                               !.target = u, !.new = role]
  <2>1. /\ t \in tenants /\ member[t][actor].role \in Roles
        /\ member[t][actor].role = "owner" => actor = founder[t]
    BY <1>4, CallerOK DEF ChangeRole
  <2>2. q \in Request /\ ReqOK(q) /\ q.pc = "target"
    BY <2>1 DEF NoRequest, Request, ReqOK, ActOK, ActorOK
  <2>3. Step(r, q)
    BY <1>4 DEF ChangeRole
  <2> HIDE DEF q
  <2> QED  BY <2>2, <2>3, StepKept
<1> QED  BY <1>1, <1>2, <1>3, <1>4 DEF Arrive

-----------------------------------------------------------------------------
(* The steps of a request *)

LEMMA AccountsInv ==
  ASSUME Inv, NEW r \in Requests, FindAccount(r) \/ InsertAccount(r) \/ CheckMember(r)
  PROVE  Inv'
<1> DEFINE q == request[r]
<1>0. q \in Request /\ ReqOK(q)
  BY DEF Inv, TypeOK
<1>1. CASE FindAccount(r)
  <2> DEFINE pc == IF q.target \in users THEN "check" ELSE "account"
             n == [q EXCEPT !.pc = pc]
  <2>1. Step(r, n)
    BY <1>1 DEF FindAccount
  <2>2. q.op = "invite" /\ ~q.made /\ q.id = 0
    BY <1>0, <1>1 DEF FindAccount, Request, ReqOK, SignupOK, ActOK
  <2>3. pc \in {"check", "account"}
    OBVIOUS
  <2> HIDE DEF pc
  <2>4. n \in Request /\ n.pc = pc
    BY <1>0, <2>3 DEF Request
  <2>5. ReqOK(n)
    BY <1>0, <2>2, <2>3 DEF Request, ReqOK, InviteOK, ActorOK
  <2> HIDE DEF n
  <2> QED  BY <2>1, <2>3, <2>4, <2>5, StepKept
<1>2. CASE InsertAccount(r)
  <2> DEFINE pc == IF q.op = "signup" THEN "slug" ELSE "join"
             n == [q EXCEPT !.made = TRUE, !.pc = pc]
  <2>1. Abort(r) \/ Step(r, n)
    BY <1>2 DEF InsertAccount
  <2>2. q.op \in {"signup", "invite"} /\ q.pc = "account"
    BY <1>0, <1>2 DEF InsertAccount, Request, ReqOK, ActOK
  <2>3. CASE q.op = "signup"
    <3>1. n \in Request /\ n.pc = "slug"
      BY <1>0, <2>3 DEF Request
    <3>2. ReqOK(n)
      BY <1>0, <2>2, <2>3 DEF Request, ReqOK, SignupOK
    <3> HIDE DEF n
    <3> QED  BY <2>1, <3>1, <3>2, AbortKept, StepKept
  <2>4. CASE q.op = "invite"
    <3>1. n \in Request /\ n.pc = "join" /\ n.op = "invite"
      BY <1>0, <2>4 DEF Request
    <3>2. ReqOK(n)
      BY <1>0, <2>2, <2>4 DEF Request, ReqOK, InviteOK, ActorOK
    <3> HIDE DEF n
    <3> QED  BY <2>1, <3>1, <3>2, AbortKept, StepKept
  <2> QED  BY <2>2, <2>3, <2>4
<1>3. CASE CheckMember(r)
  <2> DEFINE n == [q EXCEPT !.pc = "join"]
  <2>1. Abort(r) \/ Step(r, n)
    BY <1>3 DEF CheckMember
  <2>2. q.op = "invite" /\ q.id = 0
    BY <1>0, <1>3 DEF CheckMember, Request, ReqOK, SignupOK, ActOK
  <2>3. n \in Request /\ n.pc = "join" /\ n.op = "invite"
    BY <1>0, <2>2 DEF Request
  <2>4. ReqOK(n)
    BY <1>0, <2>2 DEF Request, ReqOK, InviteOK, ActorOK
  <2> HIDE DEF n
  <2> QED  BY <2>1, <2>3, <2>4, AbortKept, StepKept
<1> QED  BY <1>1, <1>2, <1>3

\* The smallest free slug is a slug.
LEMMA FirstFreeType ==
  ASSUME Inv, tenants # Tenants
  PROVE  FirstFree \in Tenants \ tenants
<1> DEFINE S == Tenants \ tenants
<1>1. S \subseteq 1..MaxTenants /\ S # {}
  BY DEF Inv, TypeOK, Tenants
<1>2. PICK t \in S : \A o \in S : <<o, t>> \notin OpToRel(<, Nat)
  <2>1. S \subseteq Nat
    BY <1>1
  <2> HIDE DEF S
  <2> QED  BY <1>1, <2>1, NatLessThanWellFounded, WFMin
<1>3. ASSUME NEW x \in Nat, NEW y \in Nat, x < y
      PROVE  <<x, y>> \in OpToRel(<, Nat)
  <2>1. <<x, y>> \in Nat \X Nat /\ <<x, y>>[1] = x /\ <<x, y>>[2] = y
    OBVIOUS
  <2>2. <<x, y>>[1] < <<x, y>>[2]
    BY <1>3, <2>1
  <2> QED  BY <2>1, <2>2, Zenon DEF OpToRel
<1> DEFINE R == OpToRel(<, Nat)
<1>4. /\ \A x, y \in Nat : x < y => <<x, y>> \in R
      /\ \A o \in S : <<o, t>> \notin R
  BY <1>2, <1>3, Zenon
<1> HIDE DEF R
<1>5. \A o \in S : o \in Nat
  BY <1>1, MembershipAssumption
<1> HIDE DEF S
<1>6. \A o \in S : t <= o
  <2> SUFFICES ASSUME NEW o \in S, ~(t <= o) PROVE FALSE
    OBVIOUS
  <2>1. o \in Nat /\ t \in Nat
    BY <1>5
  <2>2. o < t
    BY <2>1
  <2> QED  BY <1>4, <2>1, <2>2
<1> QED  BY <1>6 DEF FirstFree, S

LEMMA SlugsInv ==
  ASSUME Inv, NEW r \in Requests, PickSlug(r) \/ OutOfSlugs(r) \/ InsertTenant(r)
  PROVE  Inv'
<1> DEFINE q == request[r]
<1>0. q \in Request /\ ReqOK(q)
  BY DEF Inv, TypeOK
<1>1. CASE PickSlug(r)
  <2> DEFINE t == FirstFree
             n == [q EXCEPT !.tenant = t, !.pc = "tenant"]
  <2>1. t \in Tenants /\ Step(r, n)
    BY <1>1, FirstFreeType DEF PickSlug
  <2> HIDE DEF t
  <2>2. q.op = "signup" /\ q.pc = "slug"
    BY <1>0, <1>1 DEF PickSlug, Request, ReqOK, InviteOK, ActOK
  <2>3. n \in Request /\ n.pc = "tenant"
    BY <1>0, <2>1 DEF Request
  <2>4. ReqOK(n)
    BY <1>0, <2>1, <2>2 DEF Request, ReqOK, SignupOK
  <2> HIDE DEF n
  <2> QED  BY <2>1, <2>3, <2>4, StepKept
<1>2. CASE OutOfSlugs(r)
  BY <1>2, AbortKept DEF OutOfSlugs
<1>3. CASE InsertTenant(r)
  <2> DEFINE n == [q EXCEPT !.pc = "join"]
  <2>1. Abort(r) \/ (q.tenant \notin tenants /\ Step(r, n))
    BY <1>3 DEF InsertTenant
  <2>2. q.op = "signup" /\ q.pc = "tenant"
    BY <1>0, <1>3 DEF InsertTenant, Request, ReqOK, InviteOK, ActOK
  <2>3. \A o \in Requests \ {r} : ~HoldsTenant(o, q.tenant)
    BY <1>3, <2>2 DEF InsertTenant, WaitsFor
  <2>4. n \in Request /\ n.pc = "join" /\ n.tenant = q.tenant
    BY <1>0 DEF Request
  <2>5. q.tenant \notin tenants => ReqOK(n)
    BY <1>0, <2>2 DEF Request, ReqOK, SignupOK
  <2> HIDE DEF n
  <2> QED  BY <2>1, <2>3, <2>4, <2>5, AbortKept, StepKept
<1> QED  BY <1>1, <1>2, <1>3

\* Who is no member yet is not the founder.
LEMMA InsertMemberInv ==
  ASSUME Inv, NEW r \in Requests, InsertMember(r)
  PROVE  Inv'
<1> DEFINE q == request[r]
<1>0. q \in Request /\ ReqOK(q) /\ q.pc = "join" /\ lastId \in Nat
  BY DEF Inv, TypeOK, InsertMember
<1>1. q.op \in {"signup", "invite"}
  BY <1>0 DEF Request, ReqOK, ActOK
<1>2. q.target \in Users /\ q.tenant \in Tenants
  BY <1>0, <1>1 DEF ReqOK, SignupOK, InviteOK, ActorOK, Inv, TypeOK
<1>3. \A o \in Requests \ {r} : ~HoldsMember(o, q.tenant, q.target)
  BY <1>0 DEF InsertMember, WaitsFor
<1>4. CASE member[q.tenant][q.target] = None
  <2> DEFINE id == lastId + 1
             n == [q EXCEPT !.id = id, !.pc = "commit"]
  <2>1. /\ request' = [request EXCEPT ![r].id = lastId + 1, ![r].pc = "commit"]
        /\ lastId' = lastId + 1 /\ UNCHANGED <<users, tenants, member, founder>>
    BY <1>4 DEF InsertMember
  <2>2. request' = [request EXCEPT ![r] = n]
    BY <2>1 DEF Inv, TypeOK
  <2>3. id \in Nat /\ id # 0 /\ lastId' = id
    BY <1>0, <2>1
  <2> HIDE DEF id
  <2>4. /\ n \in Request /\ n.pc = "commit" /\ n.id = id /\ n.op = q.op
        /\ n.tenant = q.tenant /\ n.target = q.target
    BY <1>0, <2>3 DEF Request
  <2>5. q.op = "invite" => q.target # founder[q.tenant]
    BY <1>0, <1>2, <1>4 DEF ReqOK, InviteOK, ActorOK, Inv, TenantsOK
  <2>6. ReqOK(n)
    <3>1. CASE q.op = "signup"
      BY <1>0, <2>3, <3>1 DEF Request, ReqOK, SignupOK
    <3>2. CASE q.op = "invite"
      BY <1>0, <2>3, <2>5, <3>2 DEF Request, ReqOK, InviteOK, ActorOK
    <3> QED  BY <1>1, <3>1, <3>2
  <2>7. q.op = "signup" => \A o \in Requests \ {r} : ~HoldsTenant(o, q.tenant)
    BY <1>0, <1>2 DEF Inv, Exclusive, HoldsTenant
  <2> HIDE DEF n
  <2> QED  BY <1>3, <2>1, <2>2, <2>3, <2>4, <2>6, <2>7, RecordKept
<1>5. CASE member[q.tenant][q.target] # None
  <2> DEFINE n == [q EXCEPT !.made = FALSE, !.pc = "adopt"]
  <2>1. Step(r, n)
    BY <1>5 DEF InsertMember
  <2>2. q.op = "invite"
    BY <1>0, <1>1, <1>2, <1>5 DEF ReqOK, SignupOK, Inv, TenantsOK
  <2>3. n \in Request /\ n.pc = "adopt"
    BY <1>0 DEF Request
  <2>4. ReqOK(n)
    BY <1>0, <2>2 DEF Request, ReqOK, InviteOK, ActorOK
  <2> HIDE DEF n
  <2> QED  BY <2>1, <2>3, <2>4, StepKept
<1> QED  BY <1>4, <1>5

LEMMA TargetsInv ==
  ASSUME Inv, NEW r \in Requests, Adopt(r) \/ ReadTarget(r) \/ WriteTarget(r)
  PROVE  Inv'
<1> DEFINE q == request[r]
<1>0. q \in Request /\ ReqOK(q)
  BY DEF Inv, TypeOK
<1>1. CASE Adopt(r)
  <2> DEFINE n == [q EXCEPT !.pc = "commit"]
  <2>1. Abort(r) \/ Step(r, n)
    BY <1>1 DEF Adopt
  <2>2. q.op = "invite" /\ q.id = 0 /\ ~q.made
    BY <1>0, <1>1 DEF Adopt, Request, ReqOK, SignupOK, ActOK
  <2>3. n \in Request /\ n.id = 0 /\ n.op = "invite"
    BY <1>0, <2>2 DEF Request
  <2>4. ReqOK(n)
    BY <1>0, <2>2 DEF Request, ReqOK, InviteOK, ActorOK
  <2> HIDE DEF n
  <2> QED  BY <2>1, <2>3, <2>4, AbortKept, StepKept
<1>2. CASE ReadTarget(r)
  <2> DEFINE row == member[q.tenant][q.target]
             n == [q EXCEPT !.pc = "commit"]
             w == [q EXCEPT !.pc = "write", !.id = row.id]
  <2>1. Abort(r) \/ (Allowed(q) /\ (Step(r, n) \/ Step(r, w)))
    BY <1>2 DEF ReadTarget
  <2>2. SUFFICES ASSUME Allowed(q), Step(r, n) \/ Step(r, w) PROVE Inv'
    BY <2>1, AbortKept
  <2>3. q.op \in {"change", "remove"} /\ q.id = 0 /\ ~q.made /\ ActOK(q) /\ q.pc = "target"
    BY <1>0, <1>2 DEF ReadTarget, Request, ReqOK, SignupOK, InviteOK
  <2>4. q.target \in Users /\ q.tenant \in tenants /\ q.tenant \in Tenants /\ q.as \in Roles
    BY <2>3 DEF ActOK, ActorOK, Inv, TypeOK
  <2>5. row \in Member
    BY <2>2, <2>4 DEF Allowed, Inv, TypeOK
  <2>6. row.role \in Roles /\ row.id \in Nat
    BY <2>5 DEF Member
  <2>7. row.role # "owner"
    BY <2>2, <2>4, <2>6, RankFacts DEF Allowed
  <2>8. row # None
    BY <2>2 DEF Allowed
  <2>9. q.target # founder[q.tenant]
    BY <2>4, <2>7, <2>8 DEF Inv, TenantsOK
  <2>10. q.op = "change" => CanAssign(q.as, q.new)
    BY <2>2 DEF Allowed
  <2> HIDE DEF row
  <2>11. n \in Request /\ n.id = 0 /\ n.op = q.op
    BY <1>0, <2>3 DEF Request
  <2>12. w \in Request /\ w.pc = "write" /\ w.op = q.op
    BY <1>0, <2>6 DEF Request
  <2>13. ActOK(n) /\ ActOK(w)
    BY <1>0, <2>3, <2>6, <2>9, <2>10 DEF Request, ActOK, ActorOK
  <2>14. ReqOK(n) /\ ReqOK(w)
    BY <1>0, <2>3, <2>13 DEF Request, ReqOK
  <2> HIDE DEF n, w
  <2> QED  BY <2>2, <2>3, <2>11, <2>12, <2>14, StepKept
<1>3. CASE WriteTarget(r)
  <2> DEFINE n == [q EXCEPT !.pc = "commit"]
             g == [q EXCEPT !.pc = "commit", !.id = 0]
  <2>1. Abort(r) \/ (StillThere(q) /\ Step(r, n)) \/ Step(r, g)
    BY <1>3 DEF WriteTarget
  <2>2. q.op \in {"change", "remove"} /\ ~q.made /\ ActOK(q) /\ q.pc = "write"
    BY <1>0, <1>3 DEF WriteTarget, Request, ReqOK, SignupOK, InviteOK
  <2>3. \A o \in Requests \ {r} : ~HoldsMember(o, q.tenant, q.target)
    BY <1>3 DEF WriteTarget, WaitsFor
  <2>4. CASE StillThere(q) /\ Step(r, n)
    <3>1. n \in Request /\ n.op = q.op /\ n.tenant = q.tenant /\ n.target = q.target
      BY <1>0 DEF Request
    <3>2. StillThere(n)
      BY <1>0, <2>4 DEF StillThere, Request
    <3>3. ActOK(n)
      BY <1>0, <2>2, <3>2 DEF Request, ActOK, ActorOK
    <3>4. ReqOK(n)
      BY <1>0, <2>2, <3>3 DEF Request, ReqOK
    <3> HIDE DEF n
    <3> QED  BY <2>2, <2>3, <2>4, <3>1, <3>4, StepKept
  <2>5. CASE Step(r, g)
    <3>1. g \in Request /\ g.op = q.op /\ g.id = 0
      BY <1>0 DEF Request
    <3>2. ActOK(g)
      BY <1>0, <2>2 DEF Request, ActOK, ActorOK
    <3>3. ReqOK(g)
      BY <1>0, <2>2, <3>2 DEF Request, ReqOK
    <3> HIDE DEF g
    <3> QED  BY <2>2, <2>5, <3>1, <3>3, StepKept
  <2> QED  BY <2>1, <2>4, <2>5, AbortKept
<1> QED  BY <1>1, <1>2, <1>3

-----------------------------------------------------------------------------
(* Commit *)

\* The row a commit leaves.
LEMMA RowAfterType ==
  ASSUME Inv, NEW r \in Requests, request[r].pc = "commit"
  PROVE  /\ request[r].target \in Users /\ request[r].tenant \in Tenants
         /\ RowAfter(request[r]) \in Member \cup {None}
<1> DEFINE q == request[r]
<1>1. q \in Request /\ ReqOK(q) /\ q.op # "none"
  BY DEF Inv, TypeOK, ReqOK
<1>2. q.op \in {"signup", "invite", "change", "remove"} /\ q.id \in Nat
  BY <1>1 DEF Request
<1>3. /\ q.target \in Users /\ q.tenant \in Tenants
      /\ q.op # "remove" => q.new \in Roles
  <2>1. CASE q.op = "signup"
    BY <1>1, <2>1 DEF ReqOK, SignupOK, Roles
  <2>2. CASE q.op = "invite"
    BY <1>1, <2>2 DEF ReqOK, InviteOK, ActorOK, Inv, TypeOK
  <2>3. CASE q.op \in {"change", "remove"}
    BY <1>1, <2>3 DEF ReqOK, ActOK, ActorOK, Inv, TypeOK
  <2> QED  BY <1>2, <2>1, <2>2, <2>3
<1>4. CASE q.id = 0
  BY <1>3, <1>4 DEF RowAfter, Inv, TypeOK
<1>5. CASE q.id # 0
  BY <1>2, <1>3, <1>5 DEF RowAfter, Member
<1> QED  BY <1>3, <1>4, <1>5

\* Only the signup of a nonprofit writes its owner.
LEMMA CommitRow ==
  ASSUME Inv, NEW r \in Requests, request[r].pc = "commit", request[r].op # "signup"
  PROVE  /\ request[r].tenant \in tenants
         /\ RowAfter(request[r]) # member[request[r].tenant][request[r].target] =>
              /\ request[r].id # 0
              /\ request[r].target # founder[request[r].tenant]
              /\ RowAfter(request[r]) # None =>
                   /\ RowAfter(request[r]).role # "owner"
                   /\ RowAfter(request[r]).role = "admin" =>
                        request[r].actor = founder[request[r].tenant]
<1> DEFINE q == request[r]
<1>1. q \in Request /\ ReqOK(q) /\ q.op \in {"invite", "change", "remove"}
  BY DEF Inv, TypeOK, ReqOK, Request
<1>2. q.tenant \in tenants /\ q.as \in Roles /\ (q.as = "owner" => q.actor = founder[q.tenant])
  BY <1>1 DEF ReqOK, InviteOK, ActOK, ActorOK
<1>3. ASSUME q.id # 0
      PROVE  /\ q.target # founder[q.tenant]
             /\ q.op # "remove" => q.new \in Roles /\ CanAssign(q.as, q.new)
  <2>1. CASE q.op = "invite"
    BY <1>1, <1>3, <2>1 DEF ReqOK, InviteOK
  <2>2. CASE q.op \in {"change", "remove"}
    BY <1>1, <1>3, <2>2 DEF ReqOK, ActOK
  <2> QED  BY <1>1, <2>1, <2>2
<1>4. ASSUME q.id # 0, RowAfter(q) # None
      PROVE  /\ RowAfter(q).role # "owner"
             /\ RowAfter(q).role = "admin" => q.actor = founder[q.tenant]
  <2>1. RowAfter(q).role = q.new /\ q.op # "remove"
    BY <1>4 DEF RowAfter
  <2>2. q.new \in Roles /\ CanAssign(q.as, q.new)
    BY <1>3, <1>4, <2>1
  <2>3. q.new # "owner" /\ (CanAssign(q.as, "admin") => q.as = "owner")
    BY <1>2, <2>2, RankFacts
  <2>4. q.new = "admin" => q.as = "owner"
    BY <2>2, <2>3
  <2> QED  BY <1>2, <2>1, <2>3, <2>4
<1>5. q.id = 0 => RowAfter(q) = member[q.tenant][q.target]
  BY DEF RowAfter
<1> QED  BY <1>2, <1>3, <1>4, <1>5

LEMMA MemberAfter ==
  ASSUME Inv, NEW r \in Requests, Commit(r)
  PROVE  /\ member' \in [Tenants -> [Users -> Member \cup {None}]]
         /\ \A s \in Tenants, v \in Users :
              member'[s][v] = IF s = request[r].tenant /\ v = request[r].target
                              THEN RowAfter(request[r]) ELSE member[s][v]
<1> DEFINE t == request[r].tenant
           u == request[r].target
           row == RowAfter(request[r])
<1>1. t \in Tenants /\ u \in Users /\ row \in Member \cup {None}
  BY RowAfterType DEF Commit
<1>2. member' = [member EXCEPT ![t][u] = row]
  BY DEF Commit
<1>3. member \in [Tenants -> [Users -> Member \cup {None}]]
  BY DEF Inv, TypeOK
<1> HIDE DEF t, u, row
<1>4. /\ member' \in [Tenants -> [Users -> Member \cup {None}]]
      /\ \A s \in Tenants, v \in Users :
           member'[s][v] = IF s = t /\ v = u THEN row ELSE member[s][v]
  BY <1>1, <1>2, <1>3
<1> QED  BY <1>4 DEF t, u, row

\* What a request knows stays true when another commits beside it.
LEMMA OthersOK ==
  ASSUME Inv, NEW o \in Requests, request'[o] = request[o], tenants \subseteq tenants',
         \A s \in tenants : founder'[s] = founder[s],
         request[o].op = "signup" /\ request[o].pc \in {"join", "commit"}
           => request[o].tenant \notin tenants',
         request[o].op \in {"change", "remove"} /\ request[o].pc = "commit" /\ request[o].id # 0
           => member'[request[o].tenant][request[o].target]
                = member[request[o].tenant][request[o].target]
  PROVE  ReqOK(request[o])'
<1> DEFINE q == request[o]
<1>1. ReqOK(q)
  BY DEF Inv
<1>2. q.op = "signup" => SignupOK(q)'
  BY <1>1 DEF ReqOK, SignupOK
<1>3. ActorOK(q) => ActorOK(q)'
  BY DEF ActorOK
<1>4. q.op = "invite" => InviteOK(q)'
  <2> SUFFICES ASSUME q.op = "invite" PROVE InviteOK(q)'
    OBVIOUS
  <2>1. InviteOK(q) /\ q.tenant \in tenants
    BY <1>1 DEF ReqOK, InviteOK, ActorOK
  <2> QED  BY <1>3, <2>1 DEF InviteOK
<1>5. q.op \in {"change", "remove"} => ActOK(q)'
  <2> SUFFICES ASSUME q.op \in {"change", "remove"} PROVE ActOK(q)'
    OBVIOUS
  <2>1. ActOK(q) /\ q.tenant \in tenants
    BY <1>1 DEF ReqOK, ActOK, ActorOK
  <2>2. q.pc = "commit" /\ q.id # 0 => StillThere(q)'
    BY <2>1 DEF ActOK, StillThere
  <2> QED  BY <1>3, <2>1, <2>2 DEF ActOK
<1> QED  BY <1>1, <1>2, <1>4, <1>5 DEF ReqOK

LEMMA CommitInv == ASSUME Inv, NEW r \in Requests, Commit(r) PROVE Inv'
<1> DEFINE q == request[r]
           t == q.tenant
           u == q.target
           row == RowAfter(q)
<1>0. q \in Request /\ ReqOK(q) /\ q.pc = "commit"
  BY DEF Inv, TypeOK, Commit
<1>1. t \in Tenants /\ u \in Users /\ row \in Member \cup {None}
  BY <1>0, RowAfterType
<1>2. /\ member' \in [Tenants -> [Users -> Member \cup {None}]]
      /\ \A s \in Tenants, v \in Users :
           member'[s][v] = IF s = t /\ v = u THEN row ELSE member[s][v]
  BY MemberAfter
<1>3. /\ request'[r] = NoRequest /\ request' \in [Requests -> Request]
      /\ \A o \in Requests \ {r} : request'[o] = request[o]
  BY NoRequestOK DEF Commit, Inv, TypeOK
<1>4. Exclusive'
  BY <1>3 DEF Inv, Exclusive, HoldsTenant, HoldsMember, NoRequest
<1>5. TypeOK'
  BY <1>1, <1>2, <1>3 DEF Commit, Inv, TypeOK
<1>6. ReqOK(request[r])'
  BY <1>3 DEF NoRequest, ReqOK
<1>7. CASE q.op = "signup"
  <2>1. t \notin tenants /\ q.id # 0 /\ q.new = "owner"
    BY <1>0, <1>7 DEF ReqOK, SignupOK
  <2>2. /\ tenants' = tenants \cup {t} /\ founder' = [founder EXCEPT ![t] = u]
    BY <1>7 DEF Commit
  <2>3. row # None /\ row.role = "owner"
    BY <1>7, <2>1, MembershipAssumption, <1>0 DEF RowAfter, Request, Roles
  <2>4. founder'[t] = u /\ \A s \in tenants : founder'[s] = founder[s] /\ s # t /\ s \in Tenants
    BY <1>1, <2>1, <2>2 DEF Inv, TypeOK
  <2>5. TenantsOK'
    <3>1. \A s \in Tenants \ tenants' : \A v \in Users : member'[s][v] = None
      BY <1>2, <2>2 DEF Inv, TenantsOK
    <3>2. \A s \in tenants' : /\ founder'[s] \in Users
                              /\ \A v \in Users : (member'[s][v] # None /\ member'[s][v].role = "owner")
                                                    <=> v = founder'[s]
      <4>1. \A v \in Users : member[t][v] = None
        BY <1>1, <2>1 DEF Inv, TenantsOK
      <4>2. \A v \in Users : (member'[t][v] # None /\ member'[t][v].role = "owner") <=> v = u
        BY <1>1, <1>2, <2>3, <4>1
      <4>3. ASSUME NEW s \in tenants
            PROVE  /\ founder'[s] \in Users
                   /\ \A v \in Users : (member'[s][v] # None /\ member'[s][v].role = "owner")
                                         <=> v = founder'[s]
        <5>1. \A v \in Users : member'[s][v] = member[s][v]
          BY <1>2, <2>4
        <5> QED  BY <2>4, <5>1 DEF Inv, TenantsOK
      <4> QED  BY <1>1, <2>2, <2>4, <4>2, <4>3
    <3> QED  BY <3>1, <3>2 DEF TenantsOK
  <2>6. ASSUME NEW o \in Requests \ {r} PROVE ReqOK(request[o])'
    <3>1. request[o].op = "signup" /\ request[o].pc \in {"join", "commit"}
            => request[o].tenant \notin tenants'
      <4> SUFFICES ASSUME request[o].op = "signup", request[o].pc \in {"join", "commit"}
                   PROVE  request[o].tenant \notin tenants'
        OBVIOUS
      <4>1. request[o].tenant \notin tenants
        BY DEF Inv, ReqOK, SignupOK
      <4>2. HoldsTenant(r, t) /\ (request[o].tenant = t => HoldsTenant(o, t))
        BY <1>0, <1>7 DEF HoldsTenant
      <4>3. request[o].tenant # t
        BY <1>1, <4>2 DEF Inv, Exclusive
      <4> QED  BY <2>2, <4>1, <4>3
    <3>2. request[o].op \in {"change", "remove"} =>
            /\ request[o].tenant \in tenants /\ request[o].target \in Users
      BY DEF Inv, ReqOK, ActOK, ActorOK
    <3>3. request[o].op \in {"change", "remove"} =>
            member'[request[o].tenant][request[o].target]
              = member[request[o].tenant][request[o].target]
      BY <1>2, <2>4, <3>2
    <3> QED  BY <1>3, <2>2, <2>4, <3>1, <3>3, OthersOK
  <2> QED  BY <1>4, <1>5, <1>6, <2>5, <2>6 DEF Inv
<1>8. CASE q.op # "signup"
  <2>1. tenants' = tenants /\ founder' = founder
    BY <1>8 DEF Commit
  <2>2. /\ t \in tenants
        /\ row # member[t][u] => /\ q.id # 0 /\ u # founder[t]
                                 /\ row # None => row.role # "owner"
    BY <1>0, <1>8, CommitRow
  <2>3. TenantsOK'
    <3>1. \A s \in Tenants \ tenants : \A v \in Users : member'[s][v] = None
      BY <1>2, <2>2 DEF Inv, TenantsOK
    <3>2. ASSUME NEW s \in tenants
          PROVE  /\ founder[s] \in Users
                 /\ \A v \in Users : (member'[s][v] # None /\ member'[s][v].role = "owner")
                                       <=> v = founder[s]
      <4>1. s \in Tenants
        BY DEF Inv, TypeOK
      <4>2. /\ founder[s] \in Users
            /\ \A v \in Users : (member[s][v] # None /\ member[s][v].role = "owner")
                                  <=> v = founder[s]
        BY DEF Inv, TenantsOK
      <4>3. ASSUME NEW v \in Users
            PROVE  (member'[s][v] # None /\ member'[s][v].role = "owner") <=> v = founder[s]
        <5>1. CASE s = t /\ v = u /\ row # member[t][u]
          BY <1>2, <2>2, <4>1, <5>1
        <5>2. CASE ~(s = t /\ v = u /\ row # member[t][u])
          <6>1. member'[s][v] = member[s][v]
            BY <1>2, <4>1, <5>2
          <6> QED  BY <4>2, <6>1
        <5> QED  BY <5>1, <5>2
      <4> QED  BY <4>2, <4>3
    <3> QED  BY <2>1, <3>1, <3>2 DEF TenantsOK
  <2>4. ASSUME NEW o \in Requests \ {r} PROVE ReqOK(request[o])'
    <3>1. request[o].op = "signup" /\ request[o].pc \in {"join", "commit"}
            => request[o].tenant \notin tenants'
      BY <2>1 DEF Inv, ReqOK, SignupOK
    <3>2. request[o].op \in {"change", "remove"} /\ request[o].pc = "commit" /\ request[o].id # 0
            => member'[request[o].tenant][request[o].target]
                 = member[request[o].tenant][request[o].target]
      <4> SUFFICES ASSUME request[o].op \in {"change", "remove"}, request[o].pc = "commit",
                          request[o].id # 0
                   PROVE  member'[request[o].tenant][request[o].target]
                            = member[request[o].tenant][request[o].target]
        OBVIOUS
      <4>1. request[o].tenant \in Tenants /\ request[o].target \in Users
        BY DEF Inv, TypeOK, ReqOK, ActOK, ActorOK
      <4>2. CASE request[o].tenant = t /\ request[o].target = u
        <5>1. HoldsMember(o, t, u) /\ (q.id # 0 => HoldsMember(r, t, u))
          BY <1>0, <4>2 DEF HoldsMember
        <5>2. q.id = 0
          BY <1>1, <5>1 DEF Inv, Exclusive
        <5>3. row = member[t][u]
          BY <5>2 DEF RowAfter
        <5> QED  BY <1>1, <1>2, <4>2, <5>3
      <4>3. CASE ~(request[o].tenant = t /\ request[o].target = u)
        BY <1>2, <4>1, <4>3
      <4> QED  BY <4>2, <4>3
    <3> QED  BY <1>3, <2>1, <3>1, <3>2, OthersOK
  <2> QED  BY <1>4, <1>5, <1>6, <2>3, <2>4 DEF Inv
<1> QED  BY <1>7, <1>8

LEMMA NextInv == Inv /\ [Next]_vars => Inv'
<1> SUFFICES ASSUME Inv, [Next]_vars PROVE Inv'
  OBVIOUS
<1>1. CASE UNCHANGED vars
  BY <1>1 DEF vars, Inv, TypeOK, TenantsOK, Exclusive, HoldsTenant, HoldsMember, ReqOK, SignupOK,
              InviteOK, ActOK, ActorOK, StillThere
<1>2. ASSUME NEW r \in Requests, Proceed(r) PROVE Inv'
  BY <1>2, AccountsInv, SlugsInv, InsertMemberInv, TargetsInv, CommitInv DEF Proceed
<1>3. ASSUME NEW r \in Requests, Fail(r) PROVE Inv'
  BY <1>3, AbortKept DEF Fail
<1> QED  BY <1>1, <1>2, <1>3, ArriveInv DEF Next

THEOREM AlwaysInv == Spec => []Inv
  BY InitInv, NextInv, PTL DEF Spec

\* Every row and request keeps to its values.
THEOREM TypeCorrect == Spec => []TypeOK
<1>1. Inv => TypeOK
  BY DEF Inv
<1> QED  BY <1>1, AlwaysInv, PTL

\* The account that signed a nonprofit up is its only owner, for good.
THEOREM OneOwner == Spec => []FounderIsOnlyOwner
<1>1. Inv => FounderIsOnlyOwner
  BY DEF Inv, TenantsOK, FounderIsOnlyOwner, Owners
<1> QED  BY <1>1, AlwaysInv, PTL

\* Requests wait for others that are further on than they are, so the furthest
\* of those in flight waits for nobody.
LEMMA FurthestGoesOn == Inv => WaitsEnd
<1> SUFFICES ASSUME Inv, NEW x \in Requests, request[x].pc # "idle"
             PROVE  \E r \in Requests : request[r].pc # "idle" /\ WaitsFor(r) = {}
  BY DEF WaitsEnd
<1> DEFINE At(pcs) == \E r \in Requests : request[r].pc \in pcs
<1>0. \A o \in Requests : request[o].made => request[o].pc \notin {"account"}
  BY DEF Inv, ReqOK
<1>1. ASSUME NEW r \in Requests, request[r].pc \notin {"idle", "account", "tenant", "join", "write"}
      PROVE  request[r].pc # "idle" /\ WaitsFor(r) = {}
  BY <1>1 DEF WaitsFor
<1>2. ASSUME NEW r \in Requests, request[r].pc \in {"join", "write"},
             \A o \in Requests : request[o].pc # "commit"
      PROVE  request[r].pc # "idle" /\ WaitsFor(r) = {}
  BY <1>2 DEF WaitsFor, HoldsMember
<1>3. ASSUME NEW r \in Requests, request[r].pc = "tenant",
             \A o \in Requests : request[o].pc \notin {"join", "commit"}
      PROVE  request[r].pc # "idle" /\ WaitsFor(r) = {}
  BY <1>3 DEF WaitsFor, HoldsTenant
<1>4. ASSUME NEW r \in Requests, request[r].pc = "account",
             \A o \in Requests : request[o].pc \in {"idle", "account"}
      PROVE  request[r].pc # "idle" /\ WaitsFor(r) = {}
  <2>1. \A o \in Requests : ~request[o].made
    BY <1>0, <1>4 DEF Inv, ReqOK
  <2> QED  BY <1>4, <2>1 DEF WaitsFor, HoldsAccount
<1>5. CASE \E r \in Requests : request[r].pc \notin {"idle", "account", "tenant", "join", "write"}
  BY <1>1, <1>5
<1>6. CASE \A r \in Requests : request[r].pc \in {"idle", "account", "tenant", "join", "write"}
  <2>1. CASE \E r \in Requests : request[r].pc \in {"join", "write"}
    BY <1>2, <1>6, <2>1
  <2>2. CASE \A r \in Requests : request[r].pc \notin {"join", "write"}
    <3>1. CASE \E r \in Requests : request[r].pc = "tenant"
      BY <1>3, <1>6, <2>2, <3>1
    <3>2. CASE \A r \in Requests : request[r].pc # "tenant"
      <4>1. \A o \in Requests : request[o].pc \in {"idle", "account"}
        BY <1>6, <2>2, <3>2
      <4>2. request[x].pc = "account"
        BY <4>1
      <4> QED  BY <1>4, <4>1, <4>2
    <3> QED  BY <3>1, <3>2
  <2> QED  BY <2>1, <2>2
<1> QED  BY <1>5, <1>6

\* Requests never deadlock on one another's uncommitted rows.
THEOREM NoDeadlock == Spec => []WaitsEnd
  BY AlwaysInv, FurthestGoesOn, PTL

-----------------------------------------------------------------------------
(* What a step may do *)

\* Only a commit changes a committed row.
LEMMA OnlyCommits ==
  ASSUME Inv, [Next]_vars, ~\E r \in Requests : Commit(r)
  PROVE  UNCHANGED <<users, tenants, member, founder>>
<1>1. ASSUME NEW r \in Requests, Arrive(r) PROVE UNCHANGED <<users, tenants, member, founder>>
  BY <1>1 DEF Arrive, Signup, Remove, Invite, ChangeRole, Step
<1>2. ASSUME NEW r \in Requests, Fail(r) PROVE UNCHANGED <<users, tenants, member, founder>>
  BY <1>2 DEF Fail, Abort, Step
<1>3. ASSUME NEW r \in Requests, Proceed(r) PROVE UNCHANGED <<users, tenants, member, founder>>
  <2>1. CASE FindAccount(r) \/ InsertAccount(r) \/ CheckMember(r)
    BY <2>1 DEF FindAccount, InsertAccount, CheckMember, Abort, Step
  <2>2. CASE PickSlug(r) \/ OutOfSlugs(r) \/ InsertTenant(r)
    BY <2>2 DEF PickSlug, OutOfSlugs, InsertTenant, Abort, Step
  <2>3. CASE InsertMember(r) \/ Adopt(r)
    BY <2>3 DEF InsertMember, Adopt, Abort, Step
  <2>4. CASE ReadTarget(r)
    BY <2>4 DEF ReadTarget, Abort, Step
  <2>5. CASE WriteTarget(r)
    BY <2>5 DEF WriteTarget, Abort, Step
  <2> QED  BY <1>3, <2>1, <2>2, <2>3, <2>4, <2>5 DEF Proceed
<1>4. CASE UNCHANGED vars
  BY <1>4 DEF vars
<1> QED  BY <1>1, <1>2, <1>3, <1>4 DEF Next

BornStep ==
  /\ \A u \in users' \ users : \E t \in Tenants : member'[t][u] # None
  /\ \A t \in tenants' \ tenants : \E u \in users' :
       member'[t][u] # None /\ member'[t][u].role = "owner"

LEMMA StepIsBorn == Inv /\ [Next]_vars => BornStep
<1> SUFFICES ASSUME Inv, [Next]_vars PROVE BornStep
  OBVIOUS
<1>1. ASSUME NEW r \in Requests, Commit(r) PROVE BornStep
  <2> DEFINE q == request[r]
             row == RowAfter(q)
  <2>0. q \in Request /\ ReqOK(q) /\ q.pc = "commit"
    BY <1>1 DEF Inv, TypeOK, Commit
  <2>1. q.tenant \in Tenants /\ q.target \in Users /\ member'[q.tenant][q.target] = row
    BY <1>1, <2>0, RowAfterType, MemberAfter
  <2>2. q.made => row # None
    <3> SUFFICES ASSUME q.made PROVE row # None
      OBVIOUS
    <3>1. q.id # 0 /\ q.op \in {"signup", "invite"}
      BY <2>0 DEF ReqOK
    <3>2. row = [id |-> q.id, role |-> q.new] /\ q.id \in Nat
      BY <2>0, <3>1 DEF RowAfter, Request
    <3>3. q.new \in Roles
      BY <2>0, <3>1 DEF ReqOK, SignupOK, InviteOK, Roles
    <3> QED  BY <3>2, <3>3, MembershipAssumption DEF Roles
  <2>3. \A u \in users' \ users : u = q.target /\ q.made
    BY <1>1 DEF Commit
  <2>4. ASSUME NEW t \in tenants' \ tenants
        PROVE  t = q.tenant /\ q.made /\ row.role = "owner"
    <3>1. q.op = "signup" /\ t = q.tenant
      BY <1>1, <2>4 DEF Commit
    <3>2. q.made /\ q.id # 0 /\ q.new = "owner"
      BY <2>0, <3>1 DEF ReqOK, SignupOK
    <3> QED  BY <3>1, <3>2 DEF RowAfter
  <2>5. q.made => q.target \in users'
    BY <1>1 DEF Commit
  <2> HIDE DEF q, row
  <2> QED  BY <2>1, <2>2, <2>3, <2>4, <2>5 DEF BornStep
<1>2. CASE ~\E r \in Requests : Commit(r)
  <2>1. users' = users /\ tenants' = tenants
    BY <1>2, OnlyCommits
  <2> QED  BY <2>1 DEF BornStep
<1> QED  BY <1>1, <1>2

\* No rollback leaves an account without a tenant, or a tenant without owner.
THEOREM AlwaysBornWhole == Spec => BornWhole
<1>1. Spec => [][BornStep]_vars
  BY AlwaysInv, StepIsBorn, PTL DEF Spec
<1> QED  BY <1>1 DEF BornWhole, BornStep

\* The request whose commit a step is, is the one that finishes by it.
LEMMA FinishCommits ==
  ASSUME Inv, [Next]_vars, NEW r \in Requests, Finishes(r),
         NEW t \in Tenants, NEW u \in Users, Changes(t, u)
  PROVE  Commit(r) /\ request[r].tenant = t /\ request[r].target = u
<1>1. PICK o \in Requests : Commit(o)
  <2> SUFFICES ASSUME ~\E o \in Requests : Commit(o) PROVE FALSE
    OBVIOUS
  <2>1. member' = member
    BY OnlyCommits
  <2> QED  BY <2>1 DEF Changes
<1>2. o = r
  <2> SUFFICES ASSUME o # r PROVE FALSE
    OBVIOUS
  <2>1. request'[r] = request[r]
    BY <1>1 DEF Commit, Inv, TypeOK
  <2> QED  BY <2>1 DEF Finishes
<1>3. request[r].tenant = t /\ request[r].target = u
  BY <1>1, <1>2, MemberAfter DEF Changes
<1> QED  BY <1>1, <1>2, <1>3

\* A request that is to commit a new membership finds none there.
Newcomers ==
  \A r \in Requests :
    request[r].op \in {"signup", "invite"} /\ request[r].pc = "commit" /\ request[r].id # 0
    => member[request[r].tenant][request[r].target] = None

LEMMA InsertsAreNew == Inv /\ Newcomers /\ [Next]_vars => Newcomers'
<1> SUFFICES ASSUME Inv, Newcomers, [Next]_vars, NEW r \in Requests,
                    request'[r].op \in {"signup", "invite"}, request'[r].pc = "commit",
                    request'[r].id # 0
             PROVE  member'[request'[r].tenant][request'[r].target] = None
  BY DEF Newcomers
<1> DEFINE q == request[r]
<1>0. q \in Request /\ ReqOK(q) /\ request \in [Requests -> Request]
  BY DEF Inv, TypeOK
\* Its record is the one it had, or it inserts the row in this step.
<1>1. ASSUME request'[r] = q PROVE member'[q.tenant][q.target] = None
  <2>1. /\ member[q.tenant][q.target] = None
        /\ HoldsMember(r, q.tenant, q.target)
    BY <1>1 DEF Newcomers, HoldsMember
  <2>2. CASE ~\E o \in Requests : Commit(o)
    BY <2>1, <2>2, OnlyCommits
  <2>3. ASSUME NEW o \in Requests, Commit(o) PROVE member'[q.tenant][q.target] = None
    <3>1. o # r
      <4> SUFFICES ASSUME o = r PROVE FALSE
        OBVIOUS
      <4>1. request'[r] = NoRequest
        BY <1>0, <2>3 DEF Commit
      <4> QED  BY <4>1 DEF NoRequest
    <3>2. q.tenant \in Tenants /\ q.target \in Users
      <4>1. q.pc = "commit"
        BY <1>1
      <4> QED  BY <4>1, RowAfterType
    <3>3. CASE request[o].tenant = q.tenant /\ request[o].target = q.target
      <4>1. request[o].id = 0
        <5> SUFFICES ASSUME request[o].id # 0 PROVE FALSE
          OBVIOUS
        <5>1. HoldsMember(o, q.tenant, q.target)
          BY <2>3, <3>3 DEF HoldsMember, Commit
        <5> QED  BY <2>1, <3>1, <3>2, <5>1 DEF Inv, Exclusive
      <4>2. RowAfter(request[o]) = member[q.tenant][q.target]
        BY <3>3, <4>1 DEF RowAfter
      <4> QED  BY <2>1, <2>3, <3>2, <3>3, <4>2, MemberAfter
    <3>4. CASE ~(request[o].tenant = q.tenant /\ request[o].target = q.target)
      BY <2>1, <2>3, <3>2, <3>4, MemberAfter
    <3> QED  BY <3>3, <3>4
  <2> QED  BY <2>2, <2>3
<1>2. CASE InsertMember(r)
  <2>1. CASE member[q.tenant][q.target] = None
    <3> DEFINE n == [q EXCEPT !.id = lastId + 1, !.pc = "commit"]
    <3>1. request'[r] = n /\ member' = member
      BY <1>0, <1>2, <2>1 DEF InsertMember
    <3>2. n.tenant = q.tenant /\ n.target = q.target
      BY <1>0 DEF Request
    <3> QED  BY <2>1, <3>1, <3>2
  <2>2. CASE member[q.tenant][q.target] # None
    <3> DEFINE n == [q EXCEPT !.made = FALSE, !.pc = "adopt"]
    <3>1. request'[r] = n
      BY <1>0, <1>2, <2>2 DEF InsertMember, Step
    <3>2. n.pc = "adopt"
      BY <1>0 DEF Request
    <3> QED  BY <3>1, <3>2
  <2> QED  BY <2>1, <2>2
\* No other step of its own brings an insertion to its commit.
<1>3. ASSUME Step(r, NoRequest) PROVE FALSE
  BY <1>0, <1>3 DEF Step, NoRequest
<1>4. ASSUME NEW n, Step(r, n), n.pc # "commit" \/ n.id = 0 \/ n.op \notin {"signup", "invite"}
      PROVE  FALSE
  BY <1>0, <1>4 DEF Step
<1>5. CASE Arrive(r)
  <2>1. ASSUME NEW u \in Users, Signup(r, u) PROVE FALSE
    <3> DEFINE n == [NoRequest EXCEPT !.op = "signup", !.pc = "account",
                                      !.target = u, !.new = "owner"]
    <3>1. Step(r, n)
      BY <2>1 DEF Signup
    <3>2. n.pc = "account"
      BY DEF NoRequest
    <3> HIDE DEF n
    <3> QED  BY <1>4, <3>1, <3>2
  <2>2. ASSUME NEW actor, NEW u, NEW t, Remove(r, actor, t, u) PROVE FALSE
    <3> DEFINE n == [NoRequest EXCEPT !.op = "remove", !.pc = "target", !.actor = actor,
                      !.as = member[t][actor].role, !.tenant = t, !.target = u]
    <3>1. Step(r, n)
      BY <2>2 DEF Remove
    <3>2. n.pc = "target"
      BY DEF NoRequest
    <3> HIDE DEF n
    <3> QED  BY <1>4, <3>1, <3>2
  <2>3. ASSUME NEW actor, NEW u, NEW t, NEW role, Invite(r, actor, t, u, role) PROVE FALSE
    <3> DEFINE n == [NoRequest EXCEPT !.op = "invite", !.pc = "find", !.actor = actor,
                      !.as = member[t][actor].role, !.tenant = t,
                      !.target = u, !.new = role]
    <3>1. Step(r, n)
      BY <2>3 DEF Invite
    <3>2. n.pc = "find"
      BY DEF NoRequest
    <3> HIDE DEF n
    <3> QED  BY <1>4, <3>1, <3>2
  <2>4. ASSUME NEW actor, NEW u, NEW t, NEW role, ChangeRole(r, actor, t, u, role) PROVE FALSE
    <3> DEFINE n == [NoRequest EXCEPT !.op = "change", !.pc = "target", !.actor = actor,
                      !.as = member[t][actor].role, !.tenant = t,
                      !.target = u, !.new = role]
    <3>1. Step(r, n)
      BY <2>4 DEF ChangeRole
    <3>2. n.pc = "target"
      BY DEF NoRequest
    <3> HIDE DEF n
    <3> QED  BY <1>4, <3>1, <3>2
  <2> QED  BY <1>5, <2>1, <2>2, <2>3, <2>4 DEF Arrive
<1>6. CASE FindAccount(r) \/ InsertAccount(r) \/ CheckMember(r)
  <2>1. ASSUME NEW n, Step(r, n), n.pc \in {"check", "account", "slug", "join"} PROVE FALSE
    BY <1>4, <2>1
  <2>2. FindAccount(r) => FALSE
    BY <1>0, <2>1 DEF FindAccount, Request
  <2>3. InsertAccount(r) => FALSE
    BY <1>0, <1>3, <2>1 DEF InsertAccount, Abort, Request
  <2>4. CheckMember(r) => FALSE
    BY <1>0, <1>3, <2>1 DEF CheckMember, Abort, Request
  <2> QED  BY <1>6, <2>2, <2>3, <2>4
<1>7. CASE PickSlug(r) \/ OutOfSlugs(r) \/ InsertTenant(r)
  <2>1. ASSUME NEW n, Step(r, n), n.pc \in {"tenant", "join"} PROVE FALSE
    BY <1>4, <2>1
  <2>2. PickSlug(r) => FALSE
    BY <1>0, <2>1 DEF PickSlug, Request
  <2>3. OutOfSlugs(r) \/ InsertTenant(r) => FALSE
    BY <1>0, <1>3, <2>1 DEF OutOfSlugs, InsertTenant, Abort, Request
  <2> QED  BY <1>7, <2>2, <2>3
<1>8. CASE Adopt(r)
  <2> DEFINE n == [q EXCEPT !.pc = "commit"]
  <2>1. n.id = 0
    BY <1>0, <1>8 DEF Adopt, Request, ReqOK
  <2>2. Step(r, n) \/ Step(r, NoRequest)
    BY <1>8 DEF Adopt, Abort
  <2> HIDE DEF n
  <2> QED  BY <1>3, <1>4, <2>1, <2>2
<1>9. CASE ReadTarget(r) \/ WriteTarget(r)
  <2>1. q.op \in {"change", "remove"}
    BY <1>0, <1>9 DEF ReadTarget, WriteTarget, Request, ReqOK, SignupOK, InviteOK
  <2>2. PICK n : Step(r, n) /\ (n.op = q.op \/ n = NoRequest)
    <3>1. CASE ReadTarget(r)
      <4> DEFINE m1 == [q EXCEPT !.pc = "commit"]
                 m2 == [q EXCEPT !.pc = "write", !.id = member[q.tenant][q.target].id]
      <4>1. m1.op = q.op /\ m2.op = q.op
        BY <1>0 DEF Request
      <4>2. Step(r, m1) \/ Step(r, m2) \/ Step(r, NoRequest)
        BY <3>1 DEF ReadTarget, Abort
      <4> HIDE DEF m1, m2
      <4> QED  BY <4>1, <4>2
    <3>2. CASE WriteTarget(r)
      <4> DEFINE m1 == [q EXCEPT !.pc = "commit"]
                 m2 == [q EXCEPT !.pc = "commit", !.id = 0]
      <4>1. m1.op = q.op /\ m2.op = q.op
        BY <1>0 DEF Request
      <4>2. Step(r, m1) \/ Step(r, m2) \/ Step(r, NoRequest)
        BY <3>2 DEF WriteTarget, Abort
      <4> HIDE DEF m1, m2
      <4> QED  BY <4>1, <4>2
    <3> QED  BY <1>9, <3>1, <3>2
  <2> QED  BY <1>3, <1>4, <2>1, <2>2
<1>10. CASE Commit(r)
  BY <1>0, <1>10 DEF Commit, NoRequest
<1>11. CASE Fail(r)
  BY <1>3, <1>11 DEF Fail, Abort
<1>12. CASE Proceed(r)
  BY <1>2, <1>6, <1>7, <1>8, <1>9, <1>10, <1>12 DEF Proceed
<1>13. ASSUME NEW o \in Requests, o # r, Arrive(o) \/ Proceed(o) \/ Fail(o)
       PROVE  request'[r] = q
  <2>1. ASSUME NEW n, request' = [request EXCEPT ![o] = n] PROVE request'[r] = q
    BY <1>0, <1>13, <2>1
  <2>2. ASSUME NEW n, Step(o, n) PROVE request'[r] = q
    BY <2>1, <2>2 DEF Step
  <2>3. Arrive(o) => request'[r] = q
    BY <2>2 DEF Arrive, Signup, Invite, ChangeRole, Remove
  <2>4. Fail(o) => request'[r] = q
    BY <2>2 DEF Fail, Abort
  <2>5. InsertMember(o) => request'[r] = q
    BY <1>0, <1>13, <2>2 DEF InsertMember
  <2>6. Commit(o) => request'[r] = q
    BY <2>1 DEF Commit
  <2>7. FindAccount(o) \/ InsertAccount(o) \/ PickSlug(o) \/ OutOfSlugs(o) \/ InsertTenant(o)
          => request'[r] = q
    BY <2>2 DEF FindAccount, InsertAccount, PickSlug, OutOfSlugs, InsertTenant, Abort
  <2>8. CheckMember(o) \/ Adopt(o) \/ ReadTarget(o) \/ WriteTarget(o) => request'[r] = q
    BY <2>2 DEF CheckMember, Adopt, ReadTarget, WriteTarget, Abort
  <2> QED  BY <1>13, <2>3, <2>4, <2>5, <2>6, <2>7, <2>8 DEF Proceed
<1>14. CASE UNCHANGED vars
  BY <1>1, <1>14 DEF vars
<1> QED  BY <1>1, <1>5, <1>11, <1>12, <1>13, <1>14 DEF Next

AddStep ==
  \A r \in Requests, t \in Tenants, u \in Users :
    Finishes(r) /\ request[r].op \in {"signup", "invite"} /\ Changes(t, u)
    => member[t][u] = None

LEMMA StepOnlyAdds == Inv /\ Newcomers /\ [Next]_vars => AddStep
<1> SUFFICES ASSUME Inv, Newcomers, [Next]_vars, NEW r \in Requests, NEW t \in Tenants,
                    NEW u \in Users, Finishes(r), request[r].op \in {"signup", "invite"},
                    Changes(t, u)
             PROVE  member[t][u] = None
  BY DEF AddStep
<1>1. Commit(r) /\ request[r].tenant = t /\ request[r].target = u
  BY FinishCommits
<1>2. request[r].id # 0
  <2> SUFFICES ASSUME request[r].id = 0 PROVE FALSE
    OBVIOUS
  <2>1. RowAfter(request[r]) = member[t][u]
    BY <1>1 DEF RowAfter
  <2>2. member'[t][u] = RowAfter(request[r])
    BY <1>1, MemberAfter
  <2> QED  BY <2>1, <2>2 DEF Changes
<1> QED  BY <1>1, <1>2 DEF Newcomers, Finishes

\* An invitation or a signup never changes a membership that is there.
THEOREM InvitationsOnlyAdd == Spec => InvitesOnlyAdd
<1>1. Init => Newcomers
  BY DEF Init, Newcomers, NoRequest
<1>2. Spec => [][AddStep]_vars
  BY <1>1, InsertsAreNew, StepOnlyAdds, AlwaysInv, PTL DEF Spec
<1> QED  BY <1>2 DEF InvitesOnlyAdd, AddStep

ReadStep ==
  \A r \in Requests, t \in Tenants, u \in Users :
    Finishes(r) /\ request[r].op \in {"change", "remove"} /\ Changes(t, u)
    => member[t][u] # None /\ member[t][u].id = request[r].id

LEMMA StepActsOnRead == Inv /\ [Next]_vars => ReadStep
<1> SUFFICES ASSUME Inv, [Next]_vars, NEW r \in Requests, NEW t \in Tenants, NEW u \in Users,
                    Finishes(r), request[r].op \in {"change", "remove"}, Changes(t, u)
             PROVE  member[t][u] # None /\ member[t][u].id = request[r].id
  BY DEF ReadStep
<1> DEFINE q == request[r]
<1>1. Commit(r) /\ q.tenant = t /\ q.target = u /\ q.pc = "commit"
  BY FinishCommits DEF Finishes
<1>2. RowAfter(q) # member[t][u]
  BY <1>1, MemberAfter DEF Changes
<1>3. q.id # 0
  BY <1>1, <1>2 DEF RowAfter
<1>4. StillThere(q)
  BY <1>1, <1>3 DEF Inv, ReqOK, ActOK
<1> QED  BY <1>1, <1>4 DEF StillThere

\* A role change or removal acts on the membership it checked.
THEOREM AlwaysActsOnWhatItRead == Spec => ActsOnWhatItRead
<1>1. Spec => [][ReadStep]_vars
  BY AlwaysInv, StepActsOnRead, PTL DEF Spec
<1> QED  BY <1>1 DEF ActsOnWhatItRead, ReadStep

AdminStep ==
  \A r \in Requests, t \in Tenants, u \in Users :
    /\ Finishes(r) /\ Changes(t, u)
    /\ member'[t][u] # None /\ member'[t][u].role = "admin"
    => request[r].actor = founder[t]

LEMMA StepMakesAdmins == Inv /\ [Next]_vars => AdminStep
<1> SUFFICES ASSUME Inv, [Next]_vars, NEW r \in Requests, NEW t \in Tenants, NEW u \in Users,
                    Finishes(r), Changes(t, u),
                    member'[t][u] # None, member'[t][u].role = "admin"
             PROVE  request[r].actor = founder[t]
  BY DEF AdminStep
<1> DEFINE q == request[r]
           row == RowAfter(q)
<1>1. Commit(r) /\ q.tenant = t /\ q.target = u /\ q.pc = "commit"
  BY FinishCommits DEF Finishes
<1>2. member'[t][u] = row /\ row # member[t][u] /\ row # None /\ row.role = "admin"
  BY <1>1, MemberAfter DEF Changes
<1>3. q.op # "signup"
  <2> SUFFICES ASSUME q.op = "signup" PROVE FALSE
    OBVIOUS
  <2>1. q.id # 0 /\ q.new = "owner"
    BY <1>1 DEF Inv, ReqOK, SignupOK
  <2>2. row.role = "owner"
    BY <2>1 DEF RowAfter
  <2> QED  BY <1>2, <2>2
<1> QED  BY <1>1, <1>2, <1>3, CommitRow

\* Nobody but the owner ever makes an admin.
THEOREM OwnerMakesAdmins == Spec => AdminsComeFromTheOwner
<1>1. Spec => [][AdminStep]_vars
  BY AlwaysInv, StepMakesAdmins, PTL DEF Spec
<1> QED  BY <1>1 DEF AdminsComeFromTheOwner, AdminStep
=============================================================================
