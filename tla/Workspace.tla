------------------------------ MODULE Workspace ------------------------------
(***************************************************************************)
(* What the members of one nonprofit work on: its soul in the vault        *)
(* (inner_court/vault.py), the drafts of its matches (scribe,              *)
(* api/inner_court.py), the review of a match (api/grants.py) and the      *)
(* metering of drafts (tracking/service.py, billing/entitlements.py).      *)
(*                                                                         *)
(* Each request is one READ COMMITTED transaction.  The ORM writes only    *)
(* the columns whose value differs from the row it loaded, onto whatever   *)
(* the row is by then; the first write of a row locks it until the end.    *)
(***************************************************************************)
EXTENDS Naturals, Sequences, FiniteSets

CONSTANTS Docs,       \* soul documents that parse
          NameOf,     \* the nonprofit's name in each, None where it is empty
          Kinds,      \* draft kinds asked for; templates exist for them
          MaxKinds,   \* most kinds one request asks for (20 in the code)
          Limit,      \* drafts_per_month of the tenant's plan
          Requests,   \* request slots, each with its own user
          MaxMonths,  \* bound: months
          MaxServed,  \* bound: requests that arrive
          None

Names == {NameOf[d] : d \in Docs} \ {None}

ASSUME WorkspaceAssumption ==
  /\ MaxKinds \in Nat \ {0} /\ Limit \in Nat \ {0}
  /\ MaxMonths \in Nat /\ MaxServed \in Nat
  /\ IsFiniteSet(Requests) /\ Requests # {}
  /\ None \notin Docs \cup Kinds \cup Requests

VARIABLES
  tenant,   \* the columns of the nonprofits row that a soul writes
  match,    \* the columns of one matches row that a review writes
  drafts,   \* of each kind, the drafts rows: the soul each was rendered from
  month,
  used,     \* committed usage events "drafts.generated" of this month
  total,    \* those of all months
  rollup,   \* daily_usage of that event, over all days
  request,
  served

vars == <<tenant, match, drafts, month, used, total, rollup, request, served>>

Tenant == [blob : Docs \cup {None}, json : Docs \cup {None},
           name : Names \cup {None}]

Statuses == {"new", "needs_review", "approved", "rejected"}

Match == [status : Statuses, note : {"none", "because"},
          by : Requests \cup {None}]

\* A request for drafts names kinds one after another, repeatedly if it likes.
KindLists == UNION {[1..n -> Kinds] : n \in 0..MaxKinds}

\* seen   the row it loaded, and "set" the values it gives the columns
\* soul   the document it decrypted
\* row    of each kind, the existing draft it will overwrite (0: insert)
\* amount, month   of the usage event;  count: the rollup row it leaves
Request == [op : {"none", "put", "delete", "review", "generate"},
            pc : {"idle", "write", "check", "read", "store", "usage", "commit"},
            seen : Tenant \cup Match \cup {None},
            set : Tenant \cup Match \cup {None},
            soul : Docs \cup {None}, kinds : KindLists,
            row : [Kinds -> Nat], amount : Nat, month : Nat, count : Nat]

NoRequest == [op |-> "none", pc |-> "idle", seen |-> None, set |-> None,
              soul |-> None, kinds |-> << >>, row |-> [k \in Kinds |-> 0],
              amount |-> 0, month |-> 0, count |-> 0]

\* A tenant that has signed up and has one match, as the matcher left it.
Init ==
  /\ tenant = [blob |-> None, json |-> None, name |-> None]
  /\ match = [status |-> "new", note |-> "none", by |-> None]
  /\ drafts = [k \in Kinds |-> << >>]
  /\ month = 1 /\ used = 0 /\ total = 0 /\ rollup = 0
  /\ request = [r \in Requests |-> NoRequest]
  /\ served = 0

-----------------------------------------------------------------------------
(* A request arrives: the scope loads the tenant, the handler its match *)

Arrive(r, record) ==
  /\ request[r].pc = "idle" /\ served < MaxServed
  /\ served' = served + 1
  /\ request' = [request EXCEPT ![r] = record]
  /\ UNCHANGED <<tenant, match, drafts, month, used, total, rollup>>

\* save_soul: parsed and encrypted before anything is set; an empty name is not.
PutSoul(r, d) ==
  Arrive(r, [NoRequest EXCEPT !.op = "put", !.pc = "write", !.seen = tenant,
     !.set = [blob |-> d, json |-> d,
              name |-> IF NameOf[d] = None THEN tenant.name ELSE NameOf[d]]])

\* clear_soul empties the blob and its mirror.
\* Faulty variant of Cleared: it forgets the mirror.
ClearedButJson(t) == [t EXCEPT !.blob = None]

Cleared(t) == [t EXCEPT !.blob = None, !.json = None]

DeleteSoul(r) ==
  Arrive(r, [NoRequest EXCEPT !.op = "delete", !.pc = "write",
                              !.seen = tenant, !.set = Cleared(tenant)])

\* review_match: any status for any other, the reviewer is the caller.
\* Faulty variant of Review: the reviewer is whom the client names.
ReviewByClient(r, status, note) ==
  Arrive(r, [NoRequest EXCEPT !.op = "review", !.pc = "write", !.seen = match,
     !.set = [status |-> status, note |-> note, by |-> note]])

Review(r, status, note) ==
  Arrive(r, [NoRequest EXCEPT !.op = "review", !.pc = "write", !.seen = match,
     !.set = [status |-> status, note |-> note, by |-> r]])

\* generate_drafts: load_soul_for, 422 without a soul.
Generate(r, kinds) ==
  /\ tenant.blob # None
  /\ Arrive(r, [NoRequest EXCEPT !.op = "generate", !.pc = "check",
                                 !.soul = tenant.blob, !.kinds = kinds])

-----------------------------------------------------------------------------
(* The steps of a request *)

Step(r, record) ==
  /\ request' = [request EXCEPT ![r] = record]
  /\ UNCHANGED <<tenant, match, drafts, month, used, total, rollup, served>>

SoulOps == {"put", "delete"}

\* Rows that the others' uncommitted writes hold.
RowFree(r, ops) ==
  \A o \in Requests \ {r} : ~(request[o].op \in ops /\ request[o].pc = "commit")

\* flush: UPDATE of the nonprofits or matches row.
Write(r) ==
  /\ request[r].pc = "write"
  /\ RowFree(r, IF request[r].op = "review" THEN {"review"} ELSE SoulOps)
  /\ Step(r, [request[r] EXCEPT !.pc = "commit"])

\* check_drafts: 402 at the limit.
\* Faulty variant of WithinPlan: the limit itself is still allowed.
UpToPlan == used <= Limit

WithinPlan == used < Limit

CheckDrafts(r) ==
  /\ request[r].pc = "check"
  /\ IF WithinPlan THEN Step(r, [request[r] EXCEPT !.pc = "read"])
                   ELSE Step(r, NoRequest)

Asked(q) == {q.kinds[i] : i \in DOMAIN q.kinds}

\* generate_for_match looks the drafts up by kind; of several, the one the
\* query returns last counts.
\* Faulty variant of ReadDrafts: replace=False, every run inserts.
ReadNoDrafts(r) ==
  /\ request[r].pc = "read"
  /\ Step(r, [request[r] EXCEPT !.pc = "store"])

ReadDrafts(r) ==
  /\ request[r].pc = "read"
  /\ \E row \in [Kinds -> UNION {0..Len(drafts[k]) : k \in Kinds}] :
       /\ \A k \in Kinds : IF k \in Asked(request[r]) /\ drafts[k] # << >>
                           THEN row[k] \in DOMAIN drafts[k] ELSE row[k] = 0
       /\ Step(r, [request[r] EXCEPT !.pc = "store", !.row = row])

Overwrites(q) == {<<k, q.row[k]>> : k \in {k \in Asked(q) : q.row[k] # 0}}

Holding == {r \in Requests : request[r].op = "generate"
                             /\ request[r].pc \in {"usage", "commit"}}

\* flush: UPDATE of the drafts found, INSERT of the others.
StoreDrafts(r) ==
  /\ request[r].pc = "store"
  /\ \A o \in Holding \ {r} : Overwrites(request[o]) \cap Overwrites(request[r]) = {}
  /\ Step(r, [request[r] EXCEPT !.pc = "usage"])

Quantity(q) == IF q.kinds = << >> THEN 1 ELSE Len(q.kinds)

Counted(r, record) ==
  Step(r, [record EXCEPT !.pc = "commit", !.amount = Quantity(record),
                         !.month = month, !.count = rollup + Quantity(record)])

\* record_usage: the event, then the upsert of the rollup, which waits for the
\* row another request has written and adds to what that one leaves.
\* Faulty variant of RecordUsage: read the counter, then set it (the portable
\* branch of bump_rollup).
RecordUsageUnlocked(r) ==
  /\ request[r].pc = "usage"
  /\ Counted(r, request[r])

RecordUsage(r) ==
  /\ request[r].pc = "usage" /\ RowFree(r, {"generate"})
  /\ Counted(r, request[r])

-----------------------------------------------------------------------------
(* Commit *)

\* The row after an UPDATE of the columns that differ from the loaded ones.
\* The ciphertext of a blob is new every time.
Merged(row, q) ==
  [c \in DOMAIN row |-> IF q.set[c] # q.seen[c] \/ (q.op = "put" /\ c = "blob")
                        THEN q.set[c] ELSE row[c]]

Times(q, k) == Cardinality({i \in DOMAIN q.kinds : q.kinds[i] = k})

\* A kind without a draft gets one per mention, as "existing" is not updated.
DraftsAfter(q, k) ==
  IF k \notin Asked(q) THEN drafts[k]
  ELSE IF q.row[k] # 0 THEN [drafts[k] EXCEPT ![q.row[k]] = q.soul]
  ELSE drafts[k] \o [i \in 1..Times(q, k) |-> q.soul]

Commit(r) ==
  LET q == request[r]
  IN  /\ q.pc = "commit"
      /\ request' = [request EXCEPT ![r] = NoRequest]
      /\ tenant' = IF q.op \in SoulOps THEN Merged(tenant, q) ELSE tenant
      /\ match' = IF q.op = "review" THEN Merged(match, q) ELSE match
      /\ IF q.op = "generate"
         THEN /\ drafts' = [k \in Kinds |-> DraftsAfter(q, k)]
              /\ used' = IF q.month = month THEN used + q.amount ELSE used
              /\ total' = total + q.amount
              /\ rollup' = q.count
         ELSE UNCHANGED <<drafts, used, total, rollup>>
      /\ UNCHANGED <<month, served>>

\* A template that does not render, a lost connection, a crash: rollback.
Fail(r) == request[r].pc # "idle" /\ Step(r, NoRequest)

\* _start_of_month moves on.
NewMonth ==
  /\ month < MaxMonths
  /\ month' = month + 1 /\ used' = 0
  /\ UNCHANGED <<tenant, match, drafts, total, rollup, request, served>>

Next ==
  \/ NewMonth
  \/ \E r \in Requests :
       \/ \E d \in Docs : PutSoul(r, d)
       \/ DeleteSoul(r)
       \/ \E status \in Statuses, note \in {"none", "because"} : Review(r, status, note)
       \/ \E kinds \in KindLists : Generate(r, kinds)
       \/ Write(r) \/ CheckDrafts(r) \/ ReadDrafts(r) \/ StoreDrafts(r)
       \/ RecordUsage(r) \/ Commit(r) \/ Fail(r)

Spec == Init /\ [][Next]_vars

-----------------------------------------------------------------------------
(* Properties *)

\* Every variable keeps to the values its row or request can have.
TypeOK ==
  /\ tenant \in Tenant /\ match \in Match
  /\ drafts \in [Kinds -> Seq(Docs)]
  /\ month \in Nat /\ used \in Nat /\ total \in Nat /\ rollup \in Nat
  /\ request \in [Requests -> Request] /\ served \in Nat

\* A soul that is stored or cleared, or a review, with nobody else writing the
\* row since it was loaded, leaves the row as a whole: the mirror shows the
\* document in the blob, and status, note and reviewer are those of one
\* decision.  (Writing only the changed columns loses none then; two writers at
\* once can make blob and mirror disagree, as a column equal to the loaded one
\* is not written.)
UndisturbedWritesAreWhole ==
  [][\A r \in Requests :
       request[r].pc = "commit" /\ request'[r].pc = "idle" =>
       /\ request[r].op \in SoulOps /\ request[r].seen = tenant
          /\ tenant.blob = tenant.json /\ tenant' # tenant
            => tenant'.blob = tenant'.json /\ tenant' = request[r].set
       /\ request[r].op = "review" /\ request[r].seen = match /\ match' # match
            => match' = request[r].set]_vars

\* The monthly limit is checked before the drafts of other requests count, and
\* for any number of kinds; but the excess never grows beyond what every
\* request slot can ask for at once.
OvershootBounded ==
  used <= (Limit - 1) + MaxKinds * Cardinality(Requests)

\* Requests that meter at once lose no count: the rollup a dashboard shows is
\* the sum of the usage events, which "can be rebuilt" from them.
RollupIsTheSum == rollup = total

\* Regeneration updates in place: however often a kind is generated, its drafts
\* do not outnumber the mentions of it in requests that overlap.
DuplicatesBounded ==
  \A k \in Kinds : Len(drafts[k]) <= MaxKinds * Cardinality(Requests)

=============================================================================
