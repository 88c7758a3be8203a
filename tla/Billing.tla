------------------------------ MODULE Billing ------------------------------
(***************************************************************************)
(* Stripe billing: the checkout endpoint, the webhook endpoint and the     *)
(* local mirror of Stripe's subscriptions (billing/stripe_service.py,      *)
(* api/billing.py), each request one READ COMMITTED transaction            *)
(* (hunter/db.py get_db).                                                  *)
(*                                                                         *)
(* A request is a small automaton.  What it has flushed is private until   *)
(* it commits; a flushed row is locked, and another request that needs the *)
(* row waits.  Any exception, and a crash of the process, rolls it back.   *)
(*                                                                         *)
(* The webhook endpoint is an async function that calls the synchronous    *)
(* database driver, so from its first flush to its return it holds the     *)
(* event loop of its process; the commit of every request (the exit of the *)
(* get_db dependency) is scheduled on that loop.                           *)
(***************************************************************************)
EXTENDS Naturals, FiniteSets

CONSTANTS Tenants,          \* nonprofits
          StripeCustomers,  \* ids Stripe may hand out for a customer
          Subs,             \* ids Stripe may hand out for a subscription
          Plans,            \* plan keys a price can map to
          DefaultPlan,      \* plans.DEFAULT_PLAN, the free tier
          PayloadStatuses,  \* statuses Stripe may put in a payload
          Webhooks,         \* webhook requests that can be in flight
          Checkouts,        \* checkout requests that can be in flight
          Host,             \* the server process a request runs in
          MaxEvents,        \* bound: events Stripe emits
          Linked,           \* customer rows the model starts with
          AtStripe,         \* customers Stripe already has, and their tenants
          OpenPages,        \* checkout pages already handed out
          Mirrored,         \* subscriptions Stripe and the mirror both have
          None

Requests == Webhooks \cup Checkouts

Statuses == {"active", "trialing", "past_due", "canceled", "unpaid",
             "incomplete", "incomplete_expired", "paused", "none"}

ActiveStatuses == {"active", "trialing", "past_due"}

ASSUME ConstantsAssumption ==
  /\ DefaultPlan \in Plans
  /\ PayloadStatuses \subseteq Statuses
  /\ DOMAIN Host = Requests
  /\ MaxEvents \in Nat
  /\ Webhooks \cap Checkouts = {}
  /\ None \notin Tenants \cup StripeCustomers \cup Subs \cup Plans

VARIABLES
  customers,       \* billing_customers: the Stripe customer of each tenant
  subs,            \* billing_subscriptions, by Stripe subscription id
  markers,         \* billing_webhook_events: ids of processed events
  hook,            \* webhook requests
  checkout,        \* checkout requests
  stripeCustomer,  \* at Stripe: the tenant a customer was created for
  stripeSub,       \* at Stripe: the true state of each subscription
  sessions,        \* checkout pages whose URL an owner has received
  emitted,         \* events Stripe has emitted
  acked,           \* ids of events Stripe has been answered 200 for
  nextId           \* id of Stripe's next event

dbVars == <<customers, subs, markers>>
stripeVars == <<stripeCustomer, stripeSub, sessions, emitted, acked, nextId>>
vars == <<customers, subs, markers, hook, checkout, stripeCustomer,
          stripeSub, sessions, emitted, acked, nextId>>

-----------------------------------------------------------------------------
(* Records *)

EventTypes == {"created", "updated", "deleted", "checkout", "payment_failed",
               "other"}

\* A verified event: its type, and the fields of its payload the handlers
\* read.  Id 0 is an event from before the model starts.  "tenant" is
\* metadata.nonprofit_id or client_reference_id; "plan" is the plan key the
\* payload's price (or metadata) resolves to.
Event == [id : 0..MaxEvents, type : EventTypes,
          cust : StripeCustomers, sub : Subs \cup {None},
          tenant : Tenants \cup {None},
          status : Statuses, plan : Plans]

\* "tenant" stands for customer_id: a customer row is one tenant's.
Row == [tenant : Tenants, status : Statuses, plan : Plans]

StripeSubscription == [cust : StripeCustomers, tenant : Tenants \cup {None},
                       status : Statuses, plan : Plans]

Session == [cust : StripeCustomers, tenant : Tenants, plan : Plans]

\* pc     where the handler is
\* owner  tenant whose customer row the handler loaded
\* seen   the subscription row as the handler loaded it, None if it found none
\* holds  whether the transaction holds a flushed row besides its marker
Hook == [pc : {"idle", "insert", "read", "write", "commit", "late"},
         ev : Event \cup {None}, owner : Tenants \cup {None},
         seen : Row \cup {None}, holds : {"nothing", "row"}]

Checkout == [pc : {"idle", "create", "insert", "session", "commit", "late"},
             tenant : Tenants \cup {None}, plan : Plans \cup {None},
             cust : StripeCustomers \cup {None}, holds : {"nothing", "row"}]

NoHook == [pc |-> "idle", ev |-> None, owner |-> None, seen |-> None,
           holds |-> "nothing"]

NoCheckout == [pc |-> "idle", tenant |-> None, plan |-> None, cust |-> None,
               holds |-> "nothing"]

ASSUME NoneIsNoRecord == None \notin Event \cup Row \cup StripeSubscription

\* What earlier checkouts left: a row's customer, and a page's, was created
\* for the tenant; one customer is in one row.
ASSUME StartAssumption ==
  /\ Linked \in [Tenants -> StripeCustomers \cup {None}]
  /\ AtStripe \in [StripeCustomers -> Tenants \cup {None}]
  /\ \A t \in Tenants : Linked[t] # None => AtStripe[Linked[t]] = t
  /\ OpenPages \subseteq Session
  /\ \A x \in OpenPages : AtStripe[x.cust] = x.tenant
  /\ Mirrored \in [Subs -> StripeSubscription \cup {None}]
  /\ \A s \in Subs : Mirrored[s] # None =>
       /\ AtStripe[Mirrored[s].cust] # None
       /\ Mirrored[s].tenant \in {None, AtStripe[Mirrored[s].cust]}

SubscriptionEvent(id, type, s, sub) ==
  [id |-> id, type |-> type, cust |-> sub.cust, sub |-> s,
   tenant |-> sub.tenant, status |-> sub.status, plan |-> sub.plan]

MirrorOf(sub) == [tenant |-> AtStripe[sub.cust], status |-> sub.status,
                  plan |-> sub.plan]

Init ==
  /\ customers = Linked
  /\ subs = [s \in Subs |->
               IF Mirrored[s] = None THEN None ELSE MirrorOf(Mirrored[s])]
  /\ markers = {0}
  /\ hook = [w \in Webhooks |-> NoHook]
  /\ checkout = [k \in Checkouts |-> NoCheckout]
  /\ stripeCustomer = AtStripe
  /\ stripeSub = Mirrored
  /\ sessions = OpenPages
  /\ emitted = {SubscriptionEvent(0, "created", s, Mirrored[s]) :
                   s \in {r \in Subs : Mirrored[r] # None}}
  /\ acked = {0}
  /\ nextId = 1

-----------------------------------------------------------------------------
(* The event loop and the locks *)

\* Faulty variant of LoopFree: all processes share one loop.
SharedLoopFree(r) ==
  \A w \in Webhooks : hook[w].pc \notin {"insert", "read", "write"}

\* No webhook handler is running on the loop of request r's process.
LoopFree(r) ==
  \A w \in Webhooks :
    Host[w] = Host[r] => hook[w].pc \notin {"insert", "read", "write"}

HoldsMarker(w, id) ==
  hook[w].pc \in {"read", "write", "commit", "late"} /\ hook[w].ev.id = id

HoldsSub(w, s) ==
  /\ hook[w].holds = "row"
  /\ hook[w].ev.type # "checkout" /\ hook[w].ev.sub = s

\* An uncommitted row of billing_customers for tenant t or Stripe customer c
\* (both columns are unique).
CustomerInsertPending(t, c) ==
  \/ \E w \in Webhooks :
       /\ hook[w].holds = "row"
       /\ hook[w].ev.type = "checkout"
       /\ hook[w].ev.tenant = t \/ hook[w].ev.cust = c
  \/ \E k \in Checkouts :
       checkout[k].holds = "row" /\ (checkout[k].tenant = t \/ checkout[k].cust = c)

\* Faulty variant of CustomerTaken: nonprofit_id is not unique.
StripeIdTaken(t, c) == \E u \in Tenants : customers[u] = c

CustomerTaken(t, c) ==
  customers[t] # None \/ \E u \in Tenants : customers[u] = c

-----------------------------------------------------------------------------
(* POST /api/billing/{nonprofit_id}/checkout, by an owner *)

\* Faulty variant of GetCustomer: the query forgets the tenant.
AnyCustomer(t) ==
  LET u == CHOOSE u \in Tenants :
             customers[u] # None \/ \A v \in Tenants : customers[v] = None
  IN customers[u]

\* get_customer
GetCustomer(t) == customers[t]

\* ensure_customer looks for the tenant's customer row.
BeginCheckout(k, t, p) ==
  /\ checkout[k].pc = "idle"
  /\ p # DefaultPlan
  /\ checkout' = [checkout EXCEPT ![k] =
       [pc |-> IF GetCustomer(t) = None THEN "create" ELSE "session",
        tenant |-> t, plan |-> p, cust |-> GetCustomer(t), holds |-> "nothing"]]
  /\ UNCHANGED <<dbVars, hook, stripeVars>>

\* client.customers.create: Stripe keeps the customer whatever happens here.
CreateStripeCustomer(k, c) ==
  /\ checkout[k].pc = "create"
  /\ stripeCustomer[c] = None
  /\ stripeCustomer' = [stripeCustomer EXCEPT ![c] = checkout[k].tenant]
  /\ checkout' = [checkout EXCEPT ![k].pc = "insert", ![k].cust = c]
  /\ UNCHANGED <<dbVars, hook, stripeSub, sessions, emitted, acked, nextId>>

\* db.flush() of the new row; on an IntegrityError the transaction is rolled
\* back and the row that won is used.
InsertCustomer(k) ==
  LET t == checkout[k].tenant
      c == checkout[k].cust
  IN /\ checkout[k].pc = "insert"
     /\ ~CustomerInsertPending(t, c)
     /\ checkout' = [checkout EXCEPT ![k] =
          IF ~CustomerTaken(t, c)
            THEN [@ EXCEPT !.pc = "session", !.holds = "row"]
          ELSE IF GetCustomer(t) # None
            THEN [@ EXCEPT !.pc = "session", !.cust = GetCustomer(t)]
          ELSE NoCheckout]
     /\ UNCHANGED <<dbVars, hook, stripeVars>>

\* checkout.sessions.create succeeded; audit and usage rows are left out.
OpenSession(k) ==
  /\ checkout[k].pc = "session"
  /\ checkout' = [checkout EXCEPT ![k].pc = "commit"]
  /\ UNCHANGED <<dbVars, hook, stripeVars>>

HandOut(k) ==
  sessions' = sessions \cup {[cust |-> checkout[k].cust,
                              tenant |-> checkout[k].tenant,
                              plan |-> checkout[k].plan]}

\* FastAPI may send the response before the get_db dependency exits.
RespondCheckoutEarly(k) ==
  /\ checkout[k].pc = "commit"
  /\ LoopFree(k)
  /\ HandOut(k)
  /\ checkout' = [checkout EXCEPT ![k].pc = "late"]
  /\ UNCHANGED <<dbVars, hook, stripeCustomer, stripeSub, emitted, acked,
                 nextId>>

\* get_db commits; an owner not answered yet is answered now.
CommitCheckout(k) ==
  LET c == checkout[k]
  IN /\ c.pc \in {"commit", "late"}
     /\ LoopFree(k)
     /\ customers' = IF c.holds = "row" THEN [customers EXCEPT ![c.tenant] = c.cust]
                                ELSE customers
     /\ IF c.pc = "commit" THEN HandOut(k) ELSE UNCHANGED sessions
     /\ checkout' = [checkout EXCEPT ![k] = NoCheckout]
     /\ UNCHANGED <<subs, markers, hook, stripeCustomer, stripeSub, emitted,
                    acked, nextId>>

\* A Stripe call raises: 500, and the request's transaction is rolled back.
FailCheckout(k) ==
  /\ checkout[k].pc \in {"create", "session"}
  /\ checkout' = [checkout EXCEPT ![k] = NoCheckout]
  /\ UNCHANGED <<dbVars, hook, stripeVars>>

-----------------------------------------------------------------------------
(* POST /api/stripe/webhook *)

\* Faulty variant of MarkerPending: event ids are not unique.
NeverPending(w, id) == FALSE

\* Another transaction holds the event's marker, uncommitted.
MarkerPending(w, id) == \E v \in Webhooks \ {w} : HoldsMarker(v, id)

\* The flush of the marker, on the loop: another transaction's uncommitted
\* marker of the same event makes it wait; a committed one makes the delivery
\* a duplicate, answered 200 (after a rollback of nothing).
FlushMarker(w, e) ==
  /\ ~MarkerPending(w, e.id)
  /\ hook' = [hook EXCEPT ![w] =
       IF e.id \in markers
         THEN NoHook
         ELSE [NoHook EXCEPT !.pc = "read", !.ev = e]]
  /\ acked' = IF e.id \in markers THEN acked \cup {e.id} ELSE acked
  /\ UNCHANGED <<dbVars, checkout, stripeCustomer, stripeSub, sessions,
                 emitted, nextId>>

\* Stripe delivers an event, for the first time or again; the route verifies
\* the signature and calls apply_event.
Receive(w, e) ==
  /\ hook[w].pc = "idle"
  /\ LoopFree(w)
  /\ FlushMarker(w, e)

\* The same, when the flush has to wait.
ReceiveAndWait(w, e) ==
  /\ hook[w].pc = "idle"
  /\ LoopFree(w)
  /\ MarkerPending(w, e.id)
  /\ hook' = [hook EXCEPT ![w] = [NoHook EXCEPT !.pc = "insert", !.ev = e]]
  /\ UNCHANGED <<dbVars, checkout, stripeVars>>

InsertMarker(w) ==
  /\ hook[w].pc = "insert"
  /\ FlushMarker(w, hook[w].ev)

\* Faulty variant of OwnersOf: an unknown customer falls back to any row.
AnyOwner(e) ==
  LET byStripeId == {t \in Tenants : customers[t] = e.cust}
  IN IF byStripeId = {} THEN {t \in Tenants : customers[t] # None}
                        ELSE byStripeId

\* _customer_for, then for subscription.created the tenant in the metadata:
\* the tenants whose customer row the handler may load (at most one).
OwnersOf(e) ==
  LET byStripeId == {t \in Tenants : customers[t] = e.cust}
      byMetadata == {t \in Tenants : t = e.tenant /\ GetCustomer(t) # None}
  IN IF byStripeId = {} /\ e.type = "created" THEN byMetadata ELSE byStripeId

\* The outcome that writes no row: "ignored", "unknown_customer",
\* "no_subscription" and "checkout_linked" with a customer row already there.
WritesNothing(e) ==
  CASE e.type = "other"          -> TRUE
    [] e.type = "checkout"       -> e.tenant = None \/ GetCustomer(e.tenant) # None
    [] e.type = "payment_failed" -> \/ OwnersOf(e) = {}
                                    \/ e.sub = None
                                    \/ subs[e.sub] = None
    [] OTHER                     -> OwnersOf(e) = {}

\* The status a handler leaves in the row.
StatusOf(e) == CASE e.type = "deleted"        -> "canceled"
                 [] e.type = "payment_failed" -> "past_due"
                 [] OTHER                     -> e.status

\* The columns of the UPDATE: those in which the handler's record differs
\* from what it loaded.  A deletion flushes the payload's status, then sets
\* "canceled".
WritesStatus(e, seen) ==
  StatusOf(e) # seen.status \/ (e.type = "deleted" /\ e.status # seen.status)

\* Faulty variant of WritesPlan: an upsert of a known row keeps its plan.
NeverWritesPlan(e, seen) == FALSE

WritesPlan(e, seen) ==
  e.type # "payment_failed" /\ e.plan # seen.plan

\* invoice.payment_failed finds the row already past_due: SQLAlchemy emits no
\* UPDATE.
AlreadyPastDue(e) ==
  /\ e.type = "payment_failed" /\ ~WritesNothing(e)
  /\ subs[e.sub].status = "past_due"

\* The other handlers give a known row the status and plan it has.  There is
\* an UPDATE if the raw_json they also set differs from the row's, and none if
\* it is equal; which of the two is not modelled.
MayBeEqual(e) ==
  /\ e.type \in {"created", "updated", "deleted"} /\ ~WritesNothing(e)
  /\ subs[e.sub] # None
  /\ ~WritesStatus(e, subs[e.sub]) /\ ~WritesPlan(e, subs[e.sub])

ReadNothingToWrite(w) ==
  LET e == hook[w].ev
  IN /\ hook[w].pc = "read"
     /\ WritesNothing(e) \/ AlreadyPastDue(e) \/ MayBeEqual(e)
     /\ hook' = [hook EXCEPT ![w].pc = "commit"]
     /\ UNCHANGED <<dbVars, checkout, stripeVars>>

ReadCheckout(w) ==
  LET e == hook[w].ev
  IN /\ hook[w].pc = "read"
     /\ e.type = "checkout" /\ ~WritesNothing(e)
     /\ hook' = [hook EXCEPT ![w].pc = "write", ![w].owner = e.tenant]
     /\ UNCHANGED <<dbVars, checkout, stripeVars>>

ReadSubscription(w) ==
  LET e == hook[w].ev
  IN /\ hook[w].pc = "read"
     /\ e.type \in {"created", "updated", "deleted", "payment_failed"}
     /\ ~WritesNothing(e) /\ ~AlreadyPastDue(e)
     /\ \E t \in OwnersOf(e) :
          hook' = [hook EXCEPT ![w].pc = "write", ![w].owner = t,
                               ![w].seen = subs[e.sub]]
     /\ UNCHANGED <<dbVars, checkout, stripeVars>>

\* The flush of the handler's row: an INSERT that finds the row there fails,
\* the request answers 500 and Stripe will deliver the event again.
FlushSubscription(w) ==
  LET s == hook[w].ev.sub
  IN /\ hook[w].pc = "write" /\ hook[w].ev.type # "checkout"
     /\ \A v \in Webhooks : ~HoldsSub(v, s)
     /\ hook' = [hook EXCEPT ![w] =
          IF hook[w].seen = None /\ subs[s] # None
            THEN NoHook
            ELSE [@ EXCEPT !.pc = "commit", !.holds = "row"]]
     /\ UNCHANGED <<dbVars, checkout, stripeVars>>

FlushCustomer(w) ==
  LET e == hook[w].ev
  IN /\ hook[w].pc = "write" /\ e.type = "checkout"
     /\ ~CustomerInsertPending(e.tenant, e.cust)
     /\ hook' = [hook EXCEPT ![w] =
          IF CustomerTaken(e.tenant, e.cust)
            THEN NoHook
            ELSE [@ EXCEPT !.pc = "commit", !.holds = "row"]]
     /\ UNCHANGED <<dbVars, checkout, stripeVars>>

\* Faulty variant of RowAfter: the row goes to the tenant in the metadata.
RowForMetadata(h, now) ==
  [tenant |-> h.ev.tenant, status |-> StatusOf(h.ev), plan |-> h.ev.plan]

\* Row "now" after the transaction of request h commits.
RowAfter(h, now) ==
  LET e == h.ev
  IN IF h.seen = None
       THEN [tenant |-> h.owner, status |-> StatusOf(e), plan |-> e.plan]
       ELSE [now EXCEPT
              !.status = IF WritesStatus(e, h.seen) THEN StatusOf(e) ELSE @,
              !.plan   = IF WritesPlan(e, h.seen) THEN e.plan ELSE @]

\* The 200 may be sent before the get_db dependency exits.
RespondWebhookEarly(w) ==
  /\ hook[w].pc = "commit"
  /\ LoopFree(w)
  /\ acked' = acked \cup {hook[w].ev.id}
  /\ hook' = [hook EXCEPT ![w].pc = "late"]
  /\ UNCHANGED <<dbVars, checkout, stripeCustomer, stripeSub, sessions,
                 emitted, nextId>>

\* get_db commits the marker and the handler's row together; Stripe is
\* answered 200 if it has not been.
CommitWebhook(w) ==
  LET h == hook[w]
      e == h.ev
  IN /\ h.pc \in {"commit", "late"}
     /\ LoopFree(w)
     /\ acked' = acked \cup {e.id}
     /\ markers' = markers \cup {e.id}
     /\ customers' = IF h.holds = "row" /\ e.type = "checkout"
                       THEN [customers EXCEPT ![e.tenant] = e.cust]
                       ELSE customers
     /\ subs' = IF h.holds = "row" /\ e.type # "checkout"
                  THEN [subs EXCEPT ![e.sub] = RowAfter(h, @)]
                  ELSE subs
     /\ hook' = [hook EXCEPT ![w] = NoHook]
     /\ UNCHANGED <<checkout, stripeCustomer, stripeSub, sessions, emitted,
                    nextId>>

\* Faulty variant of FailWebhook: the note of the error is committed, and the
\* marker with it.
FailWebhookNoted(w) ==
  /\ hook[w].pc \in {"read", "write"}
  /\ markers' = markers \cup {hook[w].ev.id}
  /\ hook' = [hook EXCEPT ![w] = NoHook]
  /\ UNCHANGED <<customers, subs, checkout, stripeVars>>

\* The handler raises: apply_event notes the error on the marker and raises
\* again, the route answers 500, and the rollback takes marker and note away.
FailWebhook(w) ==
  /\ hook[w].pc \in {"read", "write"}
  /\ hook' = [hook EXCEPT ![w] = NoHook]
  /\ UNCHANGED <<dbVars, checkout, stripeVars>>

\* A server process dies with every request it is serving.
Crash(p) ==
  /\ \/ \E w \in Webhooks : Host[w] = p /\ hook[w].pc # "idle"
     \/ \E k \in Checkouts : Host[k] = p /\ checkout[k].pc # "idle"
  /\ hook' = [w \in Webhooks |-> IF Host[w] = p THEN NoHook ELSE hook[w]]
  /\ checkout' = [k \in Checkouts |->
                    IF Host[k] = p THEN NoCheckout ELSE checkout[k]]
  /\ UNCHANGED <<dbVars, stripeVars>>

-----------------------------------------------------------------------------
(* The plan that governs a tenant (read by every entitlement check) *)

\* Faulty variant of GoverningPlans: the status is not looked at.
PlansOfAnyStatus(t) ==
  LET rows == {s \in Subs : subs[s] # None /\ subs[s].tenant = t}
  IN IF customers[t] = None \/ rows = {} THEN {DefaultPlan}
                                         ELSE {subs[s].plan : s \in rows}

\* current_plan_key: the plan keys of the tenant's active rows, one of which
\* governs (the one last updated; updated_at is not modelled), or the free tier.
GoverningPlans(t) ==
  LET active == {s \in Subs : /\ subs[s] # None
                              /\ subs[s].tenant = t
                              /\ subs[s].status \in ActiveStatuses}
  IN IF GetCustomer(t) = None \/ active = {}
       THEN {DefaultPlan}
       ELSE {subs[s].plan : s \in active}

-----------------------------------------------------------------------------
(* Stripe *)

\* Stripe emits the payloads es, with the ids that follow.
Emit(n, es) ==
  /\ nextId + n - 1 <= MaxEvents
  /\ emitted' = emitted \cup es
  /\ nextId' = nextId + n
  /\ UNCHANGED <<dbVars, hook, checkout, stripeCustomer, acked>>

\* The owner pays on a checkout page: a subscription starts, and Stripe
\* reports both the subscription and the completed checkout.
Pay(x, s, st) ==
  LET sub == [cust |-> x.cust, tenant |-> x.tenant, status |-> st,
              plan |-> x.plan]
  IN /\ x \in sessions
     /\ stripeSub[s] = None
     /\ st \in {"active", "trialing", "incomplete"} \cap PayloadStatuses
     /\ stripeSub' = [stripeSub EXCEPT ![s] = sub]
     /\ sessions' = sessions \ {x}
     /\ Emit(2, {SubscriptionEvent(nextId, "created", s, sub),
                 [SubscriptionEvent(nextId + 1, "checkout", s, sub)
                    EXCEPT !.sub = None]})

\* An operator creates a subscription for a customer in Stripe's dashboard:
\* no metadata names the tenant.
PayByDashboard(c, s, p) ==
  LET sub == [cust |-> c, tenant |-> None, status |-> "active", plan |-> p]
  IN /\ stripeCustomer[c] # None
     /\ stripeSub[s] = None
     /\ stripeSub' = [stripeSub EXCEPT ![s] = sub]
     /\ Emit(1, {SubscriptionEvent(nextId, "created", s, sub)})
     /\ UNCHANGED sessions

Living(s) == stripeSub[s] # None /\ stripeSub[s].status # "canceled"

\* The plan or the status changes (portal, dunning, end of a trial).
Update(s, st, p) ==
  LET sub == [stripeSub[s] EXCEPT !.status = st, !.plan = p]
  IN /\ Living(s)
     /\ st \notin {"canceled", "incomplete"} /\ sub # stripeSub[s]
     /\ stripeSub' = [stripeSub EXCEPT ![s] = sub]
     /\ Emit(1, {SubscriptionEvent(nextId, "updated", s, sub)})
     /\ UNCHANGED sessions

PaymentFails(s) ==
  LET sub == [stripeSub[s] EXCEPT !.status = "past_due"]
  IN /\ Living(s)
     /\ stripeSub' = [stripeSub EXCEPT ![s] = sub]
     /\ Emit(1, {SubscriptionEvent(nextId, "payment_failed", s, sub)})
     /\ UNCHANGED sessions

Cancel(s) ==
  LET sub == [stripeSub[s] EXCEPT !.status = "canceled"]
  IN /\ Living(s)
     /\ stripeSub' = [stripeSub EXCEPT ![s] = sub]
     /\ Emit(1, {SubscriptionEvent(nextId, "deleted", s, sub)})
     /\ UNCHANGED sessions

\* An event of a type the application has no handler for.
OtherEvent(s) ==
  /\ stripeSub[s] # None
  /\ Emit(1, {SubscriptionEvent(nextId, "other", s, stripeSub[s])})
  /\ UNCHANGED <<stripeSub, sessions>>

-----------------------------------------------------------------------------

CheckoutStep(k) ==
  \/ \E t \in Tenants, p \in Plans : BeginCheckout(k, t, p)
  \/ \E c \in StripeCustomers : CreateStripeCustomer(k, c)
  \/ InsertCustomer(k)
  \/ OpenSession(k)
  \/ RespondCheckoutEarly(k)
  \/ CommitCheckout(k)
  \/ FailCheckout(k)

ReadRow(w) == ReadNothingToWrite(w) \/ ReadCheckout(w) \/ ReadSubscription(w)

FlushRow(w) == FlushSubscription(w) \/ FlushCustomer(w)

WebhookStep(w) ==
  \/ \E e \in emitted : Receive(w, e)
  \/ \E e \in emitted : ReceiveAndWait(w, e)
  \/ InsertMarker(w)
  \/ ReadRow(w)
  \/ FlushRow(w)
  \/ RespondWebhookEarly(w)
  \/ CommitWebhook(w)
  \/ FailWebhook(w)

StripeStep ==
  \/ \E x \in sessions, s \in Subs, st \in PayloadStatuses : Pay(x, s, st)
  \/ \E c \in StripeCustomers, s \in Subs, p \in Plans : PayByDashboard(c, s, p)
  \/ \E s \in Subs, st \in PayloadStatuses, p \in Plans : Update(s, st, p)
  \/ \E s \in Subs : PaymentFails(s)
  \/ \E s \in Subs : Cancel(s)
  \/ \E s \in Subs : OtherEvent(s)

Next ==
  \/ \E k \in Checkouts : CheckoutStep(k)
  \/ \E w \in Webhooks : WebhookStep(w)
  \/ StripeStep
  \/ \E r \in Requests : Crash(Host[r])

Spec == Init /\ [][Next]_vars

\* Stripe delivers an event again until it is answered 200.
Redeliver(n) ==
  \E w \in Webhooks, e \in emitted :
    e.id = n /\ n \notin acked /\ Receive(w, e)

\* Neither a failure nor a crash strikes a stage of a request for ever: a
\* stage that is reached again and again is passed.
Fairness ==
  /\ \A n \in 1..MaxEvents : SF_vars(Redeliver(n))
  /\ \A w \in Webhooks : /\ WF_vars(InsertMarker(w))
                         /\ SF_vars(ReadRow(w))
                         /\ SF_vars(FlushRow(w))
                         /\ SF_vars(CommitWebhook(w))
  /\ \A k \in Checkouts : /\ WF_vars(InsertCustomer(k))
                          /\ WF_vars(CommitCheckout(k))

FairSpec == Spec /\ Fairness

-----------------------------------------------------------------------------
(* Properties *)

\* What is known of a checkout request at each stage.
CheckoutStageOK(c) ==
  /\ c.pc # "idle" => c.tenant \in Tenants /\ c.plan \in Plans
  /\ c.pc \notin {"idle", "create"} => c.cust \in StripeCustomers
  /\ c.holds = "row" => c.pc \in {"session", "commit", "late"}

\* What is known of a webhook request at each stage.
HookStageOK(h) ==
  /\ h.pc # "idle" => h.ev \in emitted
  /\ h.holds = "row" => h.pc \in {"commit", "late"}
  /\ h.pc = "write" \/ h.holds = "row" =>
       /\ h.owner \in Tenants
       /\ h.ev.type # "other"
       /\ h.ev.type = "checkout" => h.ev.tenant \in Tenants
  /\ h.seen # None =>
       h.pc # "idle" /\ h.ev.type # "checkout" /\ subs[h.ev.sub] # None

StagesOK ==
  /\ \A k \in Checkouts : CheckoutStageOK(checkout[k])
  /\ \A w \in Webhooks : HookStageOK(hook[w])
  /\ \A e \in emitted : e.type # "checkout" => e.sub \in Subs

\* The type invariant.
TypeOK ==
  /\ StagesOK
  /\ customers \in [Tenants -> StripeCustomers \cup {None}]
  /\ subs \in [Subs -> Row \cup {None}]
  /\ markers \subseteq 0..MaxEvents
  /\ hook \in [Webhooks -> Hook]
  /\ checkout \in [Checkouts -> Checkout]
  /\ stripeCustomer \in [StripeCustomers -> Tenants \cup {None}]
  /\ stripeSub \in [Subs -> StripeSubscription \cup {None}]
  /\ sessions \subseteq Session
  /\ emitted \subseteq Event
  /\ acked \subseteq 0..MaxEvents
  /\ nextId \in 1..(MaxEvents + 1)

PastMarker(w) == hook[w].pc \in {"read", "write", "commit", "late"}

\* However often an event is delivered, at most one request is past its
\* marker, and none is once the event has been processed: the effects of an
\* event are committed at most once (apply_event; README: "a replayed delivery
\* is a no-op").
OncePerEvent ==
  \A w \in Webhooks : PastMarker(w) =>
    /\ hook[w].ev.id \notin markers
    /\ \A v \in Webhooks \ {w} : PastMarker(v) => hook[v].ev.id # hook[w].ev.id

\* The tenant for which Stripe created the customer that pays for s.
BuyerOf(s) == stripeCustomer[stripeSub[s].cust]

\* A tenant's customer row points to a customer created for that tenant, a
\* subscription row belongs to the tenant whose customer pays for it, and a
\* checkout page charges its tenant's customer: no race of checkouts and
\* events makes one tenant pay for another or have another's plan.
TenantIsolation ==
  /\ \A t \in Tenants : customers[t] # None => stripeCustomer[customers[t]] = t
  /\ \A s \in Subs : subs[s] # None =>
       stripeSub[s] # None /\ subs[s].tenant = BuyerOf(s)
  /\ \A x \in sessions : stripeCustomer[x.cust] = x.tenant

\* What an event says of the subscription's status.
Reported(e) == IF e.type = "payment_failed" THEN "past_due" ELSE e.status

\* An event that counts as processed was applied: whatever failed or crashed
\* between its marker and its row, a subscription reported for a customer the
\* application knew from the start is in the mirror (apply_event flushes the
\* marker first and says a crash "leaves the event marked as processed"; in
\* one transaction it does not).
ProcessedIsMirrored ==
  \A e \in emitted :
    /\ e.id \in markers /\ e.type \in {"created", "updated", "deleted"}
    /\ \E t \in Tenants : Linked[t] = e.cust
    => subs[e.sub] # None

\* A tenant has a paid plan only if processed events reported, for one
\* subscription the tenant pays for, that plan and a status that grants access.
AccessWasBought ==
  \A t \in Tenants : \A p \in GoverningPlans(t) \ {DefaultPlan} :
    \E e, f \in emitted :
      /\ e.id \in markers /\ f.id \in markers
      /\ e.sub = f.sub /\ e.sub # None
      /\ stripeCustomer[e.cust] = t /\ stripeCustomer[f.cust] = t
      /\ Reported(e) \in {"active", "trialing", "past_due"}
      /\ f.plan = p

\* A tenant's pointer to its Stripe customer, once committed, never changes:
\* not by a concurrent checkout, not by a checkout.session.completed for
\* another customer ("rather than silently rewriting the pointer").
CustomerPointerStable ==
  [][\A t \in Tenants : customers[t] # None => customers'[t] = customers[t]]_vars

\* When no other request wrote a subscription row since the handler loaded
\* it, the commit leaves the row as the payload says, although the UPDATE
\* names only the columns that differ.
FreshWriterWins ==
  [][\A w \in Webhooks :
       LET h == hook[w]
           e == h.ev
       IN (/\ h.pc \in {"commit", "late"} /\ h.holds = "row" /\ e.id \in markers'
           /\ e.type \in {"created", "updated", "deleted"}
           /\ h.seen = subs[e.sub])
            => /\ subs'[e.sub].status = StatusOf(e)
               /\ subs'[e.sub].plan = e.plan]_vars

\* Every event Stripe emits is eventually answered 200, if Stripe redelivers
\* and the server does not fail for ever.
EventsAnswered == \A n \in 1..MaxEvents : (n < nextId) ~> (n \in acked)

\* A subscription the application has recorded as canceled stays canceled
\* ("Mark terminal explicitly rather than trusting the payload's status").
CanceledIsFinal ==
  [][\A s \in Subs : (subs[s] # None /\ subs[s].status = "canceled")
       => subs'[s].status = "canceled"]_vars

=============================================================================
