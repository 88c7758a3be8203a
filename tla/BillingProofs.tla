--------------------------- MODULE BillingProofs ---------------------------
(* Type correctness and safety of Billing, for all values of its constants. *)
EXTENDS Billing, TLAPS

USE DEF Requests, dbVars, stripeVars

LEMMA NoneFacts ==
  /\ None \notin Tenants /\ None \notin StripeCustomers
  /\ None \notin Subs /\ None \notin Plans
  /\ None \notin Event /\ None \notin Row /\ None \notin StripeSubscription
  BY ConstantsAssumption, NoneIsNoRecord

LEMMA NoRequestTypes == NoHook \in Hook /\ NoCheckout \in Checkout
  BY DEF NoHook, NoCheckout, Hook, Checkout

\* A payload of Stripe is an event.
LEMMA EventType ==
  ASSUME NEW id \in 0..MaxEvents, NEW type \in EventTypes, NEW s \in Subs,
         NEW sub \in StripeSubscription
  PROVE  SubscriptionEvent(id, type, s, sub) \in Event
  BY DEF SubscriptionEvent, Event, StripeSubscription

LEMMA InitTypeOK == Init => TypeOK
<1> SUFFICES ASSUME Init PROVE TypeOK
  OBVIOUS
<1> USE ConstantsAssumption, StartAssumption, NoneFacts
<1>1. subs \in [Subs -> Row \cup {None}]
  <2>1. ASSUME NEW s \in Subs, Mirrored[s] # None
        PROVE  MirrorOf(Mirrored[s]) \in Row
    <3>1. Mirrored[s] \in StripeSubscription
      BY <2>1
    <3>2. AtStripe[Mirrored[s].cust] \in Tenants
      BY <2>1, <3>1 DEF StripeSubscription
    <3> QED
      BY <3>1, <3>2 DEF MirrorOf, Row, StripeSubscription
  <2> QED
    BY <2>1 DEF Init
<1>2. emitted \subseteq Event
  <2>1. ASSUME NEW s \in Subs, Mirrored[s] # None
        PROVE  SubscriptionEvent(0, "created", s, Mirrored[s]) \in Event
    <3>1. Mirrored[s] \in StripeSubscription
      BY <2>1
    <3> QED
      BY <3>1, EventType DEF EventTypes
  <2> QED
    BY <2>1 DEF Init
<1>3. hook \in [Webhooks -> Hook] /\ checkout \in [Checkouts -> Checkout]
  BY NoRequestTypes DEF Init
<1>4. StagesOK
  BY <1>2 DEF Init, StagesOK, CheckoutStageOK, HookStageOK, NoHook, NoCheckout,
                SubscriptionEvent, EventTypes
<1> QED
  BY <1>1, <1>2, <1>3, <1>4 DEF Init, TypeOK

-----------------------------------------------------------------------------
(* Type correctness *)

\* A checkout request moves on to record r and nothing else that the types
\* speak of changes.
LEMMA CheckoutMoves ==
  ASSUME TypeOK, NEW k \in Checkouts, NEW r \in Checkout, CheckoutStageOK(r),
         checkout' = [checkout EXCEPT ![k] = r], UNCHANGED <<subs, hook, emitted>>
  PROVE  StagesOK' /\ checkout' \in [Checkouts -> Checkout]
<1>1. checkout' \in [Checkouts -> Checkout]
  BY DEF TypeOK
<1>2. \A j \in Checkouts : CheckoutStageOK(checkout[j])'
  BY DEF TypeOK, StagesOK, CheckoutStageOK
<1>3. \A w \in Webhooks : HookStageOK(hook[w])'
  BY DEF TypeOK, StagesOK, HookStageOK
<1> QED
  BY <1>1, <1>2, <1>3 DEF TypeOK, StagesOK

LEMMA CheckoutTypeOK ==
  ASSUME TypeOK, NEW k \in Checkouts, CheckoutStep(k)
  PROVE  TypeOK'
<1> USE NoneFacts, NoRequestTypes
<1> DEFINE c == checkout[k]
<1>0. /\ c \in Checkout /\ CheckoutStageOK(c)
      /\ customers \in [Tenants -> StripeCustomers \cup {None}]
  BY DEF TypeOK, StagesOK
<1>1. CheckoutStageOK(NoCheckout)
  BY DEF CheckoutStageOK, NoCheckout
<1>2. CASE \E t \in Tenants, p \in Plans : BeginCheckout(k, t, p)
  <2>1. PICK t \in Tenants, p \in Plans : BeginCheckout(k, t, p)
    BY <1>2
  <2> DEFINE r == [pc |-> IF GetCustomer(t) = None THEN "create" ELSE "session",
                   tenant |-> t, plan |-> p, cust |-> GetCustomer(t),
                   holds |-> "nothing"]
  <2>2. r \in Checkout /\ CheckoutStageOK(r)
    BY <1>0 DEF Checkout, CheckoutStageOK, GetCustomer
  <2>3. checkout' = [checkout EXCEPT ![k] = r] /\ UNCHANGED <<dbVars, hook, stripeVars>>
    BY <2>1 DEF BeginCheckout
  <2> HIDE DEF r
  <2>4. StagesOK' /\ checkout' \in [Checkouts -> Checkout]
    BY <2>2, <2>3, CheckoutMoves
  <2> QED
    BY <2>3, <2>4 DEF TypeOK
<1>3. CASE \E d \in StripeCustomers : CreateStripeCustomer(k, d)
  <2>1. PICK d \in StripeCustomers : CreateStripeCustomer(k, d)
    BY <1>3
  <2> DEFINE r == [c EXCEPT !.pc = "insert", !.cust = d]
  <2>2. r \in Checkout /\ CheckoutStageOK(r)
    BY <1>0, <2>1 DEF CreateStripeCustomer, Checkout, CheckoutStageOK
  <2>3. checkout' = [checkout EXCEPT ![k] = r] /\ UNCHANGED <<subs, hook, emitted>>
    BY <2>1 DEF CreateStripeCustomer
  <2>4. stripeCustomer' \in [StripeCustomers -> Tenants \cup {None}]
    BY <1>0, <2>1 DEF CreateStripeCustomer, CheckoutStageOK, TypeOK
  <2> HIDE DEF r
  <2>5. StagesOK' /\ checkout' \in [Checkouts -> Checkout]
    BY <2>2, <2>3, CheckoutMoves
  <2> QED
    BY <2>1, <2>4, <2>5 DEF CreateStripeCustomer, TypeOK
<1>4. CASE InsertCustomer(k)
  <2>1. c.tenant \in Tenants /\ c.cust \in StripeCustomers /\ c.plan \in Plans
    BY <1>0, <1>4 DEF InsertCustomer, CheckoutStageOK
  <2>2. UNCHANGED <<dbVars, hook, stripeVars>>
    BY <1>4 DEF InsertCustomer
  <2> SUFFICES StagesOK' /\ checkout' \in [Checkouts -> Checkout]
    BY <2>2 DEF TypeOK
  <2>3. CASE ~CustomerTaken(c.tenant, c.cust)
    <3> DEFINE r == [c EXCEPT !.pc = "session", !.holds = "row"]
    <3>1. r \in Checkout /\ CheckoutStageOK(r)
      BY <1>0, <2>1 DEF Checkout, CheckoutStageOK
    <3>2. checkout' = [checkout EXCEPT ![k] = r]
      BY <1>4, <2>3 DEF InsertCustomer
    <3> HIDE DEF r
    <3> QED
      BY <2>2, <3>1, <3>2, CheckoutMoves
  <2>4. CASE CustomerTaken(c.tenant, c.cust) /\ GetCustomer(c.tenant) # None
    <3> DEFINE r == [c EXCEPT !.pc = "session", !.cust = GetCustomer(c.tenant)]
    <3>1. GetCustomer(c.tenant) \in StripeCustomers
      BY <1>0, <2>1, <2>4 DEF GetCustomer
    <3>2. r \in Checkout /\ CheckoutStageOK(r)
      BY <1>0, <2>1, <3>1 DEF Checkout, CheckoutStageOK
    <3>3. checkout' = [checkout EXCEPT ![k] = r]
      BY <1>4, <2>4 DEF InsertCustomer
    <3> HIDE DEF r
    <3> QED
      BY <2>2, <3>2, <3>3, CheckoutMoves
  <2>5. CASE CustomerTaken(c.tenant, c.cust) /\ GetCustomer(c.tenant) = None
    <3>1. checkout' = [checkout EXCEPT ![k] = NoCheckout]
      BY <1>4, <2>5 DEF InsertCustomer
    <3> QED
      BY <1>1, <2>2, <3>1, CheckoutMoves
  <2> QED
    BY <2>3, <2>4, <2>5
<1>5. CASE OpenSession(k)
  <2> DEFINE r == [c EXCEPT !.pc = "commit"]
  <2>1. r \in Checkout /\ CheckoutStageOK(r)
    BY <1>0, <1>5 DEF OpenSession, Checkout, CheckoutStageOK
  <2>2. checkout' = [checkout EXCEPT ![k] = r] /\ UNCHANGED <<dbVars, hook, stripeVars>>
    BY <1>5 DEF OpenSession
  <2> HIDE DEF r
  <2> QED
    BY <2>1, <2>2, CheckoutMoves DEF TypeOK
<1>6. CASE RespondCheckoutEarly(k)
  <2> DEFINE r == [c EXCEPT !.pc = "late"]
  <2>1. r \in Checkout /\ CheckoutStageOK(r)
    BY <1>0, <1>6 DEF RespondCheckoutEarly, Checkout, CheckoutStageOK
  <2>2. checkout' = [checkout EXCEPT ![k] = r] /\ UNCHANGED <<subs, hook, emitted>>
    BY <1>6 DEF RespondCheckoutEarly
  <2>3. sessions' \subseteq Session
    BY <1>0, <1>6 DEF RespondCheckoutEarly, HandOut, CheckoutStageOK, Session, TypeOK
  <2> HIDE DEF r
  <2>4. StagesOK' /\ checkout' \in [Checkouts -> Checkout]
    BY <2>1, <2>2, CheckoutMoves
  <2> QED
    BY <1>6, <2>3, <2>4 DEF RespondCheckoutEarly, TypeOK
<1>7. CASE CommitCheckout(k)
  <2>1. sessions' \subseteq Session
    BY <1>0, <1>7 DEF CommitCheckout, HandOut, CheckoutStageOK, Session, TypeOK
  <2>2. customers' \in [Tenants -> StripeCustomers \cup {None}]
    BY <1>0, <1>7 DEF CommitCheckout, CheckoutStageOK
  <2>3. StagesOK' /\ checkout' \in [Checkouts -> Checkout]
    BY <1>1, <1>7, CheckoutMoves DEF CommitCheckout
  <2> QED
    BY <1>7, <2>1, <2>2, <2>3 DEF CommitCheckout, TypeOK
<1>8. CASE FailCheckout(k)
  <2>1. StagesOK' /\ checkout' \in [Checkouts -> Checkout]
    BY <1>1, <1>8, CheckoutMoves DEF FailCheckout
  <2> QED
    BY <1>8, <2>1 DEF FailCheckout, TypeOK
<1> QED
  BY <1>2, <1>3, <1>4, <1>5, <1>6, <1>7, <1>8 DEF CheckoutStep

\* The same for a webhook request.
LEMMA HookMoves ==
  ASSUME TypeOK, NEW w \in Webhooks, NEW r \in Hook, HookStageOK(r),
         hook' = [hook EXCEPT ![w] = r], UNCHANGED <<checkout, emitted>>,
         \A s \in Subs : subs[s] # None => subs'[s] # None
  PROVE  StagesOK' /\ hook' \in [Webhooks -> Hook]
<1>1. hook' \in [Webhooks -> Hook]
  BY DEF TypeOK
<1>2. \A v \in Webhooks : HookStageOK(hook[v])'
  <2>1. HookStageOK(r)'
    BY DEF TypeOK, StagesOK, HookStageOK
  <2>2. ASSUME NEW v \in Webhooks, v # w PROVE HookStageOK(hook[v])'
    BY <2>2 DEF TypeOK, StagesOK, HookStageOK
  <2> QED
    BY <2>1, <2>2 DEF TypeOK, HookStageOK
<1>3. \A k \in Checkouts : CheckoutStageOK(checkout[k])'
  BY DEF TypeOK, StagesOK, CheckoutStageOK
<1> QED
  BY <1>1, <1>2, <1>3 DEF TypeOK, StagesOK

LEMMA IdleHookOK == HookStageOK(NoHook)
  BY DEF HookStageOK, NoHook

LEMMA FlushMarkerTypeOK ==
  ASSUME TypeOK, NEW w \in Webhooks, NEW e \in emitted, FlushMarker(w, e)
  PROVE  TypeOK'
<1> DEFINE r == IF e.id \in markers THEN NoHook
                ELSE [NoHook EXCEPT !.pc = "read", !.ev = e]
<1>1. e \in Event
  BY DEF TypeOK
<1>2. r \in Hook /\ HookStageOK(r)
  BY <1>1, NoRequestTypes, IdleHookOK, NoneFacts DEF Hook, HookStageOK, NoHook
<1>3. hook' = [hook EXCEPT ![w] = r]
  BY DEF FlushMarker
<1>4. acked' \subseteq 0..MaxEvents
  BY <1>1 DEF FlushMarker, TypeOK, Event
<1> HIDE DEF r
<1>5. StagesOK' /\ hook' \in [Webhooks -> Hook]
  BY <1>2, <1>3, HookMoves DEF FlushMarker
<1> QED
  BY <1>4, <1>5 DEF FlushMarker, TypeOK

\* The row a transaction leaves is a subscription row.
LEMMA RowAfterType ==
  ASSUME NEW h \in Hook, h.ev \in Event, h.owner \in Tenants,
         NEW now \in Row \cup {None}, h.seen # None => now # None
  PROVE  RowAfter(h, now) \in Row
<1> DEFINE e == h.ev
<1>1. StatusOf(e) \in Statuses /\ e.plan \in Plans
  BY DEF StatusOf, Event, Statuses
<1>2. CASE h.seen = None
  BY <1>1, <1>2 DEF RowAfter, Row
<1>3. CASE h.seen # None
  <2>1. now \in Row
    BY <1>3
  <2> DEFINE st == IF WritesStatus(e, h.seen) THEN StatusOf(e) ELSE now.status
             pl == IF WritesPlan(e, h.seen) THEN e.plan ELSE now.plan
  <2>2. st \in Statuses /\ pl \in Plans /\ now.tenant \in Tenants
    BY <1>1, <2>1 DEF Row
  <2>3. RowAfter(h, now) = [tenant |-> now.tenant, status |-> st, plan |-> pl]
    BY <1>3, <2>1 DEF RowAfter, Row
  <2> HIDE DEF st, pl
  <2> QED
    BY <2>2, <2>3 DEF Row
<1> QED
  BY <1>2, <1>3

LEMMA WebhookTypeOK ==
  ASSUME TypeOK, NEW w \in Webhooks, WebhookStep(w)
  PROVE  TypeOK'
<1> USE NoneFacts, NoRequestTypes
<1> DEFINE h == hook[w]
           e == hook[w].ev
<1>0. h \in Hook /\ HookStageOK(h)
  BY DEF TypeOK, StagesOK
<1>1. h.pc # "idle" => /\ e \in emitted /\ e \in Event
                       /\ e.type # "checkout" => e.sub \in Subs
  BY <1>0 DEF TypeOK, StagesOK, HookStageOK
<1>2. CASE \E x \in emitted : Receive(w, x)
  BY <1>2, FlushMarkerTypeOK DEF Receive
<1>3. CASE \E x \in emitted : ReceiveAndWait(w, x)
  <2>1. PICK x \in emitted : ReceiveAndWait(w, x)
    BY <1>3
  <2> DEFINE r == [NoHook EXCEPT !.pc = "insert", !.ev = x]
  <2>2. r \in Hook /\ HookStageOK(r)
    BY DEF TypeOK, Hook, HookStageOK, NoHook
  <2>3. hook' = [hook EXCEPT ![w] = r] /\ UNCHANGED <<dbVars, checkout, stripeVars>>
    BY <2>1 DEF ReceiveAndWait
  <2> HIDE DEF r
  <2> QED
    BY <2>2, <2>3, HookMoves DEF TypeOK
<1>4. CASE InsertMarker(w)
  BY <1>1, <1>4, FlushMarkerTypeOK DEF InsertMarker
<1>5. CASE ReadNothingToWrite(w)
  <2> DEFINE r == [h EXCEPT !.pc = "commit"]
  <2>1. r \in Hook /\ HookStageOK(r)
    BY <1>0, <1>5 DEF ReadNothingToWrite, Hook, HookStageOK
  <2>2. hook' = [hook EXCEPT ![w] = r] /\ UNCHANGED <<dbVars, checkout, stripeVars>>
    BY <1>5 DEF ReadNothingToWrite
  <2> HIDE DEF r
  <2> QED
    BY <2>1, <2>2, HookMoves DEF TypeOK
<1>6. CASE ReadCheckout(w)
  <2>0. e \in Event /\ e.type = "checkout" /\ e.tenant \in Tenants
    BY <1>1, <1>6 DEF ReadCheckout, WritesNothing, Event
  <2> DEFINE r == [h EXCEPT !.pc = "write", !.owner = e.tenant]
  <2>1. r \in Hook /\ HookStageOK(r)
    BY <1>0, <1>6, <2>0 DEF ReadCheckout, Hook, HookStageOK
  <2>2. hook' = [hook EXCEPT ![w] = r] /\ UNCHANGED <<dbVars, checkout, stripeVars>>
    BY <1>6 DEF ReadCheckout
  <2> HIDE DEF r
  <2> QED
    BY <2>1, <2>2, HookMoves DEF TypeOK
<1>7. CASE ReadSubscription(w)
  <2>0. PICK t \in OwnersOf(e) :
          hook' = [hook EXCEPT ![w].pc = "write", ![w].owner = t,
                               ![w].seen = subs[e.sub]]
    BY <1>7 DEF ReadSubscription
  <2>1. /\ t \in Tenants /\ e.type \notin {"checkout", "other"}
        /\ subs[e.sub] \in Row \cup {None}
    BY <1>1, <1>7 DEF ReadSubscription, OwnersOf, TypeOK
  <2> DEFINE r == [h EXCEPT !.pc = "write", !.owner = t, !.seen = subs[e.sub]]
  <2>2. r \in Hook
    BY <1>0, <2>1 DEF Hook
  <2>3. HookStageOK(r)
    BY <1>0, <1>7, <2>1 DEF ReadSubscription, Hook, HookStageOK
  <2>4. hook' = [hook EXCEPT ![w] = r] /\ UNCHANGED <<dbVars, checkout, stripeVars>>
    BY <1>7, <2>0 DEF ReadSubscription
  <2> HIDE DEF r
  <2> QED
    BY <2>2, <2>3, <2>4, HookMoves DEF TypeOK
<1>8. CASE FlushSubscription(w)
  <2> DEFINE r == IF h.seen = None /\ subs[e.sub] # None THEN NoHook
                  ELSE [h EXCEPT !.pc = "commit", !.holds = "row"]
  <2>1. r \in Hook /\ HookStageOK(r)
    BY <1>0, <1>8, IdleHookOK DEF FlushSubscription, Hook, HookStageOK
  <2>2. hook' = [hook EXCEPT ![w] = r] /\ UNCHANGED <<dbVars, checkout, stripeVars>>
    BY <1>8 DEF FlushSubscription
  <2> HIDE DEF r
  <2> QED
    BY <2>1, <2>2, HookMoves DEF TypeOK
<1>9. CASE FlushCustomer(w)
  <2> DEFINE r == IF CustomerTaken(e.tenant, e.cust) THEN NoHook
                  ELSE [h EXCEPT !.pc = "commit", !.holds = "row"]
  <2>1. r \in Hook /\ HookStageOK(r)
    BY <1>0, <1>9, IdleHookOK DEF FlushCustomer, Hook, HookStageOK
  <2>2. hook' = [hook EXCEPT ![w] = r] /\ UNCHANGED <<dbVars, checkout, stripeVars>>
    BY <1>9 DEF FlushCustomer
  <2> HIDE DEF r
  <2> QED
    BY <2>1, <2>2, HookMoves DEF TypeOK
<1>10. CASE RespondWebhookEarly(w)
  <2> DEFINE r == [h EXCEPT !.pc = "late"]
  <2>1. r \in Hook /\ HookStageOK(r)
    BY <1>0, <1>10 DEF RespondWebhookEarly, Hook, HookStageOK
  <2>2. hook' = [hook EXCEPT ![w] = r] /\ UNCHANGED <<dbVars, checkout, emitted>>
    BY <1>10 DEF RespondWebhookEarly
  <2>3. acked' \subseteq 0..MaxEvents
    BY <1>1, <1>10 DEF RespondWebhookEarly, TypeOK, Event
  <2> HIDE DEF r
  <2>4. StagesOK' /\ hook' \in [Webhooks -> Hook]
    BY <2>1, <2>2, HookMoves
  <2> QED
    BY <1>10, <2>3, <2>4 DEF RespondWebhookEarly, TypeOK
<1>11. CASE CommitWebhook(w)
  <2>1. e \in Event /\ (e.type # "checkout" => e.sub \in Subs)
    BY <1>1, <1>11 DEF CommitWebhook
  <2>2. acked' \subseteq 0..MaxEvents /\ markers' \subseteq 0..MaxEvents
    BY <1>11, <2>1 DEF CommitWebhook, TypeOK, Event
  <2>3. customers' \in [Tenants -> StripeCustomers \cup {None}]
    BY <1>0, <1>11, <2>1 DEF CommitWebhook, HookStageOK, TypeOK, Event
  <2>4. CASE h.holds = "row" /\ e.type # "checkout"
    <3>1. subs[e.sub] \in Row \cup {None} /\ h.owner \in Tenants
      BY <1>0, <2>1, <2>4 DEF TypeOK, HookStageOK
    <3>2. RowAfter(h, subs[e.sub]) \in Row
      BY <1>0, <2>1, <3>1, RowAfterType DEF HookStageOK
    <3>3. subs' = [subs EXCEPT ![e.sub] = RowAfter(h, subs[e.sub])]
      BY <1>11, <2>4 DEF CommitWebhook
    <3>4. /\ subs' \in [Subs -> Row \cup {None}]
          /\ \A s \in Subs : subs[s] # None => subs'[s] # None
      BY <2>1, <2>4, <3>2, <3>3 DEF TypeOK
    <3>5. StagesOK' /\ hook' \in [Webhooks -> Hook]
      BY <1>11, <3>4, IdleHookOK, HookMoves DEF CommitWebhook
    <3> QED
      BY <1>11, <2>2, <2>3, <3>4, <3>5 DEF CommitWebhook, TypeOK
  <2>5. CASE ~(h.holds = "row" /\ e.type # "checkout")
    <3>1. UNCHANGED subs
      BY <1>11, <2>5 DEF CommitWebhook
    <3>2. StagesOK' /\ hook' \in [Webhooks -> Hook]
      BY <1>11, <3>1, IdleHookOK, HookMoves DEF CommitWebhook
    <3> QED
      BY <1>11, <2>2, <2>3, <3>1, <3>2 DEF CommitWebhook, TypeOK
  <2> QED
    BY <2>4, <2>5
<1>12. CASE FailWebhook(w)
  <2>1. hook' = [hook EXCEPT ![w] = NoHook] /\ UNCHANGED <<dbVars, checkout, stripeVars>>
    BY <1>12 DEF FailWebhook
  <2> QED
    BY <2>1, IdleHookOK, HookMoves DEF TypeOK
<1> QED
  BY <1>2, <1>3, <1>4, <1>5, <1>6, <1>7, <1>8, <1>9, <1>10, <1>11, <1>12
     DEF WebhookStep, ReadRow, FlushRow

LEMMA StripeTypeOK ==
  ASSUME TypeOK, StripeStep
  PROVE  TypeOK'
<1> USE NoneFacts
\* Emitting events of known subscriptions keeps what is known of requests.
<1>1. ASSUME NEW n \in {1, 2}, NEW es \in SUBSET Event, Emit(n, es),
             \A x \in es : x.type # "checkout" => x.sub \in Subs,
             sessions' \subseteq sessions,
             stripeSub' \in [Subs -> StripeSubscription \cup {None}]
      PROVE  TypeOK'
  <2>1. emitted' \subseteq Event /\ nextId' \in 1..(MaxEvents + 1)
    BY <1>1, ConstantsAssumption DEF Emit, TypeOK
  <2>2. \A w \in Webhooks : HookStageOK(hook[w])'
    BY <1>1 DEF Emit, TypeOK, StagesOK, HookStageOK
  <2>3. \A k \in Checkouts : CheckoutStageOK(checkout[k])'
    BY <1>1 DEF Emit, TypeOK, StagesOK, CheckoutStageOK
  <2>4. StagesOK'
    BY <1>1, <2>2, <2>3 DEF Emit, TypeOK, StagesOK
  <2> QED
    BY <1>1, <2>1, <2>4 DEF Emit, TypeOK
<1>2. CASE \E x \in sessions, s \in Subs, st \in PayloadStatuses : Pay(x, s, st)
  <2>1. PICK x \in sessions, s \in Subs, st \in PayloadStatuses : Pay(x, s, st)
    BY <1>2
  <2> DEFINE sub == [cust |-> x.cust, tenant |-> x.tenant, status |-> st,
                     plan |-> x.plan]
             es == {SubscriptionEvent(nextId, "created", s, sub),
                    [SubscriptionEvent(nextId + 1, "checkout", s, sub)
                       EXCEPT !.sub = None]}
  <2>2. sub \in StripeSubscription
    BY ConstantsAssumption DEF TypeOK, Session, StripeSubscription
  <2>3. nextId \in 0..MaxEvents /\ nextId + 1 \in 0..MaxEvents
    BY <2>1, ConstantsAssumption DEF Pay, Emit, TypeOK
  <2>4. /\ SubscriptionEvent(nextId, "created", s, sub) \in Event
        /\ SubscriptionEvent(nextId + 1, "checkout", s, sub) \in Event
    BY <2>2, <2>3, EventType DEF EventTypes
  <2>5. es \in SUBSET Event /\ \A y \in es : y.type # "checkout" => y.sub \in Subs
    BY <2>4 DEF SubscriptionEvent, Event
  <2>6. stripeSub' \in [Subs -> StripeSubscription \cup {None}]
    BY <2>1, <2>2 DEF Pay, TypeOK
  <2>7. Emit(2, es) /\ sessions' \subseteq sessions
    BY <2>1 DEF Pay
  <2> HIDE DEF es, sub
  <2> QED
    BY <1>1, <2>5, <2>6, <2>7
<1>3. CASE \E c \in StripeCustomers, s \in Subs, p \in Plans : PayByDashboard(c, s, p)
  <2>1. PICK c \in StripeCustomers, s \in Subs, p \in Plans : PayByDashboard(c, s, p)
    BY <1>3
  <2> DEFINE sub == [cust |-> c, tenant |-> None, status |-> "active", plan |-> p]
             es == {SubscriptionEvent(nextId, "created", s, sub)}
  <2>2. sub \in StripeSubscription
    BY DEF StripeSubscription, Statuses
  <2>3. nextId \in 0..MaxEvents
    BY <2>1, ConstantsAssumption DEF PayByDashboard, Emit, TypeOK
  <2>4. es \in SUBSET Event /\ \A y \in es : y.sub \in Subs
    BY <2>2, <2>3, EventType DEF EventTypes, SubscriptionEvent
  <2>5. stripeSub' \in [Subs -> StripeSubscription \cup {None}]
    BY <2>1, <2>2 DEF PayByDashboard, TypeOK
  <2>6. Emit(1, es) /\ sessions' \subseteq sessions
    BY <2>1 DEF PayByDashboard
  <2> HIDE DEF es, sub
  <2> QED
    BY <1>1, <2>4, <2>5, <2>6
\* Update, PaymentFails, Cancel: one event of a subscription Stripe has.
<1>4. ASSUME NEW s \in Subs, stripeSub[s] # None, NEW sub \in StripeSubscription,
             NEW type \in EventTypes, stripeSub' = [stripeSub EXCEPT ![s] = sub],
             Emit(1, {SubscriptionEvent(nextId, type, s, sub)}), UNCHANGED sessions
      PROVE  TypeOK'
  <2>1. nextId \in 0..MaxEvents
    BY <1>4, ConstantsAssumption DEF Emit, TypeOK
  <2> DEFINE es == {SubscriptionEvent(nextId, type, s, sub)}
  <2>2. es \in SUBSET Event /\ \A y \in es : y.sub \in Subs
    BY <2>1, <1>4, EventType DEF SubscriptionEvent
  <2>3. stripeSub' \in [Subs -> StripeSubscription \cup {None}]
    BY <1>4 DEF TypeOK
  <2>4. Emit(1, es) /\ sessions' \subseteq sessions
    BY <1>4
  <2> HIDE DEF es
  <2> QED
    BY <1>1, <2>2, <2>3, <2>4
<1>5. \A s \in Subs : stripeSub[s] # None => stripeSub[s] \in StripeSubscription
  BY DEF TypeOK
<1>6. CASE \E s \in Subs, st \in PayloadStatuses, p \in Plans : Update(s, st, p)
  <2>1. PICK s \in Subs, st \in PayloadStatuses, p \in Plans : Update(s, st, p)
    BY <1>6
  <2> DEFINE sub == [stripeSub[s] EXCEPT !.status = st, !.plan = p]
  <2>2. sub \in StripeSubscription /\ stripeSub[s] # None
    BY <1>5, <2>1, ConstantsAssumption DEF Update, Living, StripeSubscription
  <2>3. /\ stripeSub' = [stripeSub EXCEPT ![s] = sub] /\ UNCHANGED sessions
        /\ Emit(1, {SubscriptionEvent(nextId, "updated", s, sub)})
    BY <2>1 DEF Update
  <2> HIDE DEF sub
  <2> QED
    BY <1>4, <2>2, <2>3 DEF EventTypes
<1>7. CASE \E s \in Subs : PaymentFails(s)
  <2>1. PICK s \in Subs : PaymentFails(s)
    BY <1>7
  <2> DEFINE sub == [stripeSub[s] EXCEPT !.status = "past_due"]
  <2>2. sub \in StripeSubscription /\ stripeSub[s] # None
    BY <1>5, <2>1 DEF PaymentFails, Living, StripeSubscription, Statuses
  <2>3. /\ stripeSub' = [stripeSub EXCEPT ![s] = sub] /\ UNCHANGED sessions
        /\ Emit(1, {SubscriptionEvent(nextId, "payment_failed", s, sub)})
    BY <2>1 DEF PaymentFails
  <2> HIDE DEF sub
  <2> QED
    BY <1>4, <2>2, <2>3 DEF EventTypes
<1>8. CASE \E s \in Subs : Cancel(s)
  <2>1. PICK s \in Subs : Cancel(s)
    BY <1>8
  <2> DEFINE sub == [stripeSub[s] EXCEPT !.status = "canceled"]
  <2>2. sub \in StripeSubscription /\ stripeSub[s] # None
    BY <1>5, <2>1 DEF Cancel, Living, StripeSubscription, Statuses
  <2>3. /\ stripeSub' = [stripeSub EXCEPT ![s] = sub] /\ UNCHANGED sessions
        /\ Emit(1, {SubscriptionEvent(nextId, "deleted", s, sub)})
    BY <2>1 DEF Cancel
  <2> HIDE DEF sub
  <2> QED
    BY <1>4, <2>2, <2>3 DEF EventTypes
<1>9. CASE \E s \in Subs : OtherEvent(s)
  <2>1. PICK s \in Subs : OtherEvent(s)
    BY <1>9
  <2>2. stripeSub' = [stripeSub EXCEPT ![s] = stripeSub[s]]
    BY <2>1 DEF OtherEvent, TypeOK
  <2> QED
    BY <1>4, <1>5, <2>1, <2>2 DEF OtherEvent, EventTypes
<1> QED
  BY <1>2, <1>3, <1>6, <1>7, <1>8, <1>9 DEF StripeStep

LEMMA CrashTypeOK ==
  ASSUME TypeOK, NEW q \in Requests, Crash(Host[q])
  PROVE  TypeOK'
<1>1. hook' \in [Webhooks -> Hook] /\ checkout' \in [Checkouts -> Checkout]
  BY NoRequestTypes DEF Crash, TypeOK
<1>2. \A w \in Webhooks : HookStageOK(hook[w])'
  BY IdleHookOK DEF Crash, TypeOK, StagesOK, HookStageOK, NoHook
<1>3. \A k \in Checkouts : CheckoutStageOK(checkout[k])'
  BY DEF Crash, TypeOK, StagesOK, CheckoutStageOK, NoCheckout
<1> QED
  BY <1>1, <1>2, <1>3 DEF Crash, TypeOK, StagesOK

\* Every variable keeps its type, and each request's record is consistent with
\* its stage: in particular a row a handler loaded is never deleted under it.
THEOREM TypeCorrect == Spec => []TypeOK
<1>1. ASSUME TypeOK, [Next]_vars PROVE TypeOK'
  <2>1. CASE UNCHANGED vars
    BY <1>1, <2>1 DEF vars, TypeOK, StagesOK, CheckoutStageOK, HookStageOK
  <2> QED
    BY <1>1, <2>1, CheckoutTypeOK, WebhookTypeOK, StripeTypeOK, CrashTypeOK
       DEF Next
<1> QED
  BY <1>1, InitTypeOK, PTL DEF Spec

-----------------------------------------------------------------------------
(* Effects of an event are committed at most once *)

\* A request that is done, or keeps its event past the marker, disturbs
\* nothing.
LEMMA OnceKept ==
  ASSUME TypeOK, OncePerEvent, UNCHANGED markers,
         NEW w \in Webhooks, NEW r \in Hook, hook' = [hook EXCEPT ![w] = r],
         r.pc \in {"read", "write", "commit", "late"} =>
           PastMarker(w) /\ r.ev = hook[w].ev
  PROVE  OncePerEvent'
<1>1. \A v \in Webhooks : hook'[v] = IF v = w THEN r ELSE hook[v]
  BY DEF TypeOK
<1>2. ASSUME NEW v \in Webhooks, PastMarker(v)'
      PROVE  PastMarker(v) /\ hook'[v].ev.id = hook[v].ev.id
  BY <1>1, <1>2 DEF PastMarker
<1> QED
  BY <1>2 DEF OncePerEvent

LEMMA FlushMarkerOnce ==
  ASSUME TypeOK, OncePerEvent, NEW w \in Webhooks, NEW e \in emitted,
         FlushMarker(w, e)
  PROVE  OncePerEvent'
<1>1. CASE e.id \in markers
  BY <1>1, OnceKept, NoRequestTypes DEF FlushMarker, NoHook
<1>2. CASE e.id \notin markers
  <2>1. /\ hook' = [hook EXCEPT ![w] = [NoHook EXCEPT !.pc = "read", !.ev = e]]
        /\ UNCHANGED markers
    BY <1>2 DEF FlushMarker
  <2>2. hook'[w].ev = e
    BY <2>1 DEF TypeOK, NoHook
  <2>3. \A v \in Webhooks \ {w} : hook'[v] = hook[v]
    BY <2>1 DEF TypeOK
  <2>4. \A v \in Webhooks \ {w} : PastMarker(v) => hook[v].ev.id # e.id
    BY DEF FlushMarker, MarkerPending, HoldsMarker, PastMarker
  <2> QED
    BY <1>2, <2>1, <2>2, <2>3, <2>4 DEF OncePerEvent, PastMarker
<1> QED
  BY <1>1, <1>2

LEMMA WebhookOnce ==
  ASSUME TypeOK, OncePerEvent, NEW w \in Webhooks, WebhookStep(w)
  PROVE  OncePerEvent'
<1> USE NoRequestTypes
<1>0. hook[w] \in Hook /\ (hook[w].pc # "idle" => hook[w].ev \in emitted)
  BY DEF TypeOK, StagesOK, HookStageOK
<1>1. CASE \E x \in emitted : Receive(w, x) \/ ReceiveAndWait(w, x)
  <2>1. PICK x \in emitted : Receive(w, x) \/ ReceiveAndWait(w, x)
    BY <1>1
  <2>2. CASE Receive(w, x)
    BY <2>2, FlushMarkerOnce DEF Receive
  <2>3. CASE ReceiveAndWait(w, x)
    <3> DEFINE r == [NoHook EXCEPT !.pc = "insert", !.ev = x]
    <3>1. r \in Hook /\ r.pc = "insert"
      BY DEF TypeOK, Hook, NoHook
    <3>2. hook' = [hook EXCEPT ![w] = r] /\ UNCHANGED markers
      BY <2>3 DEF ReceiveAndWait
    <3> HIDE DEF r
    <3> QED
      BY <3>1, <3>2, OnceKept
  <2> QED
    BY <2>1, <2>2, <2>3
<1>2. CASE InsertMarker(w)
  BY <1>0, <1>2, FlushMarkerOnce DEF InsertMarker
<1>3. CASE ReadRow(w) \/ FlushRow(w) \/ RespondWebhookEarly(w) \/ FailWebhook(w)
  <2>1. /\ PastMarker(w) /\ UNCHANGED markers
        /\ hook' = [hook EXCEPT ![w] = hook'[w]]
    BY <1>3 DEF ReadRow, ReadNothingToWrite, ReadCheckout, ReadSubscription,
                FlushRow, FlushSubscription, FlushCustomer, RespondWebhookEarly,
                FailWebhook, PastMarker, TypeOK
  <2>2. hook'[w].ev = hook[w].ev \/ hook'[w] = NoHook
    <3> USE <1>0 DEF TypeOK, Hook
    <3>1. CASE ReadRow(w)
      <4>1. CASE ReadNothingToWrite(w)
        BY <4>1 DEF ReadNothingToWrite
      <4>2. CASE ReadCheckout(w)
        BY <4>2 DEF ReadCheckout
      <4>3. CASE ReadSubscription(w)
        BY <4>3 DEF ReadSubscription
      <4> QED
        BY <3>1, <4>1, <4>2, <4>3 DEF ReadRow
    <3>2. CASE FlushSubscription(w)
      BY <3>2 DEF FlushSubscription
    <3>3. CASE FlushCustomer(w)
      BY <3>3 DEF FlushCustomer
    <3>4. CASE RespondWebhookEarly(w) \/ FailWebhook(w)
      BY <3>4 DEF RespondWebhookEarly, FailWebhook
    <3> QED
      BY <1>3, <3>1, <3>2, <3>3, <3>4 DEF FlushRow
  <2>3. hook'[w] \in Hook
    <3>1. TypeOK'
      BY <1>3, WebhookTypeOK
    <3> QED
      BY <3>1 DEF TypeOK
  <2> QED
    BY <2>1, <2>2, <2>3, OnceKept DEF NoHook
<1>4. CASE CommitWebhook(w)
  <2>1. /\ PastMarker(w) /\ markers' = markers \cup {hook[w].ev.id}
        /\ hook' = [hook EXCEPT ![w] = NoHook]
    BY <1>4 DEF CommitWebhook, PastMarker
  <2>2. ~PastMarker(w)' /\ \A v \in Webhooks \ {w} : hook'[v] = hook[v]
    BY <2>1 DEF TypeOK, PastMarker, NoHook
  <2> QED
    BY <2>1, <2>2 DEF OncePerEvent, PastMarker
<1> QED
  BY <1>1, <1>2, <1>3, <1>4 DEF WebhookStep

\* At most one request is past the marker of an event, and none once the event
\* has been processed.
THEOREM EffectsOnce == Spec => []OncePerEvent
<1>1. Init => OncePerEvent
  BY DEF Init, OncePerEvent, PastMarker, NoHook
<1>2. ASSUME TypeOK, OncePerEvent, [Next]_vars PROVE OncePerEvent'
  <2>1. CASE \E w \in Webhooks : WebhookStep(w)
    BY <1>2, <2>1, WebhookOnce
  <2>2. CASE \E q \in Requests : Crash(Host[q])
    BY <1>2, <2>2 DEF Crash, OncePerEvent, PastMarker, NoHook, TypeOK
  <2>3. CASE UNCHANGED <<hook, markers>>
    BY <1>2, <2>3 DEF OncePerEvent, PastMarker
  <2>4. ASSUME NEW k \in Checkouts, CheckoutStep(k) PROVE UNCHANGED <<hook, markers>>
    BY <2>4 DEF CheckoutStep, BeginCheckout, CreateStripeCustomer, InsertCustomer,
         OpenSession, RespondCheckoutEarly, CommitCheckout, FailCheckout
  <2>5. StripeStep => UNCHANGED <<hook, markers>>
    BY DEF StripeStep, Pay, PayByDashboard, Update, PaymentFails, Cancel,
         OtherEvent, Emit
  <2> QED
    BY <1>2, <2>1, <2>2, <2>3, <2>4, <2>5 DEF Next, vars
<1> QED
  BY <1>1, <1>2, TypeCorrect, PTL DEF Spec

-----------------------------------------------------------------------------
(* Who waits for whom *)

\* The webhook handlers that run on the loop of request r's process.
OnLoop(r) ==
  {w \in Webhooks : Host[w] = Host[r] /\ hook[w].pc \in {"insert", "read", "write"}}

\* The requests that have inserted a customer row for t or c.
Inserters(t, c) ==
  {w \in Webhooks : /\ hook[w].holds = "row" /\ hook[w].ev.type = "checkout"
                    /\ hook[w].ev.tenant = t \/ hook[w].ev.cust = c}
  \cup {k \in Checkouts : /\ checkout[k].holds = "row"
                          /\ checkout[k].tenant = t \/ checkout[k].cust = c}

\* The requests that keep webhook request w, or checkout request k, from its
\* next step.
InWayOfWebhook(w) ==
  LET h == hook[w]
  IN CASE h.pc = "insert" -> {v \in Webhooks \ {w} : HoldsMarker(v, h.ev.id)}
       [] h.pc = "write"  -> IF h.ev.type = "checkout"
                               THEN Inserters(h.ev.tenant, h.ev.cust)
                               ELSE {v \in Webhooks : HoldsSub(v, h.ev.sub)}
       [] h.pc \in {"commit", "late"} -> OnLoop(w)
       [] OTHER -> {}

InWayOfCheckout(k) ==
  LET c == checkout[k]
  IN CASE c.pc = "insert" -> Inserters(c.tenant, c.cust)
       [] c.pc \in {"commit", "late"} -> OnLoop(k)
       [] OTHER -> {}

InWayOf(r) == IF r \in Webhooks THEN InWayOfWebhook(r) ELSE InWayOfCheckout(r)

\* Requests that stop each other for ever.
Circle(crowd) == crowd # {} /\ \A r \in crowd : InWayOf(r) \cap crowd # {}

Returned(r) == IF r \in Webhooks THEN hook[r].pc \in {"commit", "late"}
                                 ELSE checkout[r].pc \in {"commit", "late"}

\* Where requests stop each other, one has returned and is to commit, and
\* another waits for the database on the loop of the same process.
OnlyTheLoopStops ==
  \A crowd \in SUBSET Requests : Circle(crowd) =>
    \E r \in crowd, w \in crowd \cap Webhooks :
      /\ r # w /\ Host[r] = Host[w]
      /\ Returned(r) /\ hook[w].pc \in {"insert", "write"}

\* What keeps a request from its next step is that somebody is in its way.
LEMMA InTheWay ==
  /\ \A r \in Requests : LoopFree(r) <=> OnLoop(r) = {}
  /\ \A t, c : CustomerInsertPending(t, c) <=> Inserters(t, c) # {}
  /\ \A w \in Webhooks :
       /\ hook[w].pc = "insert" =>
            (MarkerPending(w, hook[w].ev.id) <=> InWayOfWebhook(w) # {})
       /\ hook[w].pc = "write" /\ hook[w].ev.type # "checkout" =>
            ((\A v \in Webhooks : ~HoldsSub(v, hook[w].ev.sub)) <=> InWayOfWebhook(w) = {})
<1>1. \A r \in Requests : LoopFree(r) <=> OnLoop(r) = {}
  BY DEF LoopFree, OnLoop
<1>2. ASSUME NEW t, NEW c PROVE CustomerInsertPending(t, c) <=> Inserters(t, c) # {}
  BY DEF CustomerInsertPending, Inserters
<1>3. ASSUME NEW w \in Webhooks, hook[w].pc = "insert"
      PROVE  MarkerPending(w, hook[w].ev.id) <=> InWayOfWebhook(w) # {}
  BY <1>3 DEF MarkerPending, InWayOfWebhook
<1>4. ASSUME NEW w \in Webhooks, hook[w].pc = "write", hook[w].ev.type # "checkout"
      PROVE  (\A v \in Webhooks : ~HoldsSub(v, hook[w].ev.sub)) <=> InWayOfWebhook(w) = {}
  BY <1>4 DEF InWayOfWebhook
<1> QED
  BY <1>1, <1>2, <1>3, <1>4

\* The locks of the database alone stop no webhook and no checkout for ever
\* (apply_event, ensure_customer): markers are taken before rows, nobody waits
\* while it holds a row, but to be committed.  Only a handler that waits for a
\* lock on the event loop can stop others.
THEOREM LocksStopNobody == Spec => []OnlyTheLoopStops
<1>1. ASSUME TypeOK, NEW crowd \in SUBSET Requests, Circle(crowd)
      PROVE  \E r \in crowd, w \in crowd \cap Webhooks :
               /\ r # w /\ Host[r] = Host[w]
               /\ Returned(r) /\ hook[w].pc \in {"insert", "write"}
  <2>0. ASSUME NEW r \in crowd PROVE \E o \in crowd : o \in InWayOf(r)
    BY <1>1 DEF Circle
  <2>1. Webhooks \cap Checkouts = {}
    BY ConstantsAssumption
  <2>2. ASSUME NEW r \in crowd, Returned(r)
        PROVE  \E w \in crowd \cap Webhooks :
                 r # w /\ Host[r] = Host[w] /\ hook[w].pc \in {"insert", "write"}
    <3>1. PICK w \in crowd : w \in InWayOf(r)
      BY <2>0
    <3>2. InWayOf(r) = OnLoop(r)
      BY <2>2 DEF InWayOf, Returned, InWayOfWebhook, InWayOfCheckout
    <3>3. /\ w \in Webhooks /\ Host[w] = Host[r]
          /\ hook[w].pc \in {"insert", "read", "write"}
      BY <3>1, <3>2 DEF OnLoop
    <3>4. hook[w].pc # "read"
      <4>1. hook[w].pc = "read" => InWayOf(w) = {}
        BY <3>3 DEF InWayOf, InWayOfWebhook
      <4> QED
        BY <2>0, <3>1, <4>1
    <3>5. r # w
      BY <2>2, <3>3 DEF Returned
    <3> QED
      BY <3>1, <3>3, <3>4, <3>5
  <2>3. ASSUME NEW t, NEW c, NEW o \in crowd, o \in Inserters(t, c)
        PROVE  Returned(o)
    <3>1. CASE o \in Webhooks
      <4>1. hook[o].holds = "row"
        BY <2>1, <2>3, <3>1 DEF Inserters
      <4> QED
        BY <1>1, <3>1, <4>1 DEF TypeOK, StagesOK, HookStageOK, Returned
    <3>2. CASE o \in Checkouts
      <4>1. checkout[o].holds = "row" /\ o \notin Webhooks
        BY <2>1, <2>3, <3>2 DEF Inserters
      <4>2. checkout[o].pc \in {"session", "commit", "late"}
        BY <1>1, <3>2, <4>1 DEF TypeOK, StagesOK, CheckoutStageOK
      <4>3. checkout[o].pc = "session" => InWayOf(o) = {}
        BY <4>1 DEF InWayOf, InWayOfCheckout
      <4> QED
        BY <2>0, <4>1, <4>2, <4>3 DEF Returned
    <3> QED
      BY <3>1, <3>2
  <2>4. ASSUME NEW w \in crowd, w \in Webhooks, hook[w].pc = "write"
        PROVE  \E o \in crowd : Returned(o)
    <3>1. PICK o \in crowd : o \in InWayOfWebhook(w)
      BY <2>0, <2>4 DEF InWayOf
    <3>2. CASE hook[w].ev.type = "checkout"
      <4>1. o \in Inserters(hook[w].ev.tenant, hook[w].ev.cust)
        BY <2>4, <3>1, <3>2 DEF InWayOfWebhook
      <4> QED
        BY <2>3, <4>1
    <3>3. CASE hook[w].ev.type # "checkout"
      <4>1. o \in Webhooks /\ hook[o].holds = "row"
        BY <2>4, <3>1, <3>3 DEF InWayOfWebhook, HoldsSub
      <4> QED
        BY <1>1, <4>1 DEF TypeOK, StagesOK, HookStageOK, Returned
    <3> QED
      BY <3>2, <3>3
  <2>5. ASSUME NEW r \in crowd PROVE \E o \in crowd : Returned(o)
    <3>1. PICK o \in crowd : o \in InWayOf(r)
      BY <2>0
    <3>2. CASE r \in Webhooks
      <4>1. InWayOf(r) = InWayOfWebhook(r)
        BY <3>2 DEF InWayOf
      <4>2. hook[r].pc \in {"insert", "write", "commit", "late"}
        BY <3>1, <4>1 DEF InWayOfWebhook
      <4>3. CASE hook[r].pc = "insert"
        <5>1. o \in Webhooks /\ hook[o].pc \in {"read", "write", "commit", "late"}
          BY <3>1, <4>1, <4>3 DEF InWayOfWebhook, HoldsMarker
        <5>2. hook[o].pc = "read" => InWayOf(o) = {}
          BY <5>1 DEF InWayOf, InWayOfWebhook
        <5> QED
          BY <2>0, <2>4, <5>1, <5>2 DEF Returned
      <4> QED
        BY <2>4, <3>2, <4>2, <4>3 DEF Returned
    <3>3. CASE r \notin Webhooks
      <4>1. /\ InWayOf(r) = InWayOfCheckout(r)
            /\ checkout[r].pc \in {"insert", "commit", "late"}
        BY <3>1, <3>3 DEF InWayOf, InWayOfCheckout
      <4>2. CASE checkout[r].pc = "insert"
        BY <2>3, <3>1, <4>1, <4>2 DEF InWayOfCheckout
      <4> QED
        BY <3>3, <4>1, <4>2 DEF Returned
    <3> QED
      BY <3>2, <3>3
  <2> QED
    BY <1>1, <2>2, <2>5 DEF Circle
<1>2. TypeOK => OnlyTheLoopStops
  BY <1>1 DEF OnlyTheLoopStops
<1> QED
  BY <1>2, TypeCorrect, PTL

\* Requests that are served by different processes never stop each other.
THEOREM ApartNobodyStops ==
  ASSUME \A q, r \in Requests : q # r => Host[q] # Host[r]
  PROVE  Spec => [](\A crowd \in SUBSET Requests : ~Circle(crowd))
<1>1. OnlyTheLoopStops => \A crowd \in SUBSET Requests : ~Circle(crowd)
  BY DEF OnlyTheLoopStops
<1> QED
  BY <1>1, LocksStopNobody, PTL

\* The stages that a webhook request, or a checkout, has still to pass.
WebhookStagesLeft(pc) ==
  CASE pc = "idle" -> 0 [] pc = "late" -> 1 [] pc = "commit" -> 2
    [] pc = "write" -> 3 [] pc = "read" -> 4 [] OTHER -> 5

CheckoutStagesLeft(pc) ==
  CASE pc = "idle" -> 0 [] pc = "late" -> 1 [] pc = "commit" -> 2
    [] pc = "session" -> 3 [] pc = "insert" -> 4 [] OTHER -> 5

\* A step of a request brings it to a later stage or ends it, and no other step
\* changes it.
EachStepIsProgress ==
  [][/\ \A w \in Webhooks : hook[w].pc # "idle" /\ hook'[w] # hook[w] =>
          WebhookStagesLeft(hook'[w].pc) < WebhookStagesLeft(hook[w].pc)
     /\ \A k \in Checkouts : checkout[k].pc # "idle" /\ checkout'[k] # checkout[k] =>
          CheckoutStagesLeft(checkout'[k].pc) < CheckoutStagesLeft(checkout[k].pc)]_vars

LEMMA WebhookProgress ==
  ASSUME TypeOK, NEW w \in Webhooks, WebhookStep(w)
  PROVE  /\ UNCHANGED checkout
         /\ \A v \in Webhooks \ {w} : hook'[v] = hook[v]
         /\ hook[w].pc # "idle" =>
              WebhookStagesLeft(hook'[w].pc) < WebhookStagesLeft(hook[w].pc)
<1> DEFINE h == hook[w]
<1>0. h \in Hook /\ hook \in [Webhooks -> Hook]
  BY DEF TypeOK
<1>1. ASSUME NEW e \in emitted, Receive(w, e) \/ ReceiveAndWait(w, e)
      PROVE  /\ UNCHANGED checkout /\ h.pc = "idle"
             /\ \A v \in Webhooks \ {w} : hook'[v] = hook[v]
  BY <1>0, <1>1 DEF Receive, ReceiveAndWait, FlushMarker
<1>2. CASE InsertMarker(w)
  <2>1. /\ UNCHANGED checkout /\ h.pc = "insert"
        /\ \A v \in Webhooks \ {w} : hook'[v] = hook[v]
        /\ hook'[w].pc \in {"idle", "read"}
    BY <1>0, <1>2 DEF InsertMarker, FlushMarker, NoHook
  <2> QED
    BY <2>1 DEF WebhookStagesLeft
<1>3. CASE ReadRow(w)
  <2>1. /\ UNCHANGED checkout /\ h.pc = "read"
        /\ \A v \in Webhooks \ {w} : hook'[v] = hook[v]
        /\ hook'[w].pc \in {"write", "commit"}
    <3>1. CASE ReadNothingToWrite(w)
      BY <1>0, <3>1 DEF ReadNothingToWrite, Hook
    <3>2. CASE ReadCheckout(w)
      BY <1>0, <3>2 DEF ReadCheckout, Hook
    <3>3. CASE ReadSubscription(w)
      BY <1>0, <3>3 DEF ReadSubscription, Hook
    <3> QED
      BY <1>3, <3>1, <3>2, <3>3 DEF ReadRow
  <2> QED
    BY <2>1 DEF WebhookStagesLeft
<1>4. CASE FlushRow(w)
  <2>1. /\ UNCHANGED checkout /\ h.pc = "write"
        /\ \A v \in Webhooks \ {w} : hook'[v] = hook[v]
        /\ hook'[w].pc \in {"idle", "commit"}
    <3>1. CASE FlushSubscription(w)
      BY <1>0, <3>1 DEF FlushSubscription, Hook, NoHook
    <3>2. CASE FlushCustomer(w)
      BY <1>0, <3>2 DEF FlushCustomer, Hook, NoHook
    <3> QED
      BY <1>4, <3>1, <3>2 DEF FlushRow
  <2> QED
    BY <2>1 DEF WebhookStagesLeft
<1>5. CASE RespondWebhookEarly(w)
  <2>1. /\ UNCHANGED checkout /\ h.pc = "commit"
        /\ \A v \in Webhooks \ {w} : hook'[v] = hook[v]
        /\ hook'[w].pc = "late"
    BY <1>0, <1>5 DEF RespondWebhookEarly, Hook
  <2> QED
    BY <2>1 DEF WebhookStagesLeft
<1>6. CASE CommitWebhook(w) \/ FailWebhook(w)
  <2>1. /\ UNCHANGED checkout /\ h.pc # "idle"
        /\ \A v \in Webhooks \ {w} : hook'[v] = hook[v]
        /\ hook'[w].pc = "idle"
    BY <1>0, <1>6 DEF CommitWebhook, FailWebhook, NoHook
  <2> QED
    BY <2>1 DEF WebhookStagesLeft
<1> QED
  BY <1>1, <1>2, <1>3, <1>4, <1>5, <1>6 DEF WebhookStep

LEMMA CheckoutProgress ==
  ASSUME TypeOK, NEW k \in Checkouts, CheckoutStep(k)
  PROVE  /\ UNCHANGED hook
         /\ \A j \in Checkouts \ {k} : checkout'[j] = checkout[j]
         /\ checkout[k].pc # "idle" =>
              CheckoutStagesLeft(checkout'[k].pc) < CheckoutStagesLeft(checkout[k].pc)
<1> DEFINE c == checkout[k]
<1>0. c \in Checkout /\ checkout \in [Checkouts -> Checkout]
  BY DEF TypeOK
<1>1. ASSUME NEW t \in Tenants, NEW p \in Plans, BeginCheckout(k, t, p)
      PROVE  /\ UNCHANGED hook /\ c.pc = "idle"
             /\ \A j \in Checkouts \ {k} : checkout'[j] = checkout[j]
  BY <1>0, <1>1 DEF BeginCheckout
<1>2. ASSUME NEW d \in StripeCustomers, CreateStripeCustomer(k, d)
      PROVE  /\ UNCHANGED hook /\ c.pc = "create"
             /\ \A j \in Checkouts \ {k} : checkout'[j] = checkout[j]
             /\ checkout'[k].pc = "insert"
  BY <1>0, <1>2 DEF CreateStripeCustomer, Checkout
<1>3. CASE InsertCustomer(k)
  <2>1. /\ UNCHANGED hook /\ c.pc = "insert"
        /\ \A j \in Checkouts \ {k} : checkout'[j] = checkout[j]
        /\ checkout'[k].pc \in {"idle", "session"}
    BY <1>0, <1>3 DEF InsertCustomer, Checkout, NoCheckout
  <2> QED
    BY <2>1 DEF CheckoutStagesLeft
<1>4. CASE OpenSession(k) \/ RespondCheckoutEarly(k)
  <2>1. /\ UNCHANGED hook
        /\ \A j \in Checkouts \ {k} : checkout'[j] = checkout[j]
        /\ \/ c.pc = "session" /\ checkout'[k].pc = "commit"
           \/ c.pc = "commit" /\ checkout'[k].pc = "late"
    BY <1>0, <1>4 DEF OpenSession, RespondCheckoutEarly, Checkout
  <2> QED
    BY <2>1 DEF CheckoutStagesLeft
<1>5. CASE CommitCheckout(k) \/ FailCheckout(k)
  <2>1. /\ UNCHANGED hook /\ c.pc # "idle"
        /\ \A j \in Checkouts \ {k} : checkout'[j] = checkout[j]
        /\ checkout'[k].pc = "idle"
    BY <1>0, <1>5 DEF CommitCheckout, FailCheckout, NoCheckout
  <2> QED
    BY <2>1 DEF CheckoutStagesLeft
<1>6. CASE \E d \in StripeCustomers : CreateStripeCustomer(k, d)
  BY <1>2, <1>6 DEF CheckoutStagesLeft
<1> QED
  BY <1>1, <1>3, <1>4, <1>5, <1>6 DEF CheckoutStep

\* Every request makes a handful of steps, whatever the others and Stripe do:
\* what could keep a webhook from its answer is only another's lock or loop.
THEOREM RequestsMoveOn == Spec => EachStepIsProgress
<1> DEFINE Progress ==
      /\ \A w \in Webhooks : hook[w].pc # "idle" /\ hook'[w] # hook[w] =>
           WebhookStagesLeft(hook'[w].pc) < WebhookStagesLeft(hook[w].pc)
      /\ \A k \in Checkouts : checkout[k].pc # "idle" /\ checkout'[k] # checkout[k] =>
           CheckoutStagesLeft(checkout'[k].pc) < CheckoutStagesLeft(checkout[k].pc)
<1>1. ASSUME TypeOK, [Next]_vars PROVE Progress
  <2>1. ASSUME NEW w \in Webhooks, WebhookStep(w) PROVE Progress
    BY <1>1, <2>1, WebhookProgress
  <2>2. ASSUME NEW k \in Checkouts, CheckoutStep(k) PROVE Progress
    BY <1>1, <2>2, CheckoutProgress
  <2>3. CASE StripeStep \/ UNCHANGED vars
    BY <2>3 DEF StripeStep, Pay, PayByDashboard, Update, PaymentFails, Cancel,
         OtherEvent, Emit, vars
  <2>4. ASSUME NEW q \in Requests, Crash(Host[q]) PROVE Progress
    <3>1. ASSUME NEW w \in Webhooks, hook[w].pc # "idle", hook'[w] # hook[w]
          PROVE  WebhookStagesLeft(hook'[w].pc) < WebhookStagesLeft(hook[w].pc)
      <4>1. hook'[w].pc = "idle"
        BY <2>4, <3>1 DEF Crash, NoHook
      <4> QED
        BY <3>1, <4>1 DEF WebhookStagesLeft
    <3>2. ASSUME NEW k \in Checkouts, checkout[k].pc # "idle", checkout'[k] # checkout[k]
          PROVE  CheckoutStagesLeft(checkout'[k].pc) < CheckoutStagesLeft(checkout[k].pc)
      <4>1. checkout'[k].pc = "idle"
        BY <2>4, <3>2 DEF Crash, NoCheckout
      <4> QED
        BY <3>2, <4>1 DEF CheckoutStagesLeft
    <3> QED
      BY <3>1, <3>2
  <2> QED
    BY <1>1, <2>1, <2>2, <2>3, <2>4 DEF Next
<1>2. TypeOK /\ [Next]_vars => [Progress]_vars
  BY <1>1
<1> QED
  BY <1>2, TypeCorrect, PTL DEF Spec, EachStepIsProgress

=============================================================================
