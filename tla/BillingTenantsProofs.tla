------------------------ MODULE BillingTenantsProofs ------------------------
(* That tenants, customers, subscriptions and plans of Billing stay together, *)
(* for all values of its constants.                                           *)
EXTENDS BillingProofs

USE DEF Requests, dbVars, stripeVars

\* An event names a customer that Stripe has, at most the tenant that customer
\* was created for, and the customer who pays for its subscription.
EventHonest(e) ==
  /\ stripeCustomer[e.cust] # None
  /\ e.tenant \in {None, stripeCustomer[e.cust]}
  /\ e.type # "checkout" => /\ stripeSub[e.sub] # None
                            /\ stripeSub[e.sub].cust = e.cust

\* A checkout works with a customer of its own tenant.
CheckoutHonest(c) ==
  c.pc \in {"insert", "session", "commit", "late"} =>
    stripeCustomer[c.cust] = c.tenant

\* A handler that is to write has found the tenant that pays.
HookHonest(h) ==
  h.pc = "write" \/ h.holds = "row" => h.owner = stripeCustomer[h.ev.cust]

\* A subscription at Stripe is paid by a customer created for some tenant.
SubscriptionsHonest ==
  \A s \in Subs : stripeSub[s] # None =>
    BuyerOf(s) # None /\ stripeSub[s].tenant \in {None, BuyerOf(s)}

\* TenantIsolation, and why the next step keeps it.
Honest ==
  /\ TenantIsolation
  /\ SubscriptionsHonest
  /\ \A e \in emitted : EventHonest(e)
  /\ \A k \in Checkouts : CheckoutHonest(checkout[k])
  /\ \A w \in Webhooks : HookHonest(hook[w])

LEMMA InitHonest == Init => Honest
<1> SUFFICES ASSUME Init PROVE Honest
  OBVIOUS
<1> USE ConstantsAssumption, StartAssumption, NoneFacts DEF Init
<1>1. ASSUME NEW s \in Subs, Mirrored[s] # None
      PROVE  /\ Mirrored[s] \in StripeSubscription
             /\ AtStripe[Mirrored[s].cust] # None
             /\ Mirrored[s].tenant \in {None, AtStripe[Mirrored[s].cust]}
  BY <1>1
<1>2. TenantIsolation
  <2>1. \A s \in Subs : subs[s] # None =>
          stripeSub[s] # None /\ subs[s].tenant = BuyerOf(s)
    BY DEF BuyerOf, MirrorOf
  <2> QED
    BY <2>1 DEF TenantIsolation
<1>3. SubscriptionsHonest
  BY <1>1 DEF SubscriptionsHonest, BuyerOf
<1>4. \A e \in emitted : EventHonest(e)
  BY <1>1 DEF EventHonest, SubscriptionEvent
<1>5. /\ \A k \in Checkouts : CheckoutHonest(checkout[k])
      /\ \A w \in Webhooks : HookHonest(hook[w])
  BY DEF CheckoutHonest, HookHonest, NoCheckout, NoHook
<1> QED
  BY <1>2, <1>3, <1>4, <1>5 DEF Honest

\* Stripe never gives a customer to another tenant, nor a subscription to
\* another customer.
StripeKeeps ==
  /\ \A c \in StripeCustomers : stripeCustomer[c] # None =>
       stripeCustomer'[c] = stripeCustomer[c]
  /\ \A s \in Subs : stripeSub[s] # None =>
       /\ stripeSub'[s] # None
       /\ stripeSub'[s].cust = stripeSub[s].cust
       /\ stripeSub'[s].tenant = stripeSub[s].tenant

\* What was honest stays so while Stripe keeps what it has.
LEMMA HonestKept ==
  ASSUME TypeOK, Honest, StripeKeeps
  PROVE  /\ \A e \in emitted : EventHonest(e)'
         /\ \A x \in sessions : stripeCustomer'[x.cust] = x.tenant
         /\ \A k \in Checkouts :
              checkout'[k] = checkout[k] => CheckoutHonest(checkout[k])'
         /\ \A w \in Webhooks : hook'[w] = hook[w] => HookHonest(hook[w])'
         /\ \A s \in Subs : stripeSub[s] # None =>
              BuyerOf(s)' = BuyerOf(s) /\ BuyerOf(s) \in Tenants
         /\ \A t \in Tenants : customers[t] # None =>
              stripeCustomer'[customers[t]] = t
<1> USE NoneFacts
<1>1. ASSUME NEW e \in emitted PROVE EventHonest(e)'
  <2>1. /\ e.cust \in StripeCustomers /\ EventHonest(e)
        /\ e.type # "checkout" => e.sub \in Subs
    BY DEF TypeOK, StagesOK, Honest, Event
  <2> QED
    BY <2>1 DEF EventHonest, StripeKeeps
<1>2. ASSUME NEW x \in sessions PROVE stripeCustomer'[x.cust] = x.tenant
  <2>1. /\ x.cust \in StripeCustomers /\ x.tenant \in Tenants
        /\ stripeCustomer[x.cust] = x.tenant
    BY DEF TypeOK, Session, Honest, TenantIsolation
  <2> QED
    BY <2>1 DEF StripeKeeps
<1>3. ASSUME NEW k \in Checkouts, checkout'[k] = checkout[k]
      PROVE  CheckoutHonest(checkout[k])'
  <2>1. CheckoutStageOK(checkout[k]) /\ CheckoutHonest(checkout[k])
    BY DEF TypeOK, StagesOK, Honest
  <2> QED
    BY <1>3, <2>1 DEF CheckoutStageOK, CheckoutHonest, StripeKeeps
<1>4. ASSUME NEW w \in Webhooks, hook'[w] = hook[w]
      PROVE  HookHonest(hook[w])'
  <2>1. /\ hook[w] \in Hook /\ HookStageOK(hook[w]) /\ HookHonest(hook[w])
        /\ emitted \subseteq Event
    BY DEF TypeOK, StagesOK, Honest
  <2>2. hook[w].pc # "idle" => hook[w].ev.cust \in StripeCustomers
    BY <2>1 DEF HookStageOK, Event
  <2> QED
    BY <1>4, <2>1, <2>2 DEF HookStageOK, HookHonest, StripeKeeps
<1>5. ASSUME NEW s \in Subs, stripeSub[s] # None
      PROVE  BuyerOf(s)' = BuyerOf(s) /\ BuyerOf(s) \in Tenants
  <2>1. stripeSub[s].cust \in StripeCustomers /\ BuyerOf(s) # None
    BY <1>5 DEF TypeOK, StripeSubscription, Honest, SubscriptionsHonest
  <2> QED
    BY <1>5, <2>1 DEF BuyerOf, StripeKeeps, TypeOK
<1>6. ASSUME NEW t \in Tenants, customers[t] # None
      PROVE  stripeCustomer'[customers[t]] = t
  BY <1>6 DEF TypeOK, StripeKeeps, Honest, TenantIsolation
<1> QED
  BY <1>1, <1>2, <1>3, <1>4, <1>5, <1>6

\* A checkout request moves on, and at most customers and sessions follow.
LEMMA CheckoutKeepsHonest ==
  ASSUME TypeOK, Honest, StripeKeeps, NEW k \in Checkouts, NEW r,
         checkout' = [checkout EXCEPT ![k] = r],
         r.pc \in {"insert", "session", "commit", "late"} =>
           stripeCustomer'[r.cust] = r.tenant,
         UNCHANGED <<subs, stripeSub, emitted, hook>>,
         \A t \in Tenants : customers'[t] # customers[t] =>
           stripeCustomer'[customers'[t]] = t,
         \A x \in sessions' \ sessions : stripeCustomer'[x.cust] = x.tenant
  PROVE  Honest'
<1>1. \A j \in Checkouts : CheckoutHonest(checkout[j])'
  <2>1. checkout'[k] = r /\ \A j \in Checkouts \ {k} : checkout'[j] = checkout[j]
    BY DEF TypeOK
  <2> QED
    BY <2>1, HonestKept DEF CheckoutHonest
<1>2. \A w \in Webhooks : HookHonest(hook[w])'
  BY HonestKept
<1>3. \A e \in emitted' : EventHonest(e)'
  BY HonestKept
<1>4. SubscriptionsHonest'
  BY HonestKept, NoneFacts DEF Honest, SubscriptionsHonest
<1>5. TenantIsolation'
  <2>1. \A s \in Subs : subs'[s] # None =>
          stripeSub'[s] # None /\ subs'[s].tenant = BuyerOf(s)'
    BY HonestKept DEF Honest, TenantIsolation
  <2>2. \A t \in Tenants : customers'[t] # None => stripeCustomer'[customers'[t]] = t
    BY HonestKept
  <2>3. \A x \in sessions' : stripeCustomer'[x.cust] = x.tenant
    BY HonestKept
  <2> QED
    BY <2>1, <2>2, <2>3 DEF TenantIsolation
<1> QED
  BY <1>1, <1>2, <1>3, <1>4, <1>5 DEF Honest

LEMMA CheckoutStepHonest ==
  ASSUME TypeOK, Honest, NEW k \in Checkouts, CheckoutStep(k)
  PROVE  Honest'
<1> USE NoneFacts
<1> DEFINE c == checkout[k]
<1>0. /\ c \in Checkout /\ CheckoutStageOK(c) /\ CheckoutHonest(c)
      /\ checkout \in [Checkouts -> Checkout]
      /\ \A t \in Tenants : customers[t] # None => stripeCustomer[customers[t]] = t
  BY DEF TypeOK, StagesOK, Honest, TenantIsolation
<1>1. UNCHANGED <<stripeCustomer, stripeSub>> => StripeKeeps
  BY DEF StripeKeeps
<1>2. NoCheckout.pc = "idle"
  BY DEF NoCheckout
<1>3. CASE \E t \in Tenants, p \in Plans : BeginCheckout(k, t, p)
  <2>1. PICK t \in Tenants, p \in Plans : BeginCheckout(k, t, p)
    BY <1>3
  <2> DEFINE r == [pc |-> IF GetCustomer(t) = None THEN "create" ELSE "session",
                   tenant |-> t, plan |-> p, cust |-> GetCustomer(t),
                   holds |-> "nothing"]
  <2>2. /\ checkout' = [checkout EXCEPT ![k] = r]
        /\ UNCHANGED <<dbVars, hook, stripeVars>>
    BY <2>1 DEF BeginCheckout
  <2>3. CheckoutHonest(r)
    BY <1>0, <2>2 DEF CheckoutHonest, GetCustomer
  <2> HIDE DEF r
  <2> QED
    BY <1>1, <2>2, <2>3, CheckoutKeepsHonest DEF CheckoutHonest
<1>4. CASE \E d \in StripeCustomers : CreateStripeCustomer(k, d)
  <2>1. PICK d \in StripeCustomers : CreateStripeCustomer(k, d)
    BY <1>4
  <2>2. c.pc = "create" /\ stripeCustomer' = [stripeCustomer EXCEPT ![d] = c.tenant]
    BY <2>1 DEF CreateStripeCustomer
  <2>3. StripeKeeps /\ stripeCustomer'[d] = c.tenant
    BY <2>1, <2>2 DEF CreateStripeCustomer, StripeKeeps, TypeOK
  <2> DEFINE r == [c EXCEPT !.pc = "insert", !.cust = d]
  <2>4. checkout' = [checkout EXCEPT ![k] = r] /\ stripeCustomer'[r.cust] = r.tenant
    BY <1>0, <2>1, <2>3 DEF CreateStripeCustomer, Checkout
  <2>5. UNCHANGED <<dbVars, hook, stripeSub, sessions, emitted>>
    BY <2>1 DEF CreateStripeCustomer
  <2> HIDE DEF r
  <2> QED
    BY <2>3, <2>4, <2>5, CheckoutKeepsHonest
<1>5. CASE InsertCustomer(k)
  <2>1. /\ c.tenant \in Tenants /\ stripeCustomer[c.cust] = c.tenant
        /\ UNCHANGED <<dbVars, hook, stripeVars>>
    BY <1>0, <1>5 DEF InsertCustomer, CheckoutStageOK, CheckoutHonest
  <2> DEFINE r == IF ~CustomerTaken(c.tenant, c.cust)
                    THEN [c EXCEPT !.pc = "session", !.holds = "row"]
                  ELSE IF GetCustomer(c.tenant) # None
                    THEN [c EXCEPT !.pc = "session", !.cust = GetCustomer(c.tenant)]
                  ELSE NoCheckout
  <2>2. checkout' = [checkout EXCEPT ![k] = r]
    BY <1>5 DEF InsertCustomer
  <2>3. CheckoutHonest(r)
    BY <1>0, <1>2, <2>1 DEF CheckoutHonest, GetCustomer, Checkout
  <2> HIDE DEF r
  <2> QED
    BY <1>1, <2>1, <2>2, <2>3, CheckoutKeepsHonest DEF CheckoutHonest
<1>6. CASE OpenSession(k)
  <2> DEFINE r == [c EXCEPT !.pc = "commit"]
  <2>1. /\ checkout' = [checkout EXCEPT ![k] = r]
        /\ UNCHANGED <<dbVars, hook, stripeVars>>
    BY <1>6 DEF OpenSession
  <2>2. CheckoutHonest(r)
    BY <1>0, <1>6, <2>1 DEF OpenSession, CheckoutHonest, Checkout
  <2> HIDE DEF r
  <2> QED
    BY <1>1, <2>1, <2>2, CheckoutKeepsHonest DEF CheckoutHonest
<1>7. CASE RespondCheckoutEarly(k)
  <2> DEFINE r == [c EXCEPT !.pc = "late"]
  <2>1. /\ checkout' = [checkout EXCEPT ![k] = r]
        /\ UNCHANGED <<dbVars, hook, stripeCustomer, stripeSub, emitted>>
        /\ \A x \in sessions' \ sessions : x.cust = c.cust /\ x.tenant = c.tenant
        /\ stripeCustomer[c.cust] = c.tenant
    BY <1>0, <1>7 DEF RespondCheckoutEarly, HandOut, CheckoutHonest
  <2>2. CheckoutHonest(r)
    BY <1>0, <2>1 DEF CheckoutHonest, Checkout
  <2> HIDE DEF r
  <2> QED
    BY <1>1, <2>1, <2>2, CheckoutKeepsHonest DEF CheckoutHonest
<1>8. CASE CommitCheckout(k)
  <2>1. /\ checkout' = [checkout EXCEPT ![k] = NoCheckout]
        /\ UNCHANGED <<subs, hook, stripeCustomer, stripeSub, emitted>>
        /\ \A x \in sessions' \ sessions : x.cust = c.cust /\ x.tenant = c.tenant
        /\ stripeCustomer[c.cust] = c.tenant
    BY <1>0, <1>8 DEF CommitCheckout, HandOut, CheckoutHonest
  <2>2. \A t \in Tenants : customers'[t] # customers[t] =>
          t = c.tenant /\ customers'[t] = c.cust
    BY <1>8 DEF CommitCheckout, TypeOK
  <2> QED
    BY <1>1, <1>2, <2>1, <2>2, CheckoutKeepsHonest
<1>9. CASE FailCheckout(k)
  <2>1. /\ checkout' = [checkout EXCEPT ![k] = NoCheckout]
        /\ UNCHANGED <<dbVars, hook, stripeVars>>
    BY <1>9 DEF FailCheckout
  <2> QED
    BY <1>1, <1>2, <2>1, CheckoutKeepsHonest
<1> QED
  BY <1>3, <1>4, <1>5, <1>6, <1>7, <1>8, <1>9 DEF CheckoutStep

-----------------------------------------------------------------------------
(* Webhooks *)

\* A webhook request moves on, and at most customers and subs follow.
LEMMA HookKeepsHonest ==
  ASSUME TypeOK, Honest, NEW w \in Webhooks, NEW r,
         hook' = [hook EXCEPT ![w] = r], HookHonest(r),
         UNCHANGED <<checkout, stripeCustomer, stripeSub, sessions, emitted>>,
         \A t \in Tenants : customers'[t] # customers[t] =>
           stripeCustomer[customers'[t]] = t,
         \A s \in Subs : subs'[s] # subs[s] =>
           stripeSub[s] # None /\ subs'[s].tenant = BuyerOf(s)
  PROVE  Honest'
<1>0. StripeKeeps
  BY DEF StripeKeeps
<1>1. \A v \in Webhooks : HookHonest(hook[v])'
  <2>1. hook'[w] = r /\ \A v \in Webhooks \ {w} : hook'[v] = hook[v]
    BY DEF TypeOK
  <2> QED
    BY <1>0, <2>1, HonestKept DEF HookHonest
<1>2. /\ \A k \in Checkouts : CheckoutHonest(checkout[k])'
      /\ \A e \in emitted' : EventHonest(e)'
  BY <1>0, HonestKept
<1>3. SubscriptionsHonest'
  BY <1>0, HonestKept, NoneFacts DEF Honest, SubscriptionsHonest
<1>4. TenantIsolation'
  <2>1. \A s \in Subs : subs'[s] # None =>
          stripeSub'[s] # None /\ subs'[s].tenant = BuyerOf(s)'
    BY DEF Honest, TenantIsolation, BuyerOf
  <2>2. \A t \in Tenants : customers'[t] # None => stripeCustomer'[customers'[t]] = t
    BY <1>0, HonestKept
  <2> QED
    BY <2>1, <2>2 DEF Honest, TenantIsolation
<1> QED
  BY <1>1, <1>2, <1>3, <1>4 DEF Honest

LEMMA FlushMarkerHonest ==
  ASSUME TypeOK, Honest, NEW w \in Webhooks, NEW e \in emitted, FlushMarker(w, e)
  PROVE  Honest'
<1> DEFINE r == IF e.id \in markers THEN NoHook
                ELSE [NoHook EXCEPT !.pc = "read", !.ev = e]
<1>1. /\ hook' = [hook EXCEPT ![w] = r]
      /\ UNCHANGED <<dbVars, checkout, stripeCustomer, stripeSub, sessions, emitted>>
  BY DEF FlushMarker
<1>2. HookHonest(r)
  BY DEF HookHonest, NoHook
<1> HIDE DEF r
<1> QED
  BY <1>1, <1>2, HookKeepsHonest

LEMMA WebhookStepHonest ==
  ASSUME TypeOK, Honest, NEW w \in Webhooks, WebhookStep(w)
  PROVE  Honest'
<1> USE NoneFacts
<1> DEFINE h == hook[w]
           e == hook[w].ev
<1>0. /\ h \in Hook /\ HookStageOK(h) /\ HookHonest(h)
      /\ h.pc # "idle" => e \in emitted /\ e \in Event /\ EventHonest(e)
      /\ h.pc # "idle" /\ e.type # "checkout" => e.sub \in Subs
      /\ \A t \in Tenants : customers[t] # None => stripeCustomer[customers[t]] = t
  BY DEF TypeOK, StagesOK, HookStageOK, Honest, TenantIsolation
<1>1. HookHonest(NoHook)
  BY DEF HookHonest, NoHook
<1>2. CASE \E x \in emitted : Receive(w, x)
  BY <1>2, FlushMarkerHonest DEF Receive
<1>3. CASE \E x \in emitted : ReceiveAndWait(w, x)
  <2>1. PICK x \in emitted : ReceiveAndWait(w, x)
    BY <1>3
  <2> DEFINE r == [NoHook EXCEPT !.pc = "insert", !.ev = x]
  <2>2. /\ hook' = [hook EXCEPT ![w] = r] /\ UNCHANGED <<dbVars, checkout, stripeVars>>
        /\ HookHonest(r)
    BY <2>1 DEF ReceiveAndWait, HookHonest, NoHook
  <2> HIDE DEF r
  <2> QED
    BY <2>2, HookKeepsHonest
<1>4. CASE InsertMarker(w)
  BY <1>0, <1>4, FlushMarkerHonest DEF InsertMarker
<1>5. CASE ReadNothingToWrite(w)
  <2> DEFINE r == [h EXCEPT !.pc = "commit"]
  <2>1. /\ hook' = [hook EXCEPT ![w] = r] /\ UNCHANGED <<dbVars, checkout, stripeVars>>
        /\ HookHonest(r)
    BY <1>0, <1>5 DEF ReadNothingToWrite, HookHonest, HookStageOK, Hook
  <2> HIDE DEF r
  <2> QED
    BY <2>1, HookKeepsHonest
<1>6. CASE ReadCheckout(w)
  <2>1. e.tenant # None /\ e.tenant = stripeCustomer[e.cust]
    BY <1>0, <1>6 DEF ReadCheckout, WritesNothing, EventHonest
  <2> DEFINE r == [h EXCEPT !.pc = "write", !.owner = e.tenant]
  <2>2. /\ hook' = [hook EXCEPT ![w] = r] /\ UNCHANGED <<dbVars, checkout, stripeVars>>
        /\ HookHonest(r)
    BY <1>0, <1>6, <2>1 DEF ReadCheckout, HookHonest, Hook
  <2> HIDE DEF r
  <2> QED
    BY <2>2, HookKeepsHonest
<1>7. CASE ReadSubscription(w)
  <2>1. PICK t \in OwnersOf(e) :
          hook' = [hook EXCEPT ![w].pc = "write", ![w].owner = t,
                               ![w].seen = subs[e.sub]]
    BY <1>7 DEF ReadSubscription
  <2>2. e \in Event /\ EventHonest(e) /\ e.cust \in StripeCustomers
    BY <1>0, <1>7 DEF ReadSubscription, Event
  <2>3. t \in Tenants /\ (customers[t] = e.cust \/ t = e.tenant)
    BY <2>1 DEF OwnersOf
  <2>4. t = stripeCustomer[e.cust]
    BY <1>0, <2>2, <2>3 DEF EventHonest
  <2> DEFINE r == [h EXCEPT !.pc = "write", !.owner = t, !.seen = subs[e.sub]]
  <2>5. /\ hook' = [hook EXCEPT ![w] = r] /\ UNCHANGED <<dbVars, checkout, stripeVars>>
    BY <1>7, <2>1 DEF ReadSubscription
  <2>6. HookHonest(r)
    BY <1>0, <2>4, <2>5 DEF HookHonest, Hook
  <2> HIDE DEF r
  <2> QED
    BY <2>5, <2>6, HookKeepsHonest
<1>8. CASE FlushSubscription(w) \/ FlushCustomer(w)
  <2> DEFINE r == [h EXCEPT !.pc = "commit", !.holds = "row"]
  <2>1. /\ \/ hook' = [hook EXCEPT ![w] = r]
           \/ hook' = [hook EXCEPT ![w] = NoHook]
        /\ h.pc = "write" /\ UNCHANGED <<dbVars, checkout, stripeVars>>
    BY <1>8 DEF FlushSubscription, FlushCustomer
  <2>2. HookHonest(r)
    BY <1>0, <2>1 DEF HookHonest, Hook
  <2> HIDE DEF r
  <2> QED
    BY <1>1, <2>1, <2>2, HookKeepsHonest
<1>9. CASE RespondWebhookEarly(w)
  <2> DEFINE r == [h EXCEPT !.pc = "late"]
  <2>1. /\ hook' = [hook EXCEPT ![w] = r] /\ h.pc = "commit"
        /\ UNCHANGED <<dbVars, checkout, stripeCustomer, stripeSub, sessions, emitted>>
    BY <1>9 DEF RespondWebhookEarly
  <2>2. HookHonest(r)
    BY <1>0, <2>1 DEF HookHonest, Hook
  <2> HIDE DEF r
  <2> QED
    BY <2>1, <2>2, HookKeepsHonest
<1>10. CASE CommitWebhook(w)
  <2>1. /\ hook' = [hook EXCEPT ![w] = NoHook] /\ h.pc # "idle"
        /\ UNCHANGED <<checkout, stripeCustomer, stripeSub, sessions, emitted>>
    BY <1>10 DEF CommitWebhook
  <2>2. ASSUME NEW t \in Tenants, customers'[t] # customers[t]
        PROVE  stripeCustomer[customers'[t]] = t
    <3>1. /\ h.holds = "row" /\ e.type = "checkout"
          /\ t = e.tenant /\ customers'[t] = e.cust
      BY <1>10, <2>2 DEF CommitWebhook, TypeOK
    <3> QED
      BY <1>0, <2>1, <3>1 DEF EventHonest
  <2>3. ASSUME NEW s \in Subs, subs'[s] # subs[s]
        PROVE  stripeSub[s] # None /\ subs'[s].tenant = BuyerOf(s)
    <3>1. /\ h.holds = "row" /\ e.type # "checkout" /\ s = e.sub
          /\ subs'[s] = RowAfter(h, subs[s])
      BY <1>10, <2>3 DEF CommitWebhook, TypeOK
    <3>2. stripeSub[s] # None /\ BuyerOf(s) = stripeCustomer[e.cust]
      BY <1>0, <2>1, <3>1 DEF EventHonest, BuyerOf
    <3>3. CASE h.seen = None
      <4>1. subs'[s].tenant = h.owner
        BY <3>1, <3>3 DEF RowAfter
      <4> QED
        BY <1>0, <3>1, <3>2, <4>1 DEF HookHonest
    <3>4. CASE h.seen # None
      <4>1. subs[s] # None /\ subs[s] \in Row /\ subs[s].tenant = BuyerOf(s)
        BY <1>0, <3>1, <3>4 DEF HookStageOK, TypeOK, Honest, TenantIsolation
      <4>2. subs'[s].tenant = subs[s].tenant
        BY <3>1, <3>4, <4>1 DEF RowAfter, Row
      <4> QED
        BY <3>2, <4>1, <4>2
    <3> QED
      BY <3>3, <3>4
  <2> QED
    BY <1>1, <2>1, <2>2, <2>3, HookKeepsHonest
<1>11. CASE FailWebhook(w)
  <2>1. hook' = [hook EXCEPT ![w] = NoHook] /\ UNCHANGED <<dbVars, checkout, stripeVars>>
    BY <1>11 DEF FailWebhook
  <2> QED
    BY <1>1, <2>1, HookKeepsHonest
<1> QED
  BY <1>2, <1>3, <1>4, <1>5, <1>6, <1>7, <1>8, <1>9, <1>10, <1>11
     DEF WebhookStep, ReadRow, FlushRow

-----------------------------------------------------------------------------
(* Stripe *)

\* Stripe makes or changes subscription s into sub, which keeps the customer
\* and the tenant s may have had, and reports it.
LEMMA StripeEmitsHonest ==
  ASSUME TypeOK, Honest, NEW s \in Subs, NEW sub \in StripeSubscription,
         stripeSub' = [stripeSub EXCEPT ![s] = sub],
         stripeCustomer[sub.cust] # None,
         sub.tenant \in {None, stripeCustomer[sub.cust]},
         stripeSub[s] # None =>
           sub.cust = stripeSub[s].cust /\ sub.tenant = stripeSub[s].tenant,
         NEW n, NEW es, Emit(n, es), sessions' \subseteq sessions,
         \A e \in es : /\ e.cust = sub.cust /\ e.tenant = sub.tenant
                       /\ e.type # "checkout" => e.sub = s
  PROVE  Honest'
<1> USE NoneFacts
<1>0. /\ UNCHANGED <<customers, subs, hook, checkout, stripeCustomer>>
      /\ emitted' = emitted \cup es
  BY DEF Emit
<1>1. /\ \A u \in Subs \ {s} : stripeSub'[u] = stripeSub[u]
      /\ stripeSub'[s] = sub /\ sub # None
  BY DEF TypeOK
<1>2. StripeKeeps
  BY <1>0, <1>1 DEF StripeKeeps
<1>3. SubscriptionsHonest'
  BY <1>0, <1>1 DEF Honest, SubscriptionsHonest, BuyerOf
<1>4. \A e \in emitted' : EventHonest(e)'
  BY <1>0, <1>1, <1>2, HonestKept DEF EventHonest
<1>5. /\ \A k \in Checkouts : CheckoutHonest(checkout[k])'
      /\ \A w \in Webhooks : HookHonest(hook[w])'
  BY <1>0, <1>2, HonestKept
<1>6. TenantIsolation'
  BY <1>0, <1>2, HonestKept DEF Honest, TenantIsolation, StripeKeeps
<1> QED
  BY <1>3, <1>4, <1>5, <1>6 DEF Honest

LEMMA StripeStepHonest ==
  ASSUME TypeOK, Honest, StripeStep
  PROVE  Honest'
<1> USE NoneFacts, ConstantsAssumption
<1>0. \A s \in Subs : stripeSub[s] # None =>
        /\ stripeSub[s] \in StripeSubscription
        /\ stripeCustomer[stripeSub[s].cust] # None
        /\ stripeSub[s].tenant \in {None, stripeCustomer[stripeSub[s].cust]}
  BY DEF TypeOK, Honest, SubscriptionsHonest, BuyerOf
<1>1. CASE \E x \in sessions, s \in Subs, st \in PayloadStatuses : Pay(x, s, st)
  <2>1. PICK x \in sessions, s \in Subs, st \in PayloadStatuses : Pay(x, s, st)
    BY <1>1
  <2> DEFINE sub == [cust |-> x.cust, tenant |-> x.tenant, status |-> st,
                     plan |-> x.plan]
             es == {SubscriptionEvent(nextId, "created", s, sub),
                    [SubscriptionEvent(nextId + 1, "checkout", s, sub)
                       EXCEPT !.sub = None]}
  <2>2. /\ sub \in StripeSubscription
        /\ stripeCustomer[sub.cust] = sub.tenant /\ sub.tenant \in Tenants
    BY DEF TypeOK, Session, StripeSubscription, Honest, TenantIsolation
  <2>3. \A e \in es : /\ e.cust = sub.cust /\ e.tenant = sub.tenant
                      /\ e.type # "checkout" => e.sub = s
    BY DEF SubscriptionEvent
  <2>4. /\ stripeSub[s] = None /\ stripeSub' = [stripeSub EXCEPT ![s] = sub]
        /\ Emit(2, es) /\ sessions' \subseteq sessions
    BY <2>1 DEF Pay
  <2> HIDE DEF es, sub
  <2> QED
    BY <2>2, <2>3, <2>4, StripeEmitsHonest
<1>2. CASE \E c \in StripeCustomers, s \in Subs, p \in Plans : PayByDashboard(c, s, p)
  <2>1. PICK c \in StripeCustomers, s \in Subs, p \in Plans : PayByDashboard(c, s, p)
    BY <1>2
  <2> DEFINE sub == [cust |-> c, tenant |-> None, status |-> "active", plan |-> p]
             es == {SubscriptionEvent(nextId, "created", s, sub)}
  <2>2. /\ sub \in StripeSubscription
        /\ stripeCustomer[sub.cust] # None /\ sub.tenant = None
    BY <2>1 DEF PayByDashboard, StripeSubscription, Statuses
  <2>3. \A e \in es : e.cust = sub.cust /\ e.tenant = sub.tenant /\ e.sub = s
    BY DEF SubscriptionEvent
  <2>4. /\ stripeSub[s] = None /\ stripeSub' = [stripeSub EXCEPT ![s] = sub]
        /\ Emit(1, es) /\ sessions' \subseteq sessions
    BY <2>1 DEF PayByDashboard
  <2> HIDE DEF es, sub
  <2> QED
    BY <2>2, <2>3, <2>4, StripeEmitsHonest
\* The other steps report a subscription that Stripe has.
<1>3. ASSUME NEW s \in Subs, NEW sub \in StripeSubscription, NEW type,
             stripeSub[s] # None,
             sub.cust = stripeSub[s].cust /\ sub.tenant = stripeSub[s].tenant,
             stripeSub' = [stripeSub EXCEPT ![s] = sub],
             Emit(1, {SubscriptionEvent(nextId, type, s, sub)}), UNCHANGED sessions
      PROVE  Honest'
  <2> DEFINE es == {SubscriptionEvent(nextId, type, s, sub)}
  <2>1. \A e \in es : e.cust = sub.cust /\ e.tenant = sub.tenant /\ e.sub = s
    BY DEF SubscriptionEvent
  <2>2. Emit(1, es) /\ sessions' \subseteq sessions
    BY <1>3
  <2>3. /\ stripeCustomer[sub.cust] # None
        /\ sub.tenant \in {None, stripeCustomer[sub.cust]}
    BY <1>0, <1>3
  <2> HIDE DEF es
  <2> QED
    BY <1>3, <2>1, <2>2, <2>3, StripeEmitsHonest
<1>4. CASE \E s \in Subs, st \in PayloadStatuses, p \in Plans : Update(s, st, p)
  <2>1. PICK s \in Subs, st \in PayloadStatuses, p \in Plans : Update(s, st, p)
    BY <1>4
  <2> DEFINE sub == [stripeSub[s] EXCEPT !.status = st, !.plan = p]
  <2>2. /\ stripeSub[s] # None /\ sub \in StripeSubscription
        /\ sub.cust = stripeSub[s].cust /\ sub.tenant = stripeSub[s].tenant
    BY <1>0, <2>1 DEF Update, Living, StripeSubscription
  <2>3. /\ stripeSub' = [stripeSub EXCEPT ![s] = sub] /\ UNCHANGED sessions
        /\ Emit(1, {SubscriptionEvent(nextId, "updated", s, sub)})
    BY <2>1 DEF Update
  <2> HIDE DEF sub
  <2> QED
    BY <1>3, <2>2, <2>3
<1>5. CASE \E s \in Subs : PaymentFails(s)
  <2>1. PICK s \in Subs : PaymentFails(s)
    BY <1>5
  <2> DEFINE sub == [stripeSub[s] EXCEPT !.status = "past_due"]
  <2>2. /\ stripeSub[s] # None /\ sub \in StripeSubscription
        /\ sub.cust = stripeSub[s].cust /\ sub.tenant = stripeSub[s].tenant
    BY <1>0, <2>1 DEF PaymentFails, Living, StripeSubscription, Statuses
  <2>3. /\ stripeSub' = [stripeSub EXCEPT ![s] = sub] /\ UNCHANGED sessions
        /\ Emit(1, {SubscriptionEvent(nextId, "payment_failed", s, sub)})
    BY <2>1 DEF PaymentFails
  <2> HIDE DEF sub
  <2> QED
    BY <1>3, <2>2, <2>3
<1>6. CASE \E s \in Subs : Cancel(s)
  <2>1. PICK s \in Subs : Cancel(s)
    BY <1>6
  <2> DEFINE sub == [stripeSub[s] EXCEPT !.status = "canceled"]
  <2>2. /\ stripeSub[s] # None /\ sub \in StripeSubscription
        /\ sub.cust = stripeSub[s].cust /\ sub.tenant = stripeSub[s].tenant
    BY <1>0, <2>1 DEF Cancel, Living, StripeSubscription, Statuses
  <2>3. /\ stripeSub' = [stripeSub EXCEPT ![s] = sub] /\ UNCHANGED sessions
        /\ Emit(1, {SubscriptionEvent(nextId, "deleted", s, sub)})
    BY <2>1 DEF Cancel
  <2> HIDE DEF sub
  <2> QED
    BY <1>3, <2>2, <2>3
<1>7. CASE \E s \in Subs : OtherEvent(s)
  <2>1. PICK s \in Subs : OtherEvent(s)
    BY <1>7
  <2>2. stripeSub' = [stripeSub EXCEPT ![s] = stripeSub[s]]
    BY <2>1 DEF OtherEvent, TypeOK
  <2> QED
    BY <1>0, <1>3, <2>1, <2>2 DEF OtherEvent
<1> QED
  BY <1>1, <1>2, <1>4, <1>5, <1>6, <1>7 DEF StripeStep

LEMMA CrashHonest ==
  ASSUME TypeOK, Honest, NEW q \in Requests, Crash(Host[q])
  PROVE  Honest'
<1>0. /\ \A w \in Webhooks : hook'[w] = hook[w] \/ hook'[w] = NoHook
      /\ \A k \in Checkouts : checkout'[k] = checkout[k] \/ checkout'[k] = NoCheckout
      /\ UNCHANGED <<dbVars, stripeVars>>
  BY DEF Crash
<1>1. StripeKeeps
  BY <1>0 DEF StripeKeeps
<1>2. \A w \in Webhooks : HookHonest(hook[w])'
  BY <1>0, <1>1, HonestKept DEF HookHonest, NoHook
<1>3. \A k \in Checkouts : CheckoutHonest(checkout[k])'
  BY <1>0, <1>1, HonestKept DEF CheckoutHonest, NoCheckout
<1>4. \A e \in emitted' : EventHonest(e)'
  BY <1>0, <1>1, HonestKept
<1>5. SubscriptionsHonest' /\ TenantIsolation'
  BY <1>0 DEF Honest, SubscriptionsHonest, TenantIsolation, BuyerOf
<1> QED
  BY <1>2, <1>3, <1>4, <1>5 DEF Honest

LEMMA AlwaysHonest == Spec => []Honest
<1>1. ASSUME TypeOK, Honest, [Next]_vars PROVE Honest'
  <2>1. CASE UNCHANGED vars
    <3>1. StripeKeeps
      BY <2>1 DEF vars, StripeKeeps
    <3> QED
      BY <1>1, <2>1, <3>1, HonestKept
         DEF vars, Honest, SubscriptionsHonest, TenantIsolation, BuyerOf
  <2> QED
    BY <1>1, <2>1, CheckoutStepHonest, WebhookStepHonest, StripeStepHonest,
       CrashHonest DEF Next
<1> QED
  BY <1>1, InitHonest, TypeCorrect, PTL DEF Spec

\* No race of checkouts and events, in whatever order they come, makes one
\* tenant pay for another or own another's subscription.
THEOREM TenantsIsolated == Spec => []TenantIsolation
<1>1. Honest => TenantIsolation
  BY DEF Honest
<1> QED
  BY <1>1, AlwaysHonest, PTL

-----------------------------------------------------------------------------
(* The plan of a tenant *)

\* Processed events reported the plan and, if it grants access, the status of
\* every row of the mirror.
RowsReported ==
  \A s \in Subs : subs[s] # None =>
    \E e, f \in emitted :
      /\ e.id \in markers /\ e.sub = s /\ e.type # "checkout"
      /\ f.id \in markers /\ f.sub = s /\ f.type # "checkout"
      /\ subs[s].status \in ActiveStatuses => Reported(e) = subs[s].status
      /\ f.plan = subs[s].plan

LEMMA InitReported == Init => RowsReported
<1> SUFFICES ASSUME Init, NEW s \in Subs, subs[s] # None
             PROVE  \E e, f \in emitted :
                      /\ e.id \in markers /\ e.sub = s /\ e.type # "checkout"
                      /\ f.id \in markers /\ f.sub = s /\ f.type # "checkout"
                      /\ subs[s].status \in ActiveStatuses =>
                           Reported(e) = subs[s].status
                      /\ f.plan = subs[s].plan
  BY DEF RowsReported
<1> DEFINE e == SubscriptionEvent(0, "created", s, Mirrored[s])
<1>1. Mirrored[s] # None /\ e \in emitted
  BY DEF Init
<1>2. /\ e.id \in markers /\ e.sub = s /\ e.type = "created"
      /\ Reported(e) = subs[s].status /\ e.plan = subs[s].plan
  BY <1>1 DEF Init, SubscriptionEvent, Reported, MirrorOf
<1> HIDE DEF e
<1> QED
  BY <1>1, <1>2

LEMMA ReportedKept ==
  ASSUME TypeOK, RowsReported, [Next]_vars
  PROVE  RowsReported'
<1>1. ASSUME emitted \subseteq emitted', markers \subseteq markers',
             NEW s \in Subs, subs'[s] = subs[s], subs[s] # None
      PROVE  \E e, f \in emitted' :
               /\ e.id \in markers' /\ e.sub = s /\ e.type # "checkout"
               /\ f.id \in markers' /\ f.sub = s /\ f.type # "checkout"
               /\ subs'[s].status \in ActiveStatuses => Reported(e) = subs'[s].status
               /\ f.plan = subs'[s].plan
  BY <1>1 DEF RowsReported
<1>2. CASE \E w \in Webhooks : CommitWebhook(w)
  <2>1. PICK w \in Webhooks : CommitWebhook(w)
    BY <1>2
  <2> DEFINE h == hook[w]
             d == hook[w].ev
  <2>2. /\ d \in emitted /\ d \in Event /\ h \in Hook /\ HookStageOK(h)
        /\ emitted' = emitted /\ markers' = markers \cup {d.id}
    BY <2>1 DEF CommitWebhook, TypeOK, StagesOK, HookStageOK
  <2>3. ASSUME NEW s \in Subs, subs'[s] # subs[s]
        PROVE  \E e, f \in emitted' :
                 /\ e.id \in markers' /\ e.sub = s /\ e.type # "checkout"
                 /\ f.id \in markers' /\ f.sub = s /\ f.type # "checkout"
                 /\ subs'[s].status \in ActiveStatuses => Reported(e) = subs'[s].status
                 /\ f.plan = subs'[s].plan
    <3>1. /\ d.type # "checkout" /\ s = d.sub /\ subs'[s] = RowAfter(h, subs[s])
      BY <2>1, <2>3 DEF CommitWebhook, TypeOK
    <3>2. StatusOf(d) \in ActiveStatuses => Reported(d) = StatusOf(d)
      BY DEF StatusOf, Reported, ActiveStatuses
    <3>3. CASE h.seen = None
      <4>1. subs'[s].status = StatusOf(d) /\ subs'[s].plan = d.plan
        BY <3>1, <3>3 DEF RowAfter
      <4> QED
        BY <2>2, <3>1, <3>2, <4>1
    <3>4. CASE h.seen # None
      <4>1. subs[s] # None /\ subs[s] \in Row
        BY <2>2, <3>1, <3>4 DEF HookStageOK, TypeOK
      <4>2. /\ subs'[s].status \in {StatusOf(d), subs[s].status}
            /\ subs'[s].plan \in {d.plan, subs[s].plan}
        BY <3>1, <3>4, <4>1 DEF RowAfter, Row
      <4>3. PICK e, f \in emitted :
              /\ e.id \in markers /\ e.sub = s /\ e.type # "checkout"
              /\ f.id \in markers /\ f.sub = s /\ f.type # "checkout"
              /\ subs[s].status \in ActiveStatuses => Reported(e) = subs[s].status
              /\ f.plan = subs[s].plan
        BY <4>1 DEF RowsReported
      <4> DEFINE e2 == IF subs'[s].status = StatusOf(d) THEN d ELSE e
                 f2 == IF subs'[s].plan = d.plan THEN d ELSE f
      <4>4. /\ e2 \in emitted' /\ e2.id \in markers' /\ e2.sub = s
            /\ e2.type # "checkout"
            /\ subs'[s].status \in ActiveStatuses => Reported(e2) = subs'[s].status
        BY <2>2, <3>1, <3>2, <4>2, <4>3
      <4>5. /\ f2 \in emitted' /\ f2.id \in markers' /\ f2.sub = s
            /\ f2.type # "checkout" /\ f2.plan = subs'[s].plan
        BY <2>2, <3>1, <4>2, <4>3
      <4> HIDE DEF e2, f2
      <4> QED
        BY <4>4, <4>5
    <3> QED
      BY <3>3, <3>4
  <2> QED
    BY <1>1, <2>2, <2>3 DEF RowsReported
<1>3. CASE ~ \E w \in Webhooks : CommitWebhook(w)
  <2>1. UNCHANGED subs /\ emitted \subseteq emitted' /\ markers \subseteq markers'
    <3>1. CASE UNCHANGED vars
      BY <3>1 DEF vars
    <3>2. CASE \E k \in Checkouts : CheckoutStep(k)
      BY <3>2 DEF CheckoutStep, BeginCheckout, CreateStripeCustomer, InsertCustomer,
           OpenSession, RespondCheckoutEarly, CommitCheckout, FailCheckout
    <3>3. CASE \E w \in Webhooks : WebhookStep(w)
      BY <1>3, <3>3 DEF WebhookStep, Receive, ReceiveAndWait, InsertMarker,
           FlushMarker, ReadRow, ReadNothingToWrite, ReadCheckout,
           ReadSubscription, FlushRow, FlushSubscription, FlushCustomer,
           RespondWebhookEarly, FailWebhook
    <3>4. CASE StripeStep
      BY <3>4 DEF StripeStep, Pay, PayByDashboard, Update, PaymentFails, Cancel,
           OtherEvent, Emit
    <3>5. CASE \E q \in Requests : Crash(Host[q])
      BY <3>5 DEF Crash
    <3> QED
      BY <3>1, <3>2, <3>3, <3>4, <3>5 DEF Next
  <2> QED
    BY <1>1, <2>1 DEF RowsReported
<1> QED
  BY <1>2, <1>3

\* A paid plan was reported by processed events for a subscription the tenant
\* pays for, together with a status that grants access.
THEOREM AccessIsBought == Spec => []AccessWasBought
<1>1. ASSUME TypeOK, Honest, RowsReported PROVE AccessWasBought
  <2> SUFFICES ASSUME NEW t \in Tenants, NEW p \in GoverningPlans(t) \ {DefaultPlan}
               PROVE  \E e, f \in emitted :
                        /\ e.id \in markers /\ f.id \in markers
                        /\ e.sub = f.sub /\ e.sub # None
                        /\ stripeCustomer[e.cust] = t /\ stripeCustomer[f.cust] = t
                        /\ Reported(e) \in {"active", "trialing", "past_due"}
                        /\ f.plan = p
    BY DEF AccessWasBought
  <2>1. PICK s \in Subs : /\ subs[s] # None /\ subs[s].tenant = t
                          /\ subs[s].status \in ActiveStatuses /\ subs[s].plan = p
    BY DEF GoverningPlans
  <2>2. PICK e, f \in emitted :
          /\ e.id \in markers /\ e.sub = s /\ e.type # "checkout"
          /\ f.id \in markers /\ f.sub = s /\ f.type # "checkout"
          /\ Reported(e) = subs[s].status
          /\ f.plan = subs[s].plan
    BY <1>1, <2>1 DEF RowsReported
  <2>3. stripeCustomer[e.cust] = t /\ stripeCustomer[f.cust] = t
    BY <1>1, <2>1, <2>2 DEF Honest, TenantIsolation, EventHonest, BuyerOf
  <2> QED
    BY <2>1, <2>2, <2>3, NoneFacts DEF ActiveStatuses
<1> QED
  BY <1>1, InitReported, ReportedKept, AlwaysHonest, TypeCorrect, PTL DEF Spec

-----------------------------------------------------------------------------
(* Customer rows *)

\* Request r has flushed a customer row of tenant t.
Inserts(r, t) ==
  \/ /\ r \in Webhooks /\ hook[r].holds = "row"
     /\ hook[r].ev.type = "checkout" /\ hook[r].ev.tenant = t
  \/ r \in Checkouts /\ checkout[r].holds = "row" /\ checkout[r].tenant = t

\* The unique key: whoever has flushed a tenant's row is alone and finds none.
OneInsert ==
  \A t \in Tenants, r \in Requests : Inserts(r, t) =>
    customers[t] = None /\ \A q \in Requests \ {r} : ~Inserts(q, t)

\* Request r moves on.  It may flush a row whose key is free and commit the
\* row it has flushed.
LEMMA OneInsertKept ==
  ASSUME OneInsert, NEW r \in Requests,
         \A q \in Requests \ {r}, t \in Tenants : Inserts(q, t)' => Inserts(q, t),
         \A t \in Tenants : Inserts(r, t)' =>
           \/ Inserts(r, t)
           \/ customers[t] = None /\ \A q \in Requests \ {r} : ~Inserts(q, t),
         \A t \in Tenants : customers'[t] # customers[t] =>
           Inserts(r, t) /\ ~Inserts(r, t)'
  PROVE  OneInsert'
  BY DEF OneInsert

LEMMA CheckoutOneInsert ==
  ASSUME TypeOK, OneInsert, NEW k \in Checkouts, CheckoutStep(k)
  PROVE  OneInsert'
<1> USE ConstantsAssumption
<1>0. /\ CheckoutStageOK(checkout[k]) /\ checkout[k] \in Checkout
      /\ k \notin Webhooks /\ checkout \in [Checkouts -> Checkout]
  BY DEF TypeOK, StagesOK
<1>1. /\ UNCHANGED hook
      /\ \A j \in Checkouts \ {k} : checkout'[j] = checkout[j]
  BY <1>0 DEF CheckoutStep, BeginCheckout, CreateStripeCustomer, InsertCustomer,
       OpenSession, RespondCheckoutEarly, CommitCheckout, FailCheckout
<1>2. \A q \in Requests \ {k}, t \in Tenants : Inserts(q, t)' => Inserts(q, t)
  BY <1>1 DEF Inserts
<1>3. CASE InsertCustomer(k)
  <2>1. \A t \in Tenants : Inserts(k, t)' =>
          customers[t] = None /\ \A q \in Requests \ {k} : ~Inserts(q, t)
    <3>1. ASSUME NEW t \in Tenants, Inserts(k, t)'
          PROVE  /\ t = checkout[k].tenant
                 /\ ~CustomerTaken(t, checkout[k].cust)
      BY <1>0, <1>3, <3>1 DEF Inserts, InsertCustomer, CheckoutStageOK, NoCheckout,
                              Checkout
    <3> QED
      BY <1>3, <3>1 DEF InsertCustomer, CustomerTaken, CustomerInsertPending, Inserts
  <2> QED
    BY <1>2, <1>3, <2>1, OneInsertKept DEF InsertCustomer
<1>4. CASE CommitCheckout(k)
  <2>1. \A t \in Tenants : ~Inserts(k, t)'
    BY <1>0, <1>4 DEF CommitCheckout, Inserts, NoCheckout
  <2>2. \A t \in Tenants : customers'[t] # customers[t] => Inserts(k, t)
    BY <1>4 DEF CommitCheckout, Inserts, TypeOK
  <2> QED
    BY <1>2, <2>1, <2>2, OneInsertKept
<1>5. CASE ~InsertCustomer(k) /\ ~CommitCheckout(k)
  <2>1. /\ UNCHANGED customers
        /\ checkout'[k].holds = "row" =>
             checkout[k].holds = "row" /\ checkout'[k].tenant = checkout[k].tenant
    BY <1>0, <1>5 DEF CheckoutStep, BeginCheckout, CreateStripeCustomer,
         OpenSession, RespondCheckoutEarly, FailCheckout, NoCheckout, Checkout
  <2>2. \A t \in Tenants : Inserts(k, t)' => Inserts(k, t)
    BY <1>0, <2>1 DEF Inserts
  <2> QED
    BY <1>2, <2>1, <2>2, OneInsertKept
<1> QED
  BY <1>3, <1>4, <1>5

LEMMA WebhookOneInsert ==
  ASSUME TypeOK, OneInsert, NEW w \in Webhooks, WebhookStep(w)
  PROVE  OneInsert'
<1> USE ConstantsAssumption
<1> DEFINE h == hook[w]
           e == hook[w].ev
<1>0. /\ h \in Hook /\ HookStageOK(h) /\ w \notin Checkouts
      /\ hook \in [Webhooks -> Hook]
  BY DEF TypeOK, StagesOK
<1>1. /\ UNCHANGED checkout
      /\ \A v \in Webhooks \ {w} : hook'[v] = hook[v]
  BY <1>0 DEF WebhookStep, Receive, ReceiveAndWait, InsertMarker, FlushMarker,
       ReadRow, ReadNothingToWrite, ReadCheckout, ReadSubscription, FlushRow,
       FlushSubscription, FlushCustomer, RespondWebhookEarly, CommitWebhook,
       FailWebhook
<1>2. \A q \in Requests \ {w}, t \in Tenants : Inserts(q, t)' => Inserts(q, t)
  BY <1>1 DEF Inserts
<1>3. CASE FlushCustomer(w)
  <2>1. \A t \in Tenants : Inserts(w, t)' =>
          customers[t] = None /\ \A q \in Requests \ {w} : ~Inserts(q, t)
    <3>1. ASSUME NEW t \in Tenants, Inserts(w, t)'
          PROVE  t = e.tenant /\ ~CustomerTaken(t, e.cust)
      BY <1>0, <1>3, <3>1 DEF Inserts, FlushCustomer, NoHook, Hook
    <3> QED
      BY <1>3, <3>1 DEF FlushCustomer, CustomerTaken, CustomerInsertPending, Inserts
  <2> QED
    BY <1>2, <1>3, <2>1, OneInsertKept DEF FlushCustomer
<1>4. CASE CommitWebhook(w)
  <2>1. \A t \in Tenants : ~Inserts(w, t)'
    BY <1>0, <1>4 DEF CommitWebhook, Inserts, NoHook
  <2>2. \A t \in Tenants : customers'[t] # customers[t] => Inserts(w, t)
    BY <1>4 DEF CommitWebhook, Inserts, TypeOK
  <2> QED
    BY <1>2, <2>1, <2>2, OneInsertKept
<1>5. CASE ~FlushCustomer(w) /\ ~CommitWebhook(w)
  <2>1. UNCHANGED customers
    BY <1>5 DEF WebhookStep, Receive, ReceiveAndWait, InsertMarker, FlushMarker,
       ReadRow, ReadNothingToWrite, ReadCheckout, ReadSubscription, FlushRow,
       FlushSubscription, RespondWebhookEarly, FailWebhook
  <2>2. hook'[w].holds = "row" => \/ hook'[w].ev.type # "checkout"
                                  \/ h.holds = "row" /\ hook'[w].ev = e
    <3>1. CASE FlushSubscription(w)
      BY <1>0, <3>1 DEF FlushSubscription, NoHook, Hook
    <3>2. CASE \/ \E x \in emitted : Receive(w, x) \/ ReceiveAndWait(w, x)
               \/ InsertMarker(w)
      <4>1. ASSUME NEW x, FlushMarker(w, x) PROVE hook'[w].holds = "nothing"
        BY <1>0, <4>1 DEF FlushMarker, NoHook
      <4>2. ASSUME NEW x, ReceiveAndWait(w, x) PROVE hook'[w].holds = "nothing"
        BY <1>0, <4>2 DEF ReceiveAndWait, NoHook
      <4> QED
        BY <3>2, <4>1, <4>2 DEF Receive, InsertMarker
    <3>3. CASE ReadRow(w) \/ RespondWebhookEarly(w) \/ FailWebhook(w)
      <4>1. CASE ReadRow(w)
        <5>1. h.holds = "nothing"
          BY <1>0, <4>1 DEF ReadRow, ReadNothingToWrite, ReadCheckout,
               ReadSubscription, HookStageOK, Hook
        <5>2. hook'[w].holds = h.holds
          <6>1. CASE ReadNothingToWrite(w)
            BY <1>0, <6>1 DEF ReadNothingToWrite, Hook
          <6>2. CASE ReadCheckout(w)
            BY <1>0, <6>2 DEF ReadCheckout, Hook
          <6>3. CASE ReadSubscription(w)
            BY <1>0, <6>3 DEF ReadSubscription, Hook
          <6> QED
            BY <4>1, <6>1, <6>2, <6>3 DEF ReadRow
        <5> QED
          BY <5>1, <5>2
      <4>2. CASE RespondWebhookEarly(w) \/ FailWebhook(w)
        BY <1>0, <4>2 DEF RespondWebhookEarly, FailWebhook, NoHook, Hook
      <4> QED
        BY <3>3, <4>1, <4>2
    <3> QED
      BY <1>5, <3>1, <3>2, <3>3 DEF WebhookStep, FlushRow
  <2>3. \A t \in Tenants : Inserts(w, t)' => Inserts(w, t)
    BY <1>0, <2>2 DEF Inserts
  <2> QED
    BY <1>2, <2>1, <2>3, OneInsertKept
<1> QED
  BY <1>3, <1>4, <1>5

\* Only a request that has flushed a tenant's customer row changes it.
LEMMA CustomersChange ==
  ASSUME TypeOK, [Next]_vars, NEW t \in Tenants, customers'[t] # customers[t]
  PROVE  \E r \in Requests : Inserts(r, t)
<1>1. CASE \E k \in Checkouts : CheckoutStep(k)
  <2>1. PICK k \in Checkouts : CheckoutStep(k)
    BY <1>1
  <2>2. CommitCheckout(k)
    BY <2>1 DEF CheckoutStep, BeginCheckout, CreateStripeCustomer, InsertCustomer,
         OpenSession, RespondCheckoutEarly, FailCheckout
  <2>3. Inserts(k, t)
    BY <2>2 DEF CommitCheckout, Inserts, TypeOK
  <2> QED
    BY <2>3
<1>2. CASE \E w \in Webhooks : WebhookStep(w)
  <2>1. PICK w \in Webhooks : WebhookStep(w)
    BY <1>2
  <2>2. CommitWebhook(w)
    BY <2>1 DEF WebhookStep, Receive, ReceiveAndWait, InsertMarker, FlushMarker,
       ReadRow, ReadNothingToWrite, ReadCheckout, ReadSubscription, FlushRow,
       FlushSubscription, FlushCustomer, RespondWebhookEarly, FailWebhook
  <2>3. Inserts(w, t)
    BY <2>2 DEF CommitWebhook, Inserts, TypeOK
  <2> QED
    BY <2>3
<1>3. CASE StripeStep \/ (\E q \in Requests : Crash(Host[q])) \/ UNCHANGED vars
  BY <1>3 DEF StripeStep, Pay, PayByDashboard, Update, PaymentFails, Cancel,
     OtherEvent, Emit, Crash, vars
<1> QED
  BY <1>1, <1>2, <1>3 DEF Next

LEMMA AlwaysOneInsert == Spec => []OneInsert
<1>1. Init => OneInsert
  BY DEF Init, OneInsert, Inserts, NoHook, NoCheckout
<1>2. ASSUME TypeOK, OneInsert, [Next]_vars PROVE OneInsert'
  <2>1. CASE UNCHANGED <<customers, hook, checkout>>
    BY <1>2, <2>1 DEF OneInsert, Inserts
  <2>2. CASE \E q \in Requests : Crash(Host[q])
    <3>1. /\ UNCHANGED customers
          /\ \A w \in Webhooks : hook'[w] = hook[w] \/ hook'[w] = NoHook
          /\ \A k \in Checkouts :
               checkout'[k] = checkout[k] \/ checkout'[k] = NoCheckout
      BY <2>2 DEF Crash
    <3>2. \A r \in Requests, t \in Tenants : Inserts(r, t)' => Inserts(r, t)
      BY <3>1 DEF Inserts, NoHook, NoCheckout
    <3> QED
      BY <1>2, <3>1, <3>2 DEF OneInsert
  <2>3. StripeStep => UNCHANGED <<customers, hook, checkout>>
    BY DEF StripeStep, Pay, PayByDashboard, Update, PaymentFails, Cancel,
         OtherEvent, Emit
  <2> QED
    BY <1>2, <2>1, <2>2, <2>3, CheckoutOneInsert, WebhookOneInsert DEF Next, vars
<1> QED
  BY <1>1, <1>2, TypeCorrect, PTL DEF Spec

\* A tenant's pointer to its Stripe customer never changes once committed.
THEOREM PointersAreStable == Spec => CustomerPointerStable
<1>1. ASSUME TypeOK, OneInsert, [Next]_vars
      PROVE  [\A t \in Tenants : customers[t] # None => customers'[t] = customers[t]]_vars
  BY <1>1, CustomersChange DEF OneInsert
<1> QED
  BY <1>1, AlwaysOneInsert, TypeCorrect, PTL DEF Spec, CustomerPointerStable

-----------------------------------------------------------------------------
(* Writing only the columns that differ *)

\* The UPDATE of a handler whose row nobody else wrote leaves the row as the
\* payload says.
THEOREM FreshWins == Spec => FreshWriterWins
<1> DEFINE Wins(w) ==
      LET h == hook[w]
          e == h.ev
      IN (/\ h.pc \in {"commit", "late"} /\ h.holds = "row" /\ e.id \in markers'
          /\ e.type \in {"created", "updated", "deleted"}
          /\ h.seen = subs[e.sub])
           => /\ subs'[e.sub].status = StatusOf(e)
              /\ subs'[e.sub].plan = e.plan
<1>1. ASSUME TypeOK, OncePerEvent, [Next]_vars, NEW w \in Webhooks
      PROVE  Wins(w)
  <2> DEFINE h == hook[w]
             e == hook[w].ev
  <2> SUFFICES ASSUME h.pc \in {"commit", "late"}, h.holds = "row",
                      e.id \in markers',
                      e.type \in {"created", "updated", "deleted"},
                      h.seen = subs[e.sub]
               PROVE  subs'[e.sub].status = StatusOf(e) /\ subs'[e.sub].plan = e.plan
    OBVIOUS
  <2>1. e.id \notin markers
    BY <1>1 DEF OncePerEvent, PastMarker
  <2>2. PICK v \in Webhooks : CommitWebhook(v)
    <3>1. CASE \E k \in Checkouts : CheckoutStep(k)
      BY <2>1, <3>1 DEF CheckoutStep, BeginCheckout, CreateStripeCustomer,
         InsertCustomer, OpenSession, RespondCheckoutEarly, CommitCheckout,
         FailCheckout
    <3>2. CASE \E v \in Webhooks : WebhookStep(v)
      BY <2>1, <3>2 DEF WebhookStep, Receive, ReceiveAndWait, InsertMarker,
         FlushMarker, ReadRow, ReadNothingToWrite, ReadCheckout, ReadSubscription,
         FlushRow, FlushSubscription, FlushCustomer, RespondWebhookEarly,
         FailWebhook
    <3>3. CASE StripeStep \/ (\E q \in Requests : Crash(Host[q])) \/ UNCHANGED vars
      BY <2>1, <3>3 DEF StripeStep, Pay, PayByDashboard, Update, PaymentFails,
         Cancel, OtherEvent, Emit, Crash, vars
    <3> QED
      BY <1>1, <3>1, <3>2, <3>3 DEF Next
  <2>3. v = w
    <3>1. hook[v].ev.id = e.id /\ PastMarker(v)
      BY <2>1, <2>2 DEF CommitWebhook, PastMarker
    <3> QED
      BY <1>1, <3>1 DEF OncePerEvent, PastMarker
  <2>4. /\ h \in Hook /\ e \in Event /\ e.sub \in Subs
        /\ subs \in [Subs -> Row \cup {None}]
    BY <1>1 DEF TypeOK, StagesOK, HookStageOK
  <2>5. subs'[e.sub] = RowAfter(h, subs[e.sub])
    BY <2>2, <2>3, <2>4 DEF CommitWebhook
  <2>6. CASE h.seen = None
    BY <2>5, <2>6 DEF RowAfter
  <2>7. CASE h.seen # None
    <3>1. subs[e.sub] \in Row
      BY <2>4, <2>7
    <3> QED
      BY <2>5, <2>7, <3>1 DEF RowAfter, WritesStatus, WritesPlan, StatusOf, Row
  <2> QED
    BY <2>6, <2>7
<1>2. ASSUME TypeOK, OncePerEvent, [Next]_vars
      PROVE  [\A w \in Webhooks : Wins(w)]_vars
  BY <1>1, <1>2
<1> QED
  BY <1>2, EffectsOnce, TypeCorrect, PTL DEF Spec, FreshWriterWins

-----------------------------------------------------------------------------
(* Processed means applied *)

SubscriptionTypes == {"created", "updated", "deleted"}

\* The application knew customer c from the start.
Known(c) == \E t \in Tenants : Linked[t] = c

\* A handler that returns without a row to write has found the row there.
HookApplies(h) ==
  /\ h.pc \in {"commit", "late"} /\ h.holds = "nothing"
  /\ h.ev.type \in SubscriptionTypes /\ Known(h.ev.cust)
  => subs[h.ev.sub] # None

\* Stripe numbers its events.
EventsNumbered ==
  /\ 0 \in markers
  /\ \A n \in markers : n < nextId
  /\ \A e \in emitted : e.id < nextId
  /\ \A e, f \in emitted : e.id = f.id /\ e.id # 0 => e = f

\* ProcessedIsMirrored, and why the next commit of a marker keeps it.
Applied ==
  /\ ProcessedIsMirrored
  /\ EventsNumbered
  /\ \A t \in Tenants : Linked[t] # None => customers[t] = Linked[t]
  /\ \A w \in Webhooks : HookApplies(hook[w])

LEMMA InitApplied == Init => Applied
<1> SUFFICES ASSUME Init PROVE Applied
  OBVIOUS
<1> USE ConstantsAssumption, StartAssumption, NoneFacts DEF Init
<1>1. ProcessedIsMirrored
  <2>1. ASSUME NEW e \in emitted PROVE subs[e.sub] # None
    <3>1. PICK s \in Subs : Mirrored[s] # None
                            /\ e = SubscriptionEvent(0, "created", s, Mirrored[s])
      BY <2>1
    <3>2. e.sub = s /\ MirrorOf(Mirrored[s]) \in Row
      BY <3>1 DEF SubscriptionEvent, MirrorOf, Row, StripeSubscription
    <3> QED
      BY <3>1, <3>2
  <2> QED
    BY <2>1 DEF ProcessedIsMirrored
<1>2. EventsNumbered
  BY DEF EventsNumbered, SubscriptionEvent
<1>3. \A w \in Webhooks : HookApplies(hook[w])
  BY DEF HookApplies, NoHook
<1> QED
  BY <1>1, <1>2, <1>3 DEF Applied

\* No commit takes away the customer row of a known customer.
LEMMA LinkedKept ==
  ASSUME TypeOK, OneInsert, Applied, [Next]_vars, NEW t \in Tenants, Linked[t] # None
  PROVE  customers'[t] = Linked[t]
<1>1. customers[t] = Linked[t]
  BY DEF Applied
<1> QED
  BY <1>1, CustomersChange DEF OneInsert

\* A step that commits nothing: the requests it moves are checked alone.
LEMMA AppliedKept ==
  ASSUME TypeOK, Applied, UNCHANGED <<customers, subs, markers, emitted, nextId>>,
         \A w \in Webhooks : hook'[w] = hook[w] \/ HookApplies(hook'[w])
  PROVE  Applied'
<1>1. \A w \in Webhooks : HookApplies(hook[w])'
  BY DEF Applied, HookApplies
<1>2. ProcessedIsMirrored' /\ EventsNumbered'
  BY DEF Applied, ProcessedIsMirrored, EventsNumbered
<1> QED
  BY <1>1, <1>2 DEF Applied

LEMMA WebhookStepApplied ==
  ASSUME TypeOK, OneInsert, Applied, NEW w \in Webhooks, WebhookStep(w)
  PROVE  Applied'
<1> USE NoneFacts
<1> DEFINE h == hook[w]
           e == hook[w].ev
<1>0. /\ h \in Hook /\ HookStageOK(h) /\ HookApplies(h)
      /\ hook \in [Webhooks -> Hook]
      /\ h.pc # "idle" => e \in emitted /\ e \in Event
  BY DEF TypeOK, StagesOK, HookStageOK, Applied
<1>1. [Next]_vars
  BY DEF Next
<1>2. HookApplies(NoHook)
  BY DEF HookApplies, NoHook
<1>3. ASSUME NEW r, hook' = [hook EXCEPT ![w] = r], HookApplies(r),
             UNCHANGED <<customers, subs, markers, emitted, nextId>>
      PROVE  Applied'
  BY <1>0, <1>3, AppliedKept
<1>4. ASSUME NEW x, FlushMarker(w, x) PROVE Applied'
  <2> DEFINE r == IF x.id \in markers THEN NoHook
                  ELSE [NoHook EXCEPT !.pc = "read", !.ev = x]
  <2>1. /\ hook' = [hook EXCEPT ![w] = r]
        /\ UNCHANGED <<customers, subs, markers, emitted, nextId>>
    BY <1>4 DEF FlushMarker
  <2>2. HookApplies(r)
    BY DEF HookApplies, NoHook
  <2> HIDE DEF r
  <2> QED
    BY <1>3, <2>1, <2>2
<1>5. CASE \E x \in emitted : ReceiveAndWait(w, x)
  <2>1. PICK x \in emitted : ReceiveAndWait(w, x)
    BY <1>5
  <2> DEFINE r == [NoHook EXCEPT !.pc = "insert", !.ev = x]
  <2>2. /\ hook' = [hook EXCEPT ![w] = r] /\ UNCHANGED <<dbVars, checkout, stripeVars>>
        /\ HookApplies(r)
    BY <2>1 DEF ReceiveAndWait, HookApplies, NoHook
  <2> HIDE DEF r
  <2> QED
    BY <1>3, <2>2
<1>6. CASE ReadNothingToWrite(w)
  <2>1. ASSUME e.type \in SubscriptionTypes, Known(e.cust) PROVE subs[e.sub] # None
    <3>1. PICK t \in Tenants : Linked[t] = e.cust
      BY <2>1 DEF Known
    <3>2. e.cust \in StripeCustomers
      BY <1>0, <1>6 DEF ReadNothingToWrite, Event
    <3>3. customers[t] = e.cust
      BY <3>1, <3>2 DEF Applied
    <3>4. OwnersOf(e) # {}
      BY <3>3 DEF OwnersOf
    <3>5. ~WritesNothing(e) /\ ~AlreadyPastDue(e)
      BY <2>1, <3>4 DEF WritesNothing, AlreadyPastDue, SubscriptionTypes
    <3> QED
      BY <1>6, <3>5 DEF ReadNothingToWrite, MayBeEqual
  <2> DEFINE r == [h EXCEPT !.pc = "commit"]
  <2>2. hook' = [hook EXCEPT ![w] = r] /\ UNCHANGED <<dbVars, checkout, stripeVars>>
    BY <1>6 DEF ReadNothingToWrite
  <2>3. r.ev = e
    BY <1>0 DEF Hook
  <2> HIDE DEF r
  <2>4. HookApplies(r)
    BY <2>1, <2>3 DEF HookApplies
  <2> QED
    BY <1>3, <2>2, <2>4
<1>7. ASSUME NEW t, NEW s,
             \/ hook' = [hook EXCEPT ![w].pc = "write", ![w].owner = t]
             \/ hook' = [hook EXCEPT ![w].pc = "write", ![w].owner = t, ![w].seen = s],
             UNCHANGED <<dbVars, checkout, stripeVars>>
      PROVE  Applied'
  <2>1. hook'[w].pc = "write" /\ \A v \in Webhooks \ {w} : hook'[v] = hook[v]
    BY <1>0, <1>7 DEF Hook
  <2>2. HookApplies(hook'[w])
    BY <2>1 DEF HookApplies
  <2> QED
    BY <1>7, <2>1, <2>2, AppliedKept
<1>8. CASE FlushRow(w)
  <2>1. /\ UNCHANGED <<dbVars, checkout, stripeVars>>
        /\ \/ hook' = [hook EXCEPT ![w] = NoHook]
           \/ hook' = [hook EXCEPT ![w] = [h EXCEPT !.pc = "commit", !.holds = "row"]]
    BY <1>8 DEF FlushRow, FlushSubscription, FlushCustomer
  <2> DEFINE r == [h EXCEPT !.pc = "commit", !.holds = "row"]
  <2>2. r.holds = "row"
    BY <1>0 DEF Hook
  <2>3. HookApplies(r)
    BY <2>2 DEF HookApplies
  <2> HIDE DEF r
  <2> QED
    BY <1>2, <1>3, <2>1, <2>3 DEF r
<1>9. CASE RespondWebhookEarly(w)
  <2> DEFINE r == [h EXCEPT !.pc = "late"]
  <2>1. /\ hook' = [hook EXCEPT ![w] = r]
        /\ UNCHANGED <<customers, subs, markers, emitted, nextId>>
        /\ h.pc = "commit"
    BY <1>9 DEF RespondWebhookEarly
  <2>2. r.ev = e /\ r.holds = h.holds
    BY <1>0 DEF Hook
  <2> HIDE DEF r
  <2>3. HookApplies(r)
    BY <1>0, <2>1, <2>2 DEF HookApplies
  <2> QED
    BY <1>3, <2>1, <2>3
<1>10. CASE CommitWebhook(w)
  <2>1. /\ h.pc \in {"commit", "late"} /\ markers' = markers \cup {e.id}
        /\ UNCHANGED <<emitted, nextId>>
        /\ hook' = [hook EXCEPT ![w] = NoHook]
        /\ subs' = IF h.holds = "row" /\ e.type # "checkout"
                     THEN [subs EXCEPT ![e.sub] = RowAfter(h, @)] ELSE subs
    BY <1>10 DEF CommitWebhook
  <2>2. /\ e \in emitted /\ e \in Event
        /\ subs \in [Subs -> Row \cup {None}] /\ \A x \in emitted : x.type # "checkout" => x.sub \in Subs
    BY <1>0, <2>1 DEF TypeOK, StagesOK
  <2>3. ASSUME h.holds = "row", e.type # "checkout"
        PROVE  RowAfter(h, subs[e.sub]) \in Row
    BY <1>0, <2>2, <2>3, RowAfterType DEF HookStageOK
  <2>4. \A s \in Subs : subs[s] # None => subs'[s] # None
    BY <2>1, <2>2, <2>3
  <2>5. EventsNumbered'
    BY <2>1, <2>2 DEF Applied, EventsNumbered
  <2>6. ASSUME NEW x \in emitted, x.id \in markers', x.type \in SubscriptionTypes,
               Known(x.cust)
        PROVE  subs'[x.sub] # None
    <3>1. x.sub \in Subs /\ x.type # "checkout"
      BY <2>2, <2>6 DEF SubscriptionTypes
    <3>2. CASE x.id \in markers
      <4>1. subs[x.sub] # None
        BY <2>6, <3>2 DEF Applied, ProcessedIsMirrored, SubscriptionTypes, Known
      <4> QED
        BY <2>4, <3>1, <4>1
    <3>3. CASE x.id \notin markers
      <4>1. x = e
        BY <2>1, <2>2, <2>6, <3>3 DEF Applied, EventsNumbered
      <4>2. CASE h.holds = "row"
        BY <2>1, <2>2, <2>3, <3>1, <4>1, <4>2
      <4>3. CASE h.holds = "nothing"
        <5>1. subs[e.sub] # None
          BY <1>0, <2>1, <2>6, <4>1, <4>3 DEF HookApplies
        <5> QED
          BY <2>4, <3>1, <4>1, <5>1
      <4> QED
        BY <1>0, <4>2, <4>3 DEF Hook
    <3> QED
      BY <3>2, <3>3
  <2>7. ProcessedIsMirrored'
    BY <2>1, <2>6 DEF ProcessedIsMirrored, SubscriptionTypes, Known
  <2>8. ASSUME NEW v \in Webhooks PROVE HookApplies(hook[v])'
    <3>1. CASE v = w
      BY <1>0, <2>1, <3>1 DEF HookApplies, NoHook
    <3>2. CASE v # w
      <4>1. /\ hook'[v] = hook[v] /\ HookApplies(hook[v])
            /\ hook[v].pc # "idle" => hook[v].ev \in emitted
        BY <1>0, <2>1, <3>2 DEF Applied, TypeOK, StagesOK, HookStageOK
      <4>2. hook[v].pc \in {"commit", "late"} /\ hook[v].ev.type \in SubscriptionTypes
              => hook[v].ev.sub \in Subs
        BY <2>2, <4>1 DEF SubscriptionTypes
      <4> QED
        BY <2>4, <4>1, <4>2 DEF HookApplies
    <3> QED
      BY <3>1, <3>2
  <2> QED
    BY <1>1, <2>5, <2>7, <2>8, LinkedKept DEF Applied
<1>11. CASE FailWebhook(w)
  <2>1. hook' = [hook EXCEPT ![w] = NoHook] /\ UNCHANGED <<dbVars, checkout, stripeVars>>
    BY <1>11 DEF FailWebhook
  <2> QED
    BY <1>2, <1>3, <2>1
<1>12. ReadCheckout(w) \/ ReadSubscription(w) => Applied'
  BY <1>7 DEF ReadCheckout, ReadSubscription
<1>13. (\E x \in emitted : Receive(w, x)) \/ InsertMarker(w) => Applied'
  BY <1>4 DEF Receive, InsertMarker
<1> QED
  BY <1>5, <1>6, <1>8, <1>9, <1>10, <1>11, <1>12, <1>13 DEF WebhookStep, ReadRow

\* Stripe emits one or two events under new numbers.
LEMMA StripeStepApplied ==
  ASSUME TypeOK, Applied, StripeStep
  PROVE  Applied'
<1> USE ConstantsAssumption
<1>1. ASSUME NEW es, emitted' = emitted \cup es, nextId' \in Nat, nextId < nextId',
             UNCHANGED <<dbVars, hook>>,
             \A f \in es : f.id \in Nat /\ nextId <= f.id /\ f.id < nextId',
             \A f, g \in es : f.id = g.id => f = g
      PROVE  Applied'
  <2>1. /\ nextId \in Nat /\ \A n \in markers : n \in Nat /\ n < nextId
        /\ \A f \in emitted : f.id \in Nat /\ f.id < nextId
    <3>1. /\ nextId \in Nat /\ markers \subseteq Nat
          /\ \A n \in markers : n < nextId
          /\ \A f \in emitted : f.id < nextId
      BY DEF TypeOK, Applied, EventsNumbered
    <3>2. ASSUME NEW f \in emitted PROVE f.id \in Nat
      <4>1. f \in Event
        BY DEF TypeOK
      <4> QED
        BY <4>1 DEF Event
    <3> QED
      BY <3>1, <3>2
  <2>2. EventsNumbered'
    <3>1. \A n \in markers' : n < nextId'
      BY <1>1, <2>1
    <3>2. \A f \in emitted' : f.id < nextId'
      BY <1>1, <2>1
    <3>3. \A f, g \in emitted' : f.id = g.id /\ f.id # 0 => f = g
      <4> SUFFICES ASSUME NEW f \in emitted', NEW g \in emitted', f.id = g.id, f.id # 0
                   PROVE  f = g
        OBVIOUS
      <4>1. CASE f \in emitted /\ g \in emitted
        BY <4>1 DEF Applied, EventsNumbered
      <4>2. CASE f \in es /\ g \in es
        BY <1>1, <4>2
      <4>3. CASE f \in emitted /\ g \in es
        BY <1>1, <2>1, <4>3
      <4>4. CASE f \in es /\ g \in emitted
        BY <1>1, <2>1, <4>4
      <4> QED
        BY <1>1, <4>1, <4>2, <4>3, <4>4
    <3> QED
      BY <1>1, <3>1, <3>2, <3>3 DEF EventsNumbered, Applied
  <2>3. ASSUME NEW f \in es PROVE f.id \notin markers
    BY <1>1, <2>1, <2>3
  <2>4. ProcessedIsMirrored'
    BY <1>1, <2>3 DEF Applied, ProcessedIsMirrored
  <2> QED
    BY <1>1, <2>2, <2>4 DEF Applied, HookApplies
<1>2. ASSUME NEW type, NEW s, NEW sub, Emit(1, {SubscriptionEvent(nextId, type, s, sub)})
      PROVE  Applied'
  <2>1. /\ SubscriptionEvent(nextId, type, s, sub).id = nextId /\ nextId \in Nat
        /\ nextId' = nextId + 1 /\ UNCHANGED <<dbVars, hook>>
        /\ emitted' = emitted \cup {SubscriptionEvent(nextId, type, s, sub)}
    BY <1>2 DEF SubscriptionEvent, Emit, TypeOK
  <2> DEFINE f == SubscriptionEvent(nextId, type, s, sub)
             es == {f}
  <2>2. /\ f.id = nextId /\ nextId \in Nat /\ nextId' = nextId + 1
        /\ emitted' = emitted \cup es
    BY <2>1
  <2> HIDE DEF f
  <2>3. /\ \A y \in es : y.id \in Nat /\ nextId <= y.id /\ y.id < nextId'
        /\ \A y, z \in es : y.id = z.id => y = z
        /\ nextId' \in Nat /\ nextId < nextId'
    BY <2>2
  <2> HIDE DEF es
  <2> QED
    BY <1>1, <2>1, <2>2, <2>3
<1>3. ASSUME NEW x \in sessions, NEW s \in Subs, NEW st \in PayloadStatuses, Pay(x, s, st)
      PROVE  Applied'
  <2> DEFINE sub == [cust |-> x.cust, tenant |-> x.tenant, status |-> st, plan |-> x.plan]
             f == SubscriptionEvent(nextId, "created", s, sub)
             g == [SubscriptionEvent(nextId + 1, "checkout", s, sub) EXCEPT !.sub = None]
  <2>1. f.id = nextId /\ g.id = nextId + 1 /\ nextId \in Nat
    BY DEF SubscriptionEvent, TypeOK
  <2>2. /\ emitted' = emitted \cup {f, g} /\ nextId' = nextId + 2
        /\ UNCHANGED <<dbVars, hook>>
    BY <1>3 DEF Pay, Emit
  <2> HIDE DEF f, g
  <2>3. \A y \in {f, g} : y.id \in Nat /\ nextId <= y.id /\ y.id < nextId'
    BY <2>1, <2>2
  <2>4. \A y, z \in {f, g} : y.id = z.id => y = z
    BY <2>1
  <2>5. nextId' \in Nat /\ nextId < nextId'
    BY <2>1, <2>2
  <2> QED
    BY <1>1, <2>2, <2>3, <2>4, <2>5
<1> QED
  BY <1>2, <1>3 DEF StripeStep, PayByDashboard, Update, PaymentFails, Cancel, OtherEvent

LEMMA CheckoutStepApplied ==
  ASSUME TypeOK, OneInsert, Applied, NEW k \in Checkouts, CheckoutStep(k)
  PROVE  Applied'
<1>1. UNCHANGED <<subs, markers, hook, emitted, nextId>>
  BY DEF CheckoutStep, BeginCheckout, CreateStripeCustomer, InsertCustomer,
       OpenSession, RespondCheckoutEarly, CommitCheckout, FailCheckout
<1>2. [Next]_vars
  BY DEF Next
<1>3. ProcessedIsMirrored' /\ EventsNumbered'
  BY <1>1 DEF Applied, ProcessedIsMirrored, EventsNumbered
<1> QED
  BY <1>1, <1>2, <1>3, LinkedKept DEF Applied, HookApplies

\* Whatever fails or crashes, an event that counts as processed has left its
\* subscription in the mirror, if its customer was known from the start.
THEOREM ProcessedIsApplied == Spec => []ProcessedIsMirrored
<1>1. ASSUME TypeOK, OneInsert, Applied, [Next]_vars PROVE Applied'
  <2>1. CASE UNCHANGED vars
    BY <1>1, <2>1 DEF vars, Applied, ProcessedIsMirrored, EventsNumbered, HookApplies
  <2>2. CASE \E q \in Requests : Crash(Host[q])
    <3>1. /\ UNCHANGED <<customers, subs, markers, emitted, nextId>>
          /\ \A w \in Webhooks : hook'[w] = hook[w] \/ hook'[w] = NoHook
      BY <2>2 DEF Crash
    <3>2. HookApplies(NoHook)
      BY DEF HookApplies, NoHook
    <3> QED
      BY <1>1, <3>1, <3>2, AppliedKept
  <2> QED
    BY <1>1, <2>1, <2>2, WebhookStepApplied, CheckoutStepApplied, StripeStepApplied
    DEF Next
<1>2. Applied => ProcessedIsMirrored
  BY DEF Applied
<1> QED
  BY <1>1, <1>2, InitApplied, AlwaysOneInsert, TypeCorrect, PTL DEF Spec

=============================================================================
