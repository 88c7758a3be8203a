----------------------------- MODULE MCBilling -----------------------------
(* Values for the constants of Billing.                                    *)
(*                                                                         *)
(* Webhooks: two webhook requests, no checkout.  Tenant t1 has a customer  *)
(* row and a subscription.  Tenant t2's checkout failed to commit after    *)
(* its URL was sent: customer c2 has no row, and its page is open.         *)
(*                                                                         *)
(* Checkouts: two checkout requests of one tenant and one webhook request, *)
(* from an empty database.                                                 *)
EXTENDS Billing, TLC

CONSTANTS t1, t2, c1, c2, w1, w2, k1, k2, p1, p2, s1, s2, pro, free

MCPayloadStatuses == {"active", "incomplete"}

WebhooksApart == w1 :> p1 @@ w2 :> p2
WebhooksTogether == w1 :> p1 @@ w2 :> p1
LinkedT1 == t1 :> c1 @@ t2 :> None
CustomersOfBoth == c1 :> t1 @@ c2 :> t2
PageOfT2 == {[cust |-> c2, tenant |-> t2, plan |-> pro]}

SubOfT1 == s1 :> [cust |-> c1, tenant |-> t1, status |-> "active", plan |-> pro]
        @@ s2 :> None

CheckoutsApart == w1 :> p1 @@ k1 :> p1 @@ k2 :> p2
NoRow == t1 :> None @@ t2 :> None
NoStripeCustomer == c1 :> None @@ c2 :> None
NoPage == {}
NoSub == s1 :> None

\* From an empty database, tenants are alike and so are customers.
Alike == Permutations({t1, t2}) \cup Permutations({c1, c2})
=============================================================================
