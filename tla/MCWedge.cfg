\* Both webhook requests in one process.
SPECIFICATION FairSpec
CONSTANTS
  t1 = t1
  t2 = t2
  c1 = c1
  c2 = c2
  w1 = w1
  w2 = w2
  k1 = k1
  k2 = k2
  p1 = p1
  p2 = p2
  s1 = s1
  s2 = s2
  pro = pro
  free = free
  None = None
  Tenants = {t1, t2}
  StripeCustomers = {c1, c2}
  Subs = {s1, s2}
  Plans = {free, pro}
  DefaultPlan = free
  PayloadStatuses <- MCPayloadStatuses
  Webhooks = {w1, w2}
  Checkouts = {}
  Host <- WebhooksTogether
  MaxEvents = 2
  Linked <- LinkedT1
  AtStripe <- CustomersOfBoth
  OpenPages <- PageOfT2
  Mirrored <- SubOfT1
PROPERTY EventsAnswered
CHECK_DEADLOCK FALSE
