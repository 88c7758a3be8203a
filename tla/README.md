# TLA+ models of grantedagent

This directory models the parts of the application whose correctness depends on
the order of things: concurrent requests, webhooks that come twice or late,
transactions that wait for each other or are rolled back. The modules are
translated from the Python code; docs and comments only supply the promises the
code is held to.

    tlc -workers 2 -config MCWebhooks.cfg MCBilling     # one run
    tlapm BillingProofs.tla                             # one module of proofs

## 1. The system

A FastAPI application over SQLAlchemy. Production uses PostgreSQL at its default
level, READ COMMITTED. Each request has ONE session and one transaction
(`hunter/db.py`, `get_db`): it commits when the handler returns, and any
exception, an `HTTPException` included, rolls it back. `flush()` sends the rows
to the database and takes their locks, but publishes nothing. Almost every
hazard below comes from these three sentences.

| Component | State | Operations | Interacts with |
|---|---|---|---|
| Billing mirror (`billing/stripe_service.py`, `api/billing.py`) | customer row per tenant, subscription rows, processed event ids | checkout, webhook and its five handlers, `current_plan_key` | Stripe; every entitlement check reads the plan |
| Rate limiter (`api/ratelimit.py`) | one bucket per key, in memory | `allow`, `retry_after`, pruning | the threads of the login, signup and mail endpoints |
| Accounts (`accounts/service.py`, `api/auth.py`, `api/deps.py`) | user row, sessions, e-mail tokens, API tokens | signup, login, logout, verify, reset, change | mail; limiter; audit and usage rows |
| Membership (`accounts/service.py`, `api/auth.py`, `api/deps.py`) | accounts, nonprofits, the role of each user in each | signup, invite, change role, remove | every tenant-scoped request |
| Entitlements (`billing/entitlements.py`, `plans.py`) | none; counts usage rows | `check_drafts`; `check_hunts`, `check_members`, `require_team_seats` and `require_custom_sources` are called by no request | billing mirror, usage |
| Drafts (`scribe/`, `api/inner_court.py`) | drafts of a match, by kind | generate, regenerate | vault, entitlements, usage |
| Soul vault (`inner_court/`) | encrypted soul, its readable mirror | save, load, clear | drafts, scorer |
| Match review (`api/grants.py`) | status, note and reviewer of a match | review, approve, reject | usage |
| Hunter (`hunter/scheduler.py`, `persistence.py`) | grants by `dedupe_hash`, runs | hunt every 6 h, upsert, record the run | sources |
| Sources (`hunter/sources/`) | none | fetch pages with retries, fetch many sites at once, parse | external sites |
| Scorer (`hunter/scorer.py`) | none | score a grant for a soul | hunter, vault |
| Usage and audit (`tracking/`) | event rows, daily counters | append, count | all |
| Mail, security primitives, configuration, frontend, scripts | - | - | - |

What makes each correct:

* Billing: an event takes effect once however often and wherever it is
  delivered; tenants never share a customer, a subscription or a plan; a paid
  plan is one that Stripe reported as paid; every event is answered in the end;
  events delivered out of order do no harm; one customer per tenant.
* Limiter: no window of time admits more than burst and rate allow; the
  shortcuts (lazy filling, forgetting idle keys) change nothing; `Retry-After`
  is true.
* Accounts: a password change cuts off what was opened before it; tokens are
  used once and a new one invalidates the older; failed logins lock the account;
  requests that lock rows do not stop each other.
* Membership: a tenant has one owner, the account that signed it up; nobody grants
  a role at or above his own, even when his own changes meanwhile; accounts and
  tenants appear whole; nobody waits for ever.
* Drafts, vault, review: quotas hold as far as a check before the work can hold
  them, drafts do not multiply, usage is counted exactly, a row is the work of one
  request unless two disturb each other.
* Hunter and sources: what was found is stored or its loss reported; hunts that
  overlap do not undo each other; a bad page or site does not sink the rest; a
  listing that moves while it is paged costs no more than it moved; a hunt ends.
* Scorer: limits and caps keep the order of fit and of location.

`PROJECT.json` lists every component with its status, and the hazards at their
lines, each with the properties that watch it or the reason why none does yet.

## 2. Modules

| Module | What it is |
|---|---|
| `Billing` | checkout and webhook requests, the database, Stripe |
| `MCBilling` | constants of its four runs |
| `BillingProofs` | `TypeCorrect`, `EffectsOnce`, and who waits for whom |
| `BillingTenantsProofs` | the other safety properties of its passing runs |
| `TokenBucket` | abstract: a bucket per key that fills with time |
| `RateLimiter` | the code: lazy buckets, pruning, threads, a lock; refines `TokenBucket` |
| `MCRateLimiter` | constants of its run |
| `RateLimiterProofs` | all four properties of its run, for any lag |
| `Accounts` | requests of one account: row locks, rollback, deadlock |
| `MCAccounts` | constants of its three runs |
| `AccountsProofs` | all properties of its passing run, how many mail tokens can be valid, and that requests come to an end |
| `Membership` | signup, invite, change role and remove, of any users and tenants |
| `MCMembership`, `MembershipProofs` | its run; all seven properties proved |
| `Workspace` | soul, drafts, review and metering of one tenant |
| `MCWorkspace`, `WorkspaceProofs` | its run; all five properties proved |
| `GrantStore` | abstract: what the grants table keeps |
| `Paging` | one federal source read page by page, with retries |
| `Gather` | many web sites read at once, a few at a time |
| `Hunter` | a hunt; EXTENDS `Paging` and `Gather`, refines `GrantStore` |
| `MCHunter`, `HunterProofs` | its run; all six safety properties proved, and that hunts have an end |
| `Scoring` | souls' location rules and the score of a grant |
| `MCScoring`, `ScoringProofs` | its run; all three properties proved |

`Billing`, `Accounts`, `Membership` and `Workspace` model the same database
discipline and write different tables, apart from the user row, of which
`Accounts` follows the secrets and `Membership` the existence. They are separate
modules, not a composition: no transaction of the code writes what two of them
model. What one reads of another is left open there: `Workspace` takes the limit
of the plan as a constant (`Billing` says which plans a tenant can have), the
limiter only decides whether a request of `Accounts` starts. `Hunter` is a
composition: `Paging` and `Gather` are parts of one hunt, whose results are
merged, stored and reported.

Definitions named `Any...`, `Never...`, `Half...` and the like, whose comment
begins "Faulty variant of", are used by no specification. Each is the mistake
that a property has been seen to catch when it replaces its original.

### Billing

State: `customers` is `billing_customers` (the Stripe id of each tenant),
`subs` is `billing_subscriptions` by Stripe id, `markers` is
`billing_webhook_events`. `hook` and `checkout` hold the requests in flight: the
program point, the event, the row as it was loaded, and whether a flushed,
locked row is held. `stripeCustomer`, `stripeSub`, `sessions`, `emitted`,
`acked` and `nextId` are Stripe's side.

A webhook request goes

    Receive -> read -> write -> commit [-> late] -> done
       or ReceiveAndWait -> insert (waits for the same marker)

`Receive` ends with the marker's flush, `ReadRow` with the handler's SELECTs,
`FlushRow` with its flush, `CommitWebhook` with `get_db`'s commit. `late` is a
request whose response left before the dependency was closed, which FastAPI
allows. `FailWebhook` and `Crash` roll it back at any point. A checkout request
goes `BeginCheckout -> CreateStripeCustomer -> InsertCustomer -> OpenSession ->
CommitCheckout`, and an existing customer row skips the two in the middle.

Four points deserve a reader's attention.

* `RowAfter` is what the UPDATE leaves. SQLAlchemy names only the columns whose
  value differs from what was loaded, so a request that waited for another one
  overwrites some columns and keeps the others.
* A handler that changes neither status nor plan still sets `raw_json`. Whether
  that differs from the row's, and so whether there is an UPDATE and a lock, is
  left open (`MayBeEqual`).
* `LoopFree`. `stripe_webhook` is an `async` function that calls the synchronous
  driver, so it occupies the event loop of its process from its first flush to
  its return, also while it waits for a lock. Every commit is scheduled on that
  loop. `Host` says which process serves a request.
* A flushed row blocks others that need it (`MarkerPending`, `HoldsSub`,
  `CustomerInsertPending`); after the commit the loser sees a unique violation,
  after a rollback it goes on.

### TokenBucket and RateLimiter

`TokenBucket` counts a level per key that grows with every tick. `RateLimiter`
has the dictionary `_buckets` with `tokens` and `updated_at`; a thread reads the
clock (`CallAllow`), then takes the lock (`Allow` or `Deny`), then, if refused,
calls `retry_after` in the same two steps (`CallRetryAfter`, `Refuse`). `Kept` is
`_prune`. Tokens are counted in units of which a request costs `Cost`, so that
the rates of the named limiters, such as 20 in 300 seconds, are whole numbers;
the floating-point rounding of the code is not modelled.

`MaxLag` bounds the ticks between the clock and the lock. A thread that was
overtaken sets `updated_at` back to its own time, so what it waited may be paid
to its key once more. The abstract bucket says exactly that: `Serve` may credit a
request with the rate for the time that it waited, and `SustainedRate` counts
this time (`waited`) beside the window's. With no lag both are the plain bucket.
A request is refused only if its key was short when it came.

The refinement maps the level of a key to `LevelNow`: what its bucket would hold
if it were filled at this moment, or a full bucket if it was forgotten. The
window (`since`, one for all keys, `admitted`, `waited`) and `promise`, the time
until which a client was told to stay away, only observe. There is one instance
for each named limiter; it is per process and forgets everything at a restart,
so the promise is one of each process.

### Accounts

State: `user` (password, age of its hash, failure counter, lock, verified),
`sessions`, `keys` (the rows of `api_tokens`) and `tokens` (those of
`email_tokens`), each no row, live or dead; `mailed`; and in `request` the
requests in flight with the rows they have loaded, locked and flushed. The first
write of a row takes its lock; `Commit` publishes all of a request's writes,
`RaiseUnauthorized` and `Abandon` none of them.

`LetIn` is `get_principal`: it finds the credential valid and then writes its row,
for an API token always, for a session when it was last seen a minute ago
(`Touch`). Nothing looks at the credential again. `Inside` is what the request
does then: change the password, revoke a session or a token (`Logout`,
`RevokeSession`, `RevokeApiToken`), make a token, or only visit. `RowAfter` is
the row after the commit: the UPDATE of a visit names `last_seen_at` or
`last_used_at` only, so a revocation it has not seen survives. `set_password` is
`FlushUser` followed by one `LockRow` for each session that its UPDATE found; a
row that stopped qualifying while the UPDATE waited is skipped, except where the
UPDATE names a row by its id (`revoke_session`, `revoke_api_token`).
`AbortDeadlocked` is PostgreSQL's victim.

`changes`, `opened` and `misses` are observers.

The lock of an account expires after 15 minutes; the model omits this because,
as `MCLockout` shows, no lock is ever committed. Expiry of sessions and tokens
is a step that may happen at any time. `FirstHash = "outdated"` stands for a
deployment whose argon2 parameters were raised since the password was set; the
runs start with "current", the proofs hold for both. Of a
tenant's accounts one is followed: no request writes the rows of two.

### Membership

State: `users`, `tenants` and `member` are the committed rows, `lastId` the
sequence of `memberships.id`, `request` the requests in flight. A signup goes
`account -> slug -> tenant -> join -> commit`, an invitation `find -> account or
check -> join -> commit`, and a change or removal `target -> write -> commit`.
`as` is the caller's role when `get_tenant_scope` read it: nothing reads it again.
`WaitsFor` is what the next INSERT or UPDATE of a request waits for; the loser of
a unique key sees the violation after the winner's commit (`InsertAccount`,
`InsertTenant`, `InsertMember`) or goes on after its rollback. `InsertMember` and
`Adopt` are the rollback inside `add_membership`, which also forgets an account
the same request made. `WriteTarget` tells UPDATE, which is an error to the ORM
when its row is gone, from DELETE, which is none. Candidates for slugs are
numbered, since every signup gives the same name; `founder` is an observer.

### Workspace

State: the soul's columns of the nonprofit (`tenant`), one match, its drafts by
kind, the usage of this month and of all time and the rollup row. A request
loads its row when it arrives (`seen`), works out the values it wants (`set`),
and its commit writes those columns that differ (`Merged`) onto what the row is
by then. `Generate` goes `check -> read -> store -> usage -> commit`: the count of
the quota, the SELECT of existing drafts, the flush, then `record_usage`, whose
upsert of the rollup waits for others. Kinds may be named repeatedly, as the
request's list allows. Reviews and souls are metered by events of their own,
which no limit counts; they are left out.

### Paging, Gather, Hunter and GrantStore

`Paging` is the loop that `grants_gov`, `simpler_grants` and `sam_gov` share, with
their differences in `TotalsOf` and `GivenUp`: how much there is to read is asked
once or with every page, an answer may leave it out, and one source has a second
endpoint. That endpoint is asked for no order; the model assumes that it lists the
same opportunities in the order of the first. A page is counted by its entries
(`Size`), what it adds to the batch by the opportunities among them (`PageAt`).
`Answer`, `Transient`, `Refuse` and `Malformed` are what a request can come to; a
body that raises halfway keeps the entries before (`FirstOf`). Between
requests the source adds opportunities at the front (all three are asked for the
newest first) or takes some off. `Gather` is `gather_limited` with the tasks of
funders or portals: an answer without a browser, one with, none, or an exception.
`Hunter` follows one of the federal sources through the pages, then the
foundations, then the state portals, merges by `dedupe_hash` (`Extended`), and
stores in two steps, `SelectExisting` and `StoreBatch` or `LoseBatch`, between
which `Rival`, another hunting process, may commit. `Conflict` is the unique
hash. `EndHunt` is `_record_run`, whose failure is swallowed. `Crash` may happen
anywhere. Rows and records carry an amount, as an example of the fields that are
refreshed, and their source, which is kept. The other two federal sources would
only add to the batch what they list, like the followed one.

`GrantStore` says what readers of the table may count on: a grant that was found
stays, with its first source, and a known amount does not become unknown.

### Scoring

`LoadSoul` is `parse_soul` as far as location goes: codes that are no state are
refused, missing rules are the home state and national funding. `Score` is
`score_from_similarity`, in exact arithmetic: cosines are hundredths, scores are
counted in fractions of a point whose denominator is the calibration window.
`scored` collects what `score_many` returned, so that the properties compare any
two results.

## 3. Runs

| Run | Checks | Result |
|---|---|---|
| `webhooks` | `TypeOK`, `OncePerEvent`, `TenantIsolation`, `ProcessedIsMirrored`, `AccessWasBought`, `FreshWriterWins`, `EventsAnswered` | hold |
| `checkouts` | `TenantIsolation`, `CustomerPointerStable` | hold |
| `limiter` | `TypeOK`, `SustainedRate`, `RetryAfterHonest`, `ImplementsTokenBucket` | hold |
| `accounts` | `TypeOK`, `ChangeRevokesSessions`, `DeadlocksNeedATouch`, `DeadIsFinal` | hold |
| `membership` | `TypeOK`, `FounderIsOnlyOwner`, `WaitsEnd`, `BornWhole`, `ActsOnWhatItRead`, `AdminsComeFromTheOwner`, `InvitesOnlyAdd` | hold |
| `workspace` | `TypeOK`, `OvershootBounded`, `RollupIsTheSum`, `DuplicatesBounded`, `UndisturbedWritesAreWhole` | hold |
| `hunt` | `TypeOK`, `GapsHaveAReason`, `FewFaultsAreSurvived`, `WhatWasHeardIsKept`, `HuntedIsStored`, `ImplementsGrantStore`, `HuntsEnd` | hold |
| `scoring` | `TypeOK`, `BetterFitScoresNoLess`, `LocationStillTells` | hold |
| `wedge` | `EventsAnswered`, both deliveries in one process | violated |
| `stale` | `CanceledIsFinal` | violated |
| `lockout` | `LockoutTrips` | violated |
| `two_mails` | `OneLiveToken` | violated |

The violated properties are promises of comments that the code does not keep:

* `wedge`. Two deliveries of one event reach one process. The first has flushed
  the marker and needs the loop to commit; the second waits for the marker and
  holds the loop. No event served by that process is answered any more. The
  model shows the same of two events of one subscription, where the second waits
  for the row, and of a checkout that has been answered and the webhook that
  inserts the same customer.
* `stale`. Whatever event is delivered last wins, also over a deletion.
* `lockout`. The 401 rolls the counter back.
* `two_mails`. Neither of two requests for a mail sees the token of the other, so
  the older mail stays valid after the newer was asked for.

`findings` in `PROJECT.json` quotes each line, and lists further disagreements
that were met while modelling. They have no run of their own, but most are
behaviours of the models:

* A failure of the request in which `ensure_customer` flushed the customer row
  rolls it back, and the next attempt creates another customer at Stripe.
* A login that verified the old password inserts its session after a reset has
  revoked all there were; one that upgrades the hash of the old password waits
  for a reset and then overwrites the new password with the old.
* Two requests both read a token as unused, and both use it.
* The rank of a caller is checked when a membership is read; the UPDATE or DELETE
  names only its id, so a peer can be demoted or removed.
* Two generations both find no draft of a kind and insert one each.
* A save of the stored document writes the blob, whose ciphertext is new, and not
  the mirror, which is equal; a clear in between empties both.
* The limiter's clock is read outside the lock; a password change ends the
  caller's own session; mails leave before the commit; a crash in a webhook
  handler takes the marker with it.
* Outside the models: provenance that is dropped, a telemetry failure that aborts
  the transaction, a role recorded that was not granted, errors of sources that
  replace each other. And a thin grant can score above a described one.

Some results are bounds rather than promises kept. `OvershootBounded`: the monthly
limit of drafts is checked before the work, so it can be passed, by what all
concurrent requests may ask for. `DuplicatesBounded`: two drafts of one kind may
come to be, but regeneration does not add to them for ever. `GapsHaveAReason`
says how many opportunities a crawl can miss when the list moves under it. And what is
left of the promise that `two_mails` breaks is `LiveTokensBounded`, which is
proved: valid mail tokens never outnumber the requests that overlap.

### Bounds

| Run | Bounds | Why they are enough |
|---|---|---|
| `webhooks`, `wedge`, `stale` | 2 webhook requests, 2 tenants, 2 customers, 2 subscriptions, 2 new events besides the one before the start; prices of 2 plans; payload statuses `active` and `incomplete`, and `past_due` and `canceled` by the events that bring them | all races in the code are between two transactions; a stale write needs two events; one tenant starts with a mirrored subscription and the other with an open page and no row, so that all handlers find and miss their rows |
| `checkouts` | 2 checkout requests, 1 webhook request, 2 events, 1 subscription, empty database | two requests race for one unique row; the payment's two events are enough to bring in the webhook that also inserts it |
| `limiter` | 2 threads, 2 keys, burst 2 requests, 1.5 a tick, 2 ticks (`MaxTime`), pruning from 2 buckets, a lag of 1 tick (`MaxLag`) | a bucket empties, fills, overflows, becomes idle and is pruned by the other key; a late thread sets a bucket back that another has filled; with a rate that does not divide the cost the wait is truncated |
| `accounts` | 2 requests, 2 passwords, 2 changes (`MaxChanges`); an open session and one to come, an API token to come, a reset mail that is out and a verification mail to come | every anomaly is between two requests; a row is revoked or used under a request that holds it as valid; every kind of row is locked before and after another one, and circles of two form |
| `lockout` | 2 requests, 2 failures lock (`MaxFailed`), 2 are counted (`MaxMisses`) | the counter is at its limit |
| `membership` | 2 requests, 3 users, 2 tenants (`MaxTenants`), 4 membership rows (`MaxRows`) | a founder, an admin and someone to act on; the fourth row lets someone be removed and invited again under a request that read the third; two tenants collide on the slug |
| `workspace` | 2 requests, 4 in all (`MaxServed`), 2 documents, 2 kinds, 2 to a request, a limit of 2, 2 months (`MaxMonths`) | two writers overlap twice; a request asks for a kind twice or for more than is left; one document leaves the name out |
| `hunt` | pages of 2 (`Rows`), 3 pages, 3 attempts (`Retries`), 4 opportunities listed of 5, 2 changes of the list (`MaxChanges`), 2 funders and 3 portals, 2 at once (`MaxConcurrency`), 1 hunt (`MaxHunts`), 1 rival (`MaxRivals`), grants of earlier hunts with and without an amount | the list shifts across a page border both ways and both ends of the loop are met; three portals queue for two slots; what an earlier hunt left is in `FirstGrants`, so a second hunt adds no case |
| `two_mails` | 2 requests, 2 reset mails to come, no sessions | one race of two requests |
| `scoring` | 2 states and one code that is none, the code's window of 20 to 72, cosines at its edges and between, 2 grants to a soul (`MaxScored`) | the properties compare two grants; home, another state and neither |

Symmetry is used where the start treats the values alike and the run checks no
liveness (`accounts`, `two_mails`, `checkouts`, `limiter`, `membership`, `scoring`). Deadlock
is not checked: a model whose events, clock, rows or hunts are used up, and whose
requests are idle, stops. That requests in flight never stop each other is
`WaitsEnd`, and for `Accounts`, where PostgreSQL has to break deadlocks,
`DeadlocksNeedATouch` says which requests can meet one.

### Fairness

`webhooks` and `wedge`: Stripe delivers an event again until it is answered
(strong fairness of `Redeliver`, since a request slot and the loop may be taken
again and again). Neither failures nor crashes strike for ever: a webhook stage
that is reached again and again is passed (strong fairness of `ReadRow`,
`FlushRow` and `CommitWebhook`, since the loop comes and goes). A request that
waits for a marker or a unique row goes on once it is free (weak fairness of
`InsertMarker` and `InsertCustomer`, and of `CommitCheckout`). Nothing is
assumed about the loop itself: `wedge` shows a behaviour in which all these
assumptions hold because no stage is ever enabled again.

`hunt`: a hunt that can go on does (weak fairness of `HuntStep`). Every request
and every page of the browser has a timeout, so an answer or a failure comes;
which one is open. Nothing is assumed of the sources, and that the list may
change for ever is harmless, since a page loop has `MaxPages`. That a waiting
task gets a slot is not assumed but follows from `gather_limited`.

## 4. Proofs

The assumptions are those of the modules: `ConstantsAssumption`,
`NoneIsNoRecord`, `StartAssumption` in `Billing`; `LimiterAssumption`,
`NoneIsNoBucket` in `RateLimiter`;
`AccountsAssumption`, `FiniteAssumption`, `OutstandingAssumption` (at the start no
more mails are out than requests can have left), `MembershipAssumption`, `WorkspaceAssumption`,
`PagingAssumption`, `GatherAssumption`, `HunterAssumption`, `ScoringAssumption`.
TLC evaluates them in every run.

* `BillingProofs!TypeCorrect`: `Spec => []TypeOK`. The types are not inductive
  alone: that a commit writes a row needs to know that a request which holds a
  row has loaded an owner, an event with a subscription, and so on. `StagesOK`
  says so for each stage, and the proof has one step per action.
* `BillingProofs!EffectsOnce`: `Spec => []OncePerEvent`, for any number of
  requests, processes and events. With `TypeOK` the property is inductive: a
  request passes its marker only when no other holds it and it is not committed.
* `BillingProofs!LocksStopNobody`: the only way in which billing requests stop
  each other. `InWayOf` names the requests a request waits for: holders of its
  event's marker or of its row, or, when it has returned, handlers on the loop of
  its process (lemma `InTheWay` shows that these are the guards). In every circle
  of waiting requests one has returned and another waits for the database on the
  loop of the same process. So markers and rows alone cannot deadlock, and
  requests of different processes never stop each other (`ApartNobodyStops`). The
  first is no empty statement: such circles are reached in the models of `wedge`
  and `checkouts`. `RequestsMoveOn` adds that each step of a request brings it to
  a later stage. Together they are what `EventsAnswered` rests on, apart from
  fairness.
* `BillingTenantsProofs`: the other safety properties of `webhooks` and
  `checkouts`. `TenantIsolation` becomes inductive with `Honest`: an event names
  the customer that pays for its subscription and at most that customer's tenant,
  and what a checkout or a handler has loaded agrees with it. On top of that,
  `AccessWasBought` needs that the plan and the status of each row were reported by
  processed events (`RowsReported`); they may be two events, since an UPDATE
  writes columns. `ProcessedIsMirrored` rests on marker and row being of one transaction: a
  request that is to commit without a row of its own has found one (`Applied`).
  `CustomerPointerStable` is the unique key: whoever has flushed a
  tenant's row is alone and finds none (`OneInsert`). `FreshWriterWins` follows
  from `TypeOK` and `OncePerEvent`.
* `RateLimiterProofs!Implementation`: each step is a step of `TokenBucket` or
  leaves it unchanged, for every lag. The lemmas say that filling in two parts
  equals filling at once, that an idle bucket is full, so that forgetting it
  leaves `LevelNow` alone, and that setting `updated_at` back by the lag raises
  the level by no more than the rate for the lag.
* `RateLimiterProofs!NeverMoreThanTheRate`: by the stronger invariant that what
  was admitted and what is left in the bucket together do not exceed burst and
  rate: `admitted * Cost + LevelNow <= Capacity + (time - since + waited) * Rate`.
* `RateLimiterProofs!RefusedMayReturn`: `RetryAfterHonest`. What is in the bucket
  and what comes until the promised time pay for a request (`Enough`), since one
  more than the truncated quotient covers what is missing. A late thread can only
  have seen less in the bucket than there is, so its promise is on the safe side.
* `AccountsProofs`: the properties of its passing run, for any requests, rows and
  passwords. `Inv` says what a request at each stage has loaded, locked and is to
  revoke (`RequestOK`). `ChangeRevokesSessions` holds because a login and a change
  both lock the user row before they read or insert sessions, and keep it to the
  end: of the sessions that are live, each is revoked or still to be (`Sweeping`).
  `DeadIsFinal` holds because a commit writes
  "dead" or inserts a row that was not there.
* `AccountsProofs!TokensAreFew`: `LiveTokensBounded`, which no run checks, since it
  takes more tokens than requests to break it. The invariant counts, for each
  set of mail requests of a purpose, the valid tokens that none of the set is to
  invalidate: with one more for each of the set they never exceed the requests
  (`FewAreSpared`). A new request starts out to invalidate all that are committed,
  and those of a set that commits are to be invalidated by no member of it.
* `AccountsProofs!OrderedLocksAreSafe`: `DeadlocksNeedATouch`, for circles of any
  length. Unless some request locked its credential first, each one that waits
  holds less far in the order e-mail token, user, sessions than what it waits for.
* `AccountsProofs!RequestsComeToAnEnd`, `WaitersAreServed`: `StepsLeft` counts the
  stages and rows a request has still to pass, and each of its steps makes it
  smaller, whatever others do. And any requests that wait for nobody but each
  other have one among them that can go on (`MayGoOn`, the guards of `Continue`),
  or all are stuck and some took rows out of order: an idle request holds no lock,
  so all they wait for are requests in flight. That a commit finds the row it
  inserts is `RoomLeft`, a fact about the model's bounds (`FiniteAssumption`).
* `MembershipProofs`: all properties of `membership`, for any users, requests,
  tenants and rows, from one inductive invariant `Inv`. It adds to the types that
  membership ids are below `lastId` and given to one person once (`TenantsOK`,
  `ReqOK`), that uncommitted keys are exclusive (`Exclusive`), that a request
  which is to write has checked a row that was no owner's, and that a role once
  read as "owner" is still the founder's. That last fact carries
  `FounderIsOnlyOwner` and `AdminsComeFromTheOwner`: no check-then-act gap can
  touch an owner, because nobody outranks one. `NoDeadlock` numbers the stages:
  a request waits only for one that is further on. `InvitationsOnlyAdd`: an id a
  signup or invitation inserted belongs to nobody committed (`Newcomers`), and one
  that adopts a row has no id to write.
* `WorkspaceProofs`: all properties of `workspace`. `OvershootBounded` needs the
  invariant that what is used, and what is still to come from requests past the
  check, stay within the bound together; so does `DuplicatesBounded` for each
  kind. `RollupIsTheSum` needs that a request which has added to the rollup holds
  its row, so that the value it read is the last. `UndisturbedWritesAreWhole`
  needs that the values a request sets belong together (`SetWhole`).
* `HunterProofs`: types, `ImplementsGrantStore` (each step maps to `Learn` or a
  stutter), `HuntedIsStored` (what the SELECT saw stays true enough of the table,
  `Remembered`), `WhatWasHeardIsKept` (`Heard`) and `FewFaultsAreSurvived` (the
  attempts of the current request never exceed the faults of the run, `Patient`),
  for any sources, sites, pages and attempts.
* `HunterProofs!GapsAreExplained`: `GapsHaveAReason`, for any list. The invariant
  `Accounted` bounds by the number of removals what the pages read so far have
  passed by (`Missed`): listed when the run began, not read, and not beyond the
  next page. A removal moves one entry across that border, an addition none.
  When the loop ends as complete, the rest of the list counts too, and a total
  named by the first page is outgrown only by additions.
* `HunterProofs!EndsAreInSight`, `HuntsNeverStick`: the safety half of `HuntsEnd`.
  Each step of a hunt leaves it strictly less of finitely many stages, requests
  and task steps, and nothing but the clock, which starts the next hunt, gives it
  more; and a hunt in progress can always go on, since tasks that wait for a slot
  of `gather_limited` wait for tasks that can finish.
* `ScoringProofs`: all properties of `scoring`, for every window and every
  similarity. The arithmetic is in lemmas on `Calibrated` and `Capped`.

Only model-checked: the liveness properties `EventsAnswered` and `HuntsEnd`. Their
last step, from what a request can do to what it will do, needs fairness and
ENABLED, which are out of the prover's reach; the facts it would start from are
the theorems above. Every safety, action and refinement property
of a passing run has its theorem.

## 5. Not modelled

* Columns no property reads: those of a subscription other than status and plan;
  `updated_at`, by which `current_plan_key` chooses among several active rows
  (`GoverningPlans` allows each of them); bodies of drafts, profile columns other
  than the name, fields of a grant other than source and amount.
* Rows that are only appended: audit, login attempts, usage events other than
  drafts.
* Disabled accounts (`is_active` is read but nothing writes it) and the waitlist
  (one row, unique by address).
* The optional detail backfill of grants.gov (`max_detail_lookups`, 0 unless the
  command line asks for it), and which funders and portals a state filter selects.
* Matches: nothing under `hunter/` or `api/` creates them, so neither the scorer's
  results nor new matches meet the rest of the system.
* For good: text rendering, parsing of HTML, XML, JSON, YAML, dates and amounts,
  cryptography and embeddings, which are text and floating point; the frontend,
  settings and the scripts run by hand, which keep no state of their own.
* The SQLite used by the tests, which has one writer at a time.

## 6. What is left

1. Two hunts of one process one after the other, with sources that forget.
2. Matches, once the code creates them.
