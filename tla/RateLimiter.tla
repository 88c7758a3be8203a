---------------------------- MODULE RateLimiter ----------------------------
(***************************************************************************)
(* One limiter of api/ratelimit.py in one server process, and the helper   *)
(* _rate_limit of api/auth.py that the login, signup and mail endpoints    *)
(* call from the threads of the worker pool.                               *)
(*                                                                         *)
(* A bucket is filled only when it is looked at, and forgotten when idle.  *)
(* A thread reads the clock BEFORE it takes the lock; MaxLag bounds the    *)
(* ticks that may pass between the two, in which others may overtake it.   *)
(***************************************************************************)
EXTENDS Naturals, FiniteSets

CONSTANTS Keys, Capacity, Rate, Cost, MaxTime, MaxLag,  \* see TokenBucket
          Threads,  \* threads of the worker pool
          PruneAt,  \* number of buckets from which idle ones are dropped
          None

ASSUME LimiterAssumption ==
  /\ Capacity \in Nat /\ Rate \in Nat /\ Cost \in Nat /\ MaxTime \in Nat
  /\ Rate > 0 /\ Cost > 0 /\ Cost <= Capacity
  /\ MaxLag \in Nat /\ PruneAt \in Nat

VARIABLES
  time,      \* the monotonic clock
  buckets,   \* _buckets, None for a key that has no bucket
  call,      \* what each thread is doing
  since,     \* observer: when the window in which requests are counted opened
  admitted,  \* observer: requests of each key admitted in the window
  waited,    \* observer: ticks they waited for the lock in the window
  promise    \* observer: earliest time a 429 told the key's client to return,
             \* None if there is none since the last admission

vars == <<time, buckets, call, since, admitted, waited, promise>>

Bucket == [tokens : 0..Capacity, updated_at : 0..MaxTime]

\* pc: "allow" and "retry" are after the clock was read and before the lock
Call == [pc : {"idle", "allow", "denied", "retry"},
         key : Keys \cup {None}, now : 0..MaxTime]

NoCall == [pc |-> "idle", key |-> None, now |-> 0]

ASSUME NoneIsNoBucket == None \notin Bucket \cup Nat

Init ==
  /\ time = 0
  /\ buckets = [k \in Keys |-> None]
  /\ call = [t \in Threads |-> NoCall]
  /\ since = 0
  /\ admitted = [k \in Keys |-> 0]
  /\ waited = [k \in Keys |-> 0]
  /\ promise = [k \in Keys |-> None]

-----------------------------------------------------------------------------

Smaller(a, b) == IF a <= b THEN a ELSE b

\* max(0.0, now - bucket.updated_at)
Elapsed(b, now) == IF now > b.updated_at THEN now - b.updated_at ELSE 0

\* Faulty variant of Filled: the burst is not capped.
Uncapped(b, now) == b.tokens + Elapsed(b, now) * Rate

\* The tokens of a bucket at time "now".
Filled(b, now) == Smaller(Capacity, b.tokens + Elapsed(b, now) * Rate)

Known == {k \in Keys : buckets[k] # None}

\* Faulty variant of Stale: half the time is enough.
HalfIdle(b, now) == 2 * Elapsed(b, now) * Rate > Capacity

\* Idle for long enough to be full.
Stale(b, now) == Elapsed(b, now) * Rate > Capacity

\* _prune
Kept(now) ==
  IF Cardinality(Known) < PruneAt
    THEN buckets
    ELSE [k \in Keys |-> IF k \in Known /\ Stale(buckets[k], now)
                           THEN None ELSE buckets[k]]

\* The bucket of key k, a full one if it has none.
BucketOf(k, now) ==
  IF Kept(now)[k] = None THEN [tokens |-> Capacity, updated_at |-> now]
                         ELSE Kept(now)[k]

\* _rate_limit calls allow, which reads the clock.
CallAllow(t, k) ==
  /\ call[t].pc = "idle"
  /\ call' = [call EXCEPT ![t] = [pc |-> "allow", key |-> k, now |-> time]]
  /\ UNCHANGED <<time, buckets, since, admitted, waited, promise>>

\* The body of allow, under the lock: the request is admitted.
Allow(t) ==
  LET k == call[t].key
      now == call[t].now
      tokens == Filled(BucketOf(k, now), now)
  IN /\ call[t].pc = "allow"
     /\ tokens >= Cost
     /\ buckets' = [Kept(now) EXCEPT ![k] =
                      [tokens |-> tokens - Cost, updated_at |-> now]]
     /\ call' = [call EXCEPT ![t] = NoCall]
     /\ admitted' = [admitted EXCEPT ![k] = @ + 1]
     /\ waited' = [waited EXCEPT ![k] = @ + (time - now)]
     /\ promise' = [promise EXCEPT ![k] = None]
     /\ UNCHANGED <<time, since>>

\* The same, when the bucket is exhausted.
Deny(t) ==
  LET k == call[t].key
      now == call[t].now
      tokens == Filled(BucketOf(k, now), now)
  IN /\ call[t].pc = "allow"
     /\ tokens < Cost
     /\ buckets' = [Kept(now) EXCEPT ![k] =
                      [tokens |-> tokens, updated_at |-> now]]
     /\ call' = [call EXCEPT ![t].pc = "denied", ![t].now = 0]
     /\ waited' = [waited EXCEPT ![k] = @ + (time - now)]
     /\ UNCHANGED <<time, since, admitted, promise>>

\* _rate_limit calls retry_after, which reads the clock again.
CallRetryAfter(t) ==
  /\ call[t].pc = "denied"
  /\ call' = [call EXCEPT ![t].pc = "retry", ![t].now = time]
  /\ UNCHANGED <<time, buckets, since, admitted, waited, promise>>

\* Faulty variant of Wait: truncated without the "+ 1".
WaitTruncated(k, now) ==
  IF buckets[k] = None THEN 0
  ELSE LET available == Filled(buckets[k], now)
       IN IF available >= Cost THEN 0 ELSE (Cost - available) \div Rate

\* The Retry-After header: int(retry_after(key)) + 1, in whole ticks.
Wait(k, now) ==
  IF buckets[k] = None THEN 1
  ELSE LET available == Filled(buckets[k], now)
       IN IF available >= Cost THEN 1 ELSE (Cost - available) \div Rate + 1

\* The body of retry_after, under the lock, and the answer 429: the client
\* counts from the moment it is told.
Refuse(t) ==
  LET k == call[t].key
      return == time + Wait(k, call[t].now)
  IN /\ call[t].pc = "retry"
     /\ promise' = [promise EXCEPT ![k] =
                      IF @ = None THEN return ELSE Smaller(@, return)]
     /\ call' = [call EXCEPT ![t] = NoCall]
     /\ UNCHANGED <<time, buckets, since, admitted, waited>>

\* Time passes.
Tick ==
  /\ time < MaxTime
  /\ \A t \in Threads :
       call[t].pc \in {"allow", "retry"} => time - call[t].now < MaxLag
  /\ time' = time + 1
  /\ UNCHANGED <<buckets, call, since, admitted, waited, promise>>

\* The observer starts to count requests anew, once a tick.
OpenWindow ==
  /\ since < time /\ since' = time
  /\ admitted' = [k \in Keys |-> 0] /\ waited' = [k \in Keys |-> 0]
  /\ UNCHANGED <<time, buckets, call, promise>>

ThreadStep(t) ==
  \/ \E k \in Keys : CallAllow(t, k)
  \/ Allow(t)
  \/ Deny(t)
  \/ CallRetryAfter(t)
  \/ Refuse(t)

Next ==
  \/ \E t \in Threads : ThreadStep(t)
  \/ Tick
  \/ OpenWindow

Spec == Init /\ [][Next]_vars

-----------------------------------------------------------------------------
(* Properties *)

\* The type invariant.  No bucket and no call is ahead of the clock, and a
\* call lags behind it by no more than MaxLag.
TypeOK ==
  /\ time \in 0..MaxTime
  /\ buckets \in [Keys -> Bucket \cup {None}]
  /\ call \in [Threads -> Call]
  /\ since \in 0..MaxTime /\ since <= time
  /\ admitted \in [Keys -> Nat]
  /\ waited \in [Keys -> Nat]
  /\ promise \in [Keys -> Nat \cup {None}]
  /\ \A k \in Known : buckets[k].updated_at <= time
  /\ \A t \in Threads :
       call[t].pc # "idle" => call[t].key \in Keys /\ call[t].now <= time
  /\ \A t \in Threads :
       call[t].pc \in {"allow", "retry"} => time <= call[t].now + MaxLag

\* The level of a key's bucket at this moment, were it filled continuously.
LevelNow == [k \in Keys |-> IF buckets[k] = None THEN Capacity
                                                 ELSE Filled(buckets[k], time)]

Ideal == INSTANCE TokenBucket WITH level <- LevelNow

\* Filling lazily, forgetting idle buckets and serving keys from several
\* threads is invisible: the limiter is a bucket per key that fills with time,
\* but for what it credits to requests that waited for the lock.
ImplementsTokenBucket == Ideal!Spec

\* In any window of time a key is admitted no more than a burst and what the
\* sustained rate adds ("capacity is the burst size; refill_per_second is the
\* sustained rate") in the window and in the time its requests waited.
SustainedRate == Ideal!SustainedRate

\* A client that stays away for the Retry-After of its 429, and whose key is
\* not used meanwhile, is admitted when it returns, however late the thread
\* was that told it, and those that were refused meanwhile.
RetryAfterHonest ==
  \A k \in Keys : promise[k] # None /\ time >= promise[k] => LevelNow[k] >= Cost

=============================================================================
