------------------------- MODULE RateLimiterProofs -------------------------
(***************************************************************************)
(* For all numbers of keys and threads, all rates, costs and capacities:   *)
(* whatever the lag of its threads between the clock and the lock, the     *)
(* limiter keeps its types and implements the token bucket, so it admits   *)
(* no more than a burst and what the rate adds in a window and in the time *)
(* its requests waited, and keeps what its Retry-After says.               *)
(***************************************************************************)
EXTENDS RateLimiter, TLAPS

\* Arithmetic: the provers need the products by Rate spelled out.
LEMMA OneMoreTick ==
  ASSUME NEW e \in Nat, NEW r \in Nat
  PROVE  (e + 1) * r = e * r + r /\ e * r \in Nat
  OBVIOUS

LEMMA ProductBounds ==
  ASSUME NEW a \in Nat, NEW b \in Nat, NEW d \in Nat, NEW r \in Nat, a <= b, b <= a + d
  PROVE  /\ a * r \in Nat /\ b * r \in Nat /\ d * r \in Nat
         /\ a * r <= b * r /\ b * r <= a * r + d * r
<1> DEFINE e == b - a
           g == a + d - b
<1>1. e \in Nat /\ g \in Nat /\ b = a + e /\ d = e + g
  OBVIOUS
<1>2. a * r \in Nat /\ e * r \in Nat /\ g * r \in Nat
  BY <1>1, OneMoreTick
<1> HIDE DEF e, g
<1>3. b * r = a * r + e * r /\ d * r = e * r + g * r
  BY <1>1
<1> QED
  BY <1>2, <1>3

LEMMA NoneFacts == None \notin Bucket /\ None \notin Nat
  BY NoneIsNoBucket

LEMMA FilledType ==
  ASSUME NEW b \in Bucket, NEW now \in 0..MaxTime
  PROVE  Filled(b, now) \in 0..Capacity
<1>1. Elapsed(b, now) \in Nat /\ b.tokens \in 0..Capacity
  BY LimiterAssumption DEF Elapsed, Bucket
<1>2. Elapsed(b, now) * Rate \in Nat
  BY <1>1, LimiterAssumption
<1> HIDE DEF Elapsed
<1> QED
  BY <1>1, <1>2, LimiterAssumption DEF Filled, Smaller

LEMMA KeptType ==
  ASSUME TypeOK, NEW now \in 0..MaxTime
  PROVE  /\ Kept(now) \in [Keys -> Bucket \cup {None}]
         /\ \A k \in Keys : Kept(now)[k] \in {buckets[k], None}
  BY DEF TypeOK, Kept

LEMMA BucketOfType ==
  ASSUME TypeOK, NEW now \in 0..MaxTime, NEW k \in Keys
  PROVE  BucketOf(k, now) \in Bucket
  BY KeptType, LimiterAssumption DEF BucketOf, Bucket

\* The state after allow: the bucket of key k is new, and of now.
LEMMA TouchType ==
  ASSUME TypeOK, NEW now \in 0..MaxTime, now <= time, NEW k \in Keys,
         NEW n \in 0..Capacity,
         buckets' = [Kept(now) EXCEPT ![k] = [tokens |-> n, updated_at |-> now]],
         time' = time
  PROVE  /\ buckets' \in [Keys -> Bucket \cup {None}]
         /\ \A j \in Known' : buckets'[j].updated_at <= time'
<1>1. [tokens |-> n, updated_at |-> now] \in Bucket
  BY DEF Bucket
<1>2. buckets' \in [Keys -> Bucket \cup {None}]
  BY <1>1, KeptType
<1>3. ASSUME NEW j \in Known' PROVE buckets'[j].updated_at <= time'
  <2>1. CASE j = k
    BY <2>1, KeptType DEF Known
  <2>2. CASE j # k
    <3>1. buckets'[j] = Kept(now)[j] /\ buckets'[j] # None /\ j \in Keys
      BY <1>3, <2>2, KeptType DEF Known
    <3>2. buckets'[j] = buckets[j] /\ j \in Known
      BY <3>1, KeptType DEF Known
    <3> QED
      BY <3>2 DEF TypeOK
  <2> QED
    BY <2>1, <2>2
<1> QED
  BY <1>2, <1>3

LEMMA ThreadTypeOK ==
  ASSUME TypeOK, NEW t \in Threads, ThreadStep(t)
  PROVE  TypeOK'
<1> USE LimiterAssumption, NoneFacts
<1> DEFINE c == call[t]
<1>0. /\ c \in Call /\ time \in 0..MaxTime
      /\ c.pc # "idle" => c.key \in Keys /\ c.now \in 0..MaxTime /\ c.now <= time
  BY DEF TypeOK, Call
<1>1. CASE \E k \in Keys : CallAllow(t, k)
  BY <1>1 DEF CallAllow, TypeOK, Call, Known
<1>2. CASE Allow(t)
  <2>1. Filled(BucketOf(c.key, c.now), c.now) \in 0..Capacity
    BY <1>0, <1>2, BucketOfType, FilledType DEF Allow
  <2>2. Filled(BucketOf(c.key, c.now), c.now) - Cost \in 0..Capacity
    BY <1>2, <2>1 DEF Allow
  <2>3. /\ buckets' \in [Keys -> Bucket \cup {None}]
        /\ \A j \in Known' : buckets'[j].updated_at <= time'
    BY <1>0, <1>2, <2>2, TouchType DEF Allow
  <2>4. /\ call' \in [Threads -> Call]
        /\ \A s \in Threads : call'[s].pc # "idle" => call'[s] = call[s]
    BY <1>2 DEF Allow, TypeOK, NoCall, Call
  <2>5. /\ admitted' \in [Keys -> Nat] /\ promise' \in [Keys -> Nat \cup {None}]
        /\ waited' \in [Keys -> Nat]
    BY <1>0, <1>2 DEF Allow, TypeOK
  <2> QED
    BY <1>2, <2>3, <2>4, <2>5 DEF Allow, TypeOK
<1>3. CASE Deny(t)
  <2>1. Filled(BucketOf(c.key, c.now), c.now) \in 0..Capacity
    BY <1>0, <1>3, BucketOfType, FilledType DEF Deny
  <2>2. /\ buckets' \in [Keys -> Bucket \cup {None}]
        /\ \A j \in Known' : buckets'[j].updated_at <= time'
    BY <1>0, <1>3, <2>1, TouchType DEF Deny
  <2>3. /\ call' \in [Threads -> Call]
        /\ call'[t] = [c EXCEPT !.pc = "denied", !.now = 0]
        /\ \A s \in Threads \ {t} : call'[s] = call[s]
    <3>1. call' = [call EXCEPT ![t].pc = "denied", ![t].now = 0]
      BY <1>3 DEF Deny
    <3>2. call \in [Threads -> Call] /\ 0 \in 0..MaxTime
      BY DEF TypeOK
    <3>3. [c EXCEPT !.pc = "denied", !.now = 0] \in Call
      BY <1>0, <3>2 DEF Call
    <3> QED
      BY <3>1, <3>2, <3>3
  <2>4. waited' \in [Keys -> Nat]
    BY <1>0, <1>3 DEF Deny, TypeOK
  <2> QED
    BY <1>0, <1>3, <2>2, <2>3, <2>4 DEF Deny, TypeOK, Call
<1>4. CASE CallRetryAfter(t)
  <2>1. /\ call' \in [Threads -> Call]
        /\ call'[t] = [c EXCEPT !.pc = "retry", !.now = time]
        /\ \A s \in Threads \ {t} : call'[s] = call[s]
    BY <1>0, <1>4 DEF CallRetryAfter, TypeOK, Call
  <2> QED
    BY <1>0, <1>4, <2>1 DEF CallRetryAfter, TypeOK, Call, Known
<1>5. CASE Refuse(t)
  <2> DEFINE w == Wait(c.key, c.now)
  <2>1. w \in Nat
    <3>1. CASE buckets[c.key] = None
      BY <3>1 DEF Wait
    <3>2. CASE buckets[c.key] # None
      <4> DEFINE a == Filled(buckets[c.key], c.now)
      <4>1. a \in 0..Capacity
        BY <1>0, <1>5, <3>2, FilledType DEF Refuse, TypeOK
      <4>2. w = IF a >= Cost THEN 1 ELSE (Cost - a) \div Rate + 1
        BY <3>2 DEF Wait
      <4> HIDE DEF a, w
      <4>3. ~(a >= Cost) => (Cost - a) \div Rate \in Nat
        BY <4>1
      <4> QED
        BY <4>2, <4>3
    <3> QED
      BY <3>1, <3>2
  <2>2. promise' \in [Keys -> Nat \cup {None}]
    <3> HIDE DEF w
    <3>1. promise' = [promise EXCEPT ![c.key] =
                        IF promise[c.key] = None THEN time + w
                        ELSE Smaller(promise[c.key], time + w)]
      BY <1>5 DEF Refuse, w, TypeOK
    <3>2. time + w \in Nat /\ c.key \in Keys
      BY <1>0, <1>5, <2>1 DEF Refuse
    <3> QED
      BY <3>1, <3>2 DEF TypeOK, Smaller
  <2>3. /\ call' \in [Threads -> Call]
        /\ \A s \in Threads : call'[s].pc # "idle" => call'[s] = call[s]
    BY <1>5 DEF Refuse, TypeOK, NoCall, Call
  <2> QED
    BY <1>5, <2>2, <2>3 DEF Refuse, TypeOK, Known
<1> QED
  BY <1>1, <1>2, <1>3, <1>4, <1>5 DEF ThreadStep

\* Every variable keeps its type; no bucket and no call is ahead of the clock
\* and no call lags behind it by more than MaxLag.
THEOREM TypeCorrect == Spec => []TypeOK
<1> USE LimiterAssumption, NoneFacts
<1>1. Init => TypeOK
  BY DEF Init, TypeOK, NoCall, Call, Known
<1>2. ASSUME TypeOK, [Next]_vars PROVE TypeOK'
  <2>1. CASE Tick
    <3>1. time' \in 0..MaxTime /\ time' = time + 1
      BY <1>2, <2>1 DEF Tick, TypeOK
    <3>2. ASSUME NEW t \in Threads, call'[t].pc \in {"allow", "retry"}
          PROVE  time' <= call'[t].now + MaxLag
      <4>1. call' = call
        BY <2>1 DEF Tick
      <4>2. call[t].now \in 0..MaxTime /\ time \in 0..MaxTime
        BY <1>2 DEF TypeOK, Call
      <4>3. time - call[t].now < MaxLag
        BY <2>1, <3>2, <4>1 DEF Tick
      <4> QED
        BY <3>1, <4>1, <4>2, <4>3
    <3>3. ASSUME NEW t \in Threads, call'[t].pc # "idle"
          PROVE  call'[t].key \in Keys /\ call'[t].now <= time'
      BY <1>2, <2>1, <3>1, <3>3 DEF Tick, TypeOK, Call
    <3>4. \A k \in Known' : buckets'[k].updated_at <= time'
      BY <1>2, <2>1, <3>1 DEF Tick, TypeOK, Known, Bucket
    <3>5. since' \in 0..MaxTime /\ since' <= time'
      BY <1>2, <2>1, <3>1 DEF Tick, TypeOK
    <3> QED
      BY <1>2, <2>1, <3>1, <3>2, <3>3, <3>4, <3>5 DEF Tick, TypeOK
  <2>2. CASE OpenWindow
    BY <1>2, <2>2 DEF OpenWindow, TypeOK, Known
  <2>3. CASE UNCHANGED vars
    BY <1>2, <2>3 DEF vars, TypeOK, Known
  <2> QED
    BY <1>2, <2>1, <2>2, <2>3, ThreadTypeOK DEF Next
<1> QED
  BY <1>1, <1>2, PTL DEF Spec

-----------------------------------------------------------------------------
(* The limiter implements the token bucket *)

LEMMA LevelType ==
  ASSUME TypeOK
  PROVE  LevelNow \in [Keys -> 0..Capacity]
  BY FilledType, LimiterAssumption DEF LevelNow, TypeOK

\* Of a bucket at two times, the later level is the higher one, by no more than
\* what the time between brings.
LEMMA FilledLater ==
  ASSUME NEW b \in Bucket, NEW now \in 0..MaxTime, NEW later \in 0..MaxTime, now <= later
  PROVE  /\ Filled(b, now) \in 0..Capacity /\ Filled(b, later) \in 0..Capacity
         /\ (later - now) * Rate \in Nat
         /\ Filled(b, now) <= Filled(b, later)
         /\ Filled(b, later) <= Filled(b, now) + (later - now) * Rate
         /\ Stale(b, now) => Filled(b, later) = Capacity
<1> USE LimiterAssumption
<1> DEFINE e == Elapsed(b, now)
           l == Elapsed(b, later)
           d == later - now
<1>1. /\ e \in Nat /\ l \in Nat /\ d \in Nat /\ e <= l /\ l <= e + d
      /\ b.tokens \in 0..Capacity
  BY DEF Elapsed, Bucket
<1>2. /\ Filled(b, now) = Smaller(Capacity, b.tokens + e * Rate)
      /\ Filled(b, later) = Smaller(Capacity, b.tokens + l * Rate)
      /\ Stale(b, now) => e * Rate > Capacity
  BY DEF Filled, Stale
<1> HIDE DEF e, l, d
<1>3. /\ e * Rate \in Nat /\ l * Rate \in Nat /\ d * Rate \in Nat
      /\ e * Rate <= l * Rate /\ l * Rate <= e * Rate + d * Rate
  BY <1>1, ProductBounds
<1>4. /\ Filled(b, now) \in 0..Capacity /\ Filled(b, later) \in 0..Capacity
      /\ Filled(b, now) <= Filled(b, later)
      /\ Filled(b, later) <= Filled(b, now) + d * Rate
      /\ Stale(b, now) => Filled(b, later) = Capacity
  BY <1>1, <1>2, <1>3 DEF Smaller
<1> QED
  BY <1>3, <1>4 DEF d

\* Dropping a bucket that has been idle for long enough does not show, and what
\* a late thread finds is what there is now, but for what came in meanwhile.
LEMMA KeptLevel ==
  ASSUME TypeOK, NEW k \in Keys, NEW now \in 0..MaxTime, now <= time
  PROVE  LET found == Filled(BucketOf(k, now), now)
         IN  /\ (IF Kept(now)[k] = None THEN Capacity ELSE Filled(Kept(now)[k], time))
                   = LevelNow[k]
             /\ found \in 0..Capacity /\ (time - now) * Rate \in Nat
             /\ found <= LevelNow[k] /\ LevelNow[k] <= found + (time - now) * Rate
<1> USE LimiterAssumption, NoneFacts
<1>0. time \in 0..MaxTime /\ buckets[k] \in Bucket \cup {None}
  BY DEF TypeOK
<1>1. Kept(now)[k] = buckets[k] \/ (k \in Known /\ Stale(buckets[k], now) /\ Kept(now)[k] = None)
  BY DEF Kept
<1>2. ASSUME k \in Known, Stale(buckets[k], now)
      PROVE  Filled(buckets[k], time) = Capacity
  BY <1>0, <1>2, FilledLater DEF Known
<1>3. (IF Kept(now)[k] = None THEN Capacity ELSE Filled(Kept(now)[k], time))
         = LevelNow[k]
  BY <1>1, <1>2 DEF LevelNow, Known
<1> DEFINE b == BucketOf(k, now)
<1>4. b \in Bucket /\ Filled(b, time) = LevelNow[k]
  <2>1. CASE Kept(now)[k] = None
    <3>1. b = [tokens |-> Capacity, updated_at |-> now] /\ b \in Bucket
      BY <2>1 DEF BucketOf, Bucket
    <3>2. Filled(b, now) = Capacity
      <4>1. Elapsed(b, now) * Rate \in Nat
        BY <3>1, OneMoreTick DEF Elapsed
      <4> QED
        BY <3>1, <4>1 DEF Filled, Smaller
    <3>3. Filled(b, time) = Capacity
      BY <1>0, <3>1, <3>2, FilledLater
    <3> QED
      BY <1>3, <2>1, <3>1, <3>3
  <2>2. CASE Kept(now)[k] # None
    BY <1>0, <1>1, <1>3, <2>2 DEF BucketOf
  <2> QED
    BY <2>1, <2>2
<1> HIDE DEF b
<1>5. /\ Filled(b, now) \in 0..Capacity /\ (time - now) * Rate \in Nat
      /\ Filled(b, now) <= LevelNow[k] /\ LevelNow[k] <= Filled(b, now) + (time - now) * Rate
  BY <1>0, <1>4, FilledLater
<1> QED
  BY <1>3, <1>5 DEF b

\* After allow has left n tokens in the bucket of key k as of the time its thread
\* has read, every other key has the level it had.
LEMMA TouchLevel ==
  ASSUME TypeOK, NEW k \in Keys, NEW n \in 0..Capacity, NEW now \in 0..MaxTime,
         now <= time, time' = time,
         buckets' = [Kept(now) EXCEPT ![k] = [tokens |-> n, updated_at |-> now]]
  PROVE  LevelNow' = [LevelNow EXCEPT ![k] = Smaller(Capacity, n + (time - now) * Rate)]
<1> USE LimiterAssumption, NoneFacts
<1> DEFINE b == [tokens |-> n, updated_at |-> now]
<1>1. b \in Bucket /\ b # None
  BY DEF Bucket, TypeOK
<1>2. Filled(b, time) = Smaller(Capacity, n + (time - now) * Rate)
  <2>1. Elapsed(b, time) = time - now
    BY DEF Elapsed, TypeOK
  <2> QED
    BY <2>1 DEF Filled
<1>3. Kept(now) \in [Keys -> Bucket \cup {None}]
  BY KeptType DEF TypeOK
<1>4. LevelNow'[k] = Smaller(Capacity, n + (time - now) * Rate)
  BY <1>1, <1>2, <1>3 DEF LevelNow
<1>5. ASSUME NEW j \in Keys, j # k PROVE LevelNow'[j] = LevelNow[j]
  BY <1>3, <1>5, KeptLevel DEF LevelNow
<1> QED
  BY <1>4, <1>5 DEF LevelNow

\* A bucket filled after one more tick holds what it held and one more refill.
LEMMA TickLevel ==
  ASSUME TypeOK, NEW b \in Bucket, b.updated_at <= time
  PROVE  Filled(b, time + 1) = Smaller(Capacity, Filled(b, time) + Rate)
<1> USE LimiterAssumption
<1> DEFINE e == Elapsed(b, time)
<1>1. e \in Nat /\ Elapsed(b, time + 1) = e + 1 /\ b.tokens \in 0..Capacity
  BY DEF Elapsed, Bucket, TypeOK
<1>2. (e + 1) * Rate = e * Rate + Rate /\ e * Rate \in Nat
  BY <1>1, OneMoreTick
<1> HIDE DEF e
<1>3. Filled(b, time) = Smaller(Capacity, b.tokens + e * Rate)
  BY DEF Filled, e
<1>4. Filled(b, time + 1) = Smaller(Capacity, b.tokens + (e * Rate + Rate))
  BY <1>1, <1>2 DEF Filled
<1> QED
  BY <1>1, <1>2, <1>3, <1>4 DEF Smaller

\* What a late thread leaves is the level of now, less what it took, and with a
\* credit for what came in while it waited.
LEMMA CreditExists ==
  ASSUME NEW found \in Nat, NEW level \in Nat, NEW gained \in Nat, NEW cost \in Nat,
         found <= level, level <= found + gained
  PROVE  \E credit \in 0..gained : level - cost + credit = (found - cost) + gained
<1> WITNESS (found + gained) - level \in 0..gained
<1> QED
  OBVIOUS

LEMMA ServeStep ==
  ASSUME TypeOK, NEW t \in Threads, call[t].pc = "allow", NEW cost \in {0, Cost},
         UNCHANGED <<time, since>>,
         LET k     == call[t].key
             now   == call[t].now
             found == Filled(BucketOf(k, now), now)
         IN  /\ found >= cost
             /\ buckets' = [Kept(now) EXCEPT ![k] = [tokens |-> found - cost, updated_at |-> now]]
             /\ waited' = [waited EXCEPT ![k] = @ + (time - now)]
  PROVE  LET k   == call[t].key
             now == call[t].now
         IN  /\ k \in Keys /\ time - now \in 0..MaxLag /\ now \in 0..MaxTime /\ now <= time
             /\ Ideal!Serve(k, cost, time - now)
<1> USE LimiterAssumption
<1> DEFINE k == call[t].key
           now == call[t].now
           lag == time - now
           found == Filled(BucketOf(k, now), now)
<1>1. /\ k \in Keys /\ now \in 0..MaxTime /\ now <= time /\ time \in 0..MaxTime
      /\ time <= now + MaxLag /\ lag \in 0..MaxLag
  BY DEF TypeOK, Call
<1>2. /\ found \in 0..Capacity /\ lag * Rate \in Nat
      /\ found <= LevelNow[k] /\ LevelNow[k] <= found + lag * Rate
  BY <1>1, KeptLevel
<1>3. LevelNow \in [Keys -> 0..Capacity]
  BY LevelType
<1>4. found - cost \in 0..Capacity /\ found >= cost
  BY <1>2
<1>5. LevelNow' = [LevelNow EXCEPT ![k] = Smaller(Capacity, (found - cost) + lag * Rate)]
  BY <1>1, <1>4, TouchLevel
<1> HIDE DEF found, lag
<1>6. PICK credit \in 0..(lag * Rate) :
        LevelNow[k] - cost + credit = (found - cost) + lag * Rate
  <2> DEFINE level == LevelNow[k]
             gained == lag * Rate
  <2>1. /\ level \in Nat /\ found \in Nat /\ gained \in Nat /\ cost \in Nat
        /\ found <= level /\ level <= found + gained
    BY <1>1, <1>2, <1>3
  <2> HIDE DEF level, gained
  <2>2. \E credit \in 0..gained : level - cost + credit = (found - cost) + gained
    BY <2>1, CreditExists
  <2> QED
    BY <2>2 DEF level, gained
<1>7. LevelNow' = [LevelNow EXCEPT ![k] = Ideal!Smaller(Capacity, LevelNow[k] - cost + credit)]
  BY <1>5, <1>6 DEF Smaller, Ideal!Smaller
<1>8. Ideal!Serve(k, cost, lag)
  BY <1>6, <1>7 DEF Ideal!Serve, lag
<1> QED
  BY <1>1, <1>8 DEF lag

\* Every step of the limiter is a step of the token bucket, or none.
LEMMA StepImplements ==
  ASSUME TypeOK, [Next]_vars
  PROVE  [Ideal!Next]_(Ideal!bucketVars)
<1> USE LimiterAssumption, NoneFacts DEF Ideal!bucketVars
<1>1. ASSUME UNCHANGED <<time, buckets>> PROVE LevelNow' = LevelNow
  BY <1>1 DEF LevelNow
<1>3. ASSUME NEW t \in Threads, ThreadStep(t)
      PROVE  [Ideal!Next]_(Ideal!bucketVars)
  <2> DEFINE k == call[t].key
             now == call[t].now
             lag == time - now
             found == Filled(BucketOf(k, now), now)
  <2>1. CASE (\E j \in Keys : CallAllow(t, j)) \/ CallRetryAfter(t) \/ Refuse(t)
    BY <1>1, <2>1 DEF CallAllow, CallRetryAfter, Refuse
  <2>2. CASE Allow(t)
    <3>1. /\ k \in Keys /\ lag \in 0..MaxLag /\ now \in 0..MaxTime /\ now <= time
          /\ Ideal!Serve(k, Cost, lag)
      BY <2>2, ServeStep DEF Allow
    <3>2. LevelNow[k] >= Cost
      <4>1. found \in 0..Capacity /\ found <= LevelNow[k] /\ LevelNow[k] \in 0..Capacity
        BY <3>1, KeptLevel, LevelType
      <4>2. found >= Cost
        BY <2>2 DEF Allow
      <4> HIDE DEF found
      <4> QED
        BY <4>1, <4>2
    <3>3. Ideal!Admit(k, lag)
      BY <2>2, <3>1, <3>2 DEF Allow, Ideal!Admit
    <3> HIDE DEF k, lag
    <3> QED
      BY <3>1, <3>3 DEF Ideal!Next
  <2>3. CASE Deny(t)
    <3>1. found \in 0..Capacity /\ found < Cost
      <4>1. /\ k \in Keys /\ now \in 0..MaxTime /\ now <= time
        BY <2>3 DEF Deny, TypeOK, Call
      <4> QED
        BY <2>3, <4>1, KeptLevel DEF Deny
    <3>2. found - 0 = found
      <4> HIDE DEF found
      <4> QED
        BY <3>1
    <3>3. /\ k \in Keys /\ lag \in 0..MaxLag /\ now \in 0..MaxTime /\ now <= time
          /\ Ideal!Serve(k, 0, lag)
      <4>1. /\ call[t].pc = "allow" /\ UNCHANGED <<time, since>>
            /\ waited' = [waited EXCEPT ![k] = @ + (time - now)]
            /\ buckets' = [Kept(now) EXCEPT ![k] = [tokens |-> found, updated_at |-> now]]
        BY <2>3 DEF Deny
      <4>2. buckets' = [Kept(now) EXCEPT ![k] = [tokens |-> found - 0, updated_at |-> now]]
        BY <3>2, <4>1
      <4>3. found >= 0
        <5> HIDE DEF found
        <5> QED
          BY <3>1
      <4>4. 0 \in {0, Cost}
        OBVIOUS
      <4> HIDE DEF found
      <4> QED
        BY <4>1, <4>2, <4>3, <4>4, ServeStep DEF found
    <3>4. LevelNow[k] < Cost + lag * Rate
      <4>1. /\ LevelNow[k] <= found + lag * Rate /\ LevelNow[k] \in 0..Capacity
            /\ lag * Rate \in Nat
        BY <3>3, KeptLevel, LevelType
      <4> HIDE DEF found, lag
      <4> QED
        BY <3>1, <4>1
    <3>5. Ideal!Deny(k, lag)
      BY <2>3, <3>3, <3>4 DEF Deny, Ideal!Deny
    <3> HIDE DEF k, lag
    <3> QED
      BY <3>3, <3>5 DEF Ideal!Next
  <2> QED
    BY <1>3, <2>1, <2>2, <2>3 DEF ThreadStep
<1>4. CASE Tick
  <2>1. time' = time + 1 /\ buckets' = buckets /\ time \in Nat
    BY <1>4 DEF Tick, TypeOK
  <2>2. ASSUME NEW k \in Keys
        PROVE  LevelNow'[k] = Smaller(Capacity, LevelNow[k] + Rate)
    <3>1. CASE buckets[k] = None
      BY <2>1, <3>1 DEF LevelNow, Smaller
    <3>2. CASE buckets[k] # None
      <4>1. buckets[k] \in Bucket /\ buckets[k].updated_at <= time
        BY <3>2 DEF TypeOK, Known
      <4> QED
        BY <2>1, <3>2, <4>1, TickLevel DEF LevelNow
    <3> QED
      BY <3>1, <3>2
  <2>3. LevelNow' = [k \in Keys |-> Smaller(Capacity, LevelNow[k] + Rate)]
    BY <2>2 DEF LevelNow
  <2>4. Ideal!Tick
    BY <1>4, <2>3 DEF Tick, Ideal!Tick, Ideal!Smaller, Smaller
  <2> QED
    BY <2>4 DEF Ideal!Next
<1>5. CASE OpenWindow
  BY <1>1, <1>5 DEF OpenWindow, Ideal!Next, Ideal!OpenWindow
<1>6. CASE UNCHANGED vars
  BY <1>1, <1>6 DEF vars
<1> QED
  BY <1>3, <1>4, <1>5, <1>6 DEF Next

\* The limiter is a token bucket per key that fills with time, and credits to
\* late requests no more than what came in while they waited.
THEOREM Implementation == Spec => ImplementsTokenBucket
<1>1. Init => Ideal!Init
  BY NoneFacts DEF Init, Ideal!Init, LevelNow
<1>2. TypeOK /\ [Next]_vars => [Ideal!Next]_(Ideal!bucketVars)
  BY StepImplements
<1> QED
  BY <1>1, <1>2, TypeCorrect, PTL DEF Spec, ImplementsTokenBucket, Ideal!Spec

-----------------------------------------------------------------------------
(* A burst and the sustained rate bound what any window admits *)

\* What a window's requests cost and what is left was there when it opened, came
\* with the ticks since, or was credited to requests that waited.
Paid ==
  \A k \in Keys :
    admitted[k] * Cost + LevelNow[k] <= Capacity + (time - since + waited[k]) * Rate

\* A request takes its cost, and gets no more than its wait.
LEMMA ServeBounds ==
  ASSUME LevelNow \in [Keys -> 0..Capacity], NEW j \in Keys, NEW cost \in {0, Cost},
         NEW lag \in Nat, LevelNow[j] >= cost, Ideal!Serve(j, cost, lag)
  PROVE  /\ lag * Rate \in Nat /\ LevelNow'[j] \in 0..Capacity
         /\ LevelNow'[j] <= (LevelNow[j] - cost) + lag * Rate
         /\ LevelNow'[j] >= LevelNow[j] - cost
         /\ \A k \in Keys \ {j} : LevelNow'[k] = LevelNow[k]
<1> USE LimiterAssumption
<1>1. lag * Rate \in Nat
  BY OneMoreTick
<1>2. PICK credit \in 0..(lag * Rate) :
        LevelNow' = [LevelNow EXCEPT ![j] = Ideal!Smaller(Capacity, LevelNow[j] - cost + credit)]
  BY DEF Ideal!Serve
<1>3. LevelNow'[j] = Ideal!Smaller(Capacity, LevelNow[j] - cost + credit)
  BY <1>2
<1>4. \A k \in Keys \ {j} : LevelNow'[k] = LevelNow[k]
  BY <1>2
<1> DEFINE gained == lag * Rate
           level == LevelNow[j]
           new == LevelNow'[j]
<1>5. /\ gained \in Nat /\ level \in 0..Capacity /\ credit \in 0..gained /\ level >= cost
      /\ new = Ideal!Smaller(Capacity, level - cost + credit)
  BY <1>1, <1>3
<1> HIDE DEF gained, level, new
<1>6. new \in 0..Capacity /\ new <= (level - cost) + gained /\ new >= level - cost
  BY <1>5 DEF Ideal!Smaller
<1> QED
  BY <1>1, <1>4, <1>6 DEF gained, level, new

LEMMA PaidStep ==
  ASSUME TypeOK, TypeOK', Paid, [Next]_vars
  PROVE  Paid'
<1> USE LimiterAssumption
<1>1. /\ LevelNow \in [Keys -> 0..Capacity] /\ time \in Nat
      /\ since \in Nat /\ admitted \in [Keys -> Nat] /\ waited \in [Keys -> Nat]
      /\ time - since \in Nat
  BY LevelType DEF TypeOK
<1>2. SUFFICES ASSUME NEW k \in Keys
               PROVE  admitted'[k] * Cost + LevelNow'[k]
                        <= Capacity + (time' - since' + waited'[k]) * Rate
  BY DEF Paid
<1> DEFINE d == time - since + waited[k]
           spent == admitted[k] * Cost
<1>3. /\ spent + LevelNow[k] <= Capacity + d * Rate
      /\ d \in Nat /\ spent \in Nat /\ d * Rate \in Nat /\ LevelNow[k] \in Nat
  BY <1>1, OneMoreTick DEF Paid
<1>4. [Ideal!Next]_(Ideal!bucketVars)
  BY StepImplements
<1>5. CASE Ideal!Tick
  <2>1. /\ time' = time + 1 /\ since' = since /\ admitted' = admitted /\ waited' = waited
        /\ LevelNow'[k] = Smaller(Capacity, LevelNow[k] + Rate)
    BY <1>1, <1>5 DEF Ideal!Tick, Ideal!Smaller, Smaller
  <2>2. LevelNow'[k] <= LevelNow[k] + Rate /\ LevelNow'[k] \in Nat
    BY <1>3, <2>1 DEF Smaller
  <2>3. (d + 1) * Rate = d * Rate + Rate
    BY <1>3, OneMoreTick
  <2>4. time' - since' + waited'[k] = d + 1 /\ admitted'[k] * Cost = spent
    BY <1>1, <2>1
  <2> HIDE DEF d, spent
  <2>5. spent + LevelNow'[k] <= Capacity + (d * Rate + Rate)
    BY <1>3, <2>2
  <2> QED
    BY <2>3, <2>4, <2>5
<1>6. CASE Ideal!OpenWindow
  <2>1. /\ admitted'[k] = 0 /\ waited'[k] = 0 /\ time' - since' + waited'[k] = 0
        /\ LevelNow'[k] \in 0..Capacity
    BY <1>1, <1>6 DEF Ideal!OpenWindow
  <2>2. admitted'[k] * Cost = 0 /\ (time' - since' + waited'[k]) * Rate = 0
    BY <2>1
  <2> QED
    BY <2>1, <2>2
<1>7. ASSUME NEW j \in Keys, NEW lag \in 0..MaxLag, Ideal!Admit(j, lag) \/ Ideal!Deny(j, lag)
      PROVE  admitted'[k] * Cost + LevelNow'[k]
               <= Capacity + (time' - since' + waited'[k]) * Rate
  <2>1. PICK cost \in {0, Cost}, n \in {0, 1} :
          /\ Ideal!Serve(j, cost, lag) /\ LevelNow[j] >= cost
          /\ admitted' = [admitted EXCEPT ![j] = @ + n]
          /\ n = 1 => cost = Cost
          /\ n = 0 => cost = 0
    <3>1. CASE Ideal!Admit(j, lag)
      <4>1. /\ Ideal!Serve(j, Cost, lag) /\ LevelNow[j] >= Cost
            /\ admitted' = [admitted EXCEPT ![j] = @ + 1]
        BY <3>1 DEF Ideal!Admit
      <4> QED
        BY <4>1
    <3>2. CASE Ideal!Deny(j, lag)
      <4>1. Ideal!Serve(j, 0, lag) /\ admitted' = admitted
        BY <3>2 DEF Ideal!Deny
      <4>2. LevelNow[j] >= 0 /\ admitted' = [admitted EXCEPT ![j] = @ + 0]
        BY <1>1, <4>1
      <4>3. 0 \in {0, Cost} /\ 0 \in {0, 1} /\ 0 # 1
        OBVIOUS
      <4> QED
        BY <4>1, <4>2, <4>3, Zenon
    <3> QED
      BY <1>7, <3>1, <3>2
  <2>2. /\ time' = time /\ since' = since /\ waited' = [waited EXCEPT ![j] = @ + lag]
    BY <2>1 DEF Ideal!Serve
  <2>3. CASE j = k
    <3>1. admitted'[k] * Cost = spent + cost
      <4>1. admitted'[k] = admitted[k] + n
        BY <1>1, <2>1, <2>3
      <4>2. (admitted[k] + 1) * Cost = admitted[k] * Cost + Cost
        BY <1>1, OneMoreTick
      <4>3. CASE n = 1
        BY <2>1, <4>1, <4>2, <4>3
      <4>4. CASE n = 0
        <5>1. admitted'[k] = admitted[k] /\ cost = 0
          BY <1>1, <2>1, <4>1, <4>4
        <5> QED
          BY <1>3, <5>1
      <4> QED
        BY <4>3, <4>4
    <3>2. /\ LevelNow'[k] \in 0..Capacity /\ LevelNow'[k] <= (LevelNow[k] - cost) + lag * Rate
          /\ lag * Rate \in Nat
      BY <1>1, <2>1, <2>3, ServeBounds
    <3>3. time' - since' + waited'[k] = d + lag
      BY <1>1, <2>2, <2>3
    <3>4. (d + lag) * Rate = d * Rate + lag * Rate
      <4> HIDE DEF d
      <4> QED
        BY <1>3
    <3> HIDE DEF d, spent
    <3>5. cost \in Nat
      BY <2>1
    <3>6. (spent + cost) + LevelNow'[k] <= Capacity + (d * Rate + lag * Rate)
      <4> DEFINE gained == lag * Rate
                 paid == d * Rate
      <4>1. /\ gained \in Nat /\ paid \in Nat /\ spent \in Nat /\ LevelNow'[k] \in Nat
            /\ LevelNow[k] \in Nat
            /\ spent + LevelNow[k] <= Capacity + paid
            /\ LevelNow'[k] <= (LevelNow[k] - cost) + gained
        BY <1>3, <3>2
      <4> HIDE DEF gained, paid
      <4>2. (spent + cost) + LevelNow'[k] <= Capacity + (paid + gained)
        BY <3>5, <4>1
      <4> QED
        BY <4>2 DEF gained, paid
    <3> QED
      BY <3>1, <3>3, <3>4, <3>6
  <2>4. CASE j # k
    <3>1. LevelNow'[k] = LevelNow[k] /\ admitted'[k] = admitted[k] /\ waited'[k] = waited[k]
      BY <1>1, <2>1, <2>2, <2>4, ServeBounds
    <3> QED
      BY <1>3, <2>2, <3>1
  <2> QED
    BY <2>3, <2>4
<1>8. CASE UNCHANGED Ideal!bucketVars
  BY <1>3, <1>8 DEF Ideal!bucketVars
<1> QED
  BY <1>4, <1>5, <1>6, <1>7, <1>8 DEF Ideal!Next

\* In any window of time no key is admitted more often than its burst, and the
\* rate in the window and in the time its requests waited, allow.
THEOREM NeverMoreThanTheRate == Spec => []SustainedRate
<1>1. Init => Paid
  <2> SUFFICES ASSUME Init PROVE Paid
    OBVIOUS
  <2>1. ASSUME NEW k \in Keys
        PROVE  /\ admitted[k] = 0 /\ time - since + waited[k] = 0
               /\ LevelNow[k] = Capacity
    BY <2>1 DEF Init, LevelNow
  <2>2. 0 * Cost = 0 /\ 0 * Rate = 0
    BY LimiterAssumption
  <2> QED
    BY <2>1, <2>2, LimiterAssumption DEF Paid
<1>2. TypeOK /\ TypeOK' /\ Paid /\ [Next]_vars => Paid'
  BY PaidStep
<1>3. TypeOK /\ Paid => SustainedRate
  <2> SUFFICES ASSUME TypeOK, Paid, NEW k \in Keys
               PROVE  admitted[k] * Cost <= Capacity + (time - since + waited[k]) * Rate
    BY DEF SustainedRate, Ideal!SustainedRate
  <2>1. LevelNow[k] \in Nat
    BY LevelType, LimiterAssumption
  <2>2. admitted[k] * Cost \in Nat /\ (time - since + waited[k]) * Rate \in Nat
    <3>1. admitted[k] \in Nat /\ time - since + waited[k] \in Nat
      BY DEF TypeOK
    <3> QED
      BY <3>1, LimiterAssumption, OneMoreTick
  <2>3. admitted[k] * Cost + LevelNow[k] <= Capacity + (time - since + waited[k]) * Rate
    BY DEF Paid
  <2> QED
    BY <2>1, <2>2, <2>3, LimiterAssumption
<1> QED
  BY <1>1, <1>2, <1>3, TypeCorrect, PTL DEF Spec

-----------------------------------------------------------------------------
(* Retry-After *)

\* One more than the truncated quotient is enough.
LEMMA QuotientCovers ==
  ASSUME NEW n \in Nat, NEW r \in Nat, r > 0
  PROVE  n \div r + 1 \in Nat /\ (n \div r + 1) * r >= n
<1> DEFINE q == n \div r
<1>1. q \in Nat /\ q * r <= n /\ n < (q + 1) * r
  OBVIOUS
<1> QED
  BY <1>1

\* With so much at time "now", and if nobody takes any, there is enough for a
\* request at time p.
Enough(level, now, p) ==
  IF now >= p THEN level >= Cost ELSE level + (p - now) * Rate >= Cost

PromisesKept ==
  \A k \in Keys : promise[k] # None => Enough(LevelNow[k], time, promise[k])

\* A step in which no request of key k is admitted keeps what was promised.
LEMMA EnoughKept ==
  ASSUME TypeOK, [Next]_vars, NEW k \in Keys, NEW p \in Nat,
         Enough(LevelNow[k], time, p), admitted'[k] \in {admitted[k], 0}
  PROVE  Enough(LevelNow'[k], time', p)
<1> USE LimiterAssumption
<1>1. /\ LevelNow \in [Keys -> 0..Capacity] /\ time \in Nat
      /\ admitted \in [Keys -> Nat]
  BY LevelType DEF TypeOK
<1>2. [Ideal!Next]_(Ideal!bucketVars)
  BY StepImplements
<1>3. CASE Ideal!Tick
  <2>1. /\ time' = time + 1
        /\ LevelNow'[k] = Smaller(Capacity, LevelNow[k] + Rate)
    BY <1>1, <1>3 DEF Ideal!Tick, Ideal!Smaller, Smaller
  <2>2. LevelNow[k] \in 0..Capacity /\ LevelNow'[k] \in 0..Capacity
    BY <1>1, <2>1 DEF Smaller
  <2>3. CASE LevelNow'[k] = Capacity
    <3>1. LevelNow'[k] >= Cost
      BY <2>3
    <3>2. ~(time' >= p) => (p - time') * Rate \in Nat
      <4>1. ~(time' >= p) => p - time' \in Nat
        BY <1>1, <2>1
      <4> QED
        BY <4>1, OneMoreTick
    <3> QED
      BY <2>2, <3>1, <3>2 DEF Enough
  <2>4. CASE LevelNow'[k] = LevelNow[k] + Rate
    <3>1. CASE time >= p
      BY <1>1, <2>1, <2>2, <2>4, <3>1 DEF Enough
    <3>2. CASE ~(time >= p)
      <4> DEFINE d == p - time - 1
      <4>1. d \in Nat /\ p - time = d + 1 /\ p - time' = d
        BY <1>1, <2>1, <3>2
      <4>2. (d + 1) * Rate = d * Rate + Rate /\ d * Rate \in Nat
        BY <4>1, OneMoreTick
      <4>3. LevelNow[k] + (d + 1) * Rate >= Cost
        BY <3>2, <4>1 DEF Enough
      <4>4. time' >= p => d * Rate = 0
        BY <1>1, <2>1, <4>1
      <4> HIDE DEF d
      <4>5. LevelNow'[k] + d * Rate >= Cost
        BY <2>2, <2>4, <4>2, <4>3
      <4> QED
        BY <2>2, <4>1, <4>4, <4>5 DEF Enough
    <3> QED
      BY <3>1, <3>2
  <2> QED
    BY <2>1, <2>2, <2>3, <2>4 DEF Smaller
<1>4. CASE ~Ideal!Tick
  <2>1. time' = time /\ LevelNow'[k] >= LevelNow[k] /\ LevelNow'[k] \in 0..Capacity
    <3>0. LevelNow[k] \in 0..Capacity
      BY <1>1
    <3>1. CASE Ideal!OpenWindow
      BY <3>0, <3>1 DEF Ideal!OpenWindow
    <3>2. ASSUME NEW j \in Keys, NEW lag \in 0..MaxLag, Ideal!Admit(j, lag)
          PROVE  time' = time /\ LevelNow'[k] >= LevelNow[k] /\ LevelNow'[k] \in 0..Capacity
      <4>1. /\ admitted' = [admitted EXCEPT ![j] = @ + 1] /\ Ideal!Serve(j, Cost, lag)
            /\ LevelNow[j] >= Cost
        BY <3>2 DEF Ideal!Admit
      <4>2. j # k
        BY <1>1, <4>1
      <4>3. LevelNow'[k] = LevelNow[k]
        BY <1>1, <4>1, <4>2, ServeBounds
      <4> QED
        BY <3>0, <4>1, <4>3 DEF Ideal!Serve
    <3>3. ASSUME NEW j \in Keys, NEW lag \in 0..MaxLag, Ideal!Deny(j, lag)
          PROVE  time' = time /\ LevelNow'[k] >= LevelNow[k] /\ LevelNow'[k] \in 0..Capacity
      <4>1. Ideal!Serve(j, 0, lag) /\ LevelNow[j] >= 0 /\ LevelNow[j] \in Nat
        BY <1>1, <3>3 DEF Ideal!Deny
      <4>2. /\ LevelNow'[j] >= LevelNow[j] - 0 /\ LevelNow'[j] \in 0..Capacity
            /\ k # j => LevelNow'[k] = LevelNow[k]
        BY <1>1, <4>1, ServeBounds
      <4> QED
        BY <3>0, <4>1, <4>2 DEF Ideal!Serve
    <3>4. CASE UNCHANGED Ideal!bucketVars
      BY <3>0, <3>4 DEF Ideal!bucketVars
    <3> QED
      BY <1>2, <1>4, <3>1, <3>2, <3>3, <3>4 DEF Ideal!Next
  <2>2. ~(time >= p) => (p - time) * Rate \in Nat
    <3>1. ~(time >= p) => p - time \in Nat
      BY <1>1
    <3> QED
      BY <3>1, OneMoreTick
  <2>3. LevelNow[k] \in 0..Capacity
    BY <1>1
  <2> QED
    BY <2>1, <2>2, <2>3 DEF Enough
<1> QED
  BY <1>3, <1>4

\* The header that a refused request gets is long enough, though it is worked
\* out from an older time.
LEMMA WaitIsEnough ==
  ASSUME TypeOK, NEW k \in Keys, NEW now \in 0..MaxTime, now <= time
  PROVE  /\ Wait(k, now) \in Nat
         /\ Enough(LevelNow[k], time, time + Wait(k, now))
<1> USE LimiterAssumption, NoneFacts
<1> DEFINE w == Wait(k, now)
           a == IF buckets[k] = None THEN Capacity ELSE Filled(buckets[k], now)
<1>1. a \in 0..Capacity /\ time \in Nat /\ LevelNow[k] \in 0..Capacity /\ a <= LevelNow[k]
  <2>1. LevelNow[k] \in 0..Capacity /\ time \in 0..MaxTime
    BY LevelType DEF TypeOK
  <2>2. CASE buckets[k] = None
    BY <2>1, <2>2 DEF LevelNow
  <2>3. CASE buckets[k] # None
    <3>1. buckets[k] \in Bucket
      BY <2>3 DEF TypeOK
    <3> QED
      BY <2>1, <2>3, <3>1, FilledLater DEF LevelNow
  <2> QED
    BY <2>2, <2>3
<1>2. w = IF a >= Cost THEN 1 ELSE (Cost - a) \div Rate + 1
  BY DEF Wait
<1> HIDE DEF w, a
<1>3. w \in Nat /\ w > 0 /\ a + w * Rate >= Cost
  <2>1. CASE a >= Cost
    <3>1. w = 1 /\ w * Rate = Rate
      BY <1>2, <2>1
    <3> QED
      BY <1>1, <2>1, <3>1
  <2>2. CASE ~(a >= Cost)
    <3>1. Cost - a \in Nat /\ (Cost - a) \div Rate \in Nat
      BY <1>1, <2>2
    <3>2. w * Rate >= Cost - a
      BY <1>2, <2>2, <3>1, QuotientCovers
    <3>3. w * Rate \in Nat
      BY <1>2, <2>2, <3>1, OneMoreTick
    <3> QED
      BY <1>1, <1>2, <2>2, <3>1, <3>2, <3>3
  <2> QED
    BY <2>1, <2>2
<1>4. ~(time >= time + w) /\ (time + w) - time = w
  BY <1>1, <1>3
<1>5. LevelNow[k] + w * Rate >= Cost
  <2>1. w * Rate \in Nat
    BY <1>3, OneMoreTick
  <2> QED
    BY <1>1, <1>3, <2>1
<1> QED
  BY <1>3, <1>4, <1>5 DEF Enough, w

LEMMA PromisesStep ==
  ASSUME TypeOK, TypeOK', PromisesKept, [Next]_vars
  PROVE  PromisesKept'
<1> USE LimiterAssumption, NoneFacts
<1> SUFFICES ASSUME NEW k \in Keys, promise'[k] # None
             PROVE  Enough(LevelNow'[k], time', promise'[k])
  BY DEF PromisesKept
<1>0. /\ promise \in [Keys -> Nat \cup {None}]
      /\ promise' \in [Keys -> Nat \cup {None}]
      /\ admitted \in [Keys -> Nat]
  BY DEF TypeOK
<1>1. CASE promise'[k] = promise[k]
  <2>1. /\ Enough(LevelNow[k], time, promise'[k]) /\ promise'[k] \in Nat
    BY <1>0, <1>1 DEF PromisesKept
  <2>2. admitted'[k] \in {admitted[k], 0}
    <3>1. ASSUME NEW t \in Threads, Allow(t) PROVE call[t].key # k
      BY <1>0, <1>1, <3>1 DEF Allow
    <3>2. ASSUME NEW t \in Threads, ThreadStep(t) PROVE admitted'[k] = admitted[k]
      BY <1>0, <3>1, <3>2 DEF ThreadStep, CallAllow, Allow, Deny, CallRetryAfter, Refuse
    <3> QED
      BY <1>0, <3>2 DEF Next, Tick, OpenWindow, vars
  <2> QED
    BY <2>1, <2>2, EnoughKept
<1>2. CASE promise'[k] # promise[k]
  <2>1. PICK t \in Threads : Refuse(t)
    <3>1. ASSUME NEW t \in Threads PROVE ~Allow(t)
      BY <1>0, <1>2 DEF Allow
    <3> QED
      BY <1>2, <3>1 DEF Next, ThreadStep, CallAllow, Deny, CallRetryAfter, Tick,
         OpenWindow, vars
  <2>2. call[t].key = k
    BY <1>0, <1>2, <2>1 DEF Refuse
  <2>3. /\ promise'[k] = time + Wait(k, call[t].now)
        /\ call[t].now \in 0..MaxTime /\ call[t].now <= time
    <3>1. promise'[k] = time + Wait(k, call[t].now)
      BY <1>0, <1>2, <2>1, <2>2 DEF Refuse, Smaller
    <3> QED
      BY <2>1, <3>1 DEF Refuse, TypeOK, Call
  <2>4. LevelNow' = LevelNow /\ time' = time
    BY <2>1 DEF Refuse, LevelNow
  <2> QED
    BY <2>3, <2>4, WaitIsEnough
<1> QED
  BY <1>1, <1>2

\* Whoever stays away for his Retry-After, while nobody else's request with his
\* key is admitted, is admitted, however late the thread was that told him.
THEOREM RefusedMayReturn == Spec => []RetryAfterHonest
<1>1. Init => PromisesKept
  BY DEF Init, PromisesKept
<1>2. TypeOK /\ TypeOK' /\ PromisesKept /\ [Next]_vars => PromisesKept'
  BY PromisesStep
<1>3. PromisesKept => RetryAfterHonest
  BY DEF PromisesKept, RetryAfterHonest, Enough
<1> QED
  BY <1>1, <1>2, <1>3, TypeCorrect, PTL DEF Spec

=============================================================================
