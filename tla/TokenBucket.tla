---------------------------- MODULE TokenBucket ----------------------------
(***************************************************************************)
(* What api/ratelimit.py promises of each key: a bucket of Capacity that   *)
(* fills at Rate per tick of the clock and pays Cost for every request it  *)
(* admits.  "capacity is the burst size; refill_per_second is the          *)
(* sustained rate."  A request is judged by the time it came, and what it  *)
(* waited for its turn may be credited to its key once more.               *)
(*                                                                         *)
(* Levels are in units of which a request costs Cost, so that the rates of *)
(* the named limiters (20/300 a second, 5/3600 a second) are whole.        *)
(***************************************************************************)
EXTENDS Naturals

CONSTANTS Keys,      \* addresses and accounts that are limited
          Capacity,  \* units in a full bucket
          Rate,      \* units refilled in a tick
          Cost,      \* units of one request
          MaxTime,   \* bound: ticks the clock makes
          MaxLag     \* bound: ticks that a request waits for its turn

VARIABLES
  time,      \* the monotonic clock
  level,     \* units in each key's bucket now
  since,     \* time at which the observed window opened
  admitted,  \* requests of a key admitted in that window
  waited     \* ticks that its requests waited in that window

bucketVars == <<time, level, since, admitted, waited>>

Smaller(a, b) == IF a <= b THEN a ELSE b

Init ==
  /\ time = 0
  /\ level = [k \in Keys |-> Capacity]
  /\ since = 0
  /\ admitted = [k \in Keys |-> 0]
  /\ waited = [k \in Keys |-> 0]

Tick ==
  /\ time < MaxTime
  /\ time' = time + 1
  /\ level' = [k \in Keys |-> Smaller(Capacity, level[k] + Rate)]
  /\ UNCHANGED <<since, admitted, waited>>

\* The observer starts to count requests anew, once a tick.
OpenWindow ==
  /\ since < time /\ since' = time
  /\ admitted' = [k \in Keys |-> 0] /\ waited' = [k \in Keys |-> 0]
  /\ UNCHANGED <<time, level>>

\* A request that waited "lag" ticks is served.
Serve(k, cost, lag) ==
  /\ \E credit \in 0..(lag * Rate) :
       level' = [level EXCEPT ![k] = Smaller(Capacity, @ - cost + credit)]
  /\ waited' = [waited EXCEPT ![k] = @ + lag]
  /\ UNCHANGED <<time, since>>

Admit(k, lag) ==
  /\ level[k] >= Cost
  /\ Serve(k, Cost, lag)
  /\ admitted' = [admitted EXCEPT ![k] = @ + 1]

\* It is refused only if its key was short when it came.
Deny(k, lag) ==
  /\ level[k] < Cost + lag * Rate
  /\ Serve(k, 0, lag)
  /\ UNCHANGED admitted

Next ==
  \/ Tick \/ OpenWindow
  \/ \E k \in Keys, lag \in 0..MaxLag : Admit(k, lag) \/ Deny(k, lag)

Spec == Init /\ [][Next]_bucketVars

-----------------------------------------------------------------------------

\* In any window of time a key is admitted no more than a burst and what the
\* sustained rate adds in the window and in the time its requests waited.
SustainedRate ==
  \A k \in Keys :
    admitted[k] * Cost <= Capacity + (time - since + waited[k]) * Rate

=============================================================================
