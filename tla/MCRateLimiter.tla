--------------------------- MODULE MCRateLimiter ---------------------------
(* Values for the constants of RateLimiter: a burst of two requests, and a *)
(* rate that refills one and a half requests in a tick.                    *)
EXTENDS RateLimiter, TLC

CONSTANTS k1, k2, t1, t2

Alike == Permutations({k1, k2}) \cup Permutations({t1, t2})

=============================================================================
