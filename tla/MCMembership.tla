---------------------------- MODULE MCMembership ----------------------------
(* Values for the constants of Membership.                                 *)
EXTENDS Membership, TLC

CONSTANTS u1, u2, u3, r1, r2

Symmetry == Permutations({u1, u2, u3}) \cup Permutations({r1, r2})
=============================================================================
