----------------------------- MODULE MCAccounts -----------------------------
(* Values for the constants of Accounts.                                   *)
EXTENDS Accounts, TLC

CONSTANTS p1, p2, s1, s2, a1, k1, k2, v1, r1, r2

Symmetry == Permutations({r1, r2})
=============================================================================
