----------------------------- MODULE MCWorkspace -----------------------------
(* Values for the constants of Workspace.                                  *)
EXTENDS Workspace, TLC

CONSTANTS d1, d2, k1, k2, r1, r2, acme

\* The second document leaves the name out.
MCNameOf == (d1 :> acme) @@ (d2 :> None)
=============================================================================
