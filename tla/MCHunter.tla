------------------------------ MODULE MCHunter ------------------------------
(* Values for the constants of Hunter.                                     *)
EXTENDS Hunter, TLC

CONSTANTS o1, o2, o3, o4, o5, f1, f2, p1, p2, p3

\* The fifth is only at a state portal, the first is everywhere.
MCListedAt ==
  [s \in Sites |-> IF s = p2 THEN {o5} ELSE {o1}]

\* Two full pages of two; a fifth opportunity may be added.
MCFirstListed == <<o1, o2, o3, o4>>

\* Only the first comes with an amount.
MCAmountOf == [o \in Opps |-> IF o = o1 THEN 1 ELSE None]

\* Two are known from a portal, without and with an amount.
MCFirstGrants ==
  [o \in Opps |-> IF o = o1 THEN [source |-> "states", amount |-> None]
                  ELSE IF o = o2 THEN [source |-> "states", amount |-> 1] ELSE None]
=============================================================================
