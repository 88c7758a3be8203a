----------------------------- MODULE GrantStore -----------------------------
(***************************************************************************)
(* What the grants table promises its readers, whoever writes it: a grant  *)
(* that was found once stays, keeps the source it was found in first, and  *)
(* an amount that is known does not become unknown again.                  *)
(***************************************************************************)
CONSTANTS Opps, Sources, Amounts, None

VARIABLE store

Row == [source : Sources, amount : Amounts \cup {None}]

Init == store \in [Opps -> Row \cup {None}]

\* A row may become another.
Keeps(old, new) ==
  \/ new = old
  \/ old = None /\ new \in Row
  \/ /\ old # None /\ new \in Row /\ new.source = old.source
     /\ old.amount # None => new.amount # None

Learn ==
  /\ store' \in [Opps -> Row \cup {None}]
  /\ \A o \in Opps : Keeps(store[o], store'[o])

Spec == Init /\ [][Learn]_store
=============================================================================
