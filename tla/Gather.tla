------------------------------- MODULE Gather -------------------------------
(***************************************************************************)
(* How a hunt reads many web sites at once: gather_limited (hunter/sources *)
(* /base.py) runs one task for each funder (us_foundations.py), later one  *)
(* for each portal of a state (state_local_scraper.py), a few at a time.   *)
(***************************************************************************)
EXTENDS Naturals, FiniteSets

CONSTANTS Foundations, StatePortals,
          ListedAt,       \* by site, the opportunities that can be found there
          Plain,          \* sites to ask without a browser first
          MaxConcurrency

Sites == Foundations \cup StatePortals

ASSUME GatherAssumption ==
  /\ Foundations \cap StatePortals = {} /\ Plain \subseteq Sites
  /\ DOMAIN ListedAt = Sites
  /\ MaxConcurrency \in Nat \ {0} /\ IsFiniteSet(Sites)

VARIABLE tasks

\* "plain" and "browser": the task holds the semaphore and waits for an answer.
Task == [pc : {"absent", "waiting", "plain", "browser", "done", "failed"},
         got : SUBSET UNION {ListedAt[s] : s \in Sites}]

NoTasks == [s \in Sites |-> [pc |-> "absent", got |-> {}]]

Gather(sites) ==
  [s \in Sites |-> [pc |-> IF s \in sites THEN "waiting" ELSE "absent", got |-> {}]]

AllEnded == \A s \in Sites : tasks[s].pc \in {"absent", "done", "failed"}

Gathered == UNION {tasks[s].got : s \in Sites}

\* Faulty variant of InFlight: a task that raised keeps its slot.
InFlightOrFailed == {s \in Sites : tasks[s].pc \in {"plain", "browser", "failed"}}

InFlight == {s \in Sites : tasks[s].pc \in {"plain", "browser"}}

Becomes(s, pc, got) == tasks' = [tasks EXCEPT ![s] = [pc |-> pc, got |-> got]]

Begin(s) ==
  /\ tasks[s].pc = "waiting" /\ Cardinality(InFlight) < MaxConcurrency
  /\ Becomes(s, IF s \in Plain THEN "plain" ELSE "browser", {})

\* What a page may give: at a portal the records of its JSON-LD, else of
\* __NEXT_DATA__, else of its links; at a funder those of a feed, which only
\* counts with records in it, or of a listing.
PortalPage(s) == SUBSET ListedAt[s]

Feed(s) == (SUBSET ListedAt[s]) \ {{}}

Listing(s) == SUBSET ListedAt[s]

PlainAnswer(s) ==
  /\ tasks[s].pc = "plain"
  /\ \E hits \in IF s \in Foundations THEN Feed(s) ELSE PortalPage(s) :
       Becomes(s, "done", hits)

\* No page (retries used up, a refusal), or a feed that is none.
PlainNothing(s) == tasks[s].pc = "plain" /\ Becomes(s, "browser", {})

\* The browser gives a page or, after its timeout, none: that is no error.
BrowserAnswer(s) ==
  /\ tasks[s].pc = "browser"
  /\ \E hits \in IF s \in Foundations THEN Listing(s) ELSE PortalPage(s) :
       Becomes(s, "done", hits)

\* The task raises: its result is None, the slot is free again.
Raise(s) ==
  /\ tasks[s].pc \in {"plain", "browser"}
  /\ Becomes(s, "failed", {})

GatherStep ==
  \E s \in Sites :
    Begin(s) \/ PlainAnswer(s) \/ PlainNothing(s) \/ BrowserAnswer(s) \/ Raise(s)

GatherTypeOK == tasks \in [Sites -> Task]
=============================================================================
