------------------------------- MODULE Hunter -------------------------------
(***************************************************************************)
(* A hunt (hunter/scheduler.py): it reads the federal sources, one of them *)
(* followed page by page (Paging), then the foundations, then the state    *)
(* portals (Gather), stores what it found in one transaction               *)
(* (persistence.py) and records the run in another.  Hunts of one          *)
(* scheduler do not overlap; another process (the command line) may be     *)
(* hunting at the same time.                                               *)
(***************************************************************************)
EXTENDS Paging, Gather

CONSTANTS Amounts,     \* award amounts
          AmountOf,    \* what the followed source says, None if it does not
          FirstGrants, \* the grants rows that earlier hunts left
          MaxHunts,    \* bound: hunts of the scheduler
          MaxRivals    \* bound: transactions of other hunting processes

Sources == {"federal", "foundations", "states"}

ASSUME HunterAssumption ==
  /\ ListedAt \in [Sites -> SUBSET Opps]
  /\ None \notin Amounts /\ AmountOf \in [Opps -> Amounts \cup {None}]
  /\ MaxHunts \in Nat /\ MaxRivals \in Nat
  /\ None \notin [source : Sources, amount : Amounts \cup {None}]
  /\ FirstGrants \in
       [Opps -> [source : Sources, amount : Amounts \cup {None}] \cup {None}]

VARIABLES
  grants,   \* committed grants rows, by dedupe_hash
  hunt,     \* the scheduler's hunt
  runs,     \* the last hunter_runs row
  hunts,    \* hunts begun
  heard,    \* observer: every record some source returned to this hunt
  rivals    \* transactions other processes committed

vars == <<pagingVars, tasks, grants, hunt, runs, hunts, heard, rivals>>

Row == [source : Sources, amount : Amounts \cup {None}]

Errors == Sources \cup {"persistence"}

\* Records, by dedupe_hash.
Batch == [Opps -> Row \cup {None}]

\* batch  the records found, the first of each hash
\* seen   the rows persist_records found for them
Hunt == [pc : {"idle", "federal", "foundations", "states", "persist", "store",
               "record"},
         batch : Batch, seen : Batch,
         errors : SUBSET Errors]

Nothing == [o \in Opps |-> None]

NoHunt == [pc |-> "idle", batch |-> Nothing, seen |-> Nothing, errors |-> {}]

Init ==
  /\ PagingInit /\ tasks = NoTasks
  /\ grants = FirstGrants /\ hunt = NoHunt /\ runs = None /\ hunts = 0
  /\ heard = {} /\ rivals = 0

-----------------------------------------------------------------------------

Moves(record) ==
  /\ hunt' = record
  /\ UNCHANGED <<grants, runs, hunts, rivals>>

\* A tick of the interval, with max_instances=1 and coalesce.
Tick(dialect) ==
  /\ hunt.pc = "idle" /\ hunts < MaxHunts
  /\ hunts' = hunts + 1 /\ hunt' = [NoHunt EXCEPT !.pc = "federal"]
  /\ StartFetch(dialect) /\ heard' = {}
  /\ UNCHANGED <<tasks, grants, runs, rivals>>

\* The page loop goes on, or the source changes under it.
ReadFederal ==
  /\ hunt.pc = "federal" /\ Respond
  /\ heard' = heard \cup fetch'.got
  /\ Moves([hunt EXCEPT !.errors = IF fetch'.end = "error" THEN {"federal"} ELSE {}])
  /\ UNCHANGED tasks

SourceMoves ==
  SourceChanges /\ UNCHANGED <<tasks, grants, hunt, runs, hunts, heard, rivals>>

\* Portals rarely name an amount.
RecordOf(source, o) ==
  [source |-> source, amount |-> IF source = "federal" THEN AmountOf[o] ELSE None]

\* The first record of each hash stays: persist_records skips the later ones.
Extended(batch, source, found) ==
  [o \in Opps |-> IF o \in found /\ batch[o] = None THEN RecordOf(source, o)
                  ELSE batch[o]]

EndFederal ==
  /\ hunt.pc = "federal" /\ fetch.pc = "done"
  /\ Moves([hunt EXCEPT !.pc = "foundations",
                        !.batch = Extended(@, "federal", fetch.got)])
  /\ tasks' = Gather(Foundations)
  /\ EndFetch /\ UNCHANGED heard

ReadSites ==
  /\ hunt.pc \in {"foundations", "states"} /\ GatherStep
  /\ heard' = heard \cup UNION {tasks'[s].got : s \in Sites}
  /\ UNCHANGED <<pagingVars, hunt, grants, runs, hunts, rivals>>

\* Tasks that raised are errors of their source, and no more than that.
\* Faulty variant of Kept: one that raises takes the others with it.
KeptIfNoneFailed ==
  IF \E s \in Sites : tasks[s].pc = "failed" THEN {} ELSE Gathered

Kept == Gathered

Reported(source) == IF \E s \in Sites : tasks[s].pc = "failed" THEN {source} ELSE {}

\* All tasks of a gathering have ended: the state portals come after the
\* foundations, and nothing is stored when nothing was found.
EndSites ==
  LET batch == Extended(hunt.batch, hunt.pc, Kept)
  IN  /\ hunt.pc \in {"foundations", "states"} /\ AllEnded
      /\ Moves([hunt EXCEPT
           !.pc = IF hunt.pc = "foundations" THEN "states"
                  ELSE IF batch = Nothing THEN "record" ELSE "persist",
           !.batch = batch, !.errors = @ \cup Reported(hunt.pc)])
      /\ tasks' = IF hunt.pc = "foundations" THEN Gather(StatePortals) ELSE NoTasks
      /\ UNCHANGED <<pagingVars, heard>>

\* persist_records selects the rows of the batch ...
SelectExisting ==
  /\ hunt.pc = "persist"
  /\ Moves([hunt EXCEPT !.pc = "store",
       !.seen = [o \in Opps |-> IF hunt.batch[o] = None THEN None ELSE grants[o]]])
  /\ UNCHANGED <<pagingVars, tasks, heard>>

\* ... to insert those that are missing and refresh the others.  "record.x or
\* row.x" leaves a known value alone, and a column that keeps its value is not
\* in the UPDATE, so that what another process wrote meanwhile stays.
\* Faulty variant of Refreshed: the record's value, known or not.
RefreshedBlindly(row, seen, record) == [row EXCEPT !.amount = record.amount]

Refreshed(row, seen, record) ==
  IF record.amount = None \/ record.amount = seen.amount THEN row
  ELSE [row EXCEPT !.amount = record.amount]

Stored(batch, seen) ==
  [o \in Opps |-> IF batch[o] = None THEN grants[o]
                  ELSE IF seen[o] = None THEN batch[o]
                  ELSE Refreshed(grants[o], seen[o], batch[o])]

\* An INSERT of a hash that another process committed since violates the
\* unique constraint, and the whole batch is rolled back.
\* Faulty variant of Conflict: the violation goes unnoticed.
NoConflict == FALSE

Conflict == \E o \in Opps : hunt.batch[o] # None /\ hunt.seen[o] = None /\ grants[o] # None

StoreBatch ==
  /\ hunt.pc = "store" /\ ~Conflict
  /\ grants' = Stored(hunt.batch, hunt.seen)
  /\ hunt' = [hunt EXCEPT !.pc = "record"]
  /\ UNCHANGED <<pagingVars, tasks, runs, hunts, heard, rivals>>

\* A conflict, or the database is away: the error is kept, the hunt goes on.
\* Faulty variant of LoseBatch: the error is not kept.
LoseBatchSilently ==
  /\ hunt.pc \in {"persist", "store"}
  /\ Moves([hunt EXCEPT !.pc = "record"])
  /\ UNCHANGED <<pagingVars, tasks, heard>>

LoseBatch ==
  /\ hunt.pc \in {"persist", "store"}
  /\ Moves([hunt EXCEPT !.pc = "record", !.errors = @ \cup {"persistence"}])
  /\ UNCHANGED <<pagingVars, tasks, heard>>

\* _record_run in a transaction of its own, whose failure is swallowed.
EndHunt(recorded) ==
  /\ hunt.pc = "record"
  /\ runs' = IF recorded THEN hunt.errors ELSE runs
  /\ hunt' = NoHunt /\ heard' = {}
  /\ UNCHANGED <<pagingVars, tasks, grants, hunts, rivals>>

\* The process dies: what was not committed is gone.
Crash ==
  /\ hunt.pc # "idle"
  /\ hunt' = NoHunt /\ EndFetch /\ tasks' = NoTasks /\ heard' = {}
  /\ UNCHANGED <<grants, runs, hunts, rivals>>

\* Another process commits the same steps for a batch of one record.
Rival(o, record) ==
  /\ rivals < MaxRivals /\ hunt.pc \in {"persist", "store"}
  /\ rivals' = rivals + 1
  /\ grants' = [grants EXCEPT ![o] =
                  IF grants[o] = None THEN record
                  ELSE Refreshed(grants[o], grants[o], record)]
  /\ UNCHANGED <<pagingVars, tasks, hunt, runs, hunts, heard>>

HuntStep ==
  \/ ReadFederal \/ EndFederal \/ ReadSites \/ EndSites
  \/ SelectExisting \/ StoreBatch \/ LoseBatch
  \/ \E recorded \in BOOLEAN : EndHunt(recorded)

Next ==
  \/ \E dialect \in Dialects : Tick(dialect)
  \/ SourceMoves \/ HuntStep \/ Crash
  \/ \E o \in Opps, record \in Row : Rival(o, record)

Spec == Init /\ [][Next]_vars

\* A request ends by its timeout at the latest, and the hunt goes on with what
\* it returned.
FairSpec == Spec /\ WF_vars(HuntStep)

-----------------------------------------------------------------------------
(* Properties *)

\* Every variable keeps to the values of its table or record.
TypeOK ==
  /\ PagingTypeOK /\ GatherTypeOK
  /\ grants \in [Opps -> Row \cup {None}] /\ hunt \in Hunt
  /\ runs \in (SUBSET Errors) \cup {None}
  /\ hunts \in Nat /\ heard \subseteq Opps /\ rivals \in Nat

\* What a source once returned to a hunt is in its batch, whatever later
\* requests of the same source, and the other sites, do.
WhatWasHeardIsKept ==
  hunt.pc \in {"persist", "store", "record"} =>
    \A o \in heard : hunt.batch[o] # None

\* A hunt that reports no persistence error has every record of its batch in
\* the table, with the amounts it learned, although another process stores its
\* own meanwhile and one duplicate loses the whole batch.
HuntedIsStored ==
  hunt.pc = "record" /\ "persistence" \notin hunt.errors =>
    \A o \in Opps : hunt.batch[o] # None =>
      /\ grants[o] # None
      /\ hunt.batch[o].amount # None => grants[o].amount # None

\* Hunts, refreshes, lost races and crashes keep the promise of GrantStore.
Store == INSTANCE GrantStore WITH store <- grants
ImplementsGrantStore == Store!Spec

\* Every hunt comes to an end, whatever the sources answer.
HuntsEnd == hunt.pc # "idle" ~> hunt.pc = "idle"
=============================================================================
