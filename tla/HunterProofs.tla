---------------------------- MODULE HunterProofs ----------------------------
(***************************************************************************)
(* Theorems about Hunter, for any opportunities, sites, page sizes and     *)
(* numbers of attempts, and any number of hunts and rivals.                *)
(***************************************************************************)
EXTENDS Hunter, FiniteSetTheorems, SequenceTheorems, TLAPS

-----------------------------------------------------------------------------
(* Types of the page loop *)

LEMMA PageType ==
  ASSUME PagingTypeOK, NEW offset
  PROVE  PageAt(offset) \subseteq Opps
  BY DEF PagingTypeOK, PageAt, Places

LEMMA FirstType ==
  ASSUME PagingTypeOK, NEW offset, NEW n
  PROVE  FirstOf(offset, n) \subseteq Opps
  BY DEF PagingTypeOK, FirstOf, Places

LEMMA TotalType ==
  ASSUME PagingTypeOK, NEW dialect
  PROVE  TotalsOf(dialect) \subseteq Nat \cup {None}
  BY DEF PagingTypeOK, Fetch, TotalsOf

LEMMA NoFetchType == NoFetch \in Fetch
  BY PagingAssumption DEF NoFetch, Fetch

LEMMA GivenUpType ==
  ASSUME PagingTypeOK
  PROVE  GivenUp \in Fetch /\ GivenUp.got = fetch.got
<1>1. fetch \in Fetch /\ 1 \in 0..Retries
  BY PagingAssumption DEF PagingTypeOK
<1>2. CASE fetch.dialect = "simpler_grants" /\ ~fetch.fallback
  BY <1>1, <1>2 DEF Fetch, GivenUp
<1>3. CASE ~(fetch.dialect = "simpler_grants" /\ ~fetch.fallback)
  <2> DEFINE end == IF fetch.page = 0 THEN "error" ELSE "cut"
  <2>1. GivenUp = [fetch EXCEPT !.pc = "done", !.end = end]
    BY <1>3 DEF GivenUp
  <2>2. end \in {"error", "cut"}
    OBVIOUS
  <2> HIDE DEF end
  <2> QED  BY <1>1, <2>1, <2>2 DEF Fetch
<1> QED  BY <1>2, <1>3

\* An answer adds its page to what was read, and ends the loop or turns the page.
LEMMA AnswerCases ==
  ASSUME PagingTypeOK, Answer
  PROVE  LET offset == Offset(fetch.page)
             got    == fetch.got \cup PageAt(offset)
         IN  \E t \in TotalsOf(fetch.dialect) :
               \/ /\ \/ Size(offset) < Rows
                     \/ t # None /\ offset + Size(offset) >= t
                  /\ fetch' = [fetch EXCEPT !.total = t, !.got = got, !.pc = "done",
                                            !.end = "complete"]
               \/ fetch' = [fetch EXCEPT !.total = t, !.got = got, !.pc = "done",
                                         !.end = "limit"]
               \/ /\ fetch.page + 1 < MaxPages
                  /\ fetch' = [fetch EXCEPT !.total = t, !.got = got,
                                            !.page = fetch.page + 1,
                                            !.attempt = 1, !.fallback = FALSE]
<1> DEFINE got == fetch.got \cup PageAt(Offset(fetch.page))
           next(t) == [fetch EXCEPT !.total = t, !.got = got]
<1>1. \A t : next(t).page = fetch.page
  BY DEF PagingTypeOK, Fetch
<1>2. PICK t \in TotalsOf(fetch.dialect) :
        \/ /\ \/ Size(Offset(fetch.page)) < Rows
              \/ t # None /\ Offset(fetch.page) + Size(Offset(fetch.page)) >= t
           /\ fetch' = [next(t) EXCEPT !.pc = "done", !.end = "complete"]
        \/ fetch' = [next(t) EXCEPT !.pc = "done", !.end = "limit"]
        \/ /\ fetch.page + 1 < MaxPages
           /\ fetch' = [next(t) EXCEPT !.page = next(t).page + 1, !.attempt = 1,
                                       !.fallback = FALSE]
  BY DEF Answer, Goes
<1> QED  BY <1>1, <1>2

\* An answer, or its absence, leaves a whole record of the run, and what was
\* collected stays collected.
LEMMA AnswerTyped ==
  ASSUME PagingTypeOK, Answer
  PROVE  fetch' \in Fetch /\ fetch.got \subseteq fetch'.got
<1> DEFINE got == fetch.got \cup PageAt(Offset(fetch.page))
<1>1. PageAt(Offset(fetch.page)) \subseteq Opps /\ fetch \in Fetch
  BY PageType DEF PagingTypeOK
<1>2. got \in SUBSET Opps /\ fetch.got \subseteq got
  BY <1>1 DEF Fetch
<1>3. PICK t \in TotalsOf(fetch.dialect) :
        \/ fetch' = [fetch EXCEPT !.total = t, !.got = got, !.pc = "done", !.end = "complete"]
        \/ fetch' = [fetch EXCEPT !.total = t, !.got = got, !.pc = "done", !.end = "limit"]
        \/ /\ fetch.page + 1 < MaxPages
           /\ fetch' = [fetch EXCEPT !.total = t, !.got = got, !.page = fetch.page + 1,
                                     !.attempt = 1, !.fallback = FALSE]
  BY AnswerCases
<1>4. t \in Nat \cup {None} /\ fetch.page \in 0..(MaxPages - 1)
  BY <1>1, TotalType DEF Fetch
<1> HIDE DEF got
<1>5. CASE fetch' = [fetch EXCEPT !.total = t, !.got = got, !.pc = "done", !.end = "complete"]
  BY <1>1, <1>2, <1>4, <1>5 DEF Fetch
<1>6. CASE fetch' = [fetch EXCEPT !.total = t, !.got = got, !.pc = "done", !.end = "limit"]
  BY <1>1, <1>2, <1>4, <1>6 DEF Fetch
<1>7. CASE /\ fetch.page + 1 < MaxPages
           /\ fetch' = [fetch EXCEPT !.total = t, !.got = got, !.page = fetch.page + 1,
                                     !.attempt = 1, !.fallback = FALSE]
  <2>1. fetch.page + 1 \in 0..(MaxPages - 1) /\ 1 \in 0..Retries
    BY <1>4, <1>7, PagingAssumption
  <2> QED  BY <1>1, <1>2, <1>4, <1>7, <2>1 DEF Fetch
<1> QED  BY <1>3, <1>5, <1>6, <1>7

\* A body that raises ends the loop with what was read so far.
LEMMA MalformedTyped ==
  ASSUME PagingTypeOK, Malformed
  PROVE  /\ fetch' \in Fetch /\ fetch.got \subseteq fetch'.got
         /\ fetch'.pc = "done" /\ fetch'.end = "error"
<1>1. fetch \in Fetch
  BY DEF PagingTypeOK
<1>2. PICK n \in 0..Rows :
        fetch' = [fetch EXCEPT !.pc = "done", !.end = "error",
                               !.got = fetch.got \cup FirstOf(Offset(fetch.page), n)]
  BY DEF Malformed, Goes
<1> DEFINE got == fetch.got \cup FirstOf(Offset(fetch.page), n)
<1>3. got \in SUBSET Opps
  BY <1>1, FirstType DEF Fetch
<1>4. fetch.got \subseteq got
  OBVIOUS
<1>5. fetch' = [fetch EXCEPT !.pc = "done", !.end = "error", !.got = got]
  BY <1>2
<1> HIDE DEF got
<1> QED  BY <1>1, <1>3, <1>4, <1>5 DEF Fetch

LEMMA RespondTyped ==
  ASSUME PagingTypeOK, Respond
  PROVE  PagingTypeOK' /\ fetch.got \subseteq fetch'.got
<1>0. fetch \in Fetch /\ faults \in [transient : Nat, refused : BOOLEAN]
  BY DEF PagingTypeOK
<1>1. fetch' \in Fetch /\ fetch.got \subseteq fetch'.got
  <2>1. CASE Answer
    BY <2>1, AnswerTyped
  <2>2. CASE Transient
    <3>1. CASE MayRetry
      <4>1. fetch' = [fetch EXCEPT !.attempt = fetch.attempt + 1]
        BY <2>2, <3>1 DEF Transient, Goes
      <4>2. fetch.attempt + 1 \in 0..Retries
        BY <1>0, <3>1, PagingAssumption DEF MayRetry, Fetch
      <4> QED  BY <1>0, <4>1, <4>2 DEF Fetch
    <3>2. CASE ~MayRetry
      BY <2>2, <3>2, GivenUpType DEF Transient, Goes
    <3> QED  BY <3>1, <3>2
  <2>3. CASE Refuse
    BY <2>3, GivenUpType DEF Refuse, Goes
  <2>4. CASE Malformed
    BY <2>4, MalformedTyped
  <2> QED  BY <2>1, <2>2, <2>3, <2>4 DEF Respond
<1>2. faults' \in [transient : Nat, refused : BOOLEAN]
  <2>1. CASE Transient
    BY <1>0, <2>1, PagingAssumption DEF Transient
  <2>2. CASE Answer \/ Refuse \/ Malformed
    BY <1>0, <2>2 DEF Answer, Refuse, Malformed
  <2> QED  BY <2>1, <2>2 DEF Respond
<1>3. UNCHANGED <<listed, before, added, removed>>
  BY DEF Respond, Answer, Transient, Refuse, Malformed, Goes
<1> QED  BY <1>1, <1>2, <1>3 DEF PagingTypeOK

LEMMA SourceTyped ==
  ASSUME PagingTypeOK, SourceChanges
  PROVE  PagingTypeOK'
<1>1. ASSUME NEW o \in Opps, Add(o) PROVE PagingTypeOK'
  <2>1. <<o>> \o listed \in Seq(Opps)
    BY DEF PagingTypeOK
  <2> QED  BY <1>1, <2>1 DEF Add, PagingTypeOK
<1>2. ASSUME NEW i \in DOMAIN listed, TakeOff(i) PROVE PagingTypeOK'
  <2> DEFINE n == Len(listed) - 1
             s == [j \in 1..n |-> IF j < i THEN listed[j] ELSE listed[j + 1]]
  <2>1. n \in Nat /\ \A j \in 1..n : j \in DOMAIN listed /\ j + 1 \in DOMAIN listed
    BY DEF PagingTypeOK
  <2>2. \A j \in 1..n : s[j] \in Opps
    BY <2>1 DEF PagingTypeOK
  <2>3. s \in Seq(Opps)
    <3> HIDE DEF n
    <3> QED  BY <2>1, <2>2
  <2>4. listed' = s
    BY <1>2 DEF TakeOff
  <2> HIDE DEF s
  <2> QED  BY <1>2, <2>3, <2>4 DEF TakeOff, PagingTypeOK
<1> QED  BY <1>1, <1>2 DEF SourceChanges

-----------------------------------------------------------------------------
(* Types of the gathering *)

LEMMA GatherStarts == \A sites : Gather(sites) \in [Sites -> Task]
  BY DEF Gather, Task

LEMMA NoTasksType == NoTasks \in [Sites -> Task]
  BY DEF NoTasks, Task

LEMMA GatherTyped ==
  ASSUME GatherTypeOK, GatherStep
  PROVE  GatherTypeOK'
<1>1. PICK s \in Sites : Begin(s) \/ PlainAnswer(s) \/ PlainNothing(s) \/ BrowserAnswer(s) \/ Raise(s)
  BY DEF GatherStep
<1>2. \E pc \in {"plain", "browser", "done", "failed"}, hits \in SUBSET ListedAt[s] :
        Becomes(s, pc, hits)
  <2>1. {} \in SUBSET ListedAt[s]
    OBVIOUS
  <2> QED  BY <1>1, <2>1 DEF Begin, PlainAnswer, PlainNothing, BrowserAnswer, Raise,
                         Feed, PortalPage, Listing
<1> QED  BY <1>2 DEF Becomes, GatherTypeOK, Task

\* Whatever the sites gave is an opportunity.
LEMMA GatheredType ==
  ASSUME GatherTypeOK
  PROVE  Gathered \subseteq Opps
  BY HunterAssumption DEF Gathered, GatherTypeOK, Task

-----------------------------------------------------------------------------
(* Types of the hunt *)

LEMMA NothingType == Nothing \in Batch /\ NoHunt \in Hunt
  BY DEF Nothing, Batch, NoHunt, Hunt

LEMMA RecordType ==
  ASSUME NEW source \in Sources, NEW o \in Opps
  PROVE  RecordOf(source, o) \in Row
<1>1. AmountOf[o] \in Amounts \cup {None}
  BY HunterAssumption
<1> QED  BY <1>1 DEF RecordOf, Row

\* A batch only grows, by what was found.
LEMMA ExtendedType ==
  ASSUME NEW batch \in Batch, NEW source \in Sources, NEW found
  PROVE  /\ Extended(batch, source, found) \in Batch
         /\ \A o \in Opps : /\ batch[o] # None \/ o \in found
                                 => Extended(batch, source, found)[o] # None
                            /\ batch[o] # None => Extended(batch, source, found)[o] = batch[o]
<1>1. \A o \in Opps : RecordOf(source, o) \in Row
  BY RecordType
<1>2. None \notin Row
  BY HunterAssumption DEF Row, Sources
<1> QED  BY <1>1, <1>2 DEF Extended, Batch

\* A refreshed row is still a row, of the same source, and knows no less.
LEMMA RefreshedType ==
  ASSUME NEW row \in Row, NEW seen \in Row, NEW record \in Row
  PROVE  /\ Refreshed(row, seen, record) \in Row
         /\ Refreshed(row, seen, record).source = row.source
         /\ row.amount # None => Refreshed(row, seen, record).amount # None
         /\ record.amount # None /\ record.amount # seen.amount
              => Refreshed(row, seen, record).amount # None
  BY DEF Refreshed, Row

LEMMA StoredType ==
  ASSUME NEW batch \in Batch, NEW seen \in Batch, grants \in Batch,
         \A o \in Opps : seen[o] # None => grants[o] # None
  PROVE  Stored(batch, seen) \in Batch
<1> SUFFICES ASSUME NEW o \in Opps PROVE Stored(batch, seen)[o] \in Row \cup {None}
  BY DEF Stored, Batch
<1>1. batch[o] \in Row \cup {None} /\ seen[o] \in Row \cup {None} /\ grants[o] \in Row \cup {None}
  BY DEF Batch
<1>2. CASE batch[o] # None /\ seen[o] # None
  <2>1. Refreshed(grants[o], seen[o], batch[o]) \in Row
    BY <1>1, <1>2, RefreshedType
  <2> QED  BY <1>2, <2>1 DEF Stored
<1>3. CASE batch[o] = None \/ seen[o] = None
  BY <1>1, <1>3 DEF Stored
<1> QED  BY <1>2, <1>3

\* What the hunt read in the table before it stores is still there, and still
\* known: rows are refreshed by others, and never taken away.
Remembered ==
  hunt.pc = "store" =>
    \A o \in Opps : hunt.seen[o] # None =>
      /\ grants[o] # None
      /\ hunt.seen[o].amount # None => grants[o].amount # None

Typed == TypeOK /\ Remembered

LEMMA InitTyped == Init => Typed
<1> SUFFICES ASSUME Init PROVE Typed
  OBVIOUS
<1>1. PagingTypeOK
  BY PagingAssumption, NoFetchType DEF Init, PagingInit, PagingTypeOK, NoFaults
<1>2. GatherTypeOK
  BY NoTasksType DEF Init, GatherTypeOK
<1>3. grants \in [Opps -> Row \cup {None}]
  BY HunterAssumption DEF Init, Row
<1>4. Remembered
  BY DEF Init, NoHunt, Remembered
<1> QED  BY <1>1, <1>2, <1>3, <1>4, NothingType DEF Init, Typed, TypeOK

LEMMA FetchEnds == ASSUME PagingTypeOK, EndFetch PROVE PagingTypeOK'
  BY NoFetchType DEF PagingTypeOK, EndFetch, NoFaults

LEMMA PagingKept == ASSUME PagingTypeOK, UNCHANGED pagingVars PROVE PagingTypeOK'
  BY DEF PagingTypeOK, pagingVars

\* A row of a rival is inserted, or refreshes the one that is there.
LEMMA RivalKeeps ==
  ASSUME Typed, NEW o \in Opps, NEW record \in Row, Rival(o, record)
  PROVE  /\ grants' \in Batch
         /\ \A p \in Opps : grants[p] # None =>
              /\ grants'[p] # None /\ grants'[p].source = grants[p].source
              /\ grants[p].amount # None => grants'[p].amount # None
<1> DEFINE new == IF grants[o] = None THEN record ELSE Refreshed(grants[o], grants[o], record)
<1>1. grants \in Batch /\ None \notin Row
  BY HunterAssumption DEF Typed, TypeOK, Batch, Row, Sources
<1>2. grants' = [grants EXCEPT ![o] = new]
  BY DEF Rival
<1>3. new \in Row
  BY <1>1, RefreshedType DEF Batch
<1>4. grants[o] # None =>
        new.source = grants[o].source /\ (grants[o].amount # None => new.amount # None)
  BY <1>1, RefreshedType DEF Batch
<1> HIDE DEF new
<1> QED  BY <1>1, <1>2, <1>3, <1>4 DEF Batch

\* A batch that is stored without a conflict adds rows and loses nothing.
LEMMA StoreKeeps ==
  ASSUME Typed, StoreBatch
  PROVE  /\ grants' \in Batch
         /\ \A p \in Opps : grants[p] # None =>
              /\ grants'[p] # None /\ grants'[p].source = grants[p].source
              /\ grants[p].amount # None => grants'[p].amount # None
         /\ \A p \in Opps : hunt.batch[p] # None =>
              /\ grants'[p] # None
              /\ hunt.batch[p].amount # None => grants'[p].amount # None
<1> DEFINE batch == hunt.batch
           seen == hunt.seen
<1>1. batch \in Batch /\ seen \in Batch /\ grants \in Batch /\ None \notin Row
  BY HunterAssumption DEF Typed, TypeOK, Hunt, Batch, Row, Sources
<1>2. grants' = Stored(batch, seen) /\ hunt.pc = "store"
  BY DEF StoreBatch
<1>3. \A o \in Opps : seen[o] # None =>
        grants[o] # None /\ (seen[o].amount # None => grants[o].amount # None)
  BY <1>2 DEF Typed, Remembered
<1>4. \A o \in Opps : batch[o] # None /\ seen[o] = None => grants[o] = None
  BY DEF StoreBatch, Conflict
<1> HIDE DEF batch, seen
<1>5. grants' \in Batch
  BY <1>1, <1>2, <1>3, StoredType
<1>6. ASSUME NEW o \in Opps
      PROVE  /\ grants[o] # None =>
                  /\ grants'[o] # None /\ grants'[o].source = grants[o].source
                  /\ grants[o].amount # None => grants'[o].amount # None
             /\ batch[o] # None =>
                  /\ grants'[o] # None
                  /\ batch[o].amount # None => grants'[o].amount # None
  <2>1. CASE batch[o] = None
    BY <1>2, <2>1 DEF Stored
  <2>2. CASE batch[o] # None /\ seen[o] = None
    <3>1. grants'[o] = batch[o] /\ grants[o] = None
      BY <1>2, <1>4, <2>2 DEF Stored
    <3> QED  BY <2>2, <3>1
  <2>3. CASE batch[o] # None /\ seen[o] # None
    <3>1. grants'[o] = Refreshed(grants[o], seen[o], batch[o])
      BY <1>2, <2>3 DEF Stored
    <3>2. grants[o] \in Row /\ seen[o] \in Row /\ batch[o] \in Row
      BY <1>1, <1>3, <2>3 DEF Batch
    <3>3. batch[o].amount # None /\ batch[o].amount = seen[o].amount => grants[o].amount # None
      BY <1>3, <2>3
    <3>4. /\ grants'[o] \in Row /\ grants'[o].source = grants[o].source
          /\ grants[o].amount # None => grants'[o].amount # None
          /\ batch[o].amount # None /\ batch[o].amount # seen[o].amount
               => grants'[o].amount # None
      BY <3>1, <3>2, RefreshedType
    <3> QED  BY <1>1, <3>3, <3>4
  <2> QED  BY <2>1, <2>2, <2>3
<1> QED  BY <1>5, <1>6 DEF batch

\* The steps of the hunt that leave the table alone.
LEMMA HuntStepTyped ==
  ASSUME Typed,
         \/ ReadFederal \/ EndFederal \/ ReadSites \/ EndSites
         \/ SelectExisting \/ LoseBatch \/ \E recorded \in BOOLEAN : EndHunt(recorded)
  PROVE  Typed'
<1>0. /\ PagingTypeOK /\ GatherTypeOK /\ hunt \in Hunt /\ grants \in Batch /\ heard \subseteq Opps
      /\ fetch.got \subseteq Opps
  BY DEF Typed, TypeOK, Batch, PagingTypeOK, Fetch
<1>1. CASE ReadFederal
  <2> DEFINE errors == IF fetch'.end = "error" THEN {"federal"} ELSE {}
  <2>1. PagingTypeOK' /\ UNCHANGED tasks
    BY <1>0, <1>1, RespondTyped DEF ReadFederal
  <2>2. heard' \subseteq Opps
    BY <1>0, <1>1, <2>1 DEF ReadFederal, PagingTypeOK, Fetch
  <2>3. hunt' = [hunt EXCEPT !.errors = errors] /\ errors \in SUBSET Errors
    BY <1>1 DEF ReadFederal, Moves, Errors, Sources
  <2> HIDE DEF errors
  <2>4. hunt' \in Hunt /\ hunt'.pc = "federal"
    BY <1>0, <1>1, <2>3 DEF Hunt, ReadFederal
  <2>5. Remembered'
    BY <2>4 DEF Remembered
  <2> QED  BY <1>0, <1>1, <2>1, <2>2, <2>4, <2>5 DEF ReadFederal, Moves, Typed, TypeOK, GatherTypeOK
<1>2. CASE EndFederal
  <2> DEFINE batch == Extended(hunt.batch, "federal", fetch.got)
  <2>1. batch \in Batch
    BY <1>0, ExtendedType DEF Hunt, Sources
  <2>2. hunt' = [hunt EXCEPT !.pc = "foundations", !.batch = batch]
    BY <1>2 DEF EndFederal, Moves
  <2> HIDE DEF batch
  <2>3. hunt' \in Hunt /\ hunt'.pc = "foundations"
    BY <1>0, <2>1, <2>2 DEF Hunt
  <2>4. PagingTypeOK' /\ GatherTypeOK'
    BY <1>0, <1>2, FetchEnds, GatherStarts DEF EndFederal, GatherTypeOK
  <2>5. Remembered'
    BY <2>3 DEF Remembered
  <2> QED  BY <1>2, <2>3, <2>4, <2>5 DEF EndFederal, Moves, Typed, TypeOK
<1>3. CASE ReadSites
  <2>1. PagingTypeOK' /\ GatherTypeOK'
    BY <1>0, <1>3, PagingKept, GatherTyped DEF ReadSites
  <2>2. (UNION {tasks'[s].got : s \in Sites}) \subseteq Opps
    BY <2>1, HunterAssumption DEF GatherTypeOK, Task
  <2>3. heard' \subseteq Opps
    BY <1>0, <1>3, <2>2 DEF ReadSites
  <2>4. Remembered'
    BY <1>3 DEF ReadSites, Typed, Remembered
  <2> QED  BY <1>3, <2>1, <2>3, <2>4 DEF ReadSites, Typed, TypeOK
<1>4. CASE EndSites
  <2> DEFINE batch == Extended(hunt.batch, hunt.pc, Kept)
             pc == IF hunt.pc = "foundations" THEN "states"
                   ELSE IF batch = Nothing THEN "record" ELSE "persist"
             errors == hunt.errors \cup Reported(hunt.pc)
  <2>1. hunt.pc \in {"foundations", "states"}
    BY <1>4 DEF EndSites
  <2>2. batch \in Batch
    BY <1>0, <2>1, ExtendedType DEF Hunt, Sources
  <2>3. errors \in SUBSET Errors
    BY <1>0, <2>1 DEF Hunt, Errors, Sources, Reported
  <2>4. hunt' = [hunt EXCEPT !.pc = pc, !.batch = batch, !.errors = errors]
    BY <1>4 DEF EndSites, Moves
  <2>5. pc \in {"states", "record", "persist"}
    OBVIOUS
  <2> HIDE DEF batch, pc, errors
  <2>6. hunt' \in Hunt /\ hunt'.pc # "store"
    BY <1>0, <2>2, <2>3, <2>4, <2>5 DEF Hunt
  <2>7. PagingTypeOK' /\ GatherTypeOK'
    BY <1>0, <1>4, PagingKept, GatherStarts, NoTasksType DEF EndSites, GatherTypeOK
  <2>8. Remembered'
    BY <2>6 DEF Remembered
  <2> QED  BY <1>4, <2>6, <2>7, <2>8 DEF EndSites, Moves, Typed, TypeOK
<1>5. CASE SelectExisting
  <2> DEFINE seen == [o \in Opps |-> IF hunt.batch[o] = None THEN None ELSE grants[o]]
  <2>1. seen \in Batch
    BY <1>0 DEF Batch
  <2>2. hunt' = [hunt EXCEPT !.pc = "store", !.seen = seen] /\ grants' = grants
    BY <1>5 DEF SelectExisting, Moves
  <2>3. \A o \in Opps : seen[o] # None => seen[o] = grants[o]
    OBVIOUS
  <2> HIDE DEF seen
  <2>4. hunt' \in Hunt /\ hunt'.seen = seen
    BY <1>0, <2>1, <2>2 DEF Hunt
  <2>5. Remembered'
    BY <2>2, <2>3, <2>4 DEF Remembered
  <2>6. PagingTypeOK' /\ GatherTypeOK'
    BY <1>0, <1>5, PagingKept DEF SelectExisting, GatherTypeOK
  <2> QED  BY <1>5, <2>4, <2>5, <2>6 DEF SelectExisting, Moves, Typed, TypeOK
<1>6. CASE LoseBatch
  <2>1. hunt' \in Hunt /\ hunt'.pc = "record"
    BY <1>0, <1>6 DEF LoseBatch, Moves, Hunt, Errors
  <2>2. PagingTypeOK' /\ GatherTypeOK'
    BY <1>0, <1>6, PagingKept DEF LoseBatch, GatherTypeOK
  <2>3. Remembered'
    BY <2>1 DEF Remembered
  <2> QED  BY <1>6, <2>1, <2>2, <2>3 DEF LoseBatch, Moves, Typed, TypeOK
<1>7. ASSUME NEW recorded \in BOOLEAN, EndHunt(recorded) PROVE Typed'
  <2>1. hunt' = NoHunt /\ hunt'.pc = "idle"
    BY <1>7 DEF EndHunt, NoHunt
  <2>2. PagingTypeOK' /\ GatherTypeOK'
    BY <1>0, <1>7, PagingKept DEF EndHunt, GatherTypeOK
  <2>3. runs' \in (SUBSET Errors) \cup {None}
    BY <1>0, <1>7 DEF EndHunt, Hunt, Typed, TypeOK
  <2>4. Remembered'
    BY <2>1 DEF Remembered
  <2> QED  BY <1>7, <2>1, <2>2, <2>3, <2>4, NothingType DEF EndHunt, Typed, TypeOK
<1> QED  BY <1>1, <1>2, <1>3, <1>4, <1>5, <1>6, <1>7

LEMMA StoreTyped == ASSUME Typed, StoreBatch PROVE Typed'
<1>1. PagingTypeOK' /\ GatherTypeOK'
  BY PagingKept DEF StoreBatch, Typed, TypeOK, GatherTypeOK
<1>2. hunt' \in Hunt /\ hunt'.pc = "record"
  BY DEF StoreBatch, Typed, TypeOK, Hunt
<1>3. grants' \in [Opps -> Row \cup {None}]
  BY StoreKeeps DEF Batch
<1>4. Remembered'
  BY <1>2 DEF Remembered
<1> QED  BY <1>1, <1>2, <1>3, <1>4 DEF StoreBatch, Typed, TypeOK

LEMMA RivalTyped == ASSUME Typed, NEW o \in Opps, NEW record \in Row, Rival(o, record) PROVE Typed'
<1>1. PagingTypeOK' /\ GatherTypeOK'
  BY PagingKept DEF Rival, Typed, TypeOK, GatherTypeOK
<1>2. grants' \in [Opps -> Row \cup {None}]
  BY RivalKeeps DEF Batch
<1>3. Remembered'
  <2>1. hunt' = hunt
    BY DEF Rival
  <2> QED  BY <2>1, RivalKeeps DEF Typed, Remembered
<1>4. rivals' \in Nat
  BY DEF Rival, Typed, TypeOK
<1> QED  BY <1>1, <1>2, <1>3, <1>4 DEF Rival, Typed, TypeOK

LEMMA TickTyped == ASSUME Typed, NEW dialect \in Dialects, Tick(dialect) PROVE Typed'
<1>1. fetch' \in Fetch
  <2>1. fetch' = [NoFetch EXCEPT !.pc = "request", !.dialect = dialect, !.attempt = 1]
    BY DEF Tick, StartFetch
  <2>2. 1 \in 0..Retries
    BY PagingAssumption
  <2> QED  BY <2>1, <2>2, NoFetchType DEF Fetch
<1>2. before' \subseteq Opps
  BY DEF Tick, StartFetch, Listed, Typed, TypeOK, PagingTypeOK
<1>3. PagingTypeOK' /\ GatherTypeOK'
  BY <1>1, <1>2 DEF Tick, StartFetch, Typed, TypeOK, PagingTypeOK, GatherTypeOK
<1>4. hunt' \in Hunt /\ hunt'.pc = "federal"
  BY NothingType DEF Tick, Hunt, NoHunt
<1>5. hunts' \in Nat /\ heard' \subseteq Opps
  BY DEF Tick, Typed, TypeOK
<1>6. Remembered'
  BY <1>4 DEF Remembered
<1> QED  BY <1>3, <1>4, <1>5, <1>6 DEF Tick, Typed, TypeOK

LEMMA CrashTyped == ASSUME Typed, Crash PROVE Typed'
<1>1. PagingTypeOK' /\ GatherTypeOK'
  BY FetchEnds, NoTasksType DEF Crash, Typed, TypeOK, GatherTypeOK
<1>2. hunt' = NoHunt /\ NoHunt.pc = "idle"
  BY DEF Crash, NoHunt
<1>3. Remembered'
  BY <1>2 DEF Remembered
<1> QED  BY <1>1, <1>2, <1>3, NothingType DEF Crash, Typed, TypeOK

LEMMA NextTyped == Typed /\ [Next]_vars => Typed'
<1> SUFFICES ASSUME Typed, [Next]_vars PROVE Typed'
  OBVIOUS
<1>1. CASE SourceMoves
  <2>1. PagingTypeOK' /\ GatherTypeOK'
    BY <1>1, SourceTyped DEF SourceMoves, Typed, TypeOK, GatherTypeOK
  <2> QED  BY <1>1, <2>1 DEF SourceMoves, Typed, TypeOK, Remembered
<1>2. CASE UNCHANGED vars
  <2>1. PagingTypeOK' /\ GatherTypeOK'
    BY <1>2, PagingKept DEF vars, Typed, TypeOK, GatherTypeOK
  <2> QED  BY <1>2, <2>1 DEF vars, Typed, TypeOK, Remembered
<1>3. CASE HuntStep
  BY <1>3, HuntStepTyped, StoreTyped DEF HuntStep
<1> QED  BY <1>1, <1>2, <1>3, TickTyped, CrashTyped, RivalTyped DEF Next

THEOREM AlwaysTyped == Spec => []Typed
  BY InitTyped, NextTyped, PTL DEF Spec

\* Every table and record of a hunt keeps to its values.
THEOREM TypeCorrect == Spec => []TypeOK
<1>1. Typed => TypeOK
  BY DEF Typed
<1> QED  BY <1>1, AlwaysTyped, PTL

-----------------------------------------------------------------------------
(* The grants table *)

LEMMA StepLearns ==
  ASSUME Typed, [Next]_vars
  PROVE  [Store!Learn]_grants
<1>1. Typed'
  BY NextTyped
<1>2. grants \in Batch /\ grants' \in Batch /\ None \notin Row
  BY <1>1, HunterAssumption DEF Typed, TypeOK, Batch, Row, Sources
<1>3. ASSUME \A p \in Opps : grants[p] # None =>
               /\ grants'[p] # None /\ grants'[p].source = grants[p].source
               /\ grants[p].amount # None => grants'[p].amount # None
      PROVE  Store!Learn
  <2>1. ASSUME NEW p \in Opps PROVE Store!Keeps(grants[p], grants'[p])
    <3>1. grants[p] \in Row \cup {None} /\ grants'[p] \in Row \cup {None}
      BY <1>2 DEF Batch
    <3> QED  BY <1>3, <3>1 DEF Store!Keeps, Store!Row, Row
  <2> QED  BY <1>2, <2>1 DEF Store!Learn, Store!Row, Row, Batch
<1>4. CASE StoreBatch
  BY <1>3, <1>4, StoreKeeps
<1>5. CASE \E o \in Opps, record \in Row : Rival(o, record)
  BY <1>3, <1>5, RivalKeeps
<1>6. CASE ~StoreBatch /\ ~\E o \in Opps, record \in Row : Rival(o, record)
  <2>1. grants' = grants
    BY <1>6 DEF Next, vars, Tick, SourceMoves, HuntStep, Crash, ReadFederal, EndFederal, ReadSites,
                EndSites, SelectExisting, LoseBatch, EndHunt, Moves
  <2> QED  BY <2>1
<1> QED  BY <1>4, <1>5, <1>6

\* Hunts, lost races and crashes only teach the table: no grant disappears, none
\* changes the source it was found in first, no known amount is forgotten.
THEOREM Implements == Spec => ImplementsGrantStore
<1>1. Init => Store!Init
  BY HunterAssumption DEF Init, Store!Init, Store!Row, Row
<1> QED  BY <1>1, StepLearns, AlwaysTyped, PTL DEF Spec, ImplementsGrantStore, Store!Spec

LEMMA StepStored ==
  ASSUME Typed, HuntedIsStored, [Next]_vars
  PROVE  HuntedIsStored'
<1>1. CASE StoreBatch
  <2>1. hunt'.batch = hunt.batch
    BY <1>1 DEF StoreBatch, Typed, TypeOK, Hunt
  <2> QED  BY <1>1, <2>1, StoreKeeps DEF HuntedIsStored
<1>2. CASE EndSites
  <2> DEFINE batch == Extended(hunt.batch, hunt.pc, Kept)
  <2>1. hunt'.batch = batch /\ (hunt'.pc = "record" => batch = Nothing)
    BY <1>2 DEF EndSites, Moves, Typed, TypeOK, Hunt
  <2>2. hunt'.pc = "record" => \A o \in Opps : hunt'.batch[o] = None
    BY <2>1 DEF Nothing
  <2> QED  BY <2>2 DEF HuntedIsStored
<1>3. CASE LoseBatch
  <2>1. "persistence" \in hunt'.errors
    BY <1>3 DEF LoseBatch, Moves, Typed, TypeOK, Hunt
  <2> QED  BY <2>1 DEF HuntedIsStored
<1>4. CASE ReadFederal \/ EndFederal \/ SelectExisting \/ Crash
           \/ (\E recorded \in BOOLEAN : EndHunt(recorded))
           \/ \E dialect \in Dialects : Tick(dialect)
  <2>1. hunt'.pc # "record"
    <3>1. hunt \in Hunt
      BY DEF Typed, TypeOK
    <3>2. CASE ReadFederal
      BY <3>1, <3>2 DEF ReadFederal, Moves, Hunt
    <3>3. CASE EndFederal
      BY <3>1, <3>3 DEF EndFederal, Moves, Hunt
    <3>4. CASE SelectExisting
      BY <3>1, <3>4 DEF SelectExisting, Moves, Hunt
    <3>5. CASE Crash \/ \E recorded \in BOOLEAN : EndHunt(recorded)
      BY <3>5 DEF Crash, EndHunt, NoHunt
    <3>6. CASE \E dialect \in Dialects : Tick(dialect)
      BY <3>6 DEF Tick, NoHunt
    <3> QED  BY <1>4, <3>2, <3>3, <3>4, <3>5, <3>6
  <2> QED  BY <2>1 DEF HuntedIsStored
<1>5. CASE ReadSites \/ SourceMoves \/ UNCHANGED vars
  <2>1. hunt' = hunt /\ grants' = grants
    BY <1>5 DEF ReadSites, SourceMoves, vars
  <2> QED  BY <2>1 DEF HuntedIsStored
<1>6. ASSUME NEW o \in Opps, NEW record \in Row, Rival(o, record) PROVE HuntedIsStored'
  <2>1. hunt'.pc # "record"
    BY <1>6 DEF Rival
  <2> QED  BY <2>1 DEF HuntedIsStored
<1> QED  BY <1>1, <1>2, <1>3, <1>4, <1>5, <1>6 DEF Next, HuntStep

\* A hunt that reports no persistence error has stored all it found.
THEOREM StoredOrReported == Spec => []HuntedIsStored
<1>1. Init => HuntedIsStored
  BY DEF Init, NoHunt, HuntedIsStored
<1> QED  BY <1>1, StepStored, AlwaysTyped, PTL DEF Spec

-----------------------------------------------------------------------------
(* What a source returned *)

Known(batch) == {o \in Opps : batch[o] # None}

\* Until it is in the batch, it is with the page loop or with its task.
Heard ==
  /\ hunt.pc = "federal" => heard \subseteq fetch.got
  /\ hunt.pc \in {"foundations", "states"} => heard \subseteq Known(hunt.batch) \cup Gathered
  /\ hunt.pc \in {"persist", "store", "record"} => heard \subseteq Known(hunt.batch)
  /\ \A s \in Sites : tasks[s].pc \in {"waiting", "plain", "browser"} => tasks[s].got = {}

LEMMA TasksFresh ==
  /\ \A sites : \A s \in Sites : Gather(sites)[s].got = {}
  /\ \A s \in Sites : NoTasks[s].got = {}
  BY DEF Gather, NoTasks

\* A task that goes on takes nothing back.
LEMMA GatheredGrows ==
  ASSUME GatherTypeOK, Heard, GatherStep
  PROVE  /\ Gathered \subseteq UNION {tasks'[s].got : s \in Sites}
         /\ \A s \in Sites : tasks'[s].pc \in {"waiting", "plain", "browser"} => tasks'[s].got = {}
<1>1. PICK s \in Sites : Begin(s) \/ PlainAnswer(s) \/ PlainNothing(s) \/ BrowserAnswer(s) \/ Raise(s)
  BY DEF GatherStep
<1>2. tasks[s].pc \in {"waiting", "plain", "browser"}
  BY <1>1 DEF Begin, PlainAnswer, PlainNothing, BrowserAnswer, Raise
<1>3. tasks[s].got = {}
  BY <1>2 DEF Heard
<1>4. \E pc, got : Becomes(s, pc, got) /\ (pc \in {"plain", "browser"} => got = {})
                                       /\ pc # "waiting"
  <2>1. CASE Begin(s)
    BY <2>1 DEF Begin
  <2>2. CASE PlainAnswer(s)
    BY <2>2 DEF PlainAnswer
  <2>3. CASE PlainNothing(s)
    BY <2>3 DEF PlainNothing
  <2>4. CASE BrowserAnswer(s)
    BY <2>4 DEF BrowserAnswer
  <2>5. CASE Raise(s)
    BY <2>5 DEF Raise
  <2> QED  BY <1>1, <2>1, <2>2, <2>3, <2>4, <2>5
<1>5. PICK pc, got : Becomes(s, pc, got) /\ (pc \in {"plain", "browser"} => got = {})
                                         /\ pc # "waiting"
  BY <1>4
<1>6. /\ tasks'[s] = [pc |-> pc, got |-> got]
      /\ \A o \in Sites \ {s} : tasks'[o] = tasks[o]
  BY <1>5 DEF Becomes, GatherTypeOK
<1>7. \A o \in Sites : tasks'[o].pc \in {"waiting", "plain", "browser"} => tasks'[o].got = {}
  BY <1>5, <1>6 DEF Heard
<1>8. \A o \in Sites : tasks[o].got \subseteq tasks'[o].got
  BY <1>3, <1>6
<1> QED  BY <1>7, <1>8 DEF Gathered

LEMMA StepHeard ==
  ASSUME Typed, Heard, [Next]_vars
  PROVE  Heard'
<1>0. /\ PagingTypeOK /\ GatherTypeOK /\ hunt \in Hunt /\ hunt.batch \in Batch
      /\ heard \subseteq Opps /\ fetch.got \subseteq Opps
  BY DEF Typed, TypeOK, Hunt, PagingTypeOK, Fetch
<1>1. CASE ReadFederal
  <2>1. fetch.got \subseteq fetch'.got
    BY <1>0, <1>1, RespondTyped DEF ReadFederal
  <2>2. hunt.pc = "federal" /\ hunt'.pc = "federal" /\ tasks' = tasks
    BY <1>0, <1>1 DEF ReadFederal, Moves, Hunt
  <2>3. heard' \subseteq fetch'.got
    BY <1>1, <2>1, <2>2 DEF ReadFederal, Heard
  <2> QED  BY <2>2, <2>3 DEF Heard
<1>2. CASE EndFederal
  <2> DEFINE batch == Extended(hunt.batch, "federal", fetch.got)
  <2>1. hunt'.batch = batch /\ hunt'.pc = "foundations" /\ heard' = heard /\ hunt.pc = "federal"
    BY <1>0, <1>2 DEF EndFederal, Moves, Hunt
  <2>2. heard \subseteq Known(batch)
    BY <1>0, <2>1, ExtendedType DEF Heard, Known, Sources
  <2>3. \A s \in Sites : tasks'[s].got = {}
    BY <1>2, TasksFresh DEF EndFederal
  <2> QED  BY <2>1, <2>2, <2>3 DEF Heard
<1>3. CASE ReadSites
  <2>1. /\ Gathered \subseteq UNION {tasks'[s].got : s \in Sites}
        /\ \A s \in Sites : tasks'[s].pc \in {"waiting", "plain", "browser"} => tasks'[s].got = {}
    BY <1>0, <1>3, GatheredGrows DEF ReadSites
  <2>2. hunt.pc \in {"foundations", "states"} /\ hunt' = hunt
    BY <1>3 DEF ReadSites
  <2>3. heard' = heard \cup UNION {tasks'[s].got : s \in Sites}
    BY <1>3 DEF ReadSites
  <2>4. heard' \subseteq Known(hunt'.batch) \cup UNION {tasks'[s].got : s \in Sites}
    BY <2>1, <2>2, <2>3 DEF Heard
  <2> QED  BY <2>1, <2>2, <2>4 DEF Heard, Gathered
<1>4. CASE EndSites
  <2> DEFINE batch == Extended(hunt.batch, hunt.pc, Kept)
  <2>1. /\ hunt'.batch = batch /\ hunt.pc \in {"foundations", "states"}
        /\ hunt'.pc \in {"states", "record", "persist"} /\ heard' = heard
    BY <1>0, <1>4 DEF EndSites, Moves, Hunt
  <2>2. heard \subseteq Known(batch)
    <3>1. heard \subseteq Known(hunt.batch) \cup Gathered
      BY <2>1 DEF Heard
    <3>2. \A o \in Opps : hunt.batch[o] # None \/ o \in Gathered => batch[o] # None
      BY <1>0, <2>1, ExtendedType DEF Kept, Sources
    <3> QED  BY <1>0, <3>1, <3>2 DEF Known
  <2>3. \A s \in Sites : tasks'[s].got = {}
    BY <1>4, TasksFresh DEF EndSites
  <2> QED  BY <2>1, <2>2, <2>3 DEF Heard
<1>5. CASE SelectExisting \/ StoreBatch \/ LoseBatch
  <2>1. /\ hunt'.batch = hunt.batch /\ hunt.pc \in {"persist", "store"}
        /\ hunt'.pc \in {"store", "record"} /\ heard' = heard /\ tasks' = tasks
    BY <1>0, <1>5 DEF SelectExisting, StoreBatch, LoseBatch, Moves, Hunt
  <2> QED  BY <2>1 DEF Heard
<1>6. CASE (\E recorded \in BOOLEAN : EndHunt(recorded)) \/ Crash
  <2>1. hunt'.pc = "idle"
    BY <1>6 DEF EndHunt, Crash, NoHunt
  <2>2. tasks' = tasks \/ tasks' = NoTasks
    BY <1>6 DEF EndHunt, Crash
  <2> QED  BY <2>1, <2>2, TasksFresh DEF Heard
<1>7. ASSUME NEW dialect \in Dialects, Tick(dialect) PROVE Heard'
  <2>1. hunt'.pc = "federal" /\ heard' = {} /\ tasks' = tasks
    BY <1>7 DEF Tick, NoHunt
  <2> QED  BY <2>1 DEF Heard
<1>8. ASSUME NEW o \in Opps, NEW record \in Row, Rival(o, record) PROVE Heard'
  BY <1>8 DEF Rival, pagingVars, Heard, Gathered, Known
<1>9. CASE SourceMoves
  <2>1. fetch' = fetch
    BY <1>9 DEF SourceMoves, SourceChanges, Add, TakeOff
  <2> QED  BY <1>9, <2>1 DEF SourceMoves, Heard, Gathered, Known
<1>10. CASE UNCHANGED vars
  BY <1>10 DEF vars, pagingVars, Heard, Gathered, Known
<1> QED  BY <1>1, <1>2, <1>3, <1>4, <1>5, <1>6, <1>7, <1>8, <1>9, <1>10 DEF Next, HuntStep

\* No failure of a later page or of another site drops what was returned.
THEOREM HeardIsKept == Spec => []WhatWasHeardIsKept
<1>1. Init => Heard
  BY TasksFresh DEF Init, NoHunt, Heard
<1>2. Typed /\ Heard => WhatWasHeardIsKept
  BY DEF Typed, TypeOK, Heard, Known, WhatWasHeardIsKept
<1> QED  BY <1>1, <1>2, StepHeard, AlwaysTyped, PTL DEF Spec

-----------------------------------------------------------------------------
(* Passing failures *)

Patient ==
  /\ FewFaultsAreSurvived
  /\ fetch.pc = "request" /\ faults.transient < Retries
       => fetch.attempt <= faults.transient + 1

LEMMA RespondPatient ==
  ASSUME PagingTypeOK, Patient, Respond
  PROVE  Patient'
<1>0. /\ fetch \in Fetch /\ faults \in [transient : Nat, refused : BOOLEAN]
      /\ fetch.attempt \in Nat /\ faults.transient \in Nat /\ Retries \in Nat \ {0}
  BY PagingAssumption DEF PagingTypeOK, Fetch
<1>1. CASE Answer
  <2> DEFINE got == fetch.got \cup PageAt(Offset(fetch.page))
  <2>1. faults' = faults
    BY <1>1 DEF Answer
  <2>2. \/ fetch'.pc = "done" /\ fetch'.end \in {"complete", "limit"}
        \/ fetch'.pc = fetch.pc /\ fetch'.attempt = 1
    <3>1. PICK t \in TotalsOf(fetch.dialect) :
            \/ fetch' = [fetch EXCEPT !.total = t, !.got = got, !.pc = "done", !.end = "complete"]
            \/ fetch' = [fetch EXCEPT !.total = t, !.got = got, !.pc = "done", !.end = "limit"]
            \/ fetch' = [fetch EXCEPT !.total = t, !.got = got, !.page = fetch.page + 1,
                                      !.attempt = 1, !.fallback = FALSE]
      BY <1>1, AnswerCases
    <3> HIDE DEF got
    <3> QED  BY <1>0, <3>1 DEF Fetch
  <2>3. fetch.pc = "request"
    BY <1>1 DEF Answer
  <2> QED  BY <1>0, <2>1, <2>2, <2>3 DEF Patient, FewFaultsAreSurvived
<1>2. CASE Transient
  <2> DEFINE n == IF faults.transient < Retries THEN faults.transient + 1 ELSE faults.transient
  <2>1. fetch.pc = "request" /\ faults'.transient = n
    BY <1>0, <1>2 DEF Transient
  <2>2. faults.transient < Retries => fetch.attempt <= faults.transient + 1
    BY <2>1 DEF Patient
  <2>3. CASE MayRetry
    <3>1. fetch'.pc = "request" /\ fetch'.attempt = fetch.attempt + 1
      BY <1>0, <1>2, <2>1, <2>3 DEF Transient, Goes, Fetch
    <3>2. n < Retries => fetch.attempt + 1 <= n + 1
      BY <1>0, <2>2
    <3> QED  BY <2>1, <3>1, <3>2 DEF Patient, FewFaultsAreSurvived
  <2>4. CASE ~MayRetry
    <3>1. ~(n < Retries)
      BY <1>0, <2>2, <2>4 DEF MayRetry
    <3> QED  BY <2>1, <3>1 DEF Patient, FewFaultsAreSurvived
  <2> QED  BY <2>3, <2>4
<1>3. CASE Refuse
  <2>1. faults'.refused /\ faults'.transient = faults.transient /\ fetch.pc = "request"
    BY <1>0, <1>3 DEF Refuse
  <2>2. fetch' = GivenUp
    BY <1>3 DEF Refuse, Goes
  <2>3. fetch'.pc = "done" \/ fetch'.attempt = 1
    BY <1>0, <2>2 DEF GivenUp, Fetch
  <2> QED  BY <1>0, <2>1, <2>3 DEF Patient, FewFaultsAreSurvived
<1>4. CASE Malformed
  <2>1. faults'.refused /\ fetch'.pc = "done"
    BY <1>0, <1>4, MalformedTyped DEF Malformed
  <2> QED  BY <2>1 DEF Patient, FewFaultsAreSurvived
<1> QED  BY <1>1, <1>2, <1>3, <1>4 DEF Respond

LEMMA StepPatient ==
  ASSUME Typed, Patient, [Next]_vars
  PROVE  Patient'
<1>1. CASE ReadFederal
  BY <1>1, RespondPatient DEF ReadFederal, Typed, TypeOK
<1>2. CASE EndFederal \/ Crash
  <2>1. fetch' = NoFetch /\ fetch'.pc = "idle"
    BY <1>2 DEF EndFederal, Crash, EndFetch, NoFetch
  <2> QED  BY <2>1 DEF Patient, FewFaultsAreSurvived
<1>3. ASSUME NEW dialect \in Dialects, Tick(dialect) PROVE Patient'
  <2>1. fetch'.pc = "request" /\ fetch'.attempt = 1 /\ faults' = faults
    BY <1>3 DEF Tick, StartFetch, NoFetch
  <2>2. faults.transient \in Nat
    BY DEF Typed, TypeOK, PagingTypeOK
  <2> QED  BY <2>1, <2>2 DEF Patient, FewFaultsAreSurvived
<1>4. CASE UNCHANGED <<fetch, faults>>
  BY <1>4 DEF Patient, FewFaultsAreSurvived
<1>5. CASE \/ SourceMoves \/ ReadSites \/ EndSites \/ SelectExisting \/ StoreBatch \/ LoseBatch
           \/ (\E recorded \in BOOLEAN : EndHunt(recorded))
           \/ (\E o \in Opps, record \in Row : Rival(o, record))
           \/ UNCHANGED vars
  BY <1>4, <1>5 DEF SourceMoves, SourceChanges, Add, TakeOff, ReadSites, EndSites, SelectExisting,
                    StoreBatch, LoseBatch, EndHunt, Rival, vars, pagingVars
<1> QED  BY <1>1, <1>2, <1>3, <1>5 DEF Next, HuntStep

\* Fewer passing failures than attempts never end a run early.
THEOREM FaultsAreSurvived == Spec => []FewFaultsAreSurvived
<1>1. Init => Patient
  BY DEF Init, PagingInit, NoFetch, Patient, FewFaultsAreSurvived
<1>2. Patient => FewFaultsAreSurvived
  BY DEF Patient
<1> QED  BY <1>1, <1>2, StepPatient, AlwaysTyped, PTL DEF Spec
-----------------------------------------------------------------------------
(* Gaps *)

\* What a list holds after an offset.
Beyond(list, offset) == {list[i] : i \in {i \in DOMAIN list : i > offset}}

\* An opportunity that was added in front pushes the others down: what was still
\* to come is still to come.
LEMMA BeyondAdded ==
  ASSUME NEW list \in Seq(Opps), NEW o \in Opps, NEW offset \in Nat
  PROVE  Beyond(list, offset) \subseteq Beyond(<<o>> \o list, offset)
<1> DEFINE new == <<o>> \o list
<1>1. /\ DOMAIN new = 1..(Len(list) + 1) /\ DOMAIN list = 1..Len(list)
      /\ \A i \in DOMAIN list : i + 1 \in DOMAIN new /\ new[i + 1] = list[i]
  OBVIOUS
<1> HIDE DEF new
<1> SUFFICES ASSUME NEW i \in DOMAIN list, i > offset PROVE list[i] \in Beyond(new, offset)
  BY DEF Beyond, new
<1>2. i + 1 \in DOMAIN new /\ i + 1 > offset /\ new[i + 1] = list[i]
  BY <1>1
<1> QED  BY <1>2 DEF Beyond

\* One that was taken off pulls up the others: of what was still to come, no
\* more is lost than itself or the one that slips across the offset.
LEMMA BeyondTakenOff ==
  ASSUME NEW list \in Seq(Opps), NEW k \in DOMAIN list, NEW offset \in Nat
  PROVE  LET new == [j \in 1..(Len(list) - 1) |-> IF j < k THEN list[j] ELSE list[j + 1]]
         IN  \E x : Beyond(list, offset) \subseteq Beyond(new, offset) \cup {x}
<1> DEFINE n == Len(list) - 1
           new == [j \in 1..n |-> IF j < k THEN list[j] ELSE list[j + 1]]
           x == IF k <= offset THEN list[offset + 1] ELSE list[k]
<1>1. n \in Nat /\ DOMAIN list = 1..(n + 1) /\ k \in 1..(n + 1)
  OBVIOUS
<1>2. DOMAIN new = 1..n /\ \A j \in 1..n : new[j] = IF j < k THEN list[j] ELSE list[j + 1]
  OBVIOUS
<1> HIDE DEF n, new
<1>3. ASSUME NEW i \in DOMAIN list, i > offset, list[i] # x
      PROVE  list[i] \in Beyond(new, offset)
  <2>1. CASE i < k
    <3>1. i \in DOMAIN new /\ new[i] = list[i]
      BY <1>1, <1>2, <2>1
    <3> QED  BY <1>3, <3>1 DEF Beyond
  <2>2. CASE i > k
    <3>1. i - 1 > offset
      BY <1>1, <1>3, <2>2
    <3>2. i - 1 \in DOMAIN new /\ new[i - 1] = list[i]
      BY <1>1, <1>2, <2>2
    <3> QED  BY <3>1, <3>2 DEF Beyond
  <2>3. CASE i = k
    BY <1>1, <1>3, <2>3
  <2> QED  BY <1>1, <2>1, <2>2, <2>3
<1>4. Beyond(list, offset) \subseteq Beyond(new, offset) \cup {x}
  BY <1>3 DEF Beyond
<1> QED  BY <1>4 DEF new, n

\* What comes after an offset is not more than the places that are left.
LEMMA BeyondSize ==
  ASSUME NEW list \in Seq(Opps), NEW offset \in Nat
  PROVE  /\ IsFiniteSet(Beyond(list, offset))
         /\ Len(list) <= offset => Beyond(list, offset) = {}
         /\ Len(list) > offset => Cardinality(Beyond(list, offset)) <= Len(list) - offset
<1> DEFINE places == (offset + 1)..Len(list)
           at == [i \in places |-> list[i]]
<1>1. Len(list) \in Nat /\ DOMAIN list = 1..Len(list)
  OBVIOUS
<1>2. places = {i \in DOMAIN list : i > offset}
  BY <1>1
<1>3. IsFiniteSet(places) /\ (Len(list) > offset => Cardinality(places) = Len(list) - offset)
  <2>1. offset + 1 \in Int /\ Len(list) \in Int
    BY <1>1
  <2>2. /\ IsFiniteSet(places)
        /\ Cardinality(places) = IF offset + 1 > Len(list) THEN 0 ELSE Len(list) - (offset + 1) + 1
    BY <2>1, FS_Interval
  <2>3. \A n, size : n \in Nat /\ size = (IF offset + 1 > n THEN 0 ELSE n - (offset + 1) + 1)
          => (n > offset => size = n - offset)
    OBVIOUS
  <2> QED  BY <1>1, <2>2, <2>3
<1>4. at \in Surjection(places, Beyond(list, offset))
  BY <1>2 DEF Surjection, Beyond
<1>5. /\ IsFiniteSet(Beyond(list, offset))
      /\ Cardinality(Beyond(list, offset)) <= Cardinality(places)
  BY <1>3, <1>4, FS_Surjection
<1>6. Len(list) <= offset => Beyond(list, offset) = {}
  BY <1>1 DEF Beyond
<1> QED  BY <1>1, <1>3, <1>5, <1>6

\* A page is full unless the list ends within it, and the rest follows it.
LEMMA PageSize ==
  ASSUME PagingTypeOK, NEW offset \in Nat
  PROVE  /\ Len(listed) > offset + Rows => Size(offset) = Rows
         /\ Beyond(listed, offset) \subseteq PageAt(offset) \cup Beyond(listed, offset + Rows)
<1>1. Len(listed) \in Nat /\ DOMAIN listed = 1..Len(listed) /\ Rows \in Nat \ {0}
  BY PagingAssumption DEF PagingTypeOK
<1>2. ASSUME Len(listed) > offset + Rows PROVE Size(offset) = Rows
  <2>1. Places(offset) = (offset + 1)..(offset + Rows)
    BY <1>1, <1>2 DEF Places
  <2>2. Cardinality((offset + 1)..(offset + Rows)) = Rows
    BY <1>1, FS_Interval
  <2> QED  BY <2>1, <2>2 DEF Size
<1>3. ASSUME NEW i \in DOMAIN listed, i > offset
      PROVE  listed[i] \in PageAt(offset) \cup Beyond(listed, offset + Rows)
  BY <1>1, <1>3 DEF PageAt, Places, Beyond
<1> QED  BY <1>2, <1>3 DEF Beyond

LEMMA PageNumber ==
  ASSUME PagingTypeOK
  PROVE  fetch \in Fetch /\ fetch.page \in Nat
<1>1. fetch.page \in 0..(MaxPages - 1)
  BY DEF PagingTypeOK, Fetch
<1> QED  BY <1>1, PagingAssumption DEF PagingTypeOK

LEMMA OffsetType ==
  ASSUME NEW page \in Nat
  PROVE  Offset(page) \in Nat /\ Offset(page + 1) = Offset(page) + Rows
  BY PagingAssumption DEF Offset

\* Listed all the time, and neither read nor still to come.
Missed == before \ (fetch.got \cup Beyond(listed, Offset(fetch.page)))

\* While the pages are read, an opportunity is missed only for one that was
\* taken off, and the list outgrows the total once named only by additions.
Accounted ==
  /\ GapsHaveAReason
  /\ IsFiniteSet(before)
  /\ fetch.pc \in {"idle", "request"} => fetch.end = "none"
  /\ fetch.pc = "request" =>
       /\ Cardinality(Missed) <= removed
       /\ fetch.total # None => Len(listed) <= fetch.total + added

LEMMA MissedType ==
  ASSUME IsFiniteSet(before)
  PROVE  IsFiniteSet(Missed) /\ Cardinality(Missed) \in Nat
  BY FS_Subset, FS_CardinalityType DEF Missed

\* The list moves.
LEMMA SourceAccounted ==
  ASSUME PagingTypeOK, Accounted, SourceChanges
  PROVE  Accounted'
<1> DEFINE offset == Offset(fetch.page)
<1>0. /\ fetch \in Fetch /\ listed \in Seq(Opps) /\ offset \in Nat /\ Len(listed) \in Nat
      /\ added \in Nat /\ removed \in Nat /\ None \notin Nat /\ fetch.total \in Nat \cup {None}
  <2>1. fetch \in Fetch /\ fetch.page \in Nat
    BY PageNumber
  <2>2. offset \in Nat
    BY <2>1, OffsetType
  <2> HIDE DEF offset
  <2> QED  BY <2>1, <2>2, PagingAssumption DEF PagingTypeOK, Fetch
<1>1. IsFiniteSet(Missed) /\ Cardinality(Missed) \in Nat
  BY MissedType DEF Accounted
<1> HIDE DEF offset
<1>2. ASSUME NEW o \in Opps, Add(o) PROVE Accounted'
  <2>1. UNCHANGED <<fetch, before, removed>> /\ added' = added + 1 /\ listed' = <<o>> \o listed
        /\ fetch.pc = "request"
    BY <1>2 DEF Add
  <2>2. Missed' \subseteq Missed
    BY <1>0, <2>1, BeyondAdded DEF Missed, offset
  <2>3. Cardinality(Missed') <= Cardinality(Missed)
    BY <1>1, <2>2, FS_Subset
  <2>4. Len(listed') = Len(listed) + 1
    BY <1>0, <2>1
  <2>5. Missed' \in SUBSET Missed /\ Cardinality(Missed') \in Nat
    BY <1>1, <2>2, FS_Subset, FS_CardinalityType
  <2> QED  BY <1>0, <1>1, <2>1, <2>3, <2>4, <2>5 DEF Accounted, GapsHaveAReason
<1>3. ASSUME NEW k \in DOMAIN listed, TakeOff(k) PROVE Accounted'
  <2>1. /\ UNCHANGED <<fetch, before, added>> /\ removed' = removed + 1 /\ fetch.pc = "request"
        /\ listed' = [j \in 1..(Len(listed) - 1) |-> IF j < k THEN listed[j] ELSE listed[j + 1]]
    BY <1>3 DEF TakeOff
  <2>2. PICK x : Beyond(listed, offset) \subseteq Beyond(listed', offset) \cup {x}
    <3> DEFINE new == [j \in 1..(Len(listed) - 1) |-> IF j < k THEN listed[j] ELSE listed[j + 1]]
    <3>1. \E x : Beyond(listed, offset) \subseteq Beyond(new, offset) \cup {x}
      BY <1>0, BeyondTakenOff
    <3>2. listed' = new
      BY <2>1
    <3> HIDE DEF new
    <3> QED  BY <3>1, <3>2
  <2>3. Missed' \subseteq Missed \cup {x}
    BY <2>1, <2>2 DEF Missed, offset
  <2>4. /\ IsFiniteSet(Missed \cup {x})
        /\ Cardinality(Missed \cup {x}) <= Cardinality(Missed) + 1
    <3>1. /\ IsFiniteSet(Missed \cup {x})
          /\ Cardinality(Missed \cup {x})
               = IF x \in Missed THEN Cardinality(Missed) ELSE Cardinality(Missed) + 1
      BY <1>1, FS_AddElement
    <3> QED  BY <1>1, <3>1
  <2>5. Cardinality(Missed') <= Cardinality(Missed \cup {x}) /\ IsFiniteSet(Missed')
    BY <2>3, <2>4, FS_Subset
  <2>6. Cardinality(Missed') \in Nat /\ Cardinality(Missed \cup {x}) \in Nat
    BY <2>4, <2>5, FS_CardinalityType
  <2>7. Len(listed') = Len(listed) - 1
    <3>1. Len(listed) - 1 \in Nat
      BY <1>0
    <3> QED  BY <2>1, <3>1
  <2> QED  BY <1>0, <1>1, <2>1, <2>4, <2>5, <2>6, <2>7 DEF Accounted, GapsHaveAReason
<1> QED  BY <1>2, <1>3 DEF SourceChanges

\* A page is read.  When it was the last one, nothing came after it, or what did
\* was added after the total was named.
LEMMA AnswerAccounted ==
  ASSUME PagingTypeOK, Accounted, Answer
  PROVE  Accounted'
<1> DEFINE offset == Offset(fetch.page)
           got == fetch.got \cup PageAt(offset)
           rest == Beyond(listed, offset + Rows)
<1>0. /\ fetch \in Fetch /\ listed \in Seq(Opps) /\ offset \in Nat /\ Len(listed) \in Nat
      /\ added \in Nat /\ removed \in Nat /\ None \notin Nat /\ fetch.total \in Nat \cup {None}
      /\ Rows \in Nat \ {0} /\ fetch.page \in Nat
  <2>1. fetch \in Fetch /\ fetch.page \in Nat
    BY PageNumber
  <2>2. offset \in Nat
    BY <2>1, OffsetType
  <2> HIDE DEF offset
  <2> QED  BY <2>1, <2>2, PagingAssumption DEF PagingTypeOK, Fetch
<1>1. UNCHANGED <<listed, before, added, removed>> /\ fetch.pc = "request"
  BY DEF Answer, Goes
<1>2. IsFiniteSet(Missed) /\ Cardinality(Missed) \in Nat /\ Cardinality(Missed) <= removed
  BY <1>1, MissedType DEF Accounted
<1>3. before \ got \subseteq Missed \cup rest /\ before \ (got \cup rest) \subseteq Missed
  BY <1>0, PageSize DEF Missed
<1>4. PICK t \in TotalsOf(fetch.dialect) :
        \/ /\ Size(offset) < Rows \/ (t # None /\ offset + Size(offset) >= t)
           /\ fetch' = [fetch EXCEPT !.total = t, !.got = got, !.pc = "done", !.end = "complete"]
        \/ fetch' = [fetch EXCEPT !.total = t, !.got = got, !.pc = "done", !.end = "limit"]
        \/ fetch' = [fetch EXCEPT !.total = t, !.got = got, !.page = fetch.page + 1,
                                  !.attempt = 1, !.fallback = FALSE]
  BY AnswerCases
<1>5. /\ t \in Nat \cup {None} /\ (t # None => Len(listed) <= t + added)
      /\ t # None /\ fetch.dialect # "grants_gov" => t = Len(listed)
  BY <1>0, <1>1 DEF TotalsOf, Accounted
<1>6. Len(listed) > offset + Rows => Size(offset) = Rows
  BY <1>0, PageSize
<1> HIDE DEF offset, got
<1>7. CASE /\ Size(offset) < Rows \/ (t # None /\ offset + Size(offset) >= t)
           /\ fetch' = [fetch EXCEPT !.total = t, !.got = got, !.pc = "done", !.end = "complete"]
  <2>1. fetch'.got = got /\ fetch'.pc = "done" /\ fetch'.dialect = fetch.dialect
    BY <1>0, <1>7 DEF Fetch
  <2>2. IsFiniteSet(rest) /\ Cardinality(rest) \in Nat
    BY <1>0, BeyondSize, FS_CardinalityType
  <2>3. Cardinality(rest) <= IF fetch.dialect = "grants_gov" THEN added ELSE 0
    <3>1. CASE Len(listed) <= offset + Rows
      <4>1. rest = {}
        BY <1>0, <3>1, BeyondSize
      <4>2. Cardinality(rest) = 0
        BY <4>1, FS_EmptySet
      <4> HIDE DEF rest
      <4> QED  BY <1>0, <4>2
    <3>2. CASE Len(listed) > offset + Rows
      <4>1. t # None /\ offset + Rows >= t
        BY <1>0, <1>6, <1>7, <3>2
      <4>2. fetch.dialect = "grants_gov" /\ Len(listed) - (offset + Rows) <= added
        BY <1>0, <1>5, <3>2, <4>1
      <4>3. Cardinality(rest) <= Len(listed) - (offset + Rows)
        BY <1>0, <3>2, BeyondSize
      <4> QED  BY <1>0, <2>2, <4>2, <4>3
    <3> QED  BY <1>0, <3>1, <3>2
  <2>4. /\ IsFiniteSet(Missed \cup rest)
        /\ Cardinality(Missed \cup rest) <= Cardinality(Missed) + Cardinality(rest)
    <3>1. /\ IsFiniteSet(Missed \cup rest)
          /\ Cardinality(Missed \cup rest)
               = Cardinality(Missed) + Cardinality(rest) - Cardinality(Missed \cap rest)
      BY <1>2, <2>2, FS_Union
    <3>2. Cardinality(Missed \cap rest) \in Nat
      BY <1>2, FS_Intersection, FS_CardinalityType
    <3> QED  BY <1>2, <2>2, <3>1, <3>2
  <2>5. /\ Cardinality(before \ got) <= Cardinality(Missed \cup rest)
        /\ Cardinality(before \ got) \in Nat /\ Cardinality(Missed \cup rest) \in Nat
    <3>1. IsFiniteSet(before \ got) /\ Cardinality(before \ got) <= Cardinality(Missed \cup rest)
      BY <1>3, <2>4, FS_Subset
    <3> QED  BY <2>4, <3>1, FS_CardinalityType
  <2>6. Cardinality(before \ got) <= removed + (IF fetch.dialect = "grants_gov" THEN added ELSE 0)
    BY <1>0, <1>2, <2>2, <2>3, <2>4, <2>5
  <2> QED  BY <1>1, <2>1, <2>6 DEF Accounted, GapsHaveAReason
<1>8. CASE fetch' = [fetch EXCEPT !.total = t, !.got = got, !.pc = "done", !.end = "limit"]
  <2>1. fetch'.pc = "done" /\ fetch'.end = "limit"
    BY <1>0, <1>8 DEF Fetch
  <2> QED  BY <1>1, <2>1 DEF Accounted, GapsHaveAReason
<1>9. CASE fetch' = [fetch EXCEPT !.total = t, !.got = got, !.page = fetch.page + 1,
                                  !.attempt = 1, !.fallback = FALSE]
  <2>1. /\ fetch'.got = got /\ fetch'.total = t /\ fetch'.page = fetch.page + 1
        /\ fetch'.pc = "request" /\ fetch'.end = "none"
    BY <1>0, <1>1, <1>9 DEF Fetch, Accounted
  <2>2. Offset(fetch'.page) = offset + Rows
    BY <1>0, <2>1, OffsetType DEF offset
  <2>3. Missed' \subseteq Missed
    BY <1>1, <1>3, <2>1, <2>2 DEF Missed
  <2>4. /\ Cardinality(Missed') <= Cardinality(Missed) /\ Cardinality(Missed') \in Nat
    BY <1>2, <2>3, FS_Subset, FS_CardinalityType
  <2> QED  BY <1>0, <1>1, <1>2, <1>5, <2>1, <2>4 DEF Accounted, GapsHaveAReason
<1> QED  BY <1>4, <1>7, <1>8, <1>9

\* A request fails: it is made again, or the loop is left with a reason.
LEMMA FailureAccounted ==
  ASSUME PagingTypeOK, Accounted, Transient \/ Refuse \/ Malformed
  PROVE  Accounted'
<1>0. fetch \in Fetch /\ fetch.pc = "request" /\ UNCHANGED <<listed, before, added, removed>>
  BY DEF PagingTypeOK, Transient, Refuse, Malformed, Goes
<1>1. \/ /\ fetch'.pc = "request" /\ fetch'.end = fetch.end /\ fetch'.got = fetch.got
         /\ fetch'.page = fetch.page /\ fetch'.total = fetch.total
      \/ fetch'.pc = "done" /\ fetch'.end \in {"error", "cut"}
  <2>1. CASE Malformed
    BY <2>1, MalformedTyped
  <2>2. CASE Transient /\ MayRetry
    <3>1. fetch' = [fetch EXCEPT !.attempt = fetch.attempt + 1]
      BY <2>2 DEF Transient, Goes
    <3> QED  BY <1>0, <3>1 DEF Fetch
  <2>3. CASE fetch' = GivenUp
    BY <1>0, <2>3 DEF GivenUp, Fetch
  <2> QED  BY <2>1, <2>2, <2>3 DEF Transient, Refuse, Goes
<1>2. CASE /\ fetch'.pc = "request" /\ fetch'.end = fetch.end /\ fetch'.got = fetch.got
           /\ fetch'.page = fetch.page /\ fetch'.total = fetch.total
  <2>1. Missed' = Missed
    BY <1>0, <1>2 DEF Missed
  <2> QED  BY <1>0, <1>2, <2>1 DEF Accounted, GapsHaveAReason
<1>3. CASE fetch'.pc = "done" /\ fetch'.end \in {"error", "cut"}
  BY <1>0, <1>3 DEF Accounted, GapsHaveAReason
<1> QED  BY <1>1, <1>2, <1>3

\* A run begins with everything to come.
LEMMA StartAccounted ==
  ASSUME PagingTypeOK, NEW dialect, StartFetch(dialect)
  PROVE  Accounted'
<1>1. listed \in Seq(Opps) /\ DOMAIN listed = 1..Len(listed)
  BY DEF PagingTypeOK
<1>2. /\ fetch'.pc = "request" /\ fetch'.end = "none" /\ fetch'.got = {} /\ fetch'.page = 0
      /\ fetch'.total = None /\ before' = Listed /\ UNCHANGED <<listed, added, removed>>
  BY DEF StartFetch, NoFetch
<1>3. Listed = Beyond(listed, 0) /\ Offset(0) = 0
  BY <1>1, PagingAssumption DEF Listed, Beyond, Offset
<1>4. IsFiniteSet(Listed)
  BY <1>1, <1>3, BeyondSize
<1>5. Missed' = {}
  BY <1>2, <1>3 DEF Missed
<1> QED  BY <1>2, <1>4, <1>5, FS_EmptySet DEF Accounted, GapsHaveAReason, PagingTypeOK

LEMMA StepAccounted ==
  ASSUME Typed, Accounted, [Next]_vars
  PROVE  Accounted'
<1>0. PagingTypeOK
  BY DEF Typed, TypeOK
<1>1. CASE ReadFederal
  BY <1>0, <1>1, AnswerAccounted, FailureAccounted DEF ReadFederal, Respond
<1>2. CASE SourceMoves
  BY <1>0, <1>2, SourceAccounted DEF SourceMoves
<1>3. CASE EndFederal \/ Crash
  <2>1. fetch' = NoFetch /\ before' = {}
    BY <1>3 DEF EndFederal, Crash, EndFetch
  <2> QED  BY <2>1, FS_EmptySet DEF NoFetch, Accounted, GapsHaveAReason
<1>4. ASSUME NEW dialect \in Dialects, Tick(dialect) PROVE Accounted'
  BY <1>0, <1>4, StartAccounted DEF Tick
<1>5. CASE UNCHANGED <<listed, fetch, before, added, removed>>
  BY <1>5 DEF Accounted, GapsHaveAReason, Missed
<1>6. CASE \/ ReadSites \/ EndSites \/ SelectExisting \/ StoreBatch \/ LoseBatch
           \/ (\E recorded \in BOOLEAN : EndHunt(recorded))
           \/ (\E o \in Opps, record \in Row : Rival(o, record))
           \/ UNCHANGED vars
  BY <1>5, <1>6 DEF ReadSites, EndSites, SelectExisting, StoreBatch, LoseBatch, EndHunt, Rival,
                    vars, pagingVars
<1> QED  BY <1>1, <1>2, <1>3, <1>4, <1>6 DEF Next, HuntStep

\* A complete crawl misses no more than the list moved, for any list and pages.
THEOREM GapsAreExplained == Spec => []GapsHaveAReason
<1>1. Init => Accounted
  BY FS_EmptySet DEF Init, PagingInit, NoFetch, Accounted, GapsHaveAReason
<1>2. Accounted => GapsHaveAReason
  BY DEF Accounted
<1> QED  BY <1>1, <1>2, StepAccounted, AlwaysTyped, PTL DEF Spec

-----------------------------------------------------------------------------
(* Every hunt is finite: it can always go on, and each of its steps leaves *)
(* strictly less to do                                                     *)

\* The stages that are still to come.
Stages == {"idle", "record", "store", "persist", "states", "foundations", "federal"}

After(pc) ==
  {stage \in Stages :
     \/ pc # "idle" /\ stage = "idle"
     \/ pc \in {"federal", "foundations", "states", "persist", "store"} /\ stage = "record"
     \/ pc \in {"federal", "foundations", "states", "persist"} /\ stage = "store"
     \/ pc \in {"federal", "foundations", "states"} /\ stage = "persist"
     \/ pc \in {"federal", "foundations"} /\ stage = "states"
     \/ pc = "federal" /\ stage = "foundations"}

\* The requests to the federal source that may still be made, this one included:
\* attempts, on this endpoint and the other one, of this page and the later ones.
Requests == (0..(MaxPages - 1)) \X (0..1) \X (0..Retries)

Endpoint == IF fetch.fallback THEN 1 ELSE 0

RequestsLeft ==
  {r \in Requests :
     /\ fetch.pc = "request"
     /\ \/ r[1] > fetch.page
        \/ r[1] = fetch.page /\ r[2] > Endpoint
        \/ r[1] = fetch.page /\ r[2] = Endpoint /\ r[3] >= fetch.attempt}

\* The steps a task has before it.
StepsOf(task) ==
  {n \in 1..3 : \/ task.pc = "waiting"
                \/ task.pc = "plain" /\ n < 3
                \/ task.pc = "browser" /\ n < 2}

\* Sites whose gathering has not begun.
SitesAhead ==
  IF hunt.pc = "federal" THEN Sites ELSE IF hunt.pc = "foundations" THEN StatePortals ELSE {}

\* The steps of tasks that may still be taken.
TaskStepsLeft ==
  {p \in Sites \X (1..3) : p[1] \in SitesAhead \/ p[2] \in StepsOf(tasks[p[1]])}

\* There is no more to do than before, or even less.
NoMore ==
  /\ After(hunt'.pc) \subseteq After(hunt.pc)
  /\ RequestsLeft' \subseteq RequestsLeft
  /\ TaskStepsLeft' \subseteq TaskStepsLeft

Less ==
  /\ NoMore
  /\ \/ After(hunt'.pc) # After(hunt.pc)
     \/ RequestsLeft' # RequestsLeft
     \/ TaskStepsLeft' # TaskStepsLeft

\* The guard of some step of the hunt: an answer or a failure of the request
\* that is out, the end of a stage, a task that waits for its site or for one of
\* the free slots.
CanGoOn ==
  \/ hunt.pc = "federal" /\ fetch.pc \in {"request", "done"}
  \/ /\ hunt.pc \in {"foundations", "states"}
     /\ \/ AllEnded
        \/ \E s \in Sites : \/ tasks[s].pc \in {"plain", "browser"}
                            \/ tasks[s].pc = "waiting" /\ Cardinality(InFlight) < MaxConcurrency
  \/ hunt.pc \in {"persist", "store", "record"}

\* What is left is finite, so that a hunt takes a bounded number of steps.
LEMMA LittleIsLeft ==
  IsFiniteSet(After(hunt.pc)) /\ IsFiniteSet(RequestsLeft) /\ IsFiniteSet(TaskStepsLeft)
<1>1. IsFiniteSet(Stages)
  <2> DEFINE early == ({"idle"} \cup {"record"}) \cup {"store"}
             later == (early \cup {"persist"}) \cup {"states"}
  <2>1. IsFiniteSet(early)
    BY FS_Singleton, FS_AddElement
  <2> HIDE DEF early
  <2>2. IsFiniteSet(later)
    BY <2>1, FS_AddElement
  <2> HIDE DEF later
  <2>3. IsFiniteSet((later \cup {"foundations"}) \cup {"federal"})
    BY <2>2, FS_AddElement
  <2>4. Stages = (later \cup {"foundations"}) \cup {"federal"}
    BY DEF Stages, later, early
  <2> QED  BY <2>3, <2>4
<1>2. /\ IsFiniteSet(0..(MaxPages - 1)) /\ IsFiniteSet(0..Retries) /\ IsFiniteSet(1..3)
      /\ IsFiniteSet(0..1)
  <2>1. /\ 0 \in Int /\ 1 \in Int /\ 3 \in Int /\ Retries \in Int /\ MaxPages - 1 \in Int
    BY PagingAssumption
  <2> QED  BY <2>1, FS_Interval
<1>3. IsFiniteSet(Sites)
  BY GatherAssumption
<1>4. IsFiniteSet(Sites \X (1..3))
  BY <1>2, <1>3, FS_Product
<1>5. IsFiniteSet(Requests)
  <2> DEFINE pages == 0..(MaxPages - 1)
             attempts == 0..Retries
             pair == pages \X (0..1)
             flat == pair \X attempts
  <2>1. IsFiniteSet(pair)
    BY <1>2, FS_Product
  <2>2. IsFiniteSet(flat)
    BY <1>2, <2>1, FS_Product
  <2> DEFINE f == [x \in flat |-> <<x[1][1], x[1][2], x[2]>>]
  <2>3. f \in Surjection(flat, Requests)
    <3>1. \A x \in flat : f[x] \in Requests
      BY DEF Requests
    <3>2. ASSUME NEW r \in Requests PROVE \E x \in flat : f[x] = r
      <4>1. r[1] \in pages /\ r[2] \in 0..1 /\ r[3] \in attempts /\ r = <<r[1], r[2], r[3]>>
        BY DEF Requests
      <4> DEFINE x == <<<<r[1], r[2]>>, r[3]>>
      <4>2. x \in flat /\ x[1][1] = r[1] /\ x[1][2] = r[2] /\ x[2] = r[3]
        BY <4>1
      <4>3. f[x] = r
        BY <4>1, <4>2
      <4> QED  BY <4>2, <4>3
    <3> QED  BY <3>1, <3>2 DEF Surjection
  <2> HIDE DEF f, flat
  <2> QED  BY <2>2, <2>3, FS_Surjection
<1> QED  BY <1>1, <1>4, <1>5, FS_Subset DEF After, RequestsLeft, TaskStepsLeft

LEMMA RespondCases ==
  ASSUME PagingTypeOK, Respond
  PROVE  \/ fetch'.pc = "done"
         \/ /\ fetch'.pc = "request"
            /\ \/ /\ fetch'.page = fetch.page /\ fetch'.fallback = fetch.fallback
                  /\ fetch'.attempt = fetch.attempt + 1
               \/ /\ fetch'.page = fetch.page /\ ~fetch.fallback /\ fetch'.fallback
                  /\ fetch'.attempt = 1
               \/ fetch'.page = fetch.page + 1
<1>0. fetch \in Fetch /\ fetch.pc = "request"
  BY DEF PagingTypeOK, Respond, Answer, Transient, Refuse, Malformed
<1>1. CASE Answer
  <2> DEFINE got == fetch.got \cup PageAt(Offset(fetch.page))
  <2>1. PICK t \in TotalsOf(fetch.dialect) :
          \/ fetch' = [fetch EXCEPT !.total = t, !.got = got, !.pc = "done", !.end = "complete"]
          \/ fetch' = [fetch EXCEPT !.total = t, !.got = got, !.pc = "done", !.end = "limit"]
          \/ fetch' = [fetch EXCEPT !.total = t, !.got = got, !.page = fetch.page + 1,
                                    !.attempt = 1, !.fallback = FALSE]
    BY <1>1, AnswerCases
  <2> HIDE DEF got
  <2> QED  BY <1>0, <2>1 DEF Fetch
<1>2. CASE fetch' = GivenUp
  BY <1>0, <1>2 DEF GivenUp, Fetch
<1>3. CASE Transient /\ MayRetry
  BY <1>0, <1>3 DEF Transient, Goes, Fetch
<1>4. CASE Malformed
  BY <1>4, MalformedTyped
<1> QED  BY <1>1, <1>2, <1>3, <1>4 DEF Respond, Transient, Refuse, Goes

\* Whatever comes of a request, fewer may follow.
LEMMA RespondLess ==
  ASSUME PagingTypeOK, Respond
  PROVE  RequestsLeft' \subseteq RequestsLeft /\ RequestsLeft' # RequestsLeft
<1>1. PagingTypeOK'
  BY RespondTyped
<1>2. /\ fetch.pc = "request"
      /\ fetch.page \in 0..(MaxPages - 1) /\ fetch.fallback \in BOOLEAN /\ fetch.attempt \in 0..Retries
      /\ fetch'.page \in 0..(MaxPages - 1) /\ fetch'.fallback \in BOOLEAN
      /\ fetch'.attempt \in 0..Retries
  BY <1>1 DEF PagingTypeOK, Fetch, Respond, Answer, Transient, Refuse, Malformed
<1> DEFINE this == <<fetch.page, Endpoint, fetch.attempt>>
<1>e. /\ Endpoint \in 0..1 /\ Endpoint' \in 0..1
      /\ Endpoint = IF fetch.fallback THEN 1 ELSE 0
      /\ Endpoint' = IF fetch'.fallback THEN 1 ELSE 0
  BY DEF Endpoint
<1>3. this \in RequestsLeft
  BY <1>2, <1>e DEF RequestsLeft, Requests
<1>c. fetch'.pc = "request" =>
        \/ /\ fetch'.page = fetch.page /\ Endpoint' = Endpoint
           /\ fetch'.attempt = fetch.attempt + 1
        \/ fetch'.page = fetch.page /\ Endpoint = 0 /\ Endpoint' = 1
        \/ fetch'.page = fetch.page + 1
  BY <1>e, RespondCases
<1>4. ASSUME NEW r \in RequestsLeft'
      PROVE  r \in RequestsLeft /\ r # this
  <2> DEFINE page == r[1]
             endpoint == r[2]
             attempt == r[3]
  <2>1. /\ r \in Requests /\ fetch'.pc = "request"
        /\ \/ page > fetch'.page
           \/ page = fetch'.page /\ endpoint > Endpoint'
           \/ page = fetch'.page /\ endpoint = Endpoint' /\ attempt >= fetch'.attempt
    BY <1>4 DEF RequestsLeft, Requests
  <2>2. page \in Nat /\ endpoint \in 0..1 /\ attempt \in Nat
    BY <2>1 DEF Requests
  <2>3. r = this => page = fetch.page /\ endpoint = Endpoint /\ attempt = fetch.attempt
    OBVIOUS
  <2> HIDE DEF this, page, endpoint, attempt
  <2>4. /\ fetch.page \in Nat /\ fetch.attempt \in Nat /\ fetch'.page \in Nat
        /\ fetch'.attempt \in Nat
    BY <1>2, PagingAssumption
  <2>5. /\ \/ page > fetch.page
           \/ page = fetch.page /\ endpoint > Endpoint
           \/ page = fetch.page /\ endpoint = Endpoint /\ attempt >= fetch.attempt
        /\ ~(page = fetch.page /\ endpoint = Endpoint /\ attempt = fetch.attempt)
    <3>1. CASE /\ fetch'.page = fetch.page /\ Endpoint' = Endpoint
               /\ fetch'.attempt = fetch.attempt + 1
      BY <1>e, <2>1, <2>2, <2>4, <3>1
    <3>2. CASE fetch'.page = fetch.page /\ Endpoint = 0 /\ Endpoint' = 1
      BY <2>1, <2>2, <2>4, <3>2
    <3>3. CASE fetch'.page = fetch.page + 1
      BY <2>1, <2>2, <2>4, <3>3
    <3> QED  BY <1>c, <2>1, <3>1, <3>2, <3>3
  <2> QED  BY <1>2, <2>1, <2>3, <2>5 DEF RequestsLeft, page, endpoint, attempt
<1> HIDE DEF this
<1> QED  BY <1>3, <1>4

\* A step of one task leaves the others alone, and itself one step less.
LEMMA GatherLess ==
  ASSUME GatherTypeOK, GatherStep, hunt' = hunt
  PROVE  /\ TaskStepsLeft' \subseteq TaskStepsLeft
         /\ hunt.pc \in {"foundations", "states"} /\ (\A s \in SitesAhead : tasks[s].pc = "absent")
              => TaskStepsLeft' # TaskStepsLeft
<1>1. PICK s \in Sites : Begin(s) \/ PlainAnswer(s) \/ PlainNothing(s) \/ BrowserAnswer(s) \/ Raise(s)
  BY DEF GatherStep
<1>2. \E pc, got :
        /\ Becomes(s, pc, got)
        /\ \/ tasks[s].pc = "waiting" /\ pc \in {"plain", "browser"}
           \/ tasks[s].pc = "plain" /\ pc \in {"browser", "done", "failed"}
           \/ tasks[s].pc = "browser" /\ pc \in {"done", "failed"}
  <2>1. CASE Begin(s)
    BY <2>1 DEF Begin
  <2>2. CASE PlainAnswer(s)
    BY <2>2 DEF PlainAnswer
  <2>3. CASE PlainNothing(s)
    BY <2>3 DEF PlainNothing
  <2>4. CASE BrowserAnswer(s)
    BY <2>4 DEF BrowserAnswer
  <2>5. CASE Raise(s)
    BY <2>5 DEF Raise
  <2> QED  BY <1>1, <2>1, <2>2, <2>3, <2>4, <2>5
<1>3. /\ tasks[s].pc \in {"waiting", "plain", "browser"}
      /\ \A o \in Sites \ {s} : tasks'[o] = tasks[o]
      /\ \/ tasks[s].pc = "waiting" /\ tasks'[s].pc \in {"plain", "browser"}
         \/ tasks[s].pc = "plain" /\ tasks'[s].pc \in {"browser", "done", "failed"}
         \/ tasks[s].pc = "browser" /\ tasks'[s].pc \in {"done", "failed"}
  BY <1>2 DEF Becomes, GatherTypeOK
<1> DEFINE last == IF tasks[s].pc = "waiting" THEN 3 ELSE IF tasks[s].pc = "plain" THEN 2 ELSE 1
<1>4. /\ StepsOf(tasks'[s]) \subseteq StepsOf(tasks[s])
      /\ last \in StepsOf(tasks[s]) /\ last \notin StepsOf(tasks'[s]) /\ last \in 1..3
  BY <1>3 DEF StepsOf
<1> HIDE DEF last
<1>5. SitesAhead' = SitesAhead
  BY DEF SitesAhead
<1>6. ASSUME NEW p \in TaskStepsLeft' PROVE p \in TaskStepsLeft
  <2>1. /\ p \in Sites \X (1..3) /\ p[1] \in Sites
        /\ p[1] \in SitesAhead \/ p[2] \in StepsOf(tasks'[p[1]])
    BY <1>5, <1>6 DEF TaskStepsLeft
  <2>2. StepsOf(tasks'[p[1]]) \subseteq StepsOf(tasks[p[1]])
    BY <1>3, <1>4, <2>1
  <2> QED  BY <2>1, <2>2 DEF TaskStepsLeft
<1>7. ASSUME \A o \in SitesAhead : tasks[o].pc = "absent"
      PROVE  <<s, last>> \in TaskStepsLeft /\ <<s, last>> \notin TaskStepsLeft'
  <2>1. s \notin SitesAhead
    BY <1>3, <1>7
  <2> QED  BY <1>4, <1>5, <2>1 DEF TaskStepsLeft
<1> QED  BY <1>6, <1>7

\* Where the hunt is tells what is being read, and which tasks there are.
InStage ==
  /\ hunt.pc = "federal" => fetch.pc \in {"request", "done"}
  /\ hunt.pc # "federal" => fetch.pc = "idle"
  /\ \A s \in SitesAhead : hunt.pc \in {"foundations", "states"} => tasks[s].pc = "absent"

LEMMA AfterFacts ==
  ASSUME NEW old \in Stages, NEW new \in Stages,
         \/ old = "federal" /\ new = "foundations"
         \/ old = "foundations" /\ new = "states"
         \/ old = "states" /\ new \in {"persist", "record"}
         \/ old = "persist" /\ new \in {"store", "record"}
         \/ old = "store" /\ new = "record"
         \/ old # "idle" /\ new = "idle"
  PROVE  After(new) \subseteq After(old) /\ After(new) # After(old)
<1>1. After(new) \subseteq After(old)
  BY DEF After
<1>2. new \in After(old) /\ new \notin After(new)
  BY DEF After, Stages
<1> QED  BY <1>1, <1>2

LEMMA StepInStage ==
  ASSUME Typed, InStage, [Next]_vars
  PROVE  InStage'
<1>0. PagingTypeOK /\ GatherTypeOK /\ hunt \in Hunt
  BY DEF Typed, TypeOK
<1>1. CASE ReadFederal
  <2>1. hunt.pc = "federal" /\ hunt'.pc = "federal"
    BY <1>0, <1>1 DEF ReadFederal, Moves, Hunt
  <2>2. fetch'.pc \in {"request", "done"}
    BY <1>0, <1>1, RespondCases DEF ReadFederal
  <2> QED  BY <2>1, <2>2 DEF InStage
<1>2. CASE EndFederal
  <2>1. hunt'.pc = "foundations" /\ fetch'.pc = "idle" /\ tasks' = Gather(Foundations)
    BY <1>0, <1>2 DEF EndFederal, Moves, Hunt, EndFetch, NoFetch
  <2>2. \A s \in StatePortals : s \in Sites /\ s \notin Foundations
    BY GatherAssumption DEF Sites
  <2> QED  BY <2>1, <2>2 DEF InStage, SitesAhead, Gather
<1>3. CASE ReadSites
  <2>1. hunt' = hunt /\ fetch' = fetch
    BY <1>3 DEF ReadSites, pagingVars
  <2>2. \A s \in Sites : tasks[s].pc = "absent" => tasks'[s] = tasks[s]
    <3>1. PICK s \in Sites :
            Begin(s) \/ PlainAnswer(s) \/ PlainNothing(s) \/ BrowserAnswer(s) \/ Raise(s)
      BY <1>3 DEF ReadSites, GatherStep
    <3>2. tasks[s].pc # "absent" /\ \E pc, got : Becomes(s, pc, got)
      BY <3>1 DEF Begin, PlainAnswer, PlainNothing, BrowserAnswer, Raise
    <3> QED  BY <1>0, <3>2 DEF Becomes, GatherTypeOK
  <2>3. SitesAhead \subseteq Sites
    BY DEF SitesAhead, Sites
  <2> QED  BY <2>1, <2>2, <2>3 DEF InStage, SitesAhead
<1>4. CASE EndSites
  <2>1. /\ hunt.pc \in {"foundations", "states"} /\ fetch' = fetch
        /\ hunt'.pc \in {"states", "record", "persist"}
    BY <1>0, <1>4 DEF EndSites, Moves, Hunt, pagingVars
  <2> QED  BY <2>1 DEF InStage, SitesAhead
<1>5. CASE SelectExisting \/ StoreBatch \/ LoseBatch \/ (\E recorded \in BOOLEAN : EndHunt(recorded))
  <2>1. CASE SelectExisting \/ StoreBatch \/ LoseBatch
    BY <1>0, <2>1 DEF SelectExisting, StoreBatch, LoseBatch, Moves, Hunt, pagingVars, InStage,
                      SitesAhead
  <2>2. CASE \E recorded \in BOOLEAN : EndHunt(recorded)
    BY <2>2 DEF EndHunt, pagingVars, NoHunt, InStage, SitesAhead
  <2> QED  BY <1>5, <2>1, <2>2
<1>6. CASE Crash
  BY <1>6 DEF Crash, EndFetch, NoFetch, NoHunt, InStage, SitesAhead
<1>7. CASE \E dialect \in Dialects : Tick(dialect)
  <2>1. hunt'.pc = "federal" /\ fetch'.pc = "request"
    BY <1>7 DEF Tick, StartFetch, NoFetch, NoHunt
  <2> QED  BY <2>1 DEF InStage
<1>8. CASE SourceMoves \/ (\E o \in Opps, record \in Row : Rival(o, record)) \/ UNCHANGED vars
  <2>1. hunt' = hunt /\ tasks' = tasks /\ fetch' = fetch
    BY <1>8 DEF SourceMoves, SourceChanges, Add, TakeOff, Rival, vars, pagingVars
  <2> QED  BY <2>1 DEF InStage, SitesAhead
<1> QED  BY <1>1, <1>2, <1>3, <1>4, <1>5, <1>6, <1>7, <1>8 DEF Next, HuntStep

\* A step to a later stage leaves less, if it starts no tasks but those of sites
\* that were still ahead.
LEMMA StageLess ==
  ASSUME Typed, Typed', After(hunt'.pc) \subseteq After(hunt.pc),
         After(hunt'.pc) # After(hunt.pc),
         fetch'.pc = "idle" \/ fetch' = fetch,
         \A s \in Sites : \/ s \in SitesAhead
                          \/ s \notin SitesAhead' /\ StepsOf(tasks'[s]) \subseteq StepsOf(tasks[s])
  PROVE  Less
<1>1. RequestsLeft' \subseteq RequestsLeft
  BY DEF RequestsLeft, Endpoint
<1>2. TaskStepsLeft' \subseteq TaskStepsLeft
  BY DEF TaskStepsLeft
<1> QED  BY <1>1, <1>2 DEF Less, NoMore

LEMMA NoSteps ==
  /\ \A s \in Sites : StepsOf(NoTasks[s]) = {}
  /\ \A sites : \A s \in Sites : s \notin sites => StepsOf(Gather(sites)[s]) = {}
  BY DEF StepsOf, NoTasks, Gather

LEMMA HuntStepLess ==
  ASSUME Typed, InStage, HuntStep
  PROVE  Less
<1>0. PagingTypeOK /\ GatherTypeOK /\ hunt \in Hunt /\ hunt.pc \in Stages
  BY DEF Typed, TypeOK, Hunt, Stages
<1>t. Typed'
  BY NextTyped DEF Next
<1>1. CASE ReadFederal
  <2>1. hunt.pc = "federal" /\ hunt'.pc = "federal" /\ tasks' = tasks
    BY <1>0, <1>1 DEF ReadFederal, Moves, Hunt
  <2>2. RequestsLeft' \subseteq RequestsLeft /\ RequestsLeft' # RequestsLeft
    BY <1>0, <1>1, RespondLess DEF ReadFederal
  <2>3. TaskStepsLeft' = TaskStepsLeft
    BY <2>1 DEF TaskStepsLeft, SitesAhead
  <2> QED  BY <2>1, <2>2, <2>3 DEF Less, NoMore
<1>2. CASE EndFederal
  <2>1. /\ hunt.pc = "federal" /\ hunt'.pc = "foundations" /\ fetch'.pc = "idle"
    BY <1>0, <1>2 DEF EndFederal, Moves, Hunt, EndFetch, NoFetch
  <2>2. \A s \in Sites : s \in SitesAhead
    BY <2>1 DEF SitesAhead
  <2>3. "foundations" \in Stages
    BY DEF Stages
  <2>4. After(hunt'.pc) \subseteq After(hunt.pc) /\ After(hunt'.pc) # After(hunt.pc)
    BY <1>0, <2>1, <2>3, AfterFacts
  <2> QED  BY <1>t, <2>1, <2>2, <2>4, StageLess
<1>3. CASE ReadSites
  <2>1. /\ hunt.pc \in {"foundations", "states"} /\ hunt' = hunt /\ fetch' = fetch /\ GatherStep
    BY <1>3 DEF ReadSites, pagingVars
  <2>2. TaskStepsLeft' \subseteq TaskStepsLeft /\ TaskStepsLeft' # TaskStepsLeft
    BY <1>0, <2>1, GatherLess DEF InStage
  <2>3. RequestsLeft' = RequestsLeft
    BY <2>1 DEF RequestsLeft, Endpoint
  <2> QED  BY <2>1, <2>2, <2>3 DEF Less, NoMore
<1>4. CASE EndSites
  <2>1. /\ hunt.pc \in {"foundations", "states"} /\ fetch' = fetch
        /\ hunt.pc = "foundations" => hunt'.pc = "states" /\ tasks' = Gather(StatePortals)
        /\ hunt.pc = "states" => hunt'.pc \in {"record", "persist"} /\ tasks' = NoTasks
    BY <1>0, <1>4 DEF EndSites, Moves, Hunt, pagingVars
  <2>2. hunt'.pc \in Stages
    BY <2>1 DEF Stages
  <2>3. After(hunt'.pc) \subseteq After(hunt.pc) /\ After(hunt'.pc) # After(hunt.pc)
    BY <1>0, <2>1, <2>2, AfterFacts
  <2>4. ASSUME NEW s \in Sites
        PROVE  \/ s \in SitesAhead
               \/ s \notin SitesAhead' /\ StepsOf(tasks'[s]) \subseteq StepsOf(tasks[s])
    BY <2>1, NoSteps DEF SitesAhead
  <2> QED  BY <1>t, <2>1, <2>3, <2>4, StageLess
<1>5. CASE SelectExisting \/ StoreBatch \/ LoseBatch \/ (\E recorded \in BOOLEAN : EndHunt(recorded))
  <2>1. /\ fetch' = fetch /\ tasks' = tasks /\ hunt.pc \notin {"federal", "foundations"}
        /\ \/ hunt.pc = "persist" /\ hunt'.pc \in {"store", "record"}
           \/ hunt.pc = "store" /\ hunt'.pc = "record"
           \/ hunt.pc = "record" /\ hunt'.pc = "idle"
    <3>1. CASE SelectExisting \/ StoreBatch \/ LoseBatch
      BY <1>0, <3>1 DEF SelectExisting, StoreBatch, LoseBatch, Moves, Hunt, pagingVars
    <3>2. CASE \E recorded \in BOOLEAN : EndHunt(recorded)
      BY <3>2 DEF EndHunt, pagingVars, NoHunt
    <3> QED  BY <1>5, <3>1, <3>2
  <2>2. hunt'.pc \in Stages
    BY <2>1 DEF Stages
  <2>3. After(hunt'.pc) \subseteq After(hunt.pc) /\ After(hunt'.pc) # After(hunt.pc)
    BY <1>0, <2>1, <2>2, AfterFacts
  <2>4. ASSUME NEW s \in Sites
        PROVE  s \notin SitesAhead' /\ StepsOf(tasks'[s]) \subseteq StepsOf(tasks[s])
    BY <2>1 DEF SitesAhead
  <2> QED  BY <1>t, <2>1, <2>3, <2>4, StageLess
<1> QED  BY <1>1, <1>2, <1>3, <1>4, <1>5 DEF HuntStep

\* Changes of the source, rivals and crashes give a hunt nothing more to do.
LEMMA OthersNoMore ==
  ASSUME Typed, InStage, SourceMoves \/ Crash \/ \E o \in Opps, record \in Row : Rival(o, record)
  PROVE  NoMore
<1>1. CASE Crash
  <2>1. hunt'.pc = "idle" /\ fetch'.pc = "idle" /\ tasks' = NoTasks
    BY <1>1 DEF Crash, NoHunt, EndFetch, NoFetch
  <2>2. After(hunt'.pc) = {}
    BY <2>1 DEF After
  <2>3. RequestsLeft' = {}
    BY <2>1 DEF RequestsLeft
  <2>4. TaskStepsLeft' = {}
    BY <2>1, NoSteps DEF TaskStepsLeft, SitesAhead
  <2> QED  BY <2>2, <2>3, <2>4 DEF NoMore
<1>2. CASE SourceMoves \/ \E o \in Opps, record \in Row : Rival(o, record)
  <2>1. hunt' = hunt /\ fetch' = fetch /\ tasks' = tasks
    BY <1>2 DEF SourceMoves, SourceChanges, Add, TakeOff, Rival, pagingVars
  <2> QED  BY <2>1 DEF NoMore, RequestsLeft, Endpoint, TaskStepsLeft, SitesAhead
<1> QED  BY <1>1, <1>2

\* While no other hunt begins, nothing gives a hunt more to do, and each of its
\* own steps leaves less: of finitely many requests, tasks and stages.
EndInSight ==
  [][/\ HuntStep => Less
     /\ (\A dialect \in Dialects : ~Tick(dialect)) => NoMore]_vars

\* A hunt is never stuck: a task that waits for a slot is not kept from it by
\* tasks that have ended, and no stage waits for anything but its own requests.
NeverStuck == hunt.pc # "idle" => CanGoOn

\* Every hunt takes a bounded number of steps, whatever the sources answer, and
\* for any numbers of pages, attempts, sites and slots: with the fairness of
\* FairSpec it ends.
THEOREM EndsAreInSight == Spec => EndInSight
<1>1. Init => InStage
  BY DEF Init, PagingInit, NoFetch, NoHunt, InStage, SitesAhead
<1>2. Typed /\ InStage /\ [Next]_vars => InStage'
  BY StepInStage
<1>3. Typed /\ InStage /\ [Next]_vars =>
        [/\ HuntStep => Less
         /\ (\A dialect \in Dialects : ~Tick(dialect)) => NoMore]_vars
  BY HuntStepLess, OthersNoMore DEF Next, Less
<1> QED  BY <1>1, <1>2, <1>3, AlwaysTyped, PTL DEF Spec, EndInSight

\* A hunt that has begun can always go on to its end.
THEOREM HuntsNeverStick == Spec => []NeverStuck
<1>1. Init => InStage
  BY DEF Init, PagingInit, NoFetch, NoHunt, InStage, SitesAhead
<1>2. Typed /\ InStage /\ [Next]_vars => InStage'
  BY StepInStage
<1>3. Typed /\ InStage => NeverStuck
  <2> SUFFICES ASSUME Typed, InStage, hunt.pc # "idle" PROVE CanGoOn
    BY DEF NeverStuck
  <2>1. CASE hunt.pc \notin {"foundations", "states"}
    BY <2>1 DEF CanGoOn, InStage, Typed, TypeOK, Hunt
  <2>5. CASE /\ hunt.pc \in {"foundations", "states"}
             /\ AllEnded \/ \E s \in Sites : tasks[s].pc \in {"plain", "browser"}
    BY <2>5 DEF CanGoOn
  <2> SUFFICES ASSUME hunt.pc \in {"foundations", "states"}, ~AllEnded,
                      \A s \in Sites : tasks[s].pc \notin {"plain", "browser"}
               PROVE  CanGoOn
    BY <2>1, <2>5
  <2>2. PICK s \in Sites : tasks[s].pc = "waiting"
    BY DEF AllEnded, Typed, TypeOK, GatherTypeOK, Task
  <2>3. InFlight = {}
    BY DEF InFlight
  <2>4. Cardinality(InFlight) < MaxConcurrency
    BY <2>3, FS_EmptySet, GatherAssumption
  <2> QED  BY <2>2, <2>4 DEF CanGoOn
<1> QED  BY <1>1, <1>2, <1>3, AlwaysTyped, PTL DEF Spec
=============================================================================
