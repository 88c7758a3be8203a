------------------------------- MODULE Paging -------------------------------
(***************************************************************************)
(* How a hunt reads a federal source page by page (hunter/sources/         *)
(* grants_gov.py, simpler_grants.py, sam_gov.py) over request_json with    *)
(* its retries (hunter/sources/base.py), while the source adds             *)
(* opportunities at the front of its list and takes others off.            *)
(***************************************************************************)
EXTENDS Naturals, Sequences, FiniteSets

CONSTANTS Opps,        \* opportunities (GrantRecords, by dedupe_hash)
          FirstListed, \* what the source lists at the start, newest first
          Rows,        \* page size
          MaxPages,    \* *_max_pages
          Retries,     \* attempts of request_json
          MaxChanges,  \* bound: changes of the list while it is read
          None

ASSUME PagingAssumption ==
  /\ Rows \in Nat \ {0} /\ MaxPages \in Nat \ {0} /\ Retries \in Nat \ {0}
  /\ MaxChanges \in Nat
  /\ FirstListed \in Seq(Opps)
  /\ None \notin Nat

\* grants_gov takes the number of hits from the first page; sam_gov and
\* simpler_grants from each, and simpler_grants has a second endpoint to try.
Dialects == {"grants_gov", "simpler_grants", "sam_gov"}

VARIABLES
  listed,   \* the list at the source
  fetch,    \* the run of the source's page loop
  before,   \* observer: the opportunities listed when the run began
  added,    \* observer: additions since
  removed,  \* observer: removals since
  faults    \* observer: how many of this run's requests failed for a moment
            \* (counted up to Retries), and whether one failed for good

pagingVars == <<listed, fetch, before, added, removed, faults>>

\* end  why the loop was left: "complete" (nothing more to read), "limit" (of
\*      pages), "cut" (a later page failed: not reported), "error" (reported)
Fetch == [pc : {"idle", "request", "done"}, dialect : Dialects \cup {None},
          page : 0..(MaxPages - 1), attempt : 0..Retries, fallback : BOOLEAN,
          total : Nat \cup {None}, got : SUBSET Opps,
          end : {"none", "complete", "limit", "cut", "error"}]

NoFetch == [pc |-> "idle", dialect |-> None, page |-> 0, attempt |-> 0,
            fallback |-> FALSE, total |-> None, got |-> {}, end |-> "none"]

Listed == {listed[i] : i \in DOMAIN listed}

NoFaults == [transient |-> 0, refused |-> FALSE]

PagingInit ==
  /\ listed = FirstListed /\ fetch = NoFetch
  /\ before = {} /\ added = 0 /\ removed = 0 /\ faults = NoFaults

-----------------------------------------------------------------------------
(* The source (external) *)

Add(o) ==
  /\ fetch.pc = "request" /\ added + removed < MaxChanges /\ o \notin Listed
  /\ listed' = <<o>> \o listed /\ added' = added + 1
  /\ UNCHANGED <<fetch, before, removed, faults>>

TakeOff(i) ==
  /\ fetch.pc = "request" /\ added + removed < MaxChanges
  /\ listed' = [j \in 1..(Len(listed) - 1) |->
                  IF j < i THEN listed[j] ELSE listed[j + 1]]
  /\ removed' = removed + 1
  /\ UNCHANGED <<fetch, before, added, faults>>

-----------------------------------------------------------------------------
(* The page loop *)

StartFetch(dialect) ==
  /\ fetch.pc = "idle"
  /\ fetch' = [NoFetch EXCEPT !.pc = "request", !.dialect = dialect, !.attempt = 1]
  /\ before' = Listed
  /\ UNCHANGED <<listed, added, removed, faults>>

\* The source has returned its result, or the hunt died.
EndFetch ==
  /\ fetch' = NoFetch
  /\ before' = {} /\ added' = 0 /\ removed' = 0 /\ faults' = NoFaults
  /\ UNCHANGED listed

Goes(record) ==
  /\ fetch' = record
  /\ UNCHANGED <<listed, before, added, removed>>

\* Where a page starts.  Faulty variant of Offset: counted from one.
OffsetFromOne(page) == page * Rows + 1

Offset(page) == page * Rows

Places(offset) == {i \in DOMAIN listed : i > offset /\ i <= offset + Rows}

PageAt(offset) == {listed[i] : i \in Places(offset)}

\* The first entries of a page, read before one that raises.
FirstOf(offset, n) == {listed[i] : i \in {i \in Places(offset) : i <= offset + n}}

\* len(hits): the entries of a page, those seen before and duplicates included.
Size(offset) == Cardinality(Places(offset))

\* The totals an answer may leave behind: a source need not name one.
TotalsOf(dialect) ==
  IF dialect = "grants_gov" /\ fetch.total # None THEN {fetch.total}
  ELSE {Len(listed), None}

\* 200 with JSON: collect what was not seen yet and go on, until everything the
\* source says it has was read.
Answer ==
  LET offset  == Offset(fetch.page)
      next(t) == [fetch EXCEPT !.total = t, !.got = @ \cup PageAt(offset)]
      last(t) == \/ Size(offset) < Rows
                 \/ t # None /\ offset + Size(offset) >= t
  IN  /\ fetch.pc = "request" /\ UNCHANGED faults
      /\ \E t \in TotalsOf(fetch.dialect) :
           \/ last(t) /\ Goes([next(t) EXCEPT !.pc = "done", !.end = "complete"])
           \/ ~last(t) /\ fetch.page + 1 = MaxPages
              /\ Goes([next(t) EXCEPT !.pc = "done", !.end = "limit"])
           \/ ~last(t) /\ fetch.page + 1 < MaxPages
              /\ Goes([next(t) EXCEPT !.page = @ + 1, !.attempt = 1, !.fallback = FALSE])

\* request_json returns None: simpler_grants tries its list endpoint; a first
\* page that fails is an error, a later one just ends the loop.  The list
\* endpoint is asked for no order (the search for the newest first); it is taken
\* to list the same opportunities in the same order.
\* Faulty variant of GivenUp: the list endpoint is tried again and again.
GivenUpAgain ==
  IF fetch.dialect = "simpler_grants" /\ ~fetch.fallback
  THEN [fetch EXCEPT !.attempt = 1]
  ELSE [fetch EXCEPT !.pc = "done", !.end = "error"]

GivenUp ==
  IF fetch.dialect = "simpler_grants" /\ ~fetch.fallback
  THEN [fetch EXCEPT !.fallback = TRUE, !.attempt = 1]
  ELSE [fetch EXCEPT !.pc = "done",
                     !.end = IF fetch.page = 0 THEN "error" ELSE "cut"]

\* A status to retry, a timeout or a lost connection, and a pause.
\* Faulty variants of MayRetry: one attempt too few, or too many.
MayRetryOnceLess == fetch.attempt + 1 < Retries
MayRetryOnceMore == fetch.attempt <= Retries

MayRetry == fetch.attempt < Retries

Transient ==
  /\ fetch.pc = "request"
  /\ faults' = [faults EXCEPT !.transient = IF @ < Retries THEN @ + 1 ELSE @]
  /\ Goes(IF MayRetry THEN [fetch EXCEPT !.attempt = @ + 1] ELSE GivenUp)

\* Any other status, or a body that is no JSON.
Refuse ==
  /\ fetch.pc = "request"
  /\ faults' = [faults EXCEPT !.refused = TRUE]
  /\ Goes(GivenUp)

\* grants.gov answers 200 with an errorcode; any source may send a body of a
\* shape that raises, which the loop's except records.  The entries before the
\* one that raises stay in the result.
Malformed ==
  /\ fetch.pc = "request"
  /\ faults' = [faults EXCEPT !.refused = TRUE]
  /\ \E n \in 0..Rows :
       Goes([fetch EXCEPT !.pc = "done", !.end = "error",
                          !.got = @ \cup FirstOf(Offset(fetch.page), n)])

Respond == Answer \/ Transient \/ Refuse \/ Malformed

SourceChanges ==
  \/ \E o \in Opps : Add(o)
  \/ \E i \in DOMAIN listed : TakeOff(i)

-----------------------------------------------------------------------------
(* Properties *)

PagingTypeOK ==
  /\ listed \in Seq(Opps) /\ fetch \in Fetch /\ before \subseteq Opps
  /\ added \in Nat /\ removed \in Nat
  /\ faults \in [transient : Nat, refused : BOOLEAN]

\* A run that ends as complete has missed no more of what was listed all the
\* time than the list moved under it: one for each opportunity taken off, and,
\* as the number of hits is that of the first page at grants.gov, there also
\* one for each that was added.  Additions lose nothing at the other sources.
GapsHaveAReason ==
  fetch.end = "complete" =>
    Cardinality(before \ fetch.got)
      <= removed + (IF fetch.dialect = "grants_gov" THEN added ELSE 0)

\* A hunt survives fewer passing failures than request_json makes attempts,
\* wherever in the pages they occur: it reads on to the end.
FewFaultsAreSurvived ==
  fetch.pc = "done" /\ ~faults.refused /\ faults.transient < Retries
    => fetch.end \in {"complete", "limit"}
=============================================================================
