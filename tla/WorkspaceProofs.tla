--------------------------- MODULE WorkspaceProofs ---------------------------
(***************************************************************************)
(* Theorems about Workspace, for any number of requests, documents, kinds  *)
(* and any limit.                                                          *)
(***************************************************************************)
EXTENDS Workspace, FiniteSetTheorems, SequenceTheorems, TLAPS

-----------------------------------------------------------------------------
(* Typed: what is known of a request at each stage *)

ReqOK(q) ==
  /\ q.op = "none" => q.pc = "idle"
  /\ q.op \in SoulOps => q.pc \in {"write", "commit"} /\ q.seen \in Tenant /\ q.set \in Tenant
  /\ q.op = "review" => q.pc \in {"write", "commit"} /\ q.seen \in Match /\ q.set \in Match
  /\ q.op = "generate" => q.pc \in {"check", "read", "store", "usage", "commit"} /\ q.soul \in Docs

\* The drafts a request means to overwrite exist.
RowsOK(q, d) == \A k \in Kinds : q.row[k] <= Len(d[k])

Typed ==
  /\ TypeOK
  /\ \A r \in Requests : ReqOK(request[r]) /\ RowsOK(request[r], drafts)

LEMMA EmptyKinds == << >> \in KindLists
<1>1. 0 \in 0..MaxKinds
  BY WorkspaceAssumption
<1>2. << >> \in [1..0 -> Kinds]
  OBVIOUS
<1> QED  BY <1>1, <1>2 DEF KindLists

LEMMA NoRequestOK ==
  ASSUME NEW d \in [Kinds -> Seq(Docs)]
  PROVE  NoRequest \in Request /\ ReqOK(NoRequest) /\ RowsOK(NoRequest, d)
<1>1. NoRequest \in Request
  BY EmptyKinds DEF NoRequest, Request
<1>2. ReqOK(NoRequest)
  BY DEF NoRequest, ReqOK, SoulOps
<1>3. RowsOK(NoRequest, d)
  BY DEF NoRequest, RowsOK
<1> QED  BY <1>1, <1>2, <1>3

\* The kinds of a request: at most MaxKinds mentions.
LEMMA KindListType ==
  ASSUME NEW kinds \in KindLists
  PROVE  /\ kinds \in Seq(Kinds) /\ Len(kinds) \in 0..MaxKinds
         /\ DOMAIN kinds = 1..Len(kinds)
<1>1. PICK n \in 0..MaxKinds : kinds \in [1..n -> Kinds]
  BY DEF KindLists
<1>2. n \in Nat /\ n <= MaxKinds
  BY WorkspaceAssumption
<1>3. kinds \in Seq(Kinds) /\ Len(kinds) = n
  BY <1>1, <1>2
<1> QED  BY <1>1, <1>2, <1>3

LEMMA QuantityRange ==
  ASSUME NEW q \in Request
  PROVE  Quantity(q) \in 1..MaxKinds
<1>1. q.kinds \in KindLists
  BY DEF Request
<1>2. q.kinds \in Seq(Kinds) /\ Len(q.kinds) \in 0..MaxKinds
  BY <1>1, KindListType
<1>3. CASE q.kinds = << >>
  BY <1>3, WorkspaceAssumption DEF Quantity
<1>4. CASE q.kinds # << >>
  BY <1>2, <1>4, WorkspaceAssumption DEF Quantity
<1> QED  BY <1>3, <1>4

LEMMA IntervalSize ==
  ASSUME NEW n \in Nat
  PROVE  IsFiniteSet(1..n) /\ Cardinality(1..n) = n
<1>1. Cardinality(1..n) = IF 1 > n THEN 0 ELSE n - 1 + 1
  BY FS_Interval
<1> QED  BY <1>1, FS_Interval

\* A kind is mentioned at most MaxKinds times.
LEMMA TimesRange ==
  ASSUME NEW q \in Request, NEW k \in Kinds
  PROVE  Times(q, k) \in Nat /\ Times(q, k) <= MaxKinds
<1> DEFINE S == {i \in DOMAIN q.kinds : q.kinds[i] = k}
           n == Len(q.kinds)
<1>1. n \in Nat /\ n <= MaxKinds /\ DOMAIN q.kinds = 1..n
  BY KindListType, WorkspaceAssumption DEF Request
<1>2. IsFiniteSet(1..n) /\ Cardinality(1..n) = n
  BY <1>1, IntervalSize
<1>3. S \subseteq 1..n
  BY <1>1
<1>4. IsFiniteSet(S) /\ Cardinality(S) <= n
  BY <1>2, <1>3, FS_Subset
<1>5. Cardinality(S) \in Nat
  BY <1>4, FS_CardinalityType
<1> QED  BY <1>1, <1>4, <1>5, WorkspaceAssumption DEF Times

\* Drafts are only added or replaced.
LEMMA DraftsAfterType ==
  ASSUME Typed, NEW r \in Requests, request[r].op = "generate", NEW k \in Kinds
  PROVE  /\ DraftsAfter(request[r], k) \in Seq(Docs)
         /\ Len(DraftsAfter(request[r], k)) >= Len(drafts[k])
<1> DEFINE q == request[r]
           s == drafts[k]
<1>1. q \in Request /\ q.soul \in Docs /\ s \in Seq(Docs)
  BY DEF Typed, TypeOK, ReqOK
<1>2. q.row[k] \in Nat /\ q.row[k] <= Len(s)
  BY DEF Typed, TypeOK, RowsOK, Request
<1>3. CASE k \notin Asked(q)
  BY <1>1, <1>3 DEF DraftsAfter
<1>4. CASE k \in Asked(q) /\ q.row[k] # 0
  <2>1. DraftsAfter(q, k) = [s EXCEPT ![q.row[k]] = q.soul]
    BY <1>4 DEF DraftsAfter
  <2>2. q.row[k] \in 1..Len(s) /\ Len(s) \in Nat
    BY <1>1, <1>2, <1>4
  <2> HIDE DEF q, s
  <2>3. /\ [s EXCEPT ![q.row[k]] = q.soul] \in Seq(Docs)
        /\ Len([s EXCEPT ![q.row[k]] = q.soul]) = Len(s)
    BY <1>1, <2>2, ExceptSeq
  <2>4. /\ DraftsAfter(q, k) \in Seq(Docs)
        /\ Len(DraftsAfter(q, k)) >= Len(s)
    BY <1>1, <2>1, <2>2, <2>3
  <2> QED  BY <2>4 DEF q, s
<1>5. CASE k \in Asked(q) /\ q.row[k] = 0
  <2> DEFINE n == Times(q, k)
             t == [i \in 1..n |-> q.soul]
  <2>1. DraftsAfter(q, k) = s \o t
    BY <1>5 DEF DraftsAfter
  <2>2. n \in Nat
    BY <1>1, TimesRange
  <2> HIDE DEF n, q, s
  <2>3. t \in Seq(Docs) /\ Len(t) = n
    BY <1>1, <2>2
  <2> HIDE DEF t
  <2>4. s \o t \in Seq(Docs) /\ Len(s \o t) = Len(s) + Len(t)
    BY <1>1, <2>3, ConcatProperties
  <2>5. Len(s) \in Nat
    BY <1>1
  <2>6. /\ DraftsAfter(q, k) \in Seq(Docs)
        /\ Len(DraftsAfter(q, k)) >= Len(s)
    BY <2>1, <2>2, <2>3, <2>4, <2>5
  <2> QED  BY <2>6 DEF q, s
<1> QED  BY <1>3, <1>4, <1>5

LEMMA InitTyped == Init => Typed
<1> SUFFICES ASSUME Init PROVE Typed
  OBVIOUS
<1>1. drafts \in [Kinds -> Seq(Docs)]
  BY DEF Init
<1>2. TypeOK
  BY <1>1, NoRequestOK DEF Init, TypeOK, Tenant, Match, Statuses
<1>3. \A r \in Requests : ReqOK(request[r]) /\ RowsOK(request[r], drafts)
  BY <1>1, NoRequestOK DEF Init
<1> QED  BY <1>2, <1>3 DEF Typed

\* A request's record changes, and no row.
LEMMA RecordTyped ==
  ASSUME Typed, NEW r \in Requests, NEW q \in Request, ReqOK(q), RowsOK(q, drafts),
         request' = [request EXCEPT ![r] = q], served' \in Nat,
         UNCHANGED <<tenant, match, drafts, month, used, total, rollup>>
  PROVE  Typed'
<1>1. TypeOK'
  BY DEF Typed, TypeOK
<1>2. \A o \in Requests : ReqOK(request'[o]) /\ RowsOK(request'[o], drafts)
  BY DEF Typed, TypeOK
<1>3. \A o \in Requests : ReqOK(request[o])'
  BY <1>2 DEF ReqOK
<1>4. \A o \in Requests : RowsOK(request[o], drafts)'
  BY <1>2 DEF RowsOK
<1> QED  BY <1>1, <1>3, <1>4 DEF Typed

LEMMA StepTyped ==
  ASSUME Typed, NEW r \in Requests, NEW q \in Request, ReqOK(q), RowsOK(q, drafts),
         Step(r, q)
  PROVE  Typed'
  BY RecordTyped DEF Step, Typed, TypeOK

LEMMA ArriveTyped ==
  ASSUME Typed, NEW r \in Requests, NEW q \in Request, ReqOK(q), RowsOK(q, drafts),
         Arrive(r, q)
  PROVE  Typed'
<1>1. served' \in Nat
  BY DEF Typed, TypeOK, Arrive
<1> QED  BY <1>1, RecordTyped DEF Arrive

LEMMA MergedType ==
  ASSUME NEW S \in {Tenant, Match}, NEW row \in S, NEW q \in Request,
         q.set \in S, q.seen \in S
  PROVE  Merged(row, q) \in S
<1>1. CASE S = Tenant
  BY <1>1 DEF Merged, Tenant
<1>2. CASE S = Match
  BY <1>2 DEF Merged, Match
<1> QED  BY <1>1, <1>2

\* A commit leaves whole rows and drafts, and longer lists of them.
LEMMA CommitTyped ==
  ASSUME Typed, NEW r \in Requests, Commit(r)
  PROVE  Typed'
<1> DEFINE q == request[r]
<1>1. q \in Request /\ ReqOK(q) /\ tenant \in Tenant /\ match \in Match
  BY DEF Typed, TypeOK
<1>2. tenant' \in Tenant
  <2>1. CASE q.op \in SoulOps
    <3>1. Merged(tenant, q) \in Tenant
      BY <1>1, <2>1, MergedType DEF ReqOK
    <3> QED  BY <2>1, <3>1 DEF Commit
  <2>2. CASE q.op \notin SoulOps
    BY <1>1, <2>2 DEF Commit
  <2> QED  BY <2>1, <2>2
<1>3. match' \in Match
  <2>1. CASE q.op = "review"
    <3>1. Merged(match, q) \in Match
      BY <1>1, <2>1, MergedType DEF ReqOK
    <3> QED  BY <2>1, <3>1 DEF Commit
  <2>2. CASE q.op # "review"
    BY <1>1, <2>2 DEF Commit
  <2> QED  BY <2>1, <2>2
<1>4. /\ drafts' \in [Kinds -> Seq(Docs)]
      /\ \A k \in Kinds : Len(drafts'[k]) >= Len(drafts[k])
  <2>1. CASE q.op = "generate"
    <3>1. drafts' = [k \in Kinds |-> DraftsAfter(q, k)]
      BY <2>1 DEF Commit
    <3> QED  BY <2>1, <3>1, DraftsAfterType
  <2>2. CASE q.op # "generate"
    <3>1. drafts' = drafts
      BY <2>2 DEF Commit
    <3>2. drafts \in [Kinds -> Seq(Docs)]
      BY DEF Typed, TypeOK
    <3>3. \A k \in Kinds : Len(drafts[k]) \in Nat
      BY <3>2
    <3> QED  BY <3>1, <3>2, <3>3
  <2> QED  BY <2>1, <2>2
<1>5. used' \in Nat /\ total' \in Nat /\ rollup' \in Nat /\ month' \in Nat /\ served' \in Nat
  BY <1>1 DEF Typed, TypeOK, Commit, Request
<1>6. request' = [request EXCEPT ![r] = NoRequest]
  BY DEF Commit
<1>7. \A o \in Requests : /\ request'[o] \in Request /\ ReqOK(request'[o])
                          /\ RowsOK(request'[o], drafts')
  <2> SUFFICES ASSUME NEW o \in Requests
               PROVE  /\ request'[o] \in Request /\ ReqOK(request'[o])
                      /\ RowsOK(request'[o], drafts')
    OBVIOUS
  <2>1. CASE o = r
    <3>1. request'[o] = NoRequest
      BY <1>6, <2>1 DEF Typed, TypeOK
    <3> QED  BY <3>1, <1>4, NoRequestOK
  <2>2. CASE o # r
    <3>1. request'[o] = request[o]
      BY <1>6, <2>2 DEF Typed, TypeOK
    <3>2. request[o] \in Request /\ ReqOK(request[o]) /\ RowsOK(request[o], drafts)
      BY DEF Typed, TypeOK
    <3>3. RowsOK(request[o], drafts')
      <4> SUFFICES ASSUME NEW k \in Kinds PROVE request[o].row[k] <= Len(drafts'[k])
        BY DEF RowsOK
      <4>1. request[o].row[k] \in Nat /\ request[o].row[k] <= Len(drafts[k])
        BY <3>2 DEF RowsOK, Request
      <4>2. Len(drafts[k]) \in Nat /\ Len(drafts'[k]) \in Nat /\ Len(drafts'[k]) >= Len(drafts[k])
        BY <1>4 DEF Typed, TypeOK
      <4> QED  BY <4>1, <4>2
    <3> QED  BY <3>1, <3>2, <3>3
  <2> QED  BY <2>1, <2>2
<1>8. request' \in [Requests -> Request]
  BY <1>6, <1>7 DEF Typed, TypeOK
<1>9. TypeOK'
  BY <1>2, <1>3, <1>4, <1>5, <1>8 DEF TypeOK
<1>10. \A o \in Requests : ReqOK(request[o])' /\ RowsOK(request[o], drafts)'
  BY <1>7 DEF ReqOK, RowsOK
<1> QED  BY <1>9, <1>10 DEF Typed

\* The steps of a request that only change its record.
LEMMA ArrivalsTyped ==
  ASSUME Typed, NEW r \in Requests,
         \/ \E d \in Docs : PutSoul(r, d)
         \/ DeleteSoul(r)
         \/ \E status \in Statuses, note \in {"none", "because"} : Review(r, status, note)
         \/ \E kinds \in KindLists : Generate(r, kinds)
  PROVE  Typed'
<1> USE NoRequestOK DEF Typed, TypeOK
<1>1. ASSUME NEW d \in Docs, PutSoul(r, d) PROVE Typed'
  <2> DEFINE set == [blob |-> d, json |-> d,
                     name |-> IF NameOf[d] = None THEN tenant.name ELSE NameOf[d]]
             q == [NoRequest EXCEPT !.op = "put", !.pc = "write", !.seen = tenant, !.set = set]
  <2>1. set \in Tenant
    BY DEF Tenant, Names
  <2> HIDE DEF set
  <2>2. q \in Request /\ ReqOK(q) /\ RowsOK(q, drafts)
    BY <2>1 DEF NoRequest, Request, ReqOK, RowsOK, SoulOps
  <2>3. Arrive(r, q)
    BY <1>1 DEF PutSoul, set
  <2> HIDE DEF q
  <2> QED  BY <2>2, <2>3, ArriveTyped
<1>2. ASSUME DeleteSoul(r) PROVE Typed'
  <2> DEFINE q == [NoRequest EXCEPT !.op = "delete", !.pc = "write",
                                    !.seen = tenant, !.set = Cleared(tenant)]
  <2>1. Cleared(tenant) \in Tenant
    BY DEF Tenant, Cleared
  <2>2. q \in Request /\ ReqOK(q) /\ RowsOK(q, drafts)
    BY <2>1 DEF NoRequest, Request, ReqOK, RowsOK, SoulOps
  <2>3. Arrive(r, q)
    BY <1>2 DEF DeleteSoul
  <2> HIDE DEF q
  <2> QED  BY <2>2, <2>3, ArriveTyped
<1>3. ASSUME NEW status \in Statuses, NEW note \in {"none", "because"}, Review(r, status, note)
      PROVE  Typed'
  <2> DEFINE set == [status |-> status, note |-> note, by |-> r]
             q == [NoRequest EXCEPT !.op = "review", !.pc = "write", !.seen = match, !.set = set]
  <2>1. set \in Match
    BY DEF Match
  <2> HIDE DEF set
  <2>2. q \in Request /\ ReqOK(q) /\ RowsOK(q, drafts)
    BY <2>1 DEF NoRequest, Request, ReqOK, RowsOK, SoulOps
  <2>3. Arrive(r, q)
    BY <1>3 DEF Review, set
  <2> HIDE DEF q
  <2> QED  BY <2>2, <2>3, ArriveTyped
<1>4. ASSUME NEW kinds \in KindLists, Generate(r, kinds) PROVE Typed'
  <2> DEFINE q == [NoRequest EXCEPT !.op = "generate", !.pc = "check",
                                    !.soul = tenant.blob, !.kinds = kinds]
  <2>1. tenant.blob \in Docs
    BY <1>4 DEF Generate, Tenant
  <2>2. q \in Request /\ ReqOK(q) /\ RowsOK(q, drafts)
    BY <2>1 DEF NoRequest, Request, ReqOK, RowsOK, SoulOps
  <2>3. Arrive(r, q)
    BY <1>4 DEF Generate
  <2> HIDE DEF q
  <2> QED  BY <2>2, <2>3, ArriveTyped
<1> QED  BY <1>1, <1>2, <1>3, <1>4

LEMMA StepsTyped ==
  ASSUME Typed, NEW r \in Requests,
         \/ Write(r) \/ CheckDrafts(r) \/ ReadDrafts(r) \/ StoreDrafts(r)
         \/ RecordUsage(r) \/ Fail(r)
  PROVE  Typed'
<1> DEFINE q == request[r]
<1>0. q \in Request /\ ReqOK(q) /\ RowsOK(q, drafts) /\ drafts \in [Kinds -> Seq(Docs)]
  BY DEF Typed, TypeOK
<1>1. CASE Write(r)
  <2> DEFINE n == [q EXCEPT !.pc = "commit"]
  <2>1. n \in Request /\ ReqOK(n) /\ RowsOK(n, drafts)
    BY <1>0, <1>1 DEF Write, Request, ReqOK, RowsOK
  <2>2. Step(r, n)
    BY <1>1 DEF Write
  <2> QED  BY <2>1, <2>2, StepTyped
<1>2. CASE CheckDrafts(r)
  <2> DEFINE n == [q EXCEPT !.pc = "read"]
  <2>1. q.op = "generate"
    BY <1>0, <1>2 DEF CheckDrafts, ReqOK, SoulOps, Request
  <2>2. n \in Request /\ ReqOK(n) /\ RowsOK(n, drafts)
    BY <1>0, <2>1 DEF Request, ReqOK, RowsOK, SoulOps
  <2>3. Step(r, n) \/ Step(r, NoRequest)
    BY <1>2 DEF CheckDrafts
  <2> QED  BY <1>0, <2>2, <2>3, NoRequestOK, StepTyped
<1>3. CASE ReadDrafts(r)
  <2>1. PICK row \in [Kinds -> UNION {0..Len(drafts[k]) : k \in Kinds}] :
          /\ \A k \in Kinds : IF k \in Asked(q) /\ drafts[k] # << >>
                              THEN row[k] \in DOMAIN drafts[k] ELSE row[k] = 0
          /\ Step(r, [q EXCEPT !.pc = "store", !.row = row])
    BY <1>3 DEF ReadDrafts
  <2> DEFINE n == [q EXCEPT !.pc = "store", !.row = row]
  <2>2. q.op = "generate"
    BY <1>0, <1>3 DEF ReadDrafts, ReqOK, SoulOps, Request
  <2>3. \A k \in Kinds : row[k] \in Nat /\ row[k] <= Len(drafts[k])
    <3> SUFFICES ASSUME NEW k \in Kinds PROVE row[k] \in Nat /\ row[k] <= Len(drafts[k])
      OBVIOUS
    <3>1. drafts[k] \in Seq(Docs) /\ Len(drafts[k]) \in Nat /\ DOMAIN drafts[k] = 1..Len(drafts[k])
      BY <1>0
    <3> QED  BY <2>1, <3>1
  <2>4. row \in [Kinds -> Nat]
    BY <2>1, <2>3
  <2>5. n \in Request
    BY <1>0, <2>4 DEF Request
  <2>6. ReqOK(n)
    BY <1>0, <2>2 DEF Request, ReqOK, SoulOps
  <2>7. RowsOK(n, drafts)
    BY <1>0, <2>3 DEF Request, RowsOK
  <2>8. Step(r, n)
    BY <2>1
  <2> HIDE DEF n
  <2> QED  BY <2>5, <2>6, <2>7, <2>8, StepTyped
<1>4. CASE StoreDrafts(r)
  <2> DEFINE n == [q EXCEPT !.pc = "usage"]
  <2>1. q.op = "generate"
    BY <1>0, <1>4 DEF StoreDrafts, ReqOK, SoulOps, Request
  <2>2. n \in Request /\ ReqOK(n) /\ RowsOK(n, drafts)
    BY <1>0, <2>1 DEF Request, ReqOK, RowsOK, SoulOps
  <2>3. Step(r, n)
    BY <1>4 DEF StoreDrafts
  <2> QED  BY <2>2, <2>3, StepTyped
<1>5. CASE RecordUsage(r)
  <2> DEFINE n == [q EXCEPT !.pc = "commit", !.amount = Quantity(q),
                            !.month = month, !.count = rollup + Quantity(q)]
  <2>1. q.op = "generate"
    BY <1>0, <1>5 DEF RecordUsage, ReqOK, SoulOps, Request
  <2>2. Quantity(q) \in Nat /\ month \in Nat /\ rollup + Quantity(q) \in Nat
    BY <1>0, QuantityRange, WorkspaceAssumption DEF Typed, TypeOK
  <2>3. n \in Request /\ ReqOK(n) /\ RowsOK(n, drafts)
    BY <1>0, <2>1, <2>2 DEF Request, ReqOK, RowsOK, SoulOps
  <2>4. Step(r, n)
    BY <1>5 DEF RecordUsage, Counted
  <2> QED  BY <2>3, <2>4, StepTyped
<1>6. CASE Fail(r)
  <2>1. Step(r, NoRequest)
    BY <1>6 DEF Fail
  <2> QED  BY <1>0, <2>1, NoRequestOK, StepTyped
<1> QED  BY <1>1, <1>2, <1>3, <1>4, <1>5, <1>6

LEMMA NextTyped == Typed /\ [Next]_vars => Typed'
<1> SUFFICES ASSUME Typed, [Next]_vars PROVE Typed'
  OBVIOUS
<1>1. CASE NewMonth
  <2>1. TypeOK'
    BY <1>1 DEF NewMonth, Typed, TypeOK
  <2>2. \A o \in Requests : ReqOK(request[o])' /\ RowsOK(request[o], drafts)'
    BY <1>1 DEF NewMonth, Typed, ReqOK, RowsOK
  <2> QED  BY <2>1, <2>2 DEF Typed
<1>2. ASSUME NEW r \in Requests, Commit(r) PROVE Typed'
  BY <1>2, CommitTyped
<1>3. CASE UNCHANGED vars
  <2>1. TypeOK'
    BY <1>3 DEF vars, Typed, TypeOK
  <2>2. \A o \in Requests : ReqOK(request[o])' /\ RowsOK(request[o], drafts)'
    BY <1>3 DEF vars, Typed, ReqOK, RowsOK
  <2> QED  BY <2>1, <2>2 DEF Typed
<1> QED  BY <1>1, <1>2, <1>3, ArrivalsTyped, StepsTyped DEF Next

THEOREM AlwaysTyped == Spec => []Typed
  BY InitTyped, NextTyped, PTL DEF Spec

\* Every row and request keeps to its columns' values, whatever is merged.
THEOREM TypeCorrect == Spec => []TypeOK
<1>1. Typed => TypeOK
  BY DEF Typed
<1> QED  BY <1>1, AlwaysTyped, PTL

-----------------------------------------------------------------------------
(* Exact: the rollup is the sum of the events, and the one request that has *)
(* metered and not yet committed has read it as it still is.                *)

Metering(q) == q.op = "generate" /\ q.pc = "commit"

Exact ==
  /\ RollupIsTheSum
  /\ \A r \in Requests : Metering(request[r]) => request[r].count = rollup + request[r].amount
  /\ \A r, o \in Requests : Metering(request[r]) /\ Metering(request[o]) => r = o

\* A record that does not meter, or alone does so on the counter as it is.
LEMMA RecordExact ==
  ASSUME Typed, Exact, NEW r \in Requests, NEW q,
         request' = [request EXCEPT ![r] = q], UNCHANGED <<total, rollup>>,
         Metering(q) => /\ q.count = rollup + q.amount
                        /\ \A o \in Requests \ {r} : ~Metering(request[o])
  PROVE  Exact'
<1>1. request'[r] = q /\ \A o \in Requests \ {r} : request'[o] = request[o]
  BY DEF Typed, TypeOK
<1>2. RollupIsTheSum'
  BY DEF Exact, RollupIsTheSum
<1>3. \A o \in Requests : Metering(request'[o]) =>
                            request'[o].count = rollup' + request'[o].amount
  BY <1>1 DEF Exact
<1>4. \A o, p \in Requests : Metering(request'[o]) /\ Metering(request'[p]) => o = p
  BY <1>1 DEF Exact
<1> QED  BY <1>2, <1>3, <1>4 DEF Exact, Metering

\* A request that arrives has changed no row and is about to write or to check.
LEMMA ArrivalFacts ==
  ASSUME Typed, NEW r \in Requests,
         \/ \E d \in Docs : PutSoul(r, d)
         \/ DeleteSoul(r)
         \/ \E status \in Statuses, note \in {"none", "because"} : Review(r, status, note)
         \/ \E kinds \in KindLists : Generate(r, kinds)
  PROVE  /\ UNCHANGED <<tenant, match, drafts, month, used, total, rollup>>
         /\ request' = [request EXCEPT ![r] = request'[r]]
         /\ request'[r].pc \in {"write", "check"}
<1> DEFINE G == /\ UNCHANGED <<tenant, match, drafts, month, used, total, rollup>>
                /\ request' = [request EXCEPT ![r] = request'[r]]
                /\ request'[r].pc \in {"write", "check"}
<1>0. ASSUME NEW q, Arrive(r, q), q.pc \in {"write", "check"} PROVE G
  <2>1. request' = [request EXCEPT ![r] = q]
    BY <1>0 DEF Arrive
  <2>2. request'[r] = q
    BY <2>1 DEF Typed, TypeOK
  <2> QED  BY <1>0, <2>1, <2>2 DEF Arrive
<1> HIDE DEF G
<1>1. ASSUME NEW d \in Docs, PutSoul(r, d) PROVE G
  <2> DEFINE q == [NoRequest EXCEPT !.op = "put", !.pc = "write", !.seen = tenant,
                     !.set = [blob |-> d, json |-> d,
                              name |-> IF NameOf[d] = None THEN tenant.name ELSE NameOf[d]]]
  <2>1. Arrive(r, q)
    BY <1>1 DEF PutSoul
  <2>2. q.pc = "write"
    BY DEF NoRequest
  <2> QED  BY <1>0, <2>1, <2>2
<1>2. ASSUME DeleteSoul(r) PROVE G
  <2> DEFINE q == [NoRequest EXCEPT !.op = "delete", !.pc = "write",
                                    !.seen = tenant, !.set = Cleared(tenant)]
  <2>1. Arrive(r, q)
    BY <1>2 DEF DeleteSoul
  <2>2. q.pc = "write"
    BY DEF NoRequest
  <2> QED  BY <1>0, <2>1, <2>2
<1>3. ASSUME NEW status \in Statuses, NEW note \in {"none", "because"}, Review(r, status, note)
      PROVE  G
  <2> DEFINE q == [NoRequest EXCEPT !.op = "review", !.pc = "write", !.seen = match,
                     !.set = [status |-> status, note |-> note, by |-> r]]
  <2>1. Arrive(r, q)
    BY <1>3 DEF Review
  <2>2. q.pc = "write"
    BY DEF NoRequest
  <2> QED  BY <1>0, <2>1, <2>2
<1>4. ASSUME NEW kinds \in KindLists, Generate(r, kinds) PROVE G
  <2> DEFINE q == [NoRequest EXCEPT !.op = "generate", !.pc = "check",
                                    !.soul = tenant.blob, !.kinds = kinds]
  <2>1. Arrive(r, q)
    BY <1>4 DEF Generate
  <2>2. q.pc = "check"
    BY DEF NoRequest
  <2> QED  BY <1>0, <2>1, <2>2
<1>5. G
  BY <1>1, <1>2, <1>3, <1>4
<1> QED  BY <1>5 DEF G

LEMMA ArrivalsExact ==
  ASSUME Typed, Exact, NEW r \in Requests,
         \/ \E d \in Docs : PutSoul(r, d)
         \/ DeleteSoul(r)
         \/ \E status \in Statuses, note \in {"none", "because"} : Review(r, status, note)
         \/ \E kinds \in KindLists : Generate(r, kinds)
  PROVE  Exact'
<1>1. ~Metering(request'[r])
  BY ArrivalFacts DEF Metering
<1> QED  BY <1>1, ArrivalFacts, RecordExact

LEMMA StepsExact ==
  ASSUME Typed, Exact, NEW r \in Requests,
         \/ Write(r) \/ CheckDrafts(r) \/ ReadDrafts(r) \/ StoreDrafts(r)
         \/ RecordUsage(r) \/ Fail(r)
  PROVE  Exact'
<1> DEFINE q == request[r]
<1>0. q \in Request /\ ReqOK(q)
  BY DEF Typed, TypeOK
<1>1. CASE RecordUsage(r)
  <2> DEFINE n == [q EXCEPT !.pc = "commit", !.amount = Quantity(q),
                            !.month = month, !.count = rollup + Quantity(q)]
  <2>1. Step(r, n)
    BY <1>1 DEF RecordUsage, Counted
  <2>2. n.count = rollup + n.amount
    BY <1>0 DEF Request
  <2>3. \A o \in Requests \ {r} : ~Metering(request[o])
    BY <1>1 DEF RecordUsage, RowFree, Metering
  <2> HIDE DEF n
  <2> QED  BY <2>1, <2>2, <2>3, RecordExact DEF Step
<1>2. CASE Write(r) \/ CheckDrafts(r) \/ ReadDrafts(r) \/ StoreDrafts(r) \/ Fail(r)
  <2>1. \E n : Step(r, n) /\ ~Metering(n)
    <3>1. CASE Write(r)
      BY <1>0, <3>1 DEF Write, ReqOK, Metering, Request
    <3>2. CASE CheckDrafts(r)
      BY <1>0, <3>2 DEF CheckDrafts, NoRequest, Metering, Request
    <3>3. CASE ReadDrafts(r)
      <4>1. PICK row : Step(r, [q EXCEPT !.pc = "store", !.row = row])
        BY <3>3 DEF ReadDrafts
      <4>2. ~Metering([q EXCEPT !.pc = "store", !.row = row])
        BY <1>0 DEF Metering, Request
      <4> QED  BY <4>1, <4>2
    <3>4. CASE StoreDrafts(r)
      BY <1>0, <3>4 DEF StoreDrafts, Metering, Request
    <3>5. CASE Fail(r)
      BY <3>5 DEF Fail, NoRequest, Metering
    <3> QED  BY <1>2, <3>1, <3>2, <3>3, <3>4, <3>5
  <2>2. PICK n : Step(r, n) /\ ~Metering(n)
    BY <2>1
  <2>3. request' = [request EXCEPT ![r] = n] /\ UNCHANGED <<total, rollup>>
    BY <2>2 DEF Step
  <2> QED  BY <2>2, <2>3, RecordExact
<1> QED  BY <1>1, <1>2

LEMMA CommitExact ==
  ASSUME Typed, Exact, NEW r \in Requests, Commit(r)
  PROVE  Exact'
<1>1. request' = [request EXCEPT ![r] = NoRequest] /\ ~Metering(NoRequest)
  BY DEF Commit, NoRequest, Metering
<1>2. CASE request[r].op = "generate"
  <2>1. Metering(request[r])
    BY <1>2 DEF Commit, Metering
  <2>2. \A o \in Requests : ~Metering(request'[o])
    BY <1>1, <2>1 DEF Exact, Typed, TypeOK
  <2>3. total' = total + request[r].amount /\ rollup' = request[r].count
    BY <1>2 DEF Commit
  <2>4. RollupIsTheSum'
    BY <2>1, <2>3 DEF Exact, RollupIsTheSum
  <2> QED  BY <2>2, <2>4 DEF Exact, Metering
<1>3. CASE request[r].op # "generate"
  <2>1. UNCHANGED <<total, rollup>>
    BY <1>3 DEF Commit
  <2> QED  BY <1>1, <2>1, RecordExact
<1> QED  BY <1>2, <1>3

LEMMA NextExact == Typed /\ Exact /\ [Next]_vars => Exact'
<1> SUFFICES ASSUME Typed, Exact, [Next]_vars PROVE Exact'
  OBVIOUS
<1>1. CASE NewMonth
  BY <1>1 DEF NewMonth, Exact, RollupIsTheSum, Metering
<1>2. CASE UNCHANGED vars
  BY <1>2 DEF vars, Exact, RollupIsTheSum, Metering
<1> QED  BY <1>1, <1>2, ArrivalsExact, StepsExact, CommitExact DEF Next

\* No count is lost: the rollup is the sum of the usage events, however many
\* requests meter at once.
THEOREM NoCountIsLost == Spec => []RollupIsTheSum
<1>1. Init => Exact
  BY DEF Init, NoRequest, Exact, RollupIsTheSum, Metering
<1>2. Exact => RollupIsTheSum
  BY DEF Exact
<1> QED  BY <1>1, <1>2, NextExact, AlwaysTyped, PTL DEF Spec

-----------------------------------------------------------------------------
(* Bounded: a request that has passed the check, or has found no draft of a *)
(* kind, still has at most MaxKinds to add.                                 *)

Passed == {r \in Requests : /\ request[r].op = "generate"
                            /\ request[r].pc \in {"read", "store", "usage", "commit"}}

Inserting(k) == {r \in Requests : /\ request[r].op = "generate"
                                  /\ request[r].pc \in {"store", "usage", "commit"}
                                  /\ k \in Asked(request[r]) /\ request[r].row[k] = 0}

UsedBounded == used + MaxKinds * Cardinality(Passed)
                 <= (Limit - 1) + MaxKinds * Cardinality(Requests)

LengthBounded(k) == Len(drafts[k]) + MaxKinds * Cardinality(Inserting(k))
                      <= MaxKinds * Cardinality(Requests)

Bounded ==
  /\ UsedBounded
  /\ \A r \in Requests : Metering(request[r]) => request[r].amount <= MaxKinds
  /\ \A k \in Kinds : LengthBounded(k)

\* A larger set of requests may add no less.
LEMMA RoomGrows ==
  ASSUME NEW T, IsFiniteSet(T), NEW S \in SUBSET T
  PROVE  /\ MaxKinds * Cardinality(S) \in Nat /\ MaxKinds * Cardinality(T) \in Nat
         /\ MaxKinds * Cardinality(S) <= MaxKinds * Cardinality(T)
<1>1. IsFiniteSet(S) /\ Cardinality(S) <= Cardinality(T)
  BY FS_Subset
<1>2. Cardinality(S) \in Nat /\ Cardinality(T) \in Nat
  BY <1>1, FS_CardinalityType
<1>3. \A a, b \in Nat : a <= b => MaxKinds * a \in Nat /\ MaxKinds * b \in Nat
                               /\ MaxKinds * a <= MaxKinds * b
  BY WorkspaceAssumption
<1> QED  BY <1>1, <1>2, <1>3

\* A request that leaves gives back what it could add.
LEMMA RoomLeft ==
  ASSUME NEW T \in SUBSET Requests, NEW r \in T, NEW S \in SUBSET (T \ {r})
  PROVE  /\ MaxKinds * Cardinality(S) \in Nat /\ MaxKinds * Cardinality(T) \in Nat
         /\ MaxKinds * Cardinality(S) + MaxKinds <= MaxKinds * Cardinality(T)
<1>1. IsFiniteSet(T) /\ IsFiniteSet(T \ {r}) /\ Cardinality(T \ {r}) = Cardinality(T) - 1
  BY FS_Subset, FS_RemoveElement, WorkspaceAssumption
<1>2. /\ MaxKinds * Cardinality(S) \in Nat
      /\ MaxKinds * Cardinality(S) <= MaxKinds * Cardinality(T \ {r})
  BY <1>1, RoomGrows
<1>3. Cardinality(T) \in Nat /\ MaxKinds * Cardinality(T) \in Nat
  BY <1>1, RoomGrows, FS_CardinalityType
<1>4. \A a \in Nat : MaxKinds * (a - 1) = MaxKinds * a - MaxKinds
  BY WorkspaceAssumption
<1>5. MaxKinds * Cardinality(T \ {r}) = MaxKinds * Cardinality(T) - MaxKinds
  BY <1>1, <1>3, <1>4
<1> QED  BY <1>2, <1>3, <1>5, WorkspaceAssumption

\* Nobody more has passed or inserts, and nothing was added: still bounded.
LEMMA UsedStays ==
  ASSUME Typed, UsedBounded, used' \in Nat, used' <= used, Passed' \subseteq Passed
  PROVE  UsedBounded'
<1>1. Passed \subseteq Requests /\ IsFiniteSet(Passed)
  BY FS_Subset, WorkspaceAssumption DEF Passed
<1>2. /\ MaxKinds * Cardinality(Passed)' \in Nat /\ MaxKinds * Cardinality(Passed) \in Nat
      /\ MaxKinds * Cardinality(Passed)' <= MaxKinds * Cardinality(Passed)
  BY <1>1, RoomGrows
<1>3. MaxKinds * Cardinality(Requests) \in Nat
  BY RoomGrows, WorkspaceAssumption
<1>4. used \in Nat /\ Limit \in Nat
  BY WorkspaceAssumption DEF Typed, TypeOK
<1> QED  BY <1>2, <1>3, <1>4 DEF UsedBounded

LEMMA LengthStays ==
  ASSUME Typed, NEW k \in Kinds, LengthBounded(k), Len(drafts'[k]) = Len(drafts[k]),
         Inserting(k)' \subseteq Inserting(k)
  PROVE  LengthBounded(k)'
<1>1. Inserting(k) \subseteq Requests /\ IsFiniteSet(Inserting(k))
  BY FS_Subset, WorkspaceAssumption DEF Inserting
<1>2. /\ MaxKinds * Cardinality(Inserting(k))' \in Nat
      /\ MaxKinds * Cardinality(Inserting(k)) \in Nat
      /\ MaxKinds * Cardinality(Inserting(k))' <= MaxKinds * Cardinality(Inserting(k))
  BY <1>1, RoomGrows
<1>3. MaxKinds * Cardinality(Requests) \in Nat
  BY RoomGrows, WorkspaceAssumption
<1>4. Len(drafts[k]) \in Nat
  BY DEF Typed, TypeOK
<1> QED  BY <1>2, <1>3, <1>4 DEF LengthBounded

\* A request's record becomes one that has passed or inserts no more than it did.
LEMMA RecordBounded ==
  ASSUME Typed, Bounded, NEW r \in Requests, NEW q,
         request' = [request EXCEPT ![r] = q], UNCHANGED <<drafts, used>>,
         Metering(q) => q.amount <= MaxKinds,
         (q.op = "generate" /\ q.pc \in {"read", "store", "usage", "commit"}) => r \in Passed,
         \A k \in Kinds : (/\ q.op = "generate" /\ q.pc \in {"store", "usage", "commit"}
                           /\ k \in Asked(q) /\ q.row[k] = 0) => r \in Inserting(k)
  PROVE  Bounded'
<1>1. request'[r] = q /\ \A o \in Requests \ {r} : request'[o] = request[o]
  BY DEF Typed, TypeOK
<1>2. Passed' \subseteq Passed
  BY <1>1 DEF Passed
<1>3. \A k \in Kinds : Inserting(k)' \subseteq Inserting(k)
  BY <1>1 DEF Inserting
<1>4. UsedBounded'
  BY <1>2, UsedStays DEF Bounded, Typed, TypeOK
<1>5. \A k \in Kinds : LengthBounded(k)'
  BY <1>3, LengthStays DEF Bounded
<1>6. \A o \in Requests : Metering(request'[o]) => request'[o].amount <= MaxKinds
  BY <1>1 DEF Bounded
<1> QED  BY <1>4, <1>5, <1>6 DEF Bounded, Metering

LEMMA ArrivalsBounded ==
  ASSUME Typed, Bounded, NEW r \in Requests,
         \/ \E d \in Docs : PutSoul(r, d)
         \/ DeleteSoul(r)
         \/ \E status \in Statuses, note \in {"none", "because"} : Review(r, status, note)
         \/ \E kinds \in KindLists : Generate(r, kinds)
  PROVE  Bounded'
<1>1. request'[r].pc \in {"write", "check"}
  BY ArrivalFacts
<1>2. request'[r].pc \notin {"read", "store", "usage", "commit"}
  BY <1>1
<1>3. request' = [request EXCEPT ![r] = request'[r]] /\ UNCHANGED <<drafts, used>>
  BY ArrivalFacts
<1> QED  BY <1>2, <1>3, RecordBounded DEF Metering

\* The check leaves room for what the others, and this request, may add.
LEMMA CheckBounded ==
  ASSUME Typed, Bounded, NEW r \in Requests, CheckDrafts(r)
  PROVE  Bounded'
<1> DEFINE q == request[r]
           n == [q EXCEPT !.pc = "read"]
<1>0. q \in Request
  BY DEF Typed, TypeOK
<1>1. CASE WithinPlan
  <2>1. request' = [request EXCEPT ![r] = n] /\ UNCHANGED <<drafts, used>>
    BY <1>1 DEF CheckDrafts, Step
  <2>2. request'[r] = n /\ \A o \in Requests \ {r} : request'[o] = request[o]
    BY <2>1 DEF Typed, TypeOK
  <2>3. n.pc = "read"
    BY <1>0 DEF Request
  <2>4. used \in Nat /\ Limit \in Nat /\ used <= Limit - 1 /\ used' = used
    BY <1>1, <2>1, WorkspaceAssumption DEF WithinPlan, Typed, TypeOK
  <2>5. Passed' \subseteq Requests
    BY DEF Passed
  <2>6. /\ MaxKinds * Cardinality(Passed)' \in Nat /\ MaxKinds * Cardinality(Requests) \in Nat
        /\ MaxKinds * Cardinality(Passed)' <= MaxKinds * Cardinality(Requests)
    BY <2>5, RoomGrows, WorkspaceAssumption
  <2>7. UsedBounded'
    BY <2>4, <2>6 DEF UsedBounded
  <2>8. \A k \in Kinds : Inserting(k)' \subseteq Inserting(k)
    BY <2>2, <2>3 DEF Inserting
  <2>9. \A k \in Kinds : LengthBounded(k)'
    BY <2>1, <2>8, LengthStays DEF Bounded
  <2>10. \A o \in Requests : Metering(request'[o]) => request'[o].amount <= MaxKinds
    BY <2>2, <2>3 DEF Bounded, Metering
  <2> QED  BY <2>7, <2>9, <2>10 DEF Bounded, Metering
<1>2. CASE ~WithinPlan
  <2>1. request' = [request EXCEPT ![r] = NoRequest] /\ UNCHANGED <<drafts, used>>
    BY <1>2 DEF CheckDrafts, Step
  <2>2. NoRequest.pc = "idle"
    BY DEF NoRequest
  <2> QED  BY <2>1, <2>2, RecordBounded DEF Metering
<1> QED  BY <1>1, <1>2

\* Only a kind that has no draft at all is found without one.
LEMMA ReadBounded ==
  ASSUME Typed, Bounded, NEW r \in Requests, ReadDrafts(r)
  PROVE  Bounded'
<1> DEFINE q == request[r]
<1>0. q \in Request /\ ReqOK(q) /\ q.pc = "read" /\ drafts \in [Kinds -> Seq(Docs)]
  BY DEF Typed, TypeOK, ReadDrafts
<1>1. PICK row \in [Kinds -> UNION {0..Len(drafts[k]) : k \in Kinds}] :
        /\ \A k \in Kinds : IF k \in Asked(q) /\ drafts[k] # << >>
                            THEN row[k] \in DOMAIN drafts[k] ELSE row[k] = 0
        /\ Step(r, [q EXCEPT !.pc = "store", !.row = row])
  BY DEF ReadDrafts
<1> DEFINE n == [q EXCEPT !.pc = "store", !.row = row]
<1>2. n.pc = "store" /\ n.row = row /\ n.kinds = q.kinds /\ q.op = "generate"
  BY <1>0 DEF Request, ReqOK, SoulOps
<1>3. request' = [request EXCEPT ![r] = n] /\ UNCHANGED <<drafts, used>>
  BY <1>1 DEF Step
<1>4. request'[r] = n /\ \A o \in Requests \ {r} : request'[o] = request[o]
  BY <1>3 DEF Typed, TypeOK
<1> HIDE DEF n
<1>5. Passed' \subseteq Passed
  BY <1>0, <1>2, <1>4 DEF Passed
<1>6. UsedBounded'
  BY <1>3, <1>5, UsedStays DEF Bounded, Typed, TypeOK
<1>7. \A k \in Kinds : LengthBounded(k)'
  <2> SUFFICES ASSUME NEW k \in Kinds PROVE LengthBounded(k)'
    OBVIOUS
  <2>1. CASE drafts[k] = << >>
    <3>1. Len(drafts'[k]) = 0
      BY <1>3, <2>1
    <3>2. Inserting(k)' \subseteq Requests
      BY DEF Inserting
    <3>3. /\ MaxKinds * Cardinality(Inserting(k))' \in Nat
          /\ MaxKinds * Cardinality(Requests) \in Nat
          /\ MaxKinds * Cardinality(Inserting(k))' <= MaxKinds * Cardinality(Requests)
      BY <3>2, RoomGrows, WorkspaceAssumption
    <3> QED  BY <3>1, <3>3 DEF LengthBounded
  <2>2. CASE drafts[k] # << >>
    <3>1. k \in Asked(q) => row[k] # 0
      BY <1>0, <1>1, <2>2
    <3>2. ~(k \in Asked(n) /\ n.row[k] = 0)
      BY <1>2, <3>1 DEF Asked
    <3>3. Inserting(k)' \subseteq Inserting(k)
      BY <1>4, <3>2 DEF Inserting
    <3> QED  BY <1>3, <3>3, LengthStays DEF Bounded
  <2> QED  BY <2>1, <2>2
<1>8. \A o \in Requests : Metering(request'[o]) => request'[o].amount <= MaxKinds
  BY <1>2, <1>4 DEF Bounded, Metering
<1> QED  BY <1>6, <1>7, <1>8 DEF Bounded, Metering

LEMMA StepsBounded ==
  ASSUME Typed, Bounded, NEW r \in Requests,
         Write(r) \/ StoreDrafts(r) \/ RecordUsage(r) \/ Fail(r)
  PROVE  Bounded'
<1> DEFINE q == request[r]
<1>0. q \in Request /\ ReqOK(q)
  BY DEF Typed, TypeOK
<1>1. CASE Write(r)
  <2> DEFINE n == [q EXCEPT !.pc = "commit"]
  <2>1. n.op = q.op /\ q.op # "generate"
    BY <1>0, <1>1 DEF Write, Request, ReqOK
  <2>2. request' = [request EXCEPT ![r] = n] /\ UNCHANGED <<drafts, used>>
    BY <1>1 DEF Write, Step
  <2> HIDE DEF n
  <2> QED  BY <2>1, <2>2, RecordBounded DEF Metering
<1>2. CASE StoreDrafts(r)
  <2> DEFINE n == [q EXCEPT !.pc = "usage"]
  <2>1. n.op = q.op /\ n.pc = "usage" /\ n.kinds = q.kinds /\ n.row = q.row /\ q.pc = "store"
    BY <1>0, <1>2 DEF StoreDrafts, Request
  <2>2. request' = [request EXCEPT ![r] = n] /\ UNCHANGED <<drafts, used>>
    BY <1>2 DEF StoreDrafts, Step
  <2> HIDE DEF n
  <2>3. n.op = "generate" => r \in Passed
    BY <2>1 DEF Passed
  <2>4. \A k \in Kinds : n.op = "generate" /\ k \in Asked(n) /\ n.row[k] = 0 => r \in Inserting(k)
    BY <2>1 DEF Inserting, Asked
  <2> QED  BY <2>1, <2>2, <2>3, <2>4, RecordBounded DEF Metering
<1>3. CASE RecordUsage(r)
  <2> DEFINE n == [q EXCEPT !.pc = "commit", !.amount = Quantity(q),
                            !.month = month, !.count = rollup + Quantity(q)]
  <2>1. /\ n.op = q.op /\ n.pc = "commit" /\ n.kinds = q.kinds /\ n.row = q.row
        /\ n.amount = Quantity(q) /\ q.pc = "usage"
    BY <1>0, <1>3 DEF RecordUsage, Request
  <2>2. request' = [request EXCEPT ![r] = n] /\ UNCHANGED <<drafts, used>>
    BY <1>3 DEF RecordUsage, Counted, Step
  <2> HIDE DEF n
  <2>3. n.op = "generate" => r \in Passed
    BY <2>1 DEF Passed
  <2>4. \A k \in Kinds : n.op = "generate" /\ k \in Asked(n) /\ n.row[k] = 0 => r \in Inserting(k)
    BY <2>1 DEF Inserting, Asked
  <2>5. n.amount <= MaxKinds
    BY <1>0, <2>1, QuantityRange
  <2> QED  BY <2>2, <2>3, <2>4, <2>5, RecordBounded
<1>4. CASE Fail(r)
  <2>1. request' = [request EXCEPT ![r] = NoRequest] /\ UNCHANGED <<drafts, used>>
    BY <1>4 DEF Fail, Step
  <2>2. NoRequest.pc = "idle"
    BY DEF NoRequest
  <2> QED  BY <2>1, <2>2, RecordBounded DEF Metering
<1> QED  BY <1>1, <1>2, <1>3, <1>4

\* A commit adds what the request had room for, and gives its room back.
LEMMA CommitBounded ==
  ASSUME Typed, Bounded, NEW r \in Requests, Commit(r)
  PROVE  Bounded'
<1> DEFINE q == request[r]
<1>0. q \in Request /\ q.pc = "commit" /\ drafts \in [Kinds -> Seq(Docs)] /\ used \in Nat
  BY DEF Typed, TypeOK, Commit
<1>1. request' = [request EXCEPT ![r] = NoRequest] /\ NoRequest.pc = "idle"
  BY DEF Commit, NoRequest
<1>2. CASE q.op # "generate"
  <2>1. UNCHANGED <<drafts, used>>
    BY <1>2 DEF Commit
  <2> QED  BY <1>1, <2>1, RecordBounded DEF Metering
<1>3. CASE q.op = "generate"
  <2>0. request'[r] = NoRequest /\ \A o \in Requests \ {r} : request'[o] = request[o]
    BY <1>1 DEF Typed, TypeOK
  <2>1. r \in Passed /\ Passed' \subseteq Passed \ {r} /\ Passed \subseteq Requests
    BY <1>0, <1>1, <1>3, <2>0 DEF Passed
  <2>2. /\ MaxKinds * Cardinality(Passed)' \in Nat /\ MaxKinds * Cardinality(Passed) \in Nat
        /\ MaxKinds * Cardinality(Passed)' + MaxKinds <= MaxKinds * Cardinality(Passed)
    BY <2>1, RoomLeft
  <2>3. q.amount \in Nat /\ q.amount <= MaxKinds
    BY <1>0, <1>3 DEF Bounded, Metering, Request
  <2>4. used' \in Nat /\ used' <= used + q.amount
    BY <1>0, <1>3, <2>3 DEF Commit
  <2>5. MaxKinds * Cardinality(Requests) \in Nat /\ Limit \in Nat /\ MaxKinds \in Nat
    BY RoomGrows, WorkspaceAssumption
  <2>6. UsedBounded'
    <3> HIDE DEF q
    <3> QED  BY <1>0, <2>2, <2>3, <2>4, <2>5 DEF Bounded, UsedBounded
  <2>7. \A k \in Kinds : LengthBounded(k)'
    <3> SUFFICES ASSUME NEW k \in Kinds PROVE LengthBounded(k)'
      OBVIOUS
    <3>1. drafts'[k] = DraftsAfter(q, k)
      BY <1>3 DEF Commit
    <3>2. Inserting(k)' \subseteq Inserting(k) \ {r} /\ Inserting(k) \subseteq Requests
      BY <1>1, <2>0 DEF Inserting
    <3>3. CASE k \in Asked(q) /\ q.row[k] = 0
      <4>1. r \in Inserting(k)
        BY <1>0, <1>3, <3>3 DEF Inserting
      <4>2. /\ MaxKinds * Cardinality(Inserting(k))' \in Nat
            /\ MaxKinds * Cardinality(Inserting(k)) \in Nat
            /\ MaxKinds * Cardinality(Inserting(k))' + MaxKinds
                 <= MaxKinds * Cardinality(Inserting(k))
        BY <3>2, <4>1, RoomLeft
      <4>3. Len(drafts'[k]) = Len(drafts[k]) + Times(q, k)
        <5> DEFINE m == Times(q, k)
                   t == [i \in 1..m |-> q.soul]
        <5>1. m \in Nat /\ q.soul \in Docs
          BY <1>0, <1>3, TimesRange DEF Typed, ReqOK
        <5>2. drafts'[k] = drafts[k] \o t
          BY <3>1, <3>3 DEF DraftsAfter
        <5> HIDE DEF m, q
        <5>3. t \in Seq(Docs) /\ Len(t) = m
          BY <5>1
        <5> HIDE DEF t
        <5>4. Len(drafts[k] \o t) = Len(drafts[k]) + Len(t)
          BY <1>0, <5>3, ConcatProperties
        <5>5. Len(drafts'[k]) = Len(drafts[k]) + m
          BY <5>2, <5>3, <5>4
        <5> QED  BY <5>5 DEF m, q
      <4>4. Times(q, k) \in Nat /\ Times(q, k) <= MaxKinds /\ Len(drafts[k]) \in Nat
        BY <1>0, TimesRange
      <4> HIDE DEF q
      <4> QED  BY <2>5, <4>2, <4>3, <4>4 DEF Bounded, LengthBounded
    <3>4. CASE ~(k \in Asked(q) /\ q.row[k] = 0)
      <4>1. Len(drafts'[k]) = Len(drafts[k])
        <5>1. CASE k \notin Asked(q)
          BY <3>1, <5>1 DEF DraftsAfter
        <5>2. CASE k \in Asked(q)
          <6> DEFINE s == drafts[k]
                     i == q.row[k]
                     d == q.soul
          <6>1. drafts'[k] = [s EXCEPT ![i] = d]
            BY <3>1, <3>4, <5>2 DEF DraftsAfter
          <6>2. i \in 1..Len(s) /\ d \in Docs /\ s \in Seq(Docs)
            BY <1>0, <1>3, <3>4, <5>2 DEF Typed, RowsOK, ReqOK, Request
          <6> HIDE DEF s, i, d
          <6>3. Len([s EXCEPT ![i] = d]) = Len(s)
            BY <6>2, ExceptSeq
          <6>4. Len(drafts'[k]) = Len(s)
            BY <6>1, <6>3
          <6> QED  BY <6>4 DEF s
        <5> QED  BY <5>1, <5>2
      <4> QED  BY <3>2, <4>1, LengthStays DEF Bounded
    <3> QED  BY <3>3, <3>4
  <2>8. \A o \in Requests : Metering(request'[o]) => request'[o].amount <= MaxKinds
    BY <1>1, <2>0 DEF Bounded, Metering
  <2> QED  BY <2>6, <2>7, <2>8 DEF Bounded, Metering
<1> QED  BY <1>2, <1>3

LEMMA NextBounded == Typed /\ Bounded /\ [Next]_vars => Bounded'
<1> SUFFICES ASSUME Typed, Bounded, [Next]_vars PROVE Bounded'
  OBVIOUS
<1>1. CASE NewMonth
  <2>1. used' \in Nat /\ used' <= used /\ Passed' \subseteq Passed
    BY <1>1 DEF NewMonth, Passed, Typed, TypeOK
  <2>2. \A k \in Kinds : Inserting(k)' \subseteq Inserting(k) /\ drafts' = drafts
    BY <1>1 DEF NewMonth, Inserting
  <2>3. UsedBounded' /\ \A k \in Kinds : LengthBounded(k)'
    BY <2>1, <2>2, UsedStays, LengthStays DEF Bounded
  <2>4. \A r \in Requests : Metering(request'[r]) => request'[r].amount <= MaxKinds
    BY <1>1 DEF NewMonth, Bounded
  <2> QED  BY <2>3, <2>4 DEF Bounded, Metering
<1>2. CASE UNCHANGED vars
  BY <1>2 DEF vars, Bounded, UsedBounded, LengthBounded, Passed, Inserting, Metering, Asked
<1>3. ASSUME NEW r \in Requests, CheckDrafts(r) PROVE Bounded'
  BY <1>3, CheckBounded
<1>4. ASSUME NEW r \in Requests, ReadDrafts(r) PROVE Bounded'
  BY <1>4, ReadBounded
<1>5. ASSUME NEW r \in Requests, Commit(r) PROVE Bounded'
  BY <1>5, CommitBounded
<1>6. ASSUME NEW r \in Requests, Write(r) \/ StoreDrafts(r) \/ RecordUsage(r) \/ Fail(r)
      PROVE  Bounded'
  BY <1>6, StepsBounded
<1> QED  BY <1>1, <1>2, <1>3, <1>4, <1>5, <1>6, ArrivalsBounded DEF Next

LEMMA InitBounded == Init => Bounded
<1> SUFFICES ASSUME Init PROVE Bounded
  OBVIOUS
<1>1. Passed = {} /\ \A k \in Kinds : Inserting(k) = {} /\ Len(drafts[k]) = 0
  BY DEF Init, NoRequest, Passed, Inserting
<1>2. /\ MaxKinds * Cardinality(Passed) = 0
      /\ \A k \in Kinds : MaxKinds * Cardinality(Inserting(k)) = 0
  <2>1. Cardinality({}) = 0 /\ MaxKinds * 0 = 0
    BY FS_EmptySet, WorkspaceAssumption
  <2> QED  BY <1>1, <2>1
<1>3. MaxKinds * Cardinality(Requests) \in Nat
  BY RoomGrows, WorkspaceAssumption
<1>4. \A r \in Requests : ~Metering(request[r])
  BY DEF Init, NoRequest, Metering
<1>5. used = 0 /\ Limit - 1 \in Nat
  BY WorkspaceAssumption DEF Init
<1>6. UsedBounded
  BY <1>1, <1>2, <1>3, <1>5 DEF UsedBounded
<1>7. \A k \in Kinds : LengthBounded(k)
  BY <1>1, <1>2, <1>3 DEF LengthBounded
<1> QED  BY <1>4, <1>6, <1>7 DEF Bounded

THEOREM AlwaysBounded == Spec => []Bounded
  BY InitBounded, NextBounded, AlwaysTyped, PTL DEF Spec

\* However many requests pass the quota check at once, the month's drafts never
\* exceed the limit by more than what every slot can ask for.
THEOREM OvershootIsBounded == Spec => []OvershootBounded
<1>1. Typed /\ Bounded => OvershootBounded
  <2> SUFFICES ASSUME Typed, Bounded PROVE OvershootBounded
    OBVIOUS
  <2>1. /\ MaxKinds * Cardinality(Passed) \in Nat
        /\ MaxKinds * Cardinality(Requests) \in Nat
    BY RoomGrows, WorkspaceAssumption DEF Passed
  <2>2. used \in Nat /\ Limit \in Nat
    BY WorkspaceAssumption DEF Typed, TypeOK
  <2> QED  BY <2>1, <2>2 DEF Bounded, UsedBounded, OvershootBounded
<1> QED  BY <1>1, AlwaysTyped, AlwaysBounded, PTL

\* Two generations of a match may insert a draft each, but the drafts of a kind
\* never outnumber the mentions that overlapping requests can make.
THEOREM DuplicatesAreBounded == Spec => []DuplicatesBounded
<1>1. Typed /\ Bounded => DuplicatesBounded
  <2> SUFFICES ASSUME Typed, Bounded, NEW k \in Kinds
               PROVE  Len(drafts[k]) <= MaxKinds * Cardinality(Requests)
    BY DEF DuplicatesBounded
  <2>1. /\ MaxKinds * Cardinality(Inserting(k)) \in Nat
        /\ MaxKinds * Cardinality(Requests) \in Nat
    BY RoomGrows, WorkspaceAssumption DEF Inserting
  <2>2. Len(drafts[k]) \in Nat
    BY DEF Typed, TypeOK
  <2> QED  BY <2>1, <2>2 DEF Bounded, LengthBounded
<1> QED  BY <1>1, AlwaysTyped, AlwaysBounded, PTL

-----------------------------------------------------------------------------
(* A soul is set as a whole, and written onto the row it was read from it   *)
(* stays whole.                                                             *)

SetWhole == \A r \in Requests :
              request[r].op \in SoulOps => request[r].set.blob = request[r].set.json

LEMMA NextSetWhole == Typed /\ SetWhole /\ [Next]_vars => SetWhole'
<1> SUFFICES ASSUME Typed, SetWhole, [Next]_vars PROVE SetWhole'
  OBVIOUS
<1> DEFINE Whole(q) == q.op \in SoulOps => q.set.blob = q.set.json
<1>0. ASSUME NEW r \in Requests, NEW q, Whole(q), request' = [request EXCEPT ![r] = q]
      PROVE  SetWhole'
  BY <1>0 DEF SetWhole, Typed, TypeOK
<1>1. CASE NewMonth \/ UNCHANGED vars
  BY <1>1 DEF NewMonth, vars, SetWhole
<1>2. Whole(NoRequest)
  BY DEF NoRequest, SoulOps
<1> HIDE DEF Whole
<1>3. ASSUME NEW r \in Requests, NEW d \in Docs, PutSoul(r, d) PROVE SetWhole'
  <2> DEFINE q == [NoRequest EXCEPT !.op = "put", !.pc = "write", !.seen = tenant,
                     !.set = [blob |-> d, json |-> d,
                              name |-> IF NameOf[d] = None THEN tenant.name ELSE NameOf[d]]]
  <2>1. request' = [request EXCEPT ![r] = q]
    BY <1>3 DEF PutSoul, Arrive
  <2>2. Whole(q)
    BY DEF NoRequest, Whole
  <2> HIDE DEF q
  <2> QED  BY <1>0, <2>1, <2>2
<1>4. ASSUME NEW r \in Requests, DeleteSoul(r) PROVE SetWhole'
  <2> DEFINE q == [NoRequest EXCEPT !.op = "delete", !.pc = "write",
                                    !.seen = tenant, !.set = Cleared(tenant)]
  <2>1. request' = [request EXCEPT ![r] = q]
    BY <1>4 DEF DeleteSoul, Arrive
  <2>2. tenant \in Tenant
    BY DEF Typed, TypeOK
  <2>3. Whole(q)
    BY <2>2 DEF NoRequest, Whole, Cleared, Tenant
  <2> HIDE DEF q
  <2> QED  BY <1>0, <2>1, <2>3
<1>5. ASSUME NEW r \in Requests, NEW status \in Statuses, NEW note \in {"none", "because"},
             Review(r, status, note)
      PROVE  SetWhole'
  <2> DEFINE q == [NoRequest EXCEPT !.op = "review", !.pc = "write", !.seen = match,
                     !.set = [status |-> status, note |-> note, by |-> r]]
  <2>1. request' = [request EXCEPT ![r] = q]
    BY <1>5 DEF Review, Arrive
  <2>2. Whole(q)
    BY DEF NoRequest, Whole, SoulOps
  <2> HIDE DEF q
  <2> QED  BY <1>0, <2>1, <2>2
<1>6. ASSUME NEW r \in Requests, NEW kinds \in KindLists, Generate(r, kinds) PROVE SetWhole'
  <2> DEFINE q == [NoRequest EXCEPT !.op = "generate", !.pc = "check",
                                    !.soul = tenant.blob, !.kinds = kinds]
  <2>1. request' = [request EXCEPT ![r] = q]
    BY <1>6 DEF Generate, Arrive
  <2>2. Whole(q)
    BY DEF NoRequest, Whole, SoulOps
  <2> HIDE DEF q
  <2> QED  BY <1>0, <2>1, <2>2
<1>7. ASSUME NEW r \in Requests,
             \/ Write(r) \/ CheckDrafts(r) \/ ReadDrafts(r) \/ StoreDrafts(r)
             \/ RecordUsage(r) \/ Commit(r) \/ Fail(r)
      PROVE  SetWhole'
  <2> DEFINE q == request[r]
  <2>0. q \in Request /\ Whole(q)
    BY DEF Typed, TypeOK, SetWhole, Whole
  <2>1. CASE Write(r)
    <3> DEFINE n == [q EXCEPT !.pc = "commit"]
    <3>1. request' = [request EXCEPT ![r] = n]
      BY <2>1 DEF Write, Step
    <3>2. Whole(n)
      BY <2>0 DEF Whole, Request
    <3> HIDE DEF n
    <3> QED  BY <1>0, <3>1, <3>2
  <2>2. CASE CheckDrafts(r)
    <3> DEFINE n == [q EXCEPT !.pc = "read"]
    <3>1. request' = [request EXCEPT ![r] = n] \/ request' = [request EXCEPT ![r] = NoRequest]
      BY <2>2 DEF CheckDrafts, Step
    <3>2. Whole(n)
      BY <2>0 DEF Whole, Request
    <3> HIDE DEF n
    <3> QED  BY <1>0, <1>2, <3>1, <3>2
  <2>3. CASE ReadDrafts(r)
    <3>1. PICK row : request' = [request EXCEPT ![r] = [q EXCEPT !.pc = "store", !.row = row]]
      BY <2>3 DEF ReadDrafts, Step
    <3> DEFINE n == [q EXCEPT !.pc = "store", !.row = row]
    <3>2. Whole(n)
      BY <2>0 DEF Whole, Request
    <3>3. request' = [request EXCEPT ![r] = n]
      BY <3>1
    <3> HIDE DEF n
    <3> QED  BY <1>0, <3>2, <3>3
  <2>4. CASE StoreDrafts(r)
    <3> DEFINE n == [q EXCEPT !.pc = "usage"]
    <3>1. request' = [request EXCEPT ![r] = n]
      BY <2>4 DEF StoreDrafts, Step
    <3>2. Whole(n)
      BY <2>0 DEF Whole, Request
    <3> HIDE DEF n
    <3> QED  BY <1>0, <3>1, <3>2
  <2>5. CASE RecordUsage(r)
    <3> DEFINE n == [q EXCEPT !.pc = "commit", !.amount = Quantity(q),
                              !.month = month, !.count = rollup + Quantity(q)]
    <3>1. request' = [request EXCEPT ![r] = n]
      BY <2>5 DEF RecordUsage, Counted, Step
    <3>2. Whole(n)
      BY <2>0 DEF Whole, Request
    <3> HIDE DEF n
    <3> QED  BY <1>0, <3>1, <3>2
  <2>6. CASE Commit(r) \/ Fail(r)
    <3>1. request' = [request EXCEPT ![r] = NoRequest]
      BY <2>6 DEF Commit, Fail, Step
    <3> QED  BY <1>0, <1>2, <3>1
  <2> QED  BY <1>7, <2>1, <2>2, <2>3, <2>4, <2>5, <2>6
<1> QED  BY <1>1, <1>3, <1>4, <1>5, <1>6, <1>7 DEF Next

\* A row written only where it differs from what was read becomes what was set,
\* when it still is what was read.
LEMMA MergedUndisturbed ==
  ASSUME NEW S \in {Tenant, Match}, NEW row \in S, NEW q \in Request,
         q.set \in S, q.seen = row
  PROVE  Merged(row, q) = q.set
<1>1. CASE S = Tenant
  BY <1>1 DEF Merged, Tenant
<1>2. CASE S = Match
  BY <1>2 DEF Merged, Match
<1> QED  BY <1>1, <1>2

WholeStep ==
  \A r \in Requests :
    request[r].pc = "commit" /\ request'[r].pc = "idle" =>
    /\ request[r].op \in SoulOps /\ request[r].seen = tenant
       /\ tenant.blob = tenant.json /\ tenant' # tenant
         => tenant'.blob = tenant'.json /\ tenant' = request[r].set
    /\ request[r].op = "review" /\ request[r].seen = match /\ match' # match
         => match' = request[r].set

LEMMA StepIsWhole == Typed /\ SetWhole /\ [Next]_vars => WholeStep
<1> SUFFICES ASSUME Typed, SetWhole, [Next]_vars, NEW r \in Requests,
                    request[r].pc = "commit", request'[r].pc = "idle"
             PROVE  /\ request[r].op \in SoulOps /\ request[r].seen = tenant
                       /\ tenant.blob = tenant.json /\ tenant' # tenant
                         => tenant'.blob = tenant'.json /\ tenant' = request[r].set
                    /\ request[r].op = "review" /\ request[r].seen = match /\ match' # match
                         => match' = request[r].set
  BY DEF WholeStep
<1> DEFINE q == request[r]
<1>0. q \in Request /\ ReqOK(q) /\ tenant \in Tenant /\ match \in Match
  BY DEF Typed, TypeOK
<1>1. CASE Commit(r)
  <2>1. ASSUME q.op \in SoulOps, q.seen = tenant
        PROVE  tenant' = q.set /\ tenant'.blob = tenant'.json
    <3>1. tenant' = Merged(tenant, q)
      BY <1>1, <2>1 DEF Commit
    <3>2. Merged(tenant, q) = q.set
      BY <1>0, <2>1, MergedUndisturbed DEF ReqOK
    <3> QED  BY <2>1, <3>1, <3>2 DEF SetWhole
  <2>2. ASSUME q.op = "review", q.seen = match PROVE match' = q.set
    <3>1. match' = Merged(match, q)
      BY <1>1, <2>2 DEF Commit
    <3>2. Merged(match, q) = q.set
      BY <1>0, <2>2, MergedUndisturbed DEF ReqOK
    <3> QED  BY <3>1, <3>2
  <2> QED  BY <2>1, <2>2
<1>2. CASE ~Commit(r)
  <2>1. tenant' = tenant /\ match' = match
    <3>1. ASSUME NEW o \in Requests, Commit(o) PROVE FALSE
      <4>1. o # r /\ request' = [request EXCEPT ![o] = NoRequest]
        BY <1>2, <3>1 DEF Commit
      <4>2. request'[r] = request[r]
        BY <4>1 DEF Typed, TypeOK
      <4> QED  BY <4>2
    <3>2. CASE NewMonth \/ UNCHANGED vars
      BY <3>2 DEF NewMonth, vars
    <3>3. ASSUME NEW o \in Requests,
                 \/ Write(o) \/ CheckDrafts(o) \/ ReadDrafts(o) \/ StoreDrafts(o)
                 \/ RecordUsage(o) \/ Fail(o)
          PROVE  UNCHANGED <<tenant, match>>
      BY <3>3 DEF Write, CheckDrafts, ReadDrafts, StoreDrafts, RecordUsage, Counted, Fail, Step
    <3> QED  BY <3>1, <3>2, <3>3, ArrivalFacts DEF Next
  <2> QED  BY <2>1
<1> QED  BY <1>1, <1>2

\* A soul or a review that nobody disturbs is written as a whole.
THEOREM UndisturbedIsWhole == Spec => UndisturbedWritesAreWhole
<1>1. Init => SetWhole
  BY DEF Init, NoRequest, SetWhole, SoulOps
<1>2. Spec => [][WholeStep]_vars
  BY <1>1, NextSetWhole, StepIsWhole, AlwaysTyped, PTL DEF Spec
<1> QED  BY <1>2 DEF UndisturbedWritesAreWhole, WholeStep
=============================================================================
