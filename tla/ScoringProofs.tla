---------------------------- MODULE ScoringProofs ----------------------------
(***************************************************************************)
(* Theorems about Scoring, for any states, calibration window and batch.   *)
(***************************************************************************)
EXTENDS Scoring, TLAPS

\* The inductive invariant: what was scored was scored for the soul in use.
FromSoul ==
  \A b \in scored : soul \in Souls /\ b = Breakdown(soul, b.grant, b.cosine)

IInv == TypeOK /\ FromSoul

Places == {"in_state", "national", "none"}

-----------------------------------------------------------------------------
(* The operators *)

LEMMA WindowIsPositive == Window \in Int /\ Window >= 1
  BY ScoringAssumption DEF Window

\* A cosine is worth between nothing and CALIBRATION_MAX points.
LEMMA CalibratedRange ==
  ASSUME NEW c \in -100..100
  PROVE  Calibrated(c) \in Int /\ 0 <= Calibrated(c) /\ Calibrated(c) <= 80 * Window
  BY WindowIsPositive, ScoringAssumption
     DEF Calibrated, AtLeast, AtMost, CALIBRATION_MAX

\* A higher cosine is never worth less.
LEMMA CalibratedMonotone ==
  ASSUME NEW c \in -100..100, NEW d \in -100..100, c >= d
  PROVE  Calibrated(c) >= Calibrated(d)
  BY WindowIsPositive, ScoringAssumption
     DEF Calibrated, AtLeast, AtMost, CALIBRATION_MAX

LEMMA PlaceType ==
  ASSUME NEW s, NEW g
  PROVE  Place(s, g) \in Places
  BY DEF Place, Places

LEMMA BoostValue ==
  ASSUME NEW p \in Places
  PROVE  /\ p = "in_state" => Points(Boost(p)) = 20 * Window /\ Rank(p) = 3
         /\ p = "national" => Points(Boost(p)) = 10 * Window /\ Rank(p) = 2
         /\ p = "none" => Points(Boost(p)) = 0 /\ Rank(p) = 1
  BY WindowIsPositive
     DEF Places, Points, Boost, Rank, STATE_BOOST_MATCH, STATE_BOOST_NATIONAL

\* The score of a grant that no rule excludes, in terms of its place.
LEMMA ScoreValue ==
  ASSUME NEW s \in Souls, NEW g \in Grants, NEW c \in -100..100, ~g.excluded,
         NEW plain, plain = Calibrated(c) + Points(Boost(Place(s, g)))
  PROVE  /\ plain \in Int /\ 0 <= plain /\ plain <= 100 * Window
         /\ g.thin => Score(s, g, c) = IF plain > 55 * Window THEN 55 * Window ELSE plain
         /\ ~g.thin => Score(s, g, c) = plain
<1> DEFINE p == Place(s, g)
<1>1. p \in Places
  BY PlaceType
<1>2. /\ Points(Boost(p)) \in Int
      /\ 0 <= Points(Boost(p)) /\ Points(Boost(p)) <= 20 * Window
  BY <1>1, BoostValue, WindowIsPositive DEF Places
<1>3. plain \in Int /\ 0 <= plain /\ plain <= 100 * Window
  <2> HIDE DEF p
  <2>1. plain = Calibrated(c) + Points(Boost(p))
    BY DEF p
  <2> QED  BY <2>1, <1>2, CalibratedRange, WindowIsPositive
<1>4. Score(s, g, c) = Capped(g, plain)
  BY DEF Score
<1>5. Points(LOW_CONTENT_CAP) = 55 * Window /\ Points(MAX_SCORE) = 100 * Window
  BY WindowIsPositive DEF Points, LOW_CONTENT_CAP, MAX_SCORE
<1>6. ASSUME g.thin
      PROVE  Score(s, g, c) = IF plain > 55 * Window THEN 55 * Window ELSE plain
  BY <1>3, <1>4, <1>5, <1>6, WindowIsPositive DEF Capped, AtMost
<1>7. ASSUME ~g.thin
      PROVE  Score(s, g, c) = plain
  BY <1>3, <1>4, <1>5, <1>7, WindowIsPositive DEF Capped, AtMost
<1> QED  BY <1>3, <1>6, <1>7

LEMMA ExcludedScore ==
  ASSUME NEW s, NEW g, NEW c, g.excluded
  PROVE  Score(s, g, c) = -Window
  BY WindowIsPositive DEF Score, Points, EXCLUDE_SCORE

\* -1 point, or between 0 and 100.
LEMMA ScoreRange ==
  ASSUME NEW s \in Souls, NEW g \in Grants, NEW c \in -100..100
  PROVE  IF g.excluded THEN Score(s, g, c) = -Window
         ELSE Score(s, g, c) \in 0..(100 * Window)
<1>1. CASE g.excluded
  BY <1>1, ExcludedScore
<1>2. CASE ~g.excluded
  <2> DEFINE plain == Calibrated(c) + Points(Boost(Place(s, g)))
  <2>1. /\ plain \in Int /\ 0 <= plain /\ plain <= 100 * Window
        /\ g.thin => Score(s, g, c) = IF plain > 55 * Window THEN 55 * Window ELSE plain
        /\ ~g.thin => Score(s, g, c) = plain
    BY <1>2, ScoreValue
  <2> HIDE DEF plain
  <2>2. g.thin \in BOOLEAN
    BY DEF Grants
  <2>3. CASE g.thin
    BY <1>2, <2>1, <2>3, WindowIsPositive
  <2>4. CASE ~g.thin
    BY <1>2, <2>1, <2>4, WindowIsPositive
  <2> QED  BY <2>3, <2>4
<1> QED  BY <1>1, <1>2

-----------------------------------------------------------------------------
(* The invariant *)

LEMMA InitIInv == Init => IInv
  BY DEF Init, IInv, TypeOK, FromSoul

\* Only souls whose codes were all found valid are used.
LEMMA ParsedIsSoul ==
  ASSUME NEW raw \in RawSouls, Valid(raw)
  PROVE  Parsed(raw) \in Souls
  BY DEF RawSouls, Valid, Parsed, Rules, Souls

LEMMA NextIInv == IInv /\ [Next]_vars => IInv'
<1> SUFFICES ASSUME IInv, [Next]_vars PROVE IInv'
  OBVIOUS
<1> USE DEF IInv
<1>1. ASSUME NEW raw \in RawSouls, LoadSoul(raw) PROVE IInv'
  <2>1. scored = {}
    BY <1>1, ScoringAssumption DEF LoadSoul, FromSoul
  <2>2. soul' \in Souls \cup {Refused} /\ scored' = scored
    BY <1>1, ParsedIsSoul DEF LoadSoul
  <2> QED  BY <2>1, <2>2 DEF TypeOK, FromSoul
<1>2. ASSUME NEW g \in Grants, NEW c \in Cosines, ScoreOne(g, c) PROVE IInv'
  <2> DEFINE b == Breakdown(soul, g, c)
  <2>1. soul \in Souls /\ soul' = soul /\ scored' = scored \cup {b}
    BY <1>2 DEF ScoreOne
  <2>2. c \in -100..100
    BY ScoringAssumption
  <2>3. IF g.excluded THEN Score(soul, g, c) = -Window
        ELSE Score(soul, g, c) \in 0..(100 * Window)
    BY <2>1, <2>2, ScoreRange
  <2>4. g.excluded \in BOOLEAN /\ Score(soul, g, c) \in Int
    BY <2>3, WindowIsPositive DEF Grants
  <2>5. b.grant = g /\ b.cosine = c /\ b.score = Score(soul, g, c)
    BY DEF Breakdown
  <2>6. b \in Breakdowns
    BY <2>4, PlaceType DEF Breakdown, Breakdowns, Places
  <2>7. b = Breakdown(soul', b.grant, b.cosine)
    BY <2>1, <2>5
  <2> HIDE DEF b
  <2>8. TypeOK'
    BY <2>1, <2>3, <2>5, <2>6 DEF TypeOK
  <2>9. FromSoul'
    BY <2>1, <2>7 DEF FromSoul
  <2> QED  BY <2>8, <2>9
<1>3. CASE UNCHANGED vars
  BY <1>3 DEF vars, TypeOK, FromSoul
<1> QED  BY <1>1, <1>2, <1>3 DEF Next

THEOREM Invariance == Spec => []IInv
<1>1. Init => IInv
  BY InitIInv
<1>2. IInv /\ [Next]_vars => IInv'
  BY NextIInv
<1> QED  BY <1>1, <1>2, PTL DEF Spec

\* Whatever soul file and grants come in (inner_court/loader.py, hunter/
\* scorer.py), only well-formed souls are used and scores keep to their scale.
THEOREM TypeCorrect == Spec => []TypeOK
<1>1. IInv => TypeOK
  BY DEF IInv
<1> QED  BY <1>1, Invariance, PTL

-----------------------------------------------------------------------------
(* What the scores mean *)

\* Two entries of the batch, as the operators see them.
LEMMA Entry ==
  ASSUME IInv, NEW a \in scored
  PROVE  /\ soul \in Souls /\ a.grant \in Grants /\ a.cosine \in -100..100
         /\ a.score = Score(soul, a.grant, a.cosine)
         /\ a.place = IF a.grant.excluded THEN "excluded" ELSE Place(soul, a.grant)
<1>1. soul \in Souls /\ a = Breakdown(soul, a.grant, a.cosine)
  BY DEF IInv, FromSoul
<1>2. a \in Breakdowns
  BY DEF IInv, TypeOK
<1>3. a.grant \in Grants /\ a.cosine \in -100..100
  BY <1>2, ScoringAssumption DEF Breakdowns
<1> QED  BY <1>1, <1>3 DEF Breakdown

LEMMA BetterFit == IInv => BetterFitScoresNoLess
<1> SUFFICES ASSUME IInv, NEW a \in scored, NEW b \in scored,
                    a.cosine >= b.cosine, Rank(a.place) >= Rank(b.place),
                    a.grant.thin => b.grant.thin
             PROVE  a.score >= b.score
  BY DEF BetterFitScoresNoLess
<1> DEFINE pa == Calibrated(a.cosine) + Points(Boost(Place(soul, a.grant)))
           pb == Calibrated(b.cosine) + Points(Boost(Place(soul, b.grant)))
<1>1. CASE b.grant.excluded
  <2>1. b.score = -Window
    BY <1>1, Entry, ExcludedScore
  <2>2. IF a.grant.excluded THEN a.score = -Window ELSE a.score \in 0..(100 * Window)
    BY Entry, ScoreRange
  <2> QED  BY <2>1, <2>2, WindowIsPositive
<1>2. CASE ~b.grant.excluded
  <2>1. b.place \in Places /\ b.place = Place(soul, b.grant)
    BY <1>2, Entry, PlaceType
  <2>2. Rank(b.place) >= 1
    BY <2>1, BoostValue DEF Places
  <2>3. ~a.grant.excluded
    BY <2>2, Entry DEF Rank
  <2>4. a.place \in Places /\ a.place = Place(soul, a.grant)
    BY <2>3, Entry, PlaceType
  <2>5. Points(Boost(a.place)) >= Points(Boost(b.place))
    BY <2>1, <2>4, BoostValue, WindowIsPositive DEF Places
  <2>6. Points(Boost(a.place)) \in Int /\ Points(Boost(b.place)) \in Int
    BY <2>1, <2>4, BoostValue, WindowIsPositive DEF Places
  <2>7. Calibrated(a.cosine) >= Calibrated(b.cosine)
        /\ Calibrated(a.cosine) \in Int /\ Calibrated(b.cosine) \in Int
    BY Entry, CalibratedMonotone, CalibratedRange
  <2>8. pa >= pb
    BY <2>1, <2>4, <2>5, <2>6, <2>7
  <2>9. /\ pa \in Int /\ 0 <= pa /\ pa <= 100 * Window
        /\ a.grant.thin => a.score = IF pa > 55 * Window THEN 55 * Window ELSE pa
        /\ ~a.grant.thin => a.score = pa
    BY <2>3, Entry, ScoreValue
  <2>10. /\ pb \in Int /\ 0 <= pb /\ pb <= 100 * Window
         /\ b.grant.thin => b.score = IF pb > 55 * Window THEN 55 * Window ELSE pb
         /\ ~b.grant.thin => b.score = pb
    BY <1>2, Entry, ScoreValue
  <2> HIDE DEF pa, pb
  <2>11. CASE a.grant.thin
    BY <2>8, <2>9, <2>10, <2>11, WindowIsPositive
  <2>12. CASE ~a.grant.thin
    <3>1. b.grant.thin \in BOOLEAN
      BY Entry DEF Grants
    <3> QED  BY <3>1, <2>8, <2>9, <2>10, <2>12, WindowIsPositive
  <2> QED  BY <2>11, <2>12
<1> QED  BY <1>1, <1>2

\* No cap, clamp or rule of the scorer turns the order of two grants round.
THEOREM NoInversion == Spec => []BetterFitScoresNoLess
  BY BetterFit, Invariance, PTL

LEMMA Tells == IInv => LocationStillTells
<1> SUFFICES ASSUME IInv, NEW a \in scored, NEW b \in scored,
                    a.cosine = b.cosine, Rank(a.place) > Rank(b.place),
                    ~a.grant.thin
             PROVE  a.score > b.score
  BY DEF LocationStillTells
<1> DEFINE pa == Calibrated(a.cosine) + Points(Boost(Place(soul, a.grant)))
           pb == Calibrated(b.cosine) + Points(Boost(Place(soul, b.grant)))
<1>0. Rank(a.place) \in Int /\ Rank(b.place) \in Int /\ Rank(b.place) >= 0
  BY DEF Rank
<1>1. ~a.grant.excluded
  BY <1>0, Entry DEF Rank
<1>2. a.place \in Places /\ a.place = Place(soul, a.grant)
  BY <1>1, Entry, PlaceType
<1>3. pa \in Int /\ 0 <= pa /\ a.score = pa
  BY <1>1, Entry, ScoreValue
<1>4. CASE b.grant.excluded
  <2>1. b.score = -Window
    BY <1>4, Entry, ExcludedScore
  <2> QED  BY <2>1, <1>3, WindowIsPositive
<1>5. CASE ~b.grant.excluded
  <2>1. b.place \in Places /\ b.place = Place(soul, b.grant)
    BY <1>5, Entry, PlaceType
  <2>2. Points(Boost(a.place)) > Points(Boost(b.place))
        /\ Points(Boost(a.place)) \in Int /\ Points(Boost(b.place)) \in Int
    BY <2>1, <1>2, BoostValue, WindowIsPositive DEF Places
  <2>3. Calibrated(a.cosine) = Calibrated(b.cosine) /\ Calibrated(a.cosine) \in Int
    BY Entry, CalibratedRange
  <2>4. pa > pb
    BY <1>2, <2>1, <2>2, <2>3
  <2>5. /\ pb \in Int /\ 0 <= pb /\ pb <= 100 * Window
        /\ b.grant.thin => b.score = IF pb > 55 * Window THEN 55 * Window ELSE pb
        /\ ~b.grant.thin => b.score = pb
    BY <1>5, Entry, ScoreValue
  <2>6. b.grant.thin \in BOOLEAN
    BY Entry DEF Grants
  <2> HIDE DEF pa, pb
  <2> QED  BY <2>4, <2>5, <2>6, <1>3, WindowIsPositive
<1> QED  BY <1>4, <1>5

\* "If quality could reach 100 on its own, a strong match would saturate and
\* the state boost would silently stop discriminating" (hunter/scorer.py:49):
\* it never does.
THEOREM BoostTells == Spec => []LocationStillTells
  BY Tells, Invariance, PTL
=============================================================================
