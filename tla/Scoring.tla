------------------------------- MODULE Scoring -------------------------------
(***************************************************************************)
(* How a grant is scored for a nonprofit: the soul file's location rules   *)
(* (inner_court/loader.py, states.py) and the scorer's calibration, boosts *)
(* and caps (hunter/scorer.py).  Scores are exact: cosines are hundredths, *)
(* and a score is counted in Window-ths of a point, in which the           *)
(* calibration divides evenly.                                             *)
(***************************************************************************)
EXTENDS Integers, FiniteSets

CONSTANTS States,   \* STATES_50
          Others,   \* codes that are none of them: DC, territories, typos
          SimFloor, SimCeil,
          Cosines,   \* similarities that occur, in hundredths
          MaxScored, \* bound: grants scored for one soul
          None, Refused

National == "national"

Souls == [home : States, rules : SUBSET (States \cup {National})]

ASSUME ScoringAssumption ==
  /\ SimFloor \in -100..100 /\ SimCeil \in -100..100
  /\ SimFloor < SimCeil  \* else calibrate raises ValueError
  /\ States \cap Others = {}
  /\ {National, None} \cap (States \cup Others) = {} /\ None # National
  /\ None \notin Souls /\ Refused \notin Souls /\ None # Refused
  /\ Cosines \subseteq -100..100 /\ MaxScored \in Nat

Codes == States \cup Others

Window == SimCeil - SimFloor

Points(n) == n * Window

CALIBRATION_MAX == 80
STATE_BOOST_MATCH == 20
STATE_BOOST_NATIONAL == 10
LOW_CONTENT_CAP == 55
MAX_SCORE == 100
EXCLUDE_SCORE == -1

VARIABLES
  soul,  \* the loaded soul: None before, Refused if it is malformed
  scored \* what score_many returned: grants with their breakdowns

vars == <<soul, scored>>

-----------------------------------------------------------------------------
(* The soul file *)

\* location.state and matching_rules.states, stripped and in upper case.
RawSouls == [state : Codes \cup {None}, states : SUBSET (Codes \cup {National})]

Valid(raw) ==
  raw.state \in States /\ raw.states \subseteq States \cup {National}

\* Without rules a nonprofit takes its own state and national funding.
Rules(raw) == IF raw.states = {} THEN {raw.state, National} ELSE raw.states

\* A malformed code is an error, never a default.
Parsed(raw) == [home |-> raw.state, rules |-> Rules(raw)]

\* Faulty variant of LoadSoul: codes that are no state are skipped.
LoadSoulLeniently(raw) ==
  /\ soul = None /\ UNCHANGED scored
  /\ soul' = [home |-> raw.state, rules |-> Rules(raw)]

LoadSoul(raw) ==
  /\ soul = None /\ UNCHANGED scored
  /\ \/ Valid(raw) /\ soul' = Parsed(raw)
     \/ ~Valid(raw) /\ soul' = Refused

-----------------------------------------------------------------------------
(* Location *)

\* A grant's source: nothing, a federal one, a national foundation, or
\* state_XX.  It is thin if its description is under the minimum, and listed
\* as excluded if an exclusion occurs in its title or description.
Sources == {None, "federal", "national_foundation"} \cup Codes

Grants == [code : Codes \cup {None}, source : Sources,
           thin : BOOLEAN, excluded : BOOLEAN]

\* The state_code, or else the state in the source's name.
Effective(g) ==
  IF g.code # None THEN g.code
  ELSE IF g.source \in Codes THEN g.source ELSE None

Covers(s, code) == code \in Codes /\ (code = s.home \/ code \in s.rules)

AllowsNational(s) == National \in s.rules

Place(s, g) ==
  IF Covers(s, Effective(g)) THEN "in_state"
  ELSE IF /\ g.source = "national_foundation" \/ (Effective(g) = None /\ g.source # None)
          /\ AllowsNational(s)
       THEN "national" ELSE "none"

Boost(place) ==
  IF place = "in_state" THEN STATE_BOOST_MATCH
  ELSE IF place = "national" THEN STATE_BOOST_NATIONAL ELSE 0

-----------------------------------------------------------------------------
(* The score *)

AtLeast(a, b) == IF a < b THEN b ELSE a

AtMost(a, b) == IF a > b THEN b ELSE a

\* In Window-ths of a point.
\* Faulty variants of Calibrated: quality alone may reach the maximum; the
\* window is not clamped.
CalibratedToMax(cosine) == AtLeast(0, AtMost(Window, cosine - SimFloor)) * MAX_SCORE
CalibratedUnclamped(cosine) == (cosine - SimFloor) * CALIBRATION_MAX

Calibrated(cosine) == AtLeast(0, AtMost(Window, cosine - SimFloor)) * CALIBRATION_MAX

\* Faulty variant of Capped: the cap is the score of a thin record.
CappedFlat(g, score) ==
  IF g.thin THEN Points(LOW_CONTENT_CAP) ELSE AtMost(score, Points(MAX_SCORE))

Capped(g, score) ==
  AtMost(IF g.thin THEN AtMost(score, Points(LOW_CONTENT_CAP)) ELSE score,
         Points(MAX_SCORE))

Score(s, g, cosine) ==
  IF g.excluded THEN Points(EXCLUDE_SCORE)
  ELSE Capped(g, Calibrated(cosine) + Points(Boost(Place(s, g))))

Breakdown(s, g, cosine) ==
  [grant |-> g, cosine |-> cosine, score |-> Score(s, g, cosine),
   place |-> IF g.excluded THEN "excluded" ELSE Place(s, g)]

Breakdowns == [grant : Grants, cosine : Cosines, score : Int,
               place : {"in_state", "national", "none", "excluded"}]

ScoreOne(g, cosine) ==
  /\ soul \in Souls /\ Cardinality(scored) < MaxScored
  /\ scored' = scored \cup {Breakdown(soul, g, cosine)}
  /\ UNCHANGED soul

Init == soul = None /\ scored = {}

Next ==
  \/ \E raw \in RawSouls : LoadSoul(raw)
  \/ \E g \in Grants, cosine \in Cosines : ScoreOne(g, cosine)

Spec == Init /\ [][Next]_vars

-----------------------------------------------------------------------------
(* Properties *)

\* A soul in use has a home and rules that name only states, and a score is -1
\* for an excluded grant and else between 0 and 100 points.
TypeOK ==
  /\ soul \in Souls \cup {None, Refused}
  /\ scored \subseteq Breakdowns
  /\ \A b \in scored :
       IF b.grant.excluded THEN b.score = -Window
       ELSE b.score \in 0..(100 * Window)

Rank(place) ==
  IF place = "in_state" THEN 3 ELSE IF place = "national" THEN 2
  ELSE IF place = "none" THEN 1 ELSE 0

\* Of two grants, one that is at least as similar and at least as near, and
\* that is not the only thin one, never scores less: no cap or clamp turns the
\* order, and an excluded grant is below every other.
BetterFitScoresNoLess ==
  \A a, b \in scored :
    /\ a.cosine >= b.cosine /\ Rank(a.place) >= Rank(b.place)
    /\ a.grant.thin => b.grant.thin
    => a.score >= b.score

\* Between grants that are equally similar the nearer one scores more, however
\* similar they are: quality leaves room for the boost.  Thin ones are capped.
LocationStillTells ==
  \A a, b \in scored :
    /\ a.cosine = b.cosine /\ Rank(a.place) > Rank(b.place)
    /\ ~a.grant.thin
    => a.score > b.score
=============================================================================
