----------------------------- MODULE MCScoring -----------------------------
(* Values for the constants of Scoring.                                    *)
EXTENDS Scoring, TLC

CONSTANTS CA, WI, DC

\* Under the floor, in the middle, on the ceiling, over it.
MCCosines == {10, 46, 72, 90}

\* No code is told apart from another of its kind.
StateSymmetry == Permutations(States)
=============================================================================
