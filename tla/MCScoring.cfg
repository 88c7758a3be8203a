\* Every soul over two states, and every pair of grants scored for it.
SPECIFICATION Spec
CONSTANTS
  CA = CA
  WI = WI
  DC = DC
  None = None
  Refused = Refused
  States = {CA, WI}
  Others = {DC}
  SimFloor = 20
  SimCeil = 72
  Cosines <- MCCosines
  MaxScored = 2
SYMMETRY StateSymmetry
INVARIANTS TypeOK BetterFitScoresNoLess LocationStillTells
CHECK_DEADLOCK FALSE
