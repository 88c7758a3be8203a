\* Two users, four requests; a limit of two drafts, two kinds of draft.
SPECIFICATION Spec
CONSTANTS
  d1 = d1
  d2 = d2
  k1 = k1
  k2 = k2
  r1 = r1
  r2 = r2
  acme = acme
  None = None
  Docs = {d1, d2}
  NameOf <- MCNameOf
  Kinds = {k1, k2}
  MaxKinds = 2
  Limit = 2
  Requests = {r1, r2}
  MaxMonths = 2
  MaxServed = 4
INVARIANTS TypeOK OvershootBounded RollupIsTheSum DuplicatesBounded
PROPERTY UndisturbedWritesAreWhole
CHECK_DEADLOCK FALSE
