\* Two threads, two keys; a thread may take the lock a tick after its clock.
SPECIFICATION Spec
CONSTANTS
  k1 = k1
  k2 = k2
  t1 = t1
  t2 = t2
  None = None
  Keys = {k1, k2}
  Threads = {t1, t2}
  Capacity = 4
  Rate = 3
  Cost = 2
  MaxTime = 2
  MaxLag = 1
  PruneAt = 2
INVARIANTS TypeOK SustainedRate RetryAfterHonest
PROPERTY ImplementsTokenBucket
SYMMETRY Alike
CHECK_DEADLOCK FALSE
