INIT PoolInit
NEXT PoolNext
CONSTANTS
  t1 = t1
  t2 = t2
  Tasks = {t1, t2, s, e, d}
  Single = {s}
  Empty = {e}
  Direct = {d}
  Length = 2
  Workers = {w1, w2}
  Synch = {c1}
  None = None
  MaxAttempts = 1
  LoopBreaker = 1
  Faults = {"lost"}
  MaxFaults = 1
INVARIANTS
  RolledBackUnlessCommitted
SYMMETRY PoolSymmetry
