SPECIFICATION DataSpec
CONSTANTS
  Id = {d1, d2, d3}
  Field = {f1}
  Val = {v1, v2}
  Nil = Nil
  CacheMax = 2
  MaxLog = 3
SYMMETRY Symmetry
INVARIANTS
  LogHoldsUpdates
  DiskIsCurrent
CHECK_DEADLOCK FALSE
