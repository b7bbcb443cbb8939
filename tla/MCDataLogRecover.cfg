SPECIFICATION DataSpec
CONSTANTS
  Id = {d1, d2}
  Field = {f1, f2}
  Val = {v1, v2}
  Nil = Nil
  CacheMax = 2
  MaxLog = 3
SYMMETRY Symmetry
INVARIANTS
  RecoverWritesAll
CHECK_DEADLOCK FALSE
