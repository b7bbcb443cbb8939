SPECIFICATION IdSpec
CONSTANTS
  Server = {s1, s2}
  Keeper = {s2}
  DistOffset = 3
  Section = 2
  MaxIssue = 5
  MaxStart = 5
  MaxBegin = 5
INVARIANTS
  UniqueIds
CHECK_DEADLOCK FALSE
