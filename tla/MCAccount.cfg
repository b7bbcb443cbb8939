SPECIFICATION FairSpec
CONSTANTS
  Account = {x}
  Agent = {a1, a2}
  Conn = {c1, c2}
  MaxEnter = 2
  MaxPlay = 1
  MaxQueue = 2
  None = None
INVARIANTS
  OneSession
  LeaveFindsEntry
  DataIsCurrent
PROPERTY
  EntryEnds
CHECK_DEADLOCK FALSE
