SPECIFICATION FairSpec
CONSTANTS
  Producer = {p1, p2}
  Msg = {m1, m2}
  NoMsg = NoMsg
  InitCap = 2
  Threshold = 2
  MaxPush = 5
INVARIANTS
  HeldSlotStable
PROPERTIES
  FifoSpec
  AllDelivered
