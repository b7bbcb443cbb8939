SPECIFICATION FairSpec
CONSTANTS
  Pusher = {p1, p2}
  None = None
  MaxPush = 4
  PipeCap = 1
  InitRef = 3
CHECK_DEADLOCK FALSE
INVARIANTS
  
  RepliesInOrder
PROPERTIES
  EveryMessageHandled
  EveryReplyArrives
