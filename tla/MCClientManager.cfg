SPECIFICATION ManagerFairSpec
CONSTANTS
  MaxClient = 1
  MaxOffset = 10
  IntMod = 1000
  MaxFreq = 1
  AliveTime = 1
  MaxAccept = 3
  MaxPacket = 2
  NoClient = NoClient
CHECK_DEADLOCK FALSE
INVARIANTS
  
  ReportedOnce
  NothingLate
  NamesItsClient
PROPERTIES
  ClosedIsFreed
