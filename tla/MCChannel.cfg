SPECIFICATION FairSpec
CONSTANTS
  MaxCall = 3
  MaxAsk = 1
  MaxClose = 2
CHECK_DEADLOCK FALSE
INVARIANTS
  
  CloseFlushes
  LoopKeepsSession
  AnswersExpected
PROPERTIES
  EveryCallReturns
