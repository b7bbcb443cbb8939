SPECIFICATION MutexFairSpec
CONSTANTS
  Thread = {t1, t2, t3}
  NoThread = NoThread
  MaxDepth = 2
  MaxSession = 6
INVARIANTS
  MutualExclusion
PROPERTIES
  FirstComeFirstServed
  EveryWaiterEnters
