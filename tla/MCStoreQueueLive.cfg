SPECIFICATION FairSpec
CONSTANTS
  Threads = {t1, t2, t3}
  NoThread = NoThread
  DrainLimit = 1
  MaxCalls = 3
  MaxCrashes = 0
PROPERTIES
  EveryCallReturns
CHECK_DEADLOCK FALSE
