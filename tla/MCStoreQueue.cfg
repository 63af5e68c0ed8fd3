SPECIFICATION Spec
CONSTANTS
  Threads = {t1, t2, t3}
  NoThread = NoThread
  DrainLimit = 2
  MaxCalls = 4
  MaxCrashes = 1
SYMMETRY ThreadSymmetry
INVARIANTS
  ExclusiveHold
  NoStrandedWaiter
  ReadsOnlyCommitted
  AnsweredIsDurable
  LostOnlyWithItsBatch
  IdentityFollowsArrival
  BatchProtocol
PROPERTIES
  ImplementsContract
CHECK_DEADLOCK FALSE
