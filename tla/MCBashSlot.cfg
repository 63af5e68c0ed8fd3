SPECIFICATION FairSpec
CONSTANTS
  StreamOrder <- MCOne
  ExitStatus <- MCExitStatus
  Timeout = 1
  Grace = 1
  Cleanup = 2
  MaxQueued = 1
  Children = {"member", "escaped"}
  OtherPhases = {"draining"}
INVARIANTS
  SignalsOnlyItsOwn
  ResultIsHonest
  SettledOrEnding
  SenderOnlyWhileRunning
PROPERTY DeliveryCloses
CHECK_DEADLOCK FALSE
