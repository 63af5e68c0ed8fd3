SPECIFICATION FairSpec
CONSTANTS
  s1 = s1
  s2 = s2
  Sessions = {s1, s2}
  NoSession = NoSession
  Keys = {k1, k2}
  MaxAttempts = 1
  AutoCompaction = FALSE
  Existing = {s1, s2}
  Parents <- ParentAndChild
  Proposals <- OneBash
  ClientKinds = {"message", "session_stop"}
  Capacity = 1
  MaxOperations = 2
  MaxActions = 1
  MaxFailures = 1
PROPERTIES
  MessageIsTaken
  OwedStopEndsTurn
  EndingIsSettled
CHECK_DEADLOCK FALSE
