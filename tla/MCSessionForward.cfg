SPECIFICATION FairSpec
CONSTANTS
  s1 = s1
  s2 = s2
  Sessions = {s1, s2, s3}
  NoSession = NoSession
  Keys = {k1, k2}
  MaxAttempts = 2
  AutoCompaction = FALSE
  Existing = {s1, s2, s3}
  Parents <- Chain
  Proposals <- AnyBash
  ClientKinds = {"message", "session_stop", "permission_decision"}
  Capacity = 1
  MaxOperations = 1
  MaxActions = 1
  MaxFailures = 1
INVARIANTS
  NoHopIsLost
PROPERTIES
  StopCompletes
  EveryAncestorIsAsked
CHECK_DEADLOCK FALSE
