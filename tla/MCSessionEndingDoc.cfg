SPECIFICATION Spec
CONSTANTS
  s1 = s1
  s2 = s2
  Sessions = {s1, s2, s3}
  NoSession = NoSession
  Keys = {k1, k2}
  MaxAttempts = 1
  AutoCompaction = FALSE
  Existing = {s1, s2}
  Parents <- ParentAndChild
  Proposals <- CoreCalls
  ClientKinds = {"message", "session_stop"}
  Capacity = 1
  MaxOperations = 3
  MaxActions = 1
  MaxFailures = 0
SYMMETRY KeySymmetry
INVARIANTS
  EveryChildEndingIsOwed
CHECK_DEADLOCK FALSE
