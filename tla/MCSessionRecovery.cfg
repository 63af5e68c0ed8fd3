SPECIFICATION Spec
CONSTANTS
  s1 = s1
  s2 = s2
  Sessions = {s1}
  NoSession = NoSession
  Keys = {k1, k2}
  MaxAttempts = 2
  AutoCompaction = TRUE
  Existing = {s1}
  Parents <- NoParents
  Proposals <- BashCalls
  ClientKinds = {"message", "session_stop", "model_interruption", "permission_decision"}
  Capacity = 2
  MaxOperations = 2
  MaxActions = 2
  MaxFailures = 2
SYMMETRY KeySymmetry
INVARIANTS
  TypeOK
  NothingLeftBehind
  NoStuckTurn
  NoStaleSlot
  UncertainOnlyFromEarlierHost
PROPERTIES
  BashRunsOnce
  SettledIsFinal
CHECK_DEADLOCK FALSE
