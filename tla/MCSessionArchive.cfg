SPECIFICATION Spec
CONSTANTS
  s1 = s1
  s2 = s2
  Sessions = {s1, s2}
  NoSession = NoSession
  Keys = {k1, k2, k3}
  MaxAttempts = 1
  AutoCompaction = FALSE
  Existing = {s1, s2}
  Parents <- ParentAndChild
  Proposals <- ArchiveCalls
  ClientKinds = {"message", "session_archive", "session_restore"}
  Capacity = 1
  MaxOperations = 2
  MaxActions = 2
  MaxFailures = 0
SYMMETRY KeySymmetry
INVARIANTS
  ArchivedParentHearsNothing
PROPERTIES
  ArchivingAdmitsNothing
CHECK_DEADLOCK FALSE
