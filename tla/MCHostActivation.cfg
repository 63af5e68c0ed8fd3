SPECIFICATION Spec
CONSTANTS
  None = None
  Pids = {p1, p2}
  Executables = {old, new}
  Configurations = {conf}
  Instances = {i1, i2}
  Target = new
  MaxStarted = 2
SYMMETRY MCSymmetry
INVARIANTS
  StopsOnlyWhatItRead
  ReadyIsTheTarget
  RecordedBeforeItRuns
CHECK_DEADLOCK FALSE
