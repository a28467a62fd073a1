SPECIFICATION Spec
CONSTANTS
  Task = {t1, t2, t3}
  NoTask = NoTask
  MaxVersion = 2
  Faults = {"disk", "func"}
  OldFormat = FALSE
  MayRemove = TRUE
  SavesLate = TRUE
SYMMETRY Symmetry
INVARIANTS
  AckedIsDurable
  LoadsSeeAcked
