SPECIFICATION FairSpec
CONSTANTS
  Task = {t1, t2}
  NoTask = NoTask
  MaxVersion = 2
  Faults = {}
  OldFormat = TRUE
  MayRemove = FALSE
  SavesLate = FALSE
INVARIANTS
  StopIsDurable
PROPERTIES
  ImplementsRegister
  EventuallyWritten
