SPECIFICATION Spec
CHECK_DEADLOCK FALSE
CONSTANTS
  Task = {t1, t2, t3}
  NoTask = NoTask
  Ops = {"setup", "unload", "reload", "disable", "remove"}
  SupportsUnload = TRUE
  HooksMayRaise = TRUE
  MaxRetries = 2
SYMMETRY Symmetry
INVARIANTS
  TypeOK
  ReloadsExclusive
  WaitsEnd
