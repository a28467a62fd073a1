SPECIFICATION FairSpec
CONSTANTS
  Ctx = {c1, c2}
  Frz = {f1, f2, f3}
  Zone = {z1, z2}
  ZONE_GLOBAL = ZONE_GLOBAL
  Cancellable = {c1}
INVARIANTS
  TimersFollowFreezes
  CancelsOnlyInside
  ExpiredIsHandled
PROPERTIES
  TimeoutsEnd
\* every context is entered once: in the end all are left
CHECK_DEADLOCK FALSE
