SPECIFICATION FairSpec
CONSTANTS
  Run = {r1, r2, r3}
  Stopper = {s1}
  MaxRuns = 2
  Nobody = Nobody
INVARIANTS ModeKept NewestExecutes StopIsFinal
PROPERTY StopsReturn
CHECK_DEADLOCK FALSE
