SPECIFICATION Spec
CONSTANTS
  Run = {r1, r2, r3}
  Stopper = {s1}
  MaxRuns = 2
  Nobody = Nobody
SYMMETRY Symmetry
INVARIANT IsRunning
CHECK_DEADLOCK FALSE
