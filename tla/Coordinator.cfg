SPECIFICATION FairSpec
CONSTANTS
  Task = {t1, t2}
  Listener = {l1, l2}
  MaxVersion = 1
INVARIANTS TimersHeld DebouncedAlone PollingGoesOn ViewsCurrent
PROPERTIES RequestsServed ComesToRest
