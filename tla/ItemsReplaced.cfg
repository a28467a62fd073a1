SPECIFICATION Spec
CONSTANTS
  Entry = {e1, e2, e3}
  UniqueId = {u1, u2}
  Flow = {f1, f2}
  None = None
SYMMETRY Symmetry
INVARIANTS ReplacementIsFound
\* every flow may be closed and every entry removed: then nothing is left to do
CHECK_DEADLOCK FALSE
