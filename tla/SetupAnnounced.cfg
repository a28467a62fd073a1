SPECIFICATION Spec
CONSTANTS
  a = a
  b = b
  c = c
  Domain = {a, b, c}
  Called = {b}
  Plans <- MCPlans
INVARIANT AwaitsUnfinished
CHECK_DEADLOCK FALSE
