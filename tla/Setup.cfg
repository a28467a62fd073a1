SPECIFICATION FairSpec
CONSTANTS
  a = a
  b = b
  c = c
  Domain = {a, b, c}
  Called = {b}
  Plans <- MCPlans
INVARIANTS SetUpOnce DependenciesFirst AnswersAgree
PROPERTY SetupsReturn
CHECK_DEADLOCK FALSE
