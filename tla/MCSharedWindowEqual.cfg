CONSTANTS
  upper = upper
  lower = lower
  Routes <- MCRoutes
  Lower <- MCLower
  RuleOf <- MCEqualWindows
  Counter = lower
  Callers = {c1, c2}
  Costs = {0}
  MaxSkew = 0
  MaxDelay = 2
  MaxRetries = 1
  MaxClock = 8
SPECIFICATION Spec
INVARIANT EqualWindowsHold
SYMMETRY CallerSymmetry
CHECK_DEADLOCK FALSE
