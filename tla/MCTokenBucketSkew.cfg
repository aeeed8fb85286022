CONSTANTS
  Callers = {c1, c2}
  Costs = {1}
  Capacity = 1
  RefillRate = 1
  Unit = 2
  PerSecond = 2
  ExpirySlack = 2
  MaxSkew = 1
  MaxDelay = 0
  MaxRetries = 0
  MaxClock = 4
SPECIFICATION Spec
INVARIANT NeverOverAllows
SYMMETRY CallerSymmetry
CHECK_DEADLOCK FALSE
