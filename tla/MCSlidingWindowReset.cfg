CONSTANTS
  Callers = {c1, c2}
  Costs = {0, 2}
  Limit = 2
  Window = 3
  MaxSkew = 0
  MaxDelay = 0
  MaxRetries = 1
  MaxClock = 9
SPECIFICATION Spec
PROPERTY ClearAtResetAt
SYMMETRY CallerSymmetry
CHECK_DEADLOCK FALSE
