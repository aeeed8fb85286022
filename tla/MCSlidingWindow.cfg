CONSTANTS
  Callers = {c1, c2}
  Costs = {0, 2}
  Limit = 2
  Window = 3
  MaxSkew = 0
  MaxDelay = 2
  MaxRetries = 1
  MaxClock = 8
SPECIFICATION Spec
INVARIANTS TypeOK WindowNeverOvercharged RollingBound ExpiryForgetsNothing
PROPERTIES IndexNeverGoesBack ClearAfterAnotherWindow ImplementsWindowCounts
SYMMETRY CallerSymmetry
CHECK_DEADLOCK FALSE
