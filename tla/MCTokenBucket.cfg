CONSTANTS
  Callers = {c1, c2}
  Costs = {0, 2}
  Capacity = 2
  RefillRate = 1
  Unit = 2
  PerSecond = 2
  ExpirySlack = 1
  MaxSkew = 0
  MaxDelay = 1
  MaxRetries = 1
  MaxClock = 7
SPECIFICATION Spec
INVARIANTS TypeOK AdmissionBound ExpiryForgetsNothing
PROPERTIES RetryAfterEnough ResetAtWithinASecond ImplementsEagerBucket
SYMMETRY CallerSymmetry
CHECK_DEADLOCK FALSE
