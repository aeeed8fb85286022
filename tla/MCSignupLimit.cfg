CONSTANTS
  Requests = {r1, r2}
  Senders = {s1, s2}
  Watched = s1
  Proxy = Proxy
  Limit = 2
  Window = 4
  RetryAfter = 4
  MaxSeen = 1
  MaxDelay = 1
  MaxClock = 7
SPECIFICATION Spec
INVARIANTS TypeOK SignupBound
PROPERTIES RefusedForCause WaitIsEnough
SYMMETRY SignupSymmetry
CHECK_DEADLOCK FALSE
