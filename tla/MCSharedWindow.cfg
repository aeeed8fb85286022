CONSTANTS
  upper = upper
  lower = lower
  Routes <- MCRoutes
  Lower <- MCLower
  RuleOf <- MCRuleOf
  Counter = lower
  Callers = {c1, c2}
  Costs = {0}
  MaxSkew = 0
  MaxDelay = 0
  MaxRetries = 0
  MaxClock = 7
SPECIFICATION Spec
INVARIANT EachRuleHolds
CHECK_DEADLOCK FALSE
