CONSTANTS
  Requests = {r1, r2}
  TTL = 1
  MaxLoad = 1
  MaxVersion = 2
  Limited = {0, 2}
SPECIFICATION PathSpec
INVARIANTS PathTypeOK StalenessBounded LimitTakesHold
PROPERTIES EveryCheckAnswered DrainEnds CacheConverges
