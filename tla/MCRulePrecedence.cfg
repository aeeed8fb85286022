CONSTANTS
  Paths <- MCPaths
  MaxRules = 2
SPECIFICATION Spec
INVARIANT DocumentedPrecedence
CHECK_DEADLOCK FALSE
