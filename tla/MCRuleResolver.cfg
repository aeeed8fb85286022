CONSTANTS
  Paths <- MCPaths
  MaxRules = 3
SPECIFICATION Spec
INVARIANTS TypeOK BestRuleChosen OrderIrrelevant
CHECK_DEADLOCK FALSE
