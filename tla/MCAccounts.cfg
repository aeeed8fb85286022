SPECIFICATION Spec
CONSTANTS
  Requests = {r1, r2}
  Names = {n1, n2}
  Hashes = {h1, h2}
  Operator = Operator
  Nobody = Nobody
  MaxRules = 1
  MaxConns = 2
SYMMETRY AccountsSymmetry
INVARIANTS TypeOK ProjectsWhole ListingsWhole CreatedIsOwned RefusalIsFinal NoStandstill NothingElseWaits
PROPERTIES KeysChangeForManagers NoAdminForGood
