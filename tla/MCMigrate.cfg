CONSTANTS
  Runners = {r1, r2}
  MaxVersion = 3
  MaxFaults = 2
SPECIFICATION FairSpec
INVARIANTS TypeOK AppliedOnceInOrder CompleteIsMigrated
PROPERTIES RunEnds EventuallyMigrated
