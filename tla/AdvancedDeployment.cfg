SPECIFICATION FairSpec
CONSTANTS
  Revisions = {r1, r2, r3}
  NoRevision = NoRevision
  Sizes = {0, 3, 5}
  Partitions <- Steps
  Budgets <- TwoBudgets
  Ops = {"template", "scale", "unprotect", "finish"}
  Faults = {"conflict", "podfail", "native"}
  MaxInt32 = 100
  MaxOps = 2
INVARIANTS TypeOK
PROPERTIES PartitionHolds AvailabilityKept SurgeHolds MiddleFirst ScaleReached Converges
CHECK_DEADLOCK FALSE
