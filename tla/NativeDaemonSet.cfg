SPECIFICATION FairSpec
CONSTANTS
  Revisions = {r1, r2, r3}
  NoRevision = NoRevision
  Nodes = {n1, n2}
  MaxUnavailable = 1
  Ops = {"template"}
  Faults = {"lag", "podfail", "deletefail", "timeout", "restart"}
  MaxOps = 2
INVARIANTS TypeOK
PROPERTIES BudgetKept CurrentKept PartitionKept BatchGetsDone
CHECK_DEADLOCK FALSE
