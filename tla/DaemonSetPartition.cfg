SPECIFICATION Spec
CONSTANTS
  Revisions = {r1, r2}
  NoRevision = NoRevision
  Nodes = {n1, n2}
  MaxUnavailable = 1
  Ops = {}
  Faults = {"podfail"}
  MaxOps = 1
PROPERTY PartitionStrict
CHECK_DEADLOCK FALSE
