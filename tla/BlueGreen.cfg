CONSTANTS
  v1 = v1
  v2 = v2
  Revisions = {v1, v2}
  NoRevision = NoRevision
  HasTrafficRoutings = TRUE
  DisableGenerateCanaryService = FALSE
  Replicas = 2
  BlueGreen = TRUE
  WorkloadLag = FALSE
  Plans <- AllRouted
  RollbackInBatch = FALSE
  Ops = {"release", "rollback", "revert", "disable", "delete", "approve", "jump"}
  Faults = {}
  MaxUserOps = 4
SPECIFICATION FairSpec
INVARIANTS HandedBackIsReleased
PROPERTIES RollbackUnpinsLast DeletionEnds DisablingEnds
CHECK_DEADLOCK FALSE
