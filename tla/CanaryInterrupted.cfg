CONSTANTS
  v1 = v1
  v2 = v2
  Revisions = {v1, v2}
  NoRevision = NoRevision
  HasTrafficRoutings = TRUE
  DisableGenerateCanaryService = FALSE
  Replicas = 2
  BlueGreen = FALSE
  WorkloadLag = FALSE
  Plans <- CanaryOrRouted
  RollbackInBatch = FALSE
  Ops = {"release", "rollback", "approve", "pause", "disable", "delete"}
  Faults = {"lost"}
  MaxUserOps = 4
SPECIFICATION Spec
INVARIANTS RollingInv CanaryRouteHasService CompletedIsClean
PROPERTIES TrafficFollowsPods DrainedFirst SucceededIsReleased
CHECK_DEADLOCK FALSE
