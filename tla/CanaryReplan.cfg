CONSTANTS
  v1 = v1
  v2 = v2
  v3 = v3
  Revisions = {v1, v2, v3}
  NoRevision = NoRevision
  HasTrafficRoutings = TRUE
  DisableGenerateCanaryService = FALSE
  Replicas = 3
  BlueGreen = FALSE
  WorkloadLag = FALSE
  Plans <- RoutedPlans
  RollbackInBatch = FALSE
  Ops = {"release", "continuous", "rollback", "revert", "plan", "approve"}
  Faults = {"restart"}
  MaxUserOps = 3
SPECIFICATION Spec
INVARIANTS RollingIsAddressable StableServicePinned
SYMMETRY Symmetry
