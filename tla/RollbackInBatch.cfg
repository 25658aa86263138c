CONSTANTS
  v1 = v1
  v2 = v2
  Revisions = {v1, v2}
  NoRevision = NoRevision
  HasTrafficRoutings = FALSE
  DisableGenerateCanaryService = FALSE
  Replicas = 2
  BlueGreen = FALSE
  WorkloadLag = TRUE
  Plans <- NoRoutingAuto
  RollbackInBatch = TRUE
  Ops = {"release", "rollback"}
  Faults = {}
  MaxUserOps = 4
SPECIFICATION FairSpec
PROPERTIES ProgressingEnds
