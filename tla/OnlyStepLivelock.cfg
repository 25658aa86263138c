CONSTANTS
  v1 = v1
  v2 = v2
  Revisions = {v1, v2}
  NoRevision = NoRevision
  HasTrafficRoutings = TRUE
  DisableGenerateCanaryService = FALSE
  Replicas = 1
  BlueGreen = FALSE
  WorkloadLag = FALSE
  Plans <- OnlyStep
  RollbackInBatch = FALSE
  Ops = {"release"}
  Faults = {}
  MaxUserOps = 1
SPECIFICATION FairSpec
PROPERTIES ProgressingEnds
