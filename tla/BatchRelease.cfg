SPECIFICATION FairSpec
CONSTANTS
  Revisions = {r1, r2, r3}
  NoRevision = NoRevision
  Kinds = {"CloneSet", "DaemonSet", "StatefulSet", "OrderedStatefulSet", "NativeDaemonSet", "Deployment", "MinReady", "BGCloneSet", "BGDeployment", "Canary"}
  Sizes = {3}
  Targets = {0, 4}
  Plans <- TwoPlans
  RolloutIDs = {0, 1}
  Threshold <- NoFailures
  KeepPaused = FALSE
  MinReadyStep = 1
  Ops = {"cancel", "abandon", "create", "template", "rollback", "scale", "gone", "replan"}
  Faults = {"crash", "podlost", "olddown", "expire"}
  MaxOps = 1
INVARIANTS TypeOK KnobIsExact
PROPERTIES BlastRadius MinReadyBudget  OneCanaryCopy HandedBack FinalizingEnds ReleaseGoesAway BatchGetsReady
CHECK_DEADLOCK FALSE
