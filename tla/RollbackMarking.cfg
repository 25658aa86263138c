SPECIFICATION Spec
CONSTANTS
  Revisions = {r1, r2}
  NoRevision = NoRevision
  Kinds = {"CloneSet", "StatefulSet", "OrderedStatefulSet"}
  Sizes = {3}
  Targets = {2, 4}
  Plans <- OnePlan
  RolloutIDs = {1}
  Threshold <- NoFailures
  KeepPaused = FALSE
  MinReadyStep = 1
  Ops = {"back", "rollback", "scale"}
  Faults = {"crash", "podlost"}
  MaxOps = 3
PROPERTIES KeptIsExact
CHECK_DEADLOCK FALSE
