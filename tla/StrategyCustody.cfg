CONSTANTS
  Kinds = {"Deployment", "MinReady", "BGDeployment", "Canary", "CloneSet", "BGCloneSet", "StatefulSet", "NativeDaemonSet"}
  HasTraffic = TRUE
  SkipRestart = TRUE
  KeepPaused = TRUE
  Stale = {"MinReady", "Canary"}
  Ops = {"resume", "recreate", "restart", "delete", "rolloutid"}
  MaxOps = 3
SPECIFICATION Spec
INVARIANT TypeOK FrozenInProgress
PROPERTY KeepsLease 
CHECK_DEADLOCK FALSE
