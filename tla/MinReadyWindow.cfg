CONSTANTS
  Kinds = {"MinReady"}
  HasTraffic = FALSE
  SkipRestart = FALSE
  KeepPaused = FALSE
  Stale = {}
  Ops = {}
  MaxOps = 2
SPECIFICATION Spec
INVARIANT BudgetNeverObserved
CHECK_DEADLOCK FALSE
