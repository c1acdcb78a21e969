SPECIFICATION FairSpec
CONSTANTS
  None = None
  Trigger = {t1}
  Object = {o1, o2}
  Configured = o1
  Change = {p1, p2}
  MaxGeneration = 2
  MaxTasks = 1
  TradingDaysOnly = TRUE
INVARIANT OneLoop NothingRunsAfterStop
PROPERTY KeepsFence ChangeEnds StopEnds
CHECK_DEADLOCK FALSE
