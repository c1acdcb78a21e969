SPECIFICATION Spec
CONSTANTS
  None = None
  Trigger = {t1}
  Object = {o1, o2}
  Configured = o1
  Change = {p1}
  MaxGeneration = 2
  MaxTasks = 1
  TradingDaysOnly = TRUE
INVARIANT SubmitNeverPanics
CHECK_DEADLOCK FALSE
