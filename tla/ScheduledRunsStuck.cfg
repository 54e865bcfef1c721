SPECIFICATION ScheduleSpec
CONSTANTS
  DispatchThreads = {t1}
  CommandThreads = {u1}
  Runner = runner
  NoItem = noItem
  DispatchCap = 1
  Recurring = TRUE
  CatchUp = FALSE
  MaxItems = 1
  MaxCommands = 0
  MaxScheduleFaults = 1
CHECK_DEADLOCK FALSE
INVARIANT StuckRunRetires
