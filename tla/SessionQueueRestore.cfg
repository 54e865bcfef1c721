SPECIFICATION Spec
CONSTANTS
  Messages = {m1, m2}
  Dispatchers = {d1, d2}
  NoMessage = NoMessage
  SteerLimit = 2
  MaxMessageEdits = 1
INVARIANTS
  NotRestoredAfterStart
CHECK_DEADLOCK FALSE
