\* A subagent asks and the process dies before the answer.
SPECIFICATION PermissionSpec
CONSTANTS
  Requests = {a, c}
  ChildRequests = {c}
  Grantable = {a}
  NoRequest = NoRequest
  NoRun = NoRun
  NoCheckpoint = NoCheckpoint
  MaxAttempts = 2
  MaxRestarts = 1
  MaxStoreFailures = 0
INVARIANTS WaitingCanBeAnswered
CHECK_DEADLOCK FALSE
