\* Control: two steers, a queue that fills up, five durable commits.
\* Permissions: two requests of the run and one of a subagent, a retry, a crash,
\* a store failure.
SPECIFICATION StepsSpec
CONSTANTS
  Steers = {a, b}
  SteerCapacity = 2
  InitialEpoch = 0
  MaxEpoch = 3
  MaxLog = 5
  Requests = {a, b, c}
  ChildRequests = {c}
  Grantable = {a, b}
  NoRequest = NoRequest
  NoRun = NoRun
  NoCheckpoint = NoCheckpoint
  MaxAttempts = 2
  MaxRestarts = 1
  MaxStoreFailures = 1
INVARIANTS CommittedWorkIsCurrent TerminalEndsTheLog SteerQueueIsExact
           ResultsMatchObjective
            DenialIsRemembered AnsweredRunMovesOn
PROPERTIES StopIsFinal ImplementsPromise
SYMMETRY Symmetry
CHECK_DEADLOCK FALSE
