SPECIFICATION Spec
CONSTANTS
  Recorders = {r1, r2}
  Children = {c1}
  Unknown = Unknown
  MaxAttempts = 4
  MaxTokens = 6
  AttemptReserve = 1
  TokenReserve = 2
  PendingLimit = 3
  Sizes = {2}
  Usages = {3}
  MaxRuns = 2
  MaxSteers = 1
SYMMETRY Interchangeable
CHECK_DEADLOCK FALSE
INVARIANTS
  LedgerBalances
  CeilingAndReserveHold
  AttemptsSurviveRestart
