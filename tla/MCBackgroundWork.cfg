\* Schedule: a dispatch and a command beside the runner, two queued runs,
\* one crash or failed save.
\* Vectors: a second ledger revision, three generations, one reader.
\* Knowledge: three operations by two threads, a workspace change, a fault.
\* Undo: two recorded tool calls on two files, two incidents.
SPECIFICATION Spec
CONSTANTS
  DispatchThreads = {d1}
  CommandThreads = {u1}
  Runner = Runner
  NoItem = NoItem
  DispatchCap = 2
  Recurring = FALSE
  CatchUp = FALSE
  MaxItems = 2
  MaxCommands = 1
  MaxScheduleFaults = 1
  VectorThreads = {a1, a2}
  VectorReaders = {v1}
  RetainedGenerations = 1
  MaxRevision = 2
  MaxGeneration = 3
  Operations = {a1, a2}
  RetainedPrevious = 1
  MaxGenerations = 3
  MaxTouches = 1
  MaxStarts = 3
  MaxKnowledgeFaults = 1
  UndoFiles = {a1, a2}
  Contents = {b1, b2}
  Absent = Absent
  CommitAttempts = 2
  MaxEntries = 2
  MaxIncidents = 2
INVARIANTS QueuedRunIsInTheLog 
           DeletedStaysDeleted NoRefreshIsLost SnapshotStaysWhole
           GenerationsInUseAreWhole CancelledWritesNothing
           WorkspaceFollowsRegistry
PROPERTIES IndexNeverGoesBack
SYMMETRY Symmetry
CHECK_DEADLOCK FALSE
