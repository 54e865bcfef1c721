\* Catalog: two forks or deletes and another edit by two threads, a crash.
\* Projections: four events of two sessions, a fork rolled back.
\* Queue: two messages, each edited once, and two dispatchers.
SPECIFICATION StoresSpec
CONSTANTS
  SessionIds = {s1, s2, s3}
  ProjectIds = {p1, p2}
  FirstSession = s1
  FirstProject = p1
  NoSession = NoSession
  NoProject = NoProject
  Artifacts = {f1}
  CatalogThreads = {t1, t2}
  Boot = Boot
  MaxOperations = 2
  MaxEdits = 1
  MaxOutputs = 1
  MaxDeaths = 1
  LogSessions = {p1, p2}
  MemorySession = MemorySession
  NoRow = NoRow
  Recallers = {r1}
  MaxEventIds = 4
  MaxRollbacks = 1
  Messages = {m1, m2}
  Dispatchers = {t1, t2}
  NoMessage = NoMessage
  SteerLimit = 2
  MaxMessageEdits = 1
INVARIANTS  CatalogIsWhole RowsAgreeWithTheLog
           DeliveredOnceAsSaved DispatchIsExclusive
           DeletedSessionIsQuiet
PROPERTIES HistoryIsKept ImplementsDelivery
SYMMETRY Symmetry
CHECK_DEADLOCK FALSE
