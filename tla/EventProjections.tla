--------------------------- MODULE EventProjections ---------------------------
(***************************************************************************)
(* The event log of one project in agent-storage and what is derived from  *)
(* it: the project's memory ledger and each session's read model, rows of  *)
(* the table read_models, and the output cache, which lives in memory.     *)
(*                                                                         *)
(* A derived row is labelled with the number of events and the highest     *)
(* sequence it was built from.  Its readers trust it while the label can   *)
(* be reached from the log's own count and highest sequence; nothing else  *)
(* is compared.  Sequences are not remembered: the next one is the highest *)
(* in the log plus one, so when the newest events are deleted their        *)
(* sequences are given out again.                                          *)
(*                                                                         *)
(* Writers share one connection behind a mutex and commit whole            *)
(* transactions.  Memory recall reads through a connection of its own with *)
(* no snapshot around its queries, and stores what it built later.         *)
(*                                                                         *)
(* What a row says is abstracted to the set of events it was built from.   *)
(***************************************************************************)
EXTENDS Naturals, FiniteSets, FiniteSetsExt

CONSTANTS
  LogSessions,   \* sessions of the project
  MemorySession, \* the session that carries the project's own memory events
  NoRow,         \* a derived row that is absent
  Recallers,     \* runs that recall memory
  MaxEventIds,   \* bound on events ever appended
  MaxRollbacks   \* bound on forks that are rolled back

ASSUME ProjectionAssumption ==
  /\ MemorySession \notin LogSessions
  /\ MaxEventIds \in Nat /\ MaxRollbacks \in Nat

VARIABLES
  eventLog,     \* durable: events [id, seq, sess]
  appended,     \* how many events were ever appended; their ids
  ledgerRow,    \* durable: the project's memory ledger
  sessionRow,   \* durable: the read model of each session
  outputCache,  \* in memory: the output cache
  listed,       \* sessions the catalog lists
  unpublished,  \* a fork whose events are in the log and which is not listed
  recaller,     \* [at, rev, count, row, from] of each run that recalls
  rollbacks     \* history: forks rolled back so far

projectionVars == <<eventLog, appended, ledgerRow, sessionRow, outputCache,
                    listed, unpublished, recaller, rollbacks>>

IdleRecaller == [at |-> "idle", rev |-> 0, count |-> 0, row |-> NoRow, from |-> {}]

ProjectionInit ==
  /\ eventLog = {}
  /\ appended = 0
  /\ ledgerRow = NoRow
  /\ sessionRow = [s \in LogSessions |-> NoRow]
  /\ outputCache = [s \in LogSessions |-> NoRow]
  /\ \E s \in LogSessions : listed = {s}
  /\ unpublished = {}
  /\ recaller = [r \in Recallers |-> IdleRecaller]
  /\ rollbacks = 0

(***************************************************************************)
(* The log.                                                                *)
(***************************************************************************)
OfSession(log, s) == {e \in log : e.sess = s}
Ids(events) == {e.id : e \in events}
LatestSequence(events) == IF events = {} THEN 0 ELSE Max({e.seq : e \in events})

\* The sequence append_next_event gives, over the whole task.
NextSequence(log) == LatestSequence(log) + 1

\* The log with n more events of a session.
WithAppended(log, s, n) ==
  log \cup {[id |-> appended + k, seq |-> NextSequence(log) + k - 1, sess |-> s] : k \in 1..n}

MayAppend(n) == appended + n <= MaxEventIds

(***************************************************************************)
(* Deriving a row.                                                         *)
(***************************************************************************)
EmptyRow == [rev |-> 0, count |-> 0, from |-> {}]

RowOf(events) ==
  [rev |-> LatestSequence(events), count |-> Cardinality(events), from |-> Ids(events)]

\* A stored row ahead of the log is not used.
UsableRow(row, rev, count) ==
  IF row # NoRow /\ row.rev <= rev /\ row.count <= count THEN row ELSE EmptyRow

EventsAfter(events, rev) == {e \in events : e.seq > rev}

\* A row is brought forward by the events after its label when the counts add
\* up, and is built from nothing otherwise.
Forwarded(row, events) ==
  LET base == UsableRow(row, LatestSequence(events), Cardinality(events))
      delta == EventsAfter(events, base.rev)
  IN IF base.count + Cardinality(delta) # Cardinality(events) THEN RowOf(events)
     ELSE [rev |-> LatestSequence(events), count |-> Cardinality(events),
           from |-> base.from \cup Ids(delta)]

(***************************************************************************)
(* Writers: one committed transaction each.                                *)
(***************************************************************************)
AppendEvent(s) ==
  /\ s \in listed
  /\ MayAppend(1)
  /\ eventLog' = WithAppended(eventLog, s, 1)
  /\ appended' = appended + 1
  /\ UNCHANGED <<ledgerRow, sessionRow, outputCache, listed, unpublished,
                 recaller, rollbacks>>

\* load_project_memory_ledger: the row is loaded, brought forward and saved.
LoadLedger ==
  /\ ledgerRow' = Forwarded(ledgerRow, eventLog)
  /\ UNCHANGED <<eventLog, appended, sessionRow, outputCache, listed, unpublished,
                 recaller, rollbacks>>

LoadSessionModel(s) ==
  /\ s \in listed
  /\ sessionRow' = [sessionRow EXCEPT ![s] = Forwarded(@, OfSession(eventLog, s))]
  /\ UNCHANGED <<eventLog, appended, ledgerRow, outputCache, listed, unpublished,
                 recaller, rollbacks>>

LoadOutputs(s) ==
  /\ s \in listed
  /\ outputCache' = [outputCache EXCEPT ![s] = Forwarded(@, OfSession(eventLog, s))]
  /\ UNCHANGED <<eventLog, appended, ledgerRow, sessionRow, listed, unpublished,
                 recaller, rollbacks>>

\* A fork copies its source's events into the log before it is listed.
PersistForkEvents(s, f) ==
  LET n == Cardinality(OfSession(eventLog, s))
  IN /\ s \in listed
     /\ f \notin listed \cup unpublished
     /\ OfSession(eventLog, f) = {} /\ unpublished = {}
     /\ n > 0 /\ MayAppend(n)
     /\ eventLog' = WithAppended(eventLog, f, n)
     /\ appended' = appended + n
     /\ unpublished' = {f}
     /\ UNCHANGED <<ledgerRow, sessionRow, outputCache, listed, recaller, rollbacks>>

PublishFork ==
  /\ unpublished # {}
  /\ listed' = listed \cup unpublished
  /\ unpublished' = {}
  /\ UNCHANGED <<eventLog, appended, ledgerRow, sessionRow, outputCache, recaller,
                 rollbacks>>

\* The fork's events and its own rows go; the project's ledger row stays.
DropUnpublished ==
  /\ rollbacks + Cardinality(unpublished) <= MaxRollbacks
  /\ eventLog' = {e \in eventLog : e.sess \notin unpublished}
  /\ sessionRow' = [s \in LogSessions |-> IF s \in unpublished THEN NoRow ELSE sessionRow[s]]
  /\ unpublished' = {}
  /\ rollbacks' = rollbacks + Cardinality(unpublished)

RollbackUnpublishedFork ==
  /\ unpublished # {}
  /\ DropUnpublished
  /\ UNCHANGED <<appended, ledgerRow, outputCache, listed, recaller>>

\* cleanup_deleted_session_storage: the session's memories and its retirement are
\* first written to the project's own session, so the highest sequence of the
\* project survives the session; then its events and rows go and the ledger is
\* built again.  One transaction.
CleanDeletedSession(s) ==
  LET retired == WithAppended(eventLog, MemorySession, 1)
      kept == {e \in retired : e.sess # s}
  IN /\ s \in listed
     /\ MayAppend(1)
     /\ eventLog' = kept
     /\ appended' = appended + 1
     /\ listed' = listed \ {s}
     /\ ledgerRow' = Forwarded(NoRow, kept)
     /\ sessionRow' = [sessionRow EXCEPT ![s] = NoRow]
     /\ outputCache' = [outputCache EXCEPT ![s] = NoRow]
     /\ UNCHANGED <<unpublished, recaller, rollbacks>>

(***************************************************************************)
(* Recall: four reads with no snapshot around them, then a checked write.  *)
(***************************************************************************)
RecallRevision(r) ==
  /\ recaller[r].at = "idle"
  /\ recaller' = [recaller EXCEPT ![r] =
       [IdleRecaller EXCEPT !.at = "row", !.rev = LatestSequence(eventLog),
                            !.count = Cardinality(eventLog)]]
  /\ UNCHANGED <<eventLog, appended, ledgerRow, sessionRow, outputCache, listed,
                 unpublished, rollbacks>>

RecallRow(r) ==
  /\ recaller[r].at = "row"
  /\ recaller' = [recaller EXCEPT ![r].at = "delta",
       ![r].row = UsableRow(ledgerRow, recaller[r].rev, recaller[r].count)]
  /\ UNCHANGED <<eventLog, appended, ledgerRow, sessionRow, outputCache, listed,
                 unpublished, rollbacks>>

RecallDelta(r) ==
  LET a == recaller[r]
      delta == EventsAfter(eventLog, a.row.rev)
      adds == a.row.count + Cardinality(delta) = a.count
  IN /\ a.at = "delta"
     /\ recaller' = [recaller EXCEPT ![r].at = IF adds THEN "built" ELSE "all",
                                     ![r].from = a.row.from \cup Ids(delta)]
     /\ UNCHANGED <<eventLog, appended, ledgerRow, sessionRow, outputCache, listed,
                    unpublished, rollbacks>>

RecallAll(r) ==
  /\ recaller[r].at = "all"
  /\ recaller' = [recaller EXCEPT ![r].at = "built", ![r].from = Ids(eventLog)]
  /\ UNCHANGED <<eventLog, appended, ledgerRow, sessionRow, outputCache, listed,
                 unpublished, rollbacks>>

\* Fault: what was built is stored without another look at the log.
AlwaysCurrent(rev, count) == TRUE

\* persist_project_memory_snapshot_if_current.
StillCurrent(rev, count) ==
  rev = LatestSequence(eventLog) /\ count = Cardinality(eventLog)

PersistIfCurrent(r) ==
  LET a == recaller[r]
  IN /\ a.at = "built"
     /\ ledgerRow' = IF StillCurrent(a.rev, a.count)
                     THEN [rev |-> a.rev, count |-> a.count, from |-> a.from]
                     ELSE ledgerRow
     /\ recaller' = [recaller EXCEPT ![r] = IdleRecaller]
     /\ UNCHANGED <<eventLog, appended, sessionRow, outputCache, listed, unpublished,
                    rollbacks>>

\* A restart empties the cache, ends the recalls, and finds the journal of a fork
\* that the catalog does not list: recovery rolls it back.
RestartProcess ==
  /\ DropUnpublished
  /\ outputCache' = [s \in LogSessions |-> NoRow]
  /\ recaller' = [r \in Recallers |-> IdleRecaller]
  /\ UNCHANGED <<appended, ledgerRow, listed>>

ProjectionNext ==
  \/ \E s \in LogSessions :
       \/ AppendEvent(s) \/ LoadSessionModel(s) \/ LoadOutputs(s)
       \/ CleanDeletedSession(s)
       \/ \E f \in LogSessions : PersistForkEvents(s, f)
  \/ LoadLedger \/ PublishFork \/ RollbackUnpublishedFork
  \/ \E r \in Recallers :
       \/ RecallRevision(r) \/ RecallRow(r) \/ RecallDelta(r) \/ RecallAll(r)
       \/ PersistIfCurrent(r)
  \/ RestartProcess

ProjectionSpec == ProjectionInit /\ [][ProjectionNext]_projectionVars

-----------------------------------------------------------------------------
Rows == [rev : Nat, count : Nat, from : SUBSET (1..MaxEventIds)] \cup {NoRow}

\* No two events of the log have the same sequence, although sequences are found
\* from what is left in the log and events are deleted from its middle and its end.
ProjectionTypeOK ==
  /\ \A e \in eventLog :
       e.id \in 1..appended /\ e.seq \in Nat \ {0}
       /\ e.sess \in LogSessions \cup {MemorySession}
  /\ \A d, e \in eventLog : d.seq = e.seq => d = e
  /\ ledgerRow \in Rows
  /\ \A s \in LogSessions : sessionRow[s] \in Rows /\ outputCache[s] \in Rows

\* Bringing any stored row forward gives what building it from the log would
\* give.  Only counts and sequences are compared, so this needs a row never to
\* outlive a deletion that its label cannot tell.
RowsAgree ==
  /\ Forwarded(ledgerRow, eventLog).from = Ids(eventLog)
  /\ \A s \in listed :
       LET own == OfSession(eventLog, s)
       IN Forwarded(sessionRow[s], own).from = Ids(own)
          /\ Forwarded(outputCache[s], own).from = Ids(own)

\* Rows agree with the log: every deletion rebuilds the ledger in its own
\* transaction and every late write is checked against the log.  The rollback of
\* an unpublished fork is the exception: it deletes the fork's events and leaves
\* a ledger row that was built from them, which is taken for current once as many
\* other events have been appended.
RowsAgreeWithTheLog == ProjectionTypeOK /\ (rollbacks = 0 => RowsAgree)
=============================================================================
