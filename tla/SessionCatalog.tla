---------------------------- MODULE SessionCatalog ----------------------------
(***************************************************************************)
(* Projects and sessions: the catalog file that lists them, and the        *)
(* journalled operations that fork and delete them across the catalog, the *)
(* event store, the attachment directories and the managed artifacts       *)
(* (session_commands.rs, project_commands.rs,                              *)
(* project_lifecycle_runtime.rs, managed_artifact_lifecycle.rs).           *)
(*                                                                         *)
(* The catalog is replaced atomically under its lock.  A fork prepares its *)
(* data first and publishes last; a delete publishes first and cleans up   *)
(* last.  Either may fail at any step and the process may die between any  *)
(* two; start-up finishes what the journals say.  A session's events are   *)
(* known by the artifacts they refer to and by whether they refer to an    *)
(* attachment.  Names, times, effort and the memory ledger are left out.   *)
(***************************************************************************)
EXTENDS Naturals, FiniteSets

CONSTANTS SessionIds, ProjectIds, NoSession, NoProject,
          Artifacts,         \* managed files under .cindx
          CatalogThreads,    \* commands that run off the invoke thread
          Boot,              \* the start-up thread
          MaxOperations,     \* bound: forks and deletes begun
          MaxEdits,          \* bound: other changes of the catalog
          MaxOutputs,        \* bound: tool outputs recorded
          MaxDeaths          \* bound: crashes

ASSUME CatalogNames == /\ NoSession \notin SessionIds
                       /\ NoProject \notin ProjectIds
                       /\ Boot \notin CatalogThreads
                       /\ {MaxOperations, MaxEdits, MaxOutputs, MaxDeaths} \subseteq Nat

VARIABLES
  catalog,      \* durable: [home, archived, projects, activeProject, activeSession]
  journals,     \* durable: journals of operations that are not complete
  events,       \* durable: [present, project, refs, attached] of each session
  attachments,  \* on disk: sessions that have an attachment directory
  artifacts,    \* on disk: managed artifacts
  phase,        \* "up", or "down" until recovery is done
  deferred,     \* recovered deletes whose journal waits for the memory refresh
  catalogThread,\* [at, job, copy] of each thread
  running,      \* sessions with an active run
  issued,       \* ids ever made (new_session_id, new_project_id: unique)
  spent         \* what the bounds count: [operations, edits, outputs, deaths]

catalogDurable == <<catalog, journals, events, attachments, artifacts>>
catalogVars == <<catalogDurable, phase, deferred, catalogThread, running, issued, spent>>

NoEvents == [present |-> FALSE, project |-> NoProject, refs |-> {}, attached |-> FALSE]
NoJob == [kind |-> "none", project |-> NoProject, source |-> NoSession,
          ids |-> {}, whole |-> FALSE]
IdleCommand == [at |-> "idle", job |-> NoJob, copy |-> NoEvents]

Listed(s) == catalog.home[s] # NoProject
AllThreads == CatalogThreads \cup {Boot}

\* The lifecycle gate and the catalog lock are held while a delete is
\* journalled and published; the store lock while it is cleaned up.
CatalogFree == phase = "up" /\ \A t \in AllThreads : catalogThread[t].at # "deleting"
StoreFree(t) == \A u \in AllThreads \ {t} :
                  catalogThread[u].at \notin {"rolledBack", "retired", "cleaned"}

CatalogInit ==
  /\ \E s \in SessionIds, p \in ProjectIds :
       /\ catalog = [home |-> [x \in SessionIds |-> IF x = s THEN p ELSE NoProject],
                     archived |-> {}, projects |-> {p},
                     activeProject |-> p, activeSession |-> s]
       /\ issued = {s, p}
  /\ journals = {} /\ deferred = {}
  /\ events = [s \in SessionIds |-> NoEvents]
  /\ attachments = {} /\ artifacts = {}
  /\ phase = "up"
  /\ catalogThread = [t \in AllThreads |-> IdleCommand]
  /\ running = {}
  /\ spent = [operations |-> 0, edits |-> 0, outputs |-> 0, deaths |-> 0]

-----------------------------------------------------------------------------
(* The catalog alone.                                                      *)

OpenSessions(c, p) == {s \in SessionIds : c.home[s] = p /\ s \notin c.archived}

\* ensure_open_session_for_project: the possible results, an open session of
\* the project or one made for it.
EnsureOpen(c, p) ==
  IF OpenSessions(c, p) # {}
  THEN {[c EXCEPT !.activeSession = s] : s \in OpenSessions(c, p)}
  ELSE {[c EXCEPT !.home[s] = p, !.activeSession = s] : s \in SessionIds \ issued}

Commit(c) ==
  /\ catalog' = c
  /\ issued' = issued \cup c.projects \cup {s \in SessionIds : c.home[s] # NoProject}

Spend(what, bound) ==
  /\ spent[what] < bound
  /\ spent' = [spent EXCEPT ![what] = @ + 1]

CatalogOnly == /\ Spend("edits", MaxEdits)
               /\ UNCHANGED <<journals, events, attachments, artifacts, phase,
                              deferred, catalogThread, running>>

CreateProject ==
  /\ CatalogFree
  /\ \E p \in ProjectIds \ issued, s \in SessionIds \ issued :
       Commit([catalog EXCEPT !.projects = @ \cup {p}, !.home[s] = p,
                              !.activeProject = p, !.activeSession = s])
  /\ CatalogOnly

CreateSession ==
  /\ CatalogFree
  /\ \E p \in catalog.projects, s \in SessionIds \ issued :
       Commit([catalog EXCEPT !.home[s] = p, !.activeProject = p, !.activeSession = s])
  /\ CatalogOnly

SelectProject ==
  /\ CatalogFree
  /\ \E p \in catalog.projects :
       LET c == [catalog EXCEPT !.activeProject = p] IN
       IF c.activeSession \in OpenSessions(c, p) THEN Commit(c)
       ELSE \E d \in EnsureOpen(c, p) : Commit(d)
  /\ CatalogOnly

SelectSession ==
  /\ CatalogFree
  /\ \E s \in SessionIds \ catalog.archived :
       /\ Listed(s)
       /\ Commit([catalog EXCEPT !.activeProject = catalog.home[s], !.activeSession = s])
  /\ CatalogOnly

ArchiveSession ==
  /\ CatalogFree
  /\ \E s \in SessionIds :
       LET c == [catalog EXCEPT !.archived = @ \cup {s}] IN
       /\ Listed(s)
       /\ IF c.activeSession = s THEN \E d \in EnsureOpen(c, c.home[s]) : Commit(d)
                                 ELSE Commit(c)
  /\ CatalogOnly

RestoreSession ==
  /\ CatalogFree
  /\ \E s \in catalog.archived : Commit([catalog EXCEPT !.archived = @ \ {s}])
  /\ CatalogOnly

-----------------------------------------------------------------------------
(* Runs write the data that the operations copy and remove.                *)

StartSessionRun(s) ==
  /\ CatalogFree /\ Listed(s) /\ s \notin running
  /\ running' = running \cup {s}
  /\ UNCHANGED <<catalogDurable, phase, deferred, catalogThread, issued,
                 spent>>

\* A tool result: its artifact, or an uploaded attachment, and its event.
RecordToolOutput(s) ==
  /\ phase = "up" /\ s \in running /\ StoreFree(Boot)
  /\ \E made \in SUBSET (Artifacts \ artifacts), attach \in BOOLEAN :
       /\ Cardinality(made) <= 1
       /\ artifacts' = artifacts \cup made
       /\ attachments' = IF attach THEN attachments \cup {s} ELSE attachments
       /\ events' = [events EXCEPT ![s] =
            [present |-> TRUE, project |-> catalog.home[s], refs |-> @.refs \cup made,
             attached |-> @.attached \/ attach]]
  /\ Spend("outputs", MaxOutputs)
  /\ UNCHANGED <<catalog, journals, phase, deferred, catalogThread, running,
                 issued>>

EndSessionRun(s) ==
  /\ s \in running
  /\ running' = running \ {s}
  /\ UNCHANGED <<catalogDurable, phase, deferred, catalogThread, issued,
                 spent>>

-----------------------------------------------------------------------------
(* fork_session_blocking.                                                  *)

Target(t) == CHOOSE s \in catalogThread[t].job.ids : TRUE
To(t, at) == catalogThread' = [catalogThread EXCEPT ![t].at = at]
Done(t) == catalogThread' = [catalogThread EXCEPT ![t] = IdleCommand]

ForkChoose(t, s, f) ==
  /\ CatalogFree /\ catalogThread[t].at = "idle"
  /\ Listed(s) /\ f \notin issued
  /\ issued' = issued \cup {f}
  /\ catalogThread' = [catalogThread EXCEPT ![t] =
        [at |-> "chosen", copy |-> NoEvents,
         job |-> [kind |-> "fork", project |-> catalog.home[s], source |-> s,
                  ids |-> {f}, whole |-> FALSE]]]
  /\ Spend("operations", MaxOperations)
  /\ UNCHANGED <<catalogDurable, phase, deferred, running>>

\* load_forkable_session_events
ForkLoad(t) ==
  /\ catalogThread[t].at = "chosen" /\ StoreFree(t)
  /\ catalogThread' = [catalogThread EXCEPT
        ![t].at = "loaded", ![t].copy = events[catalogThread[t].job.source]]
  /\ UNCHANGED <<catalogDurable, phase, deferred, running, issued, spent>>

\* persist_project_lifecycle_journal; a failure ends the command.
ForkJournal(t) ==
  /\ catalogThread[t].at = "loaded"
  /\ \/ To(t, "journalled") /\ journals' = journals \cup {catalogThread[t].job}
     \/ Done(t) /\ UNCHANGED journals
  /\ UNCHANGED <<catalog, events, attachments, artifacts, phase, deferred,
                 running, issued, spent>>

\* Fault: the attachments are cloned before the journal is written.
ForkCloneFirst(t) ==
  /\ catalogThread[t].at \in {"loaded", "journalled"}
  /\ attachments' = attachments \cup {Target(t)}
  /\ To(t, IF catalogThread[t].at = "loaded" THEN "loaded" ELSE "cloned")
  /\ UNCHANGED <<catalog, journals, events, artifacts, phase, deferred,
                 running, issued, spent>>

\* clone_fork_attachments_and_rewrite_events: a referenced file that is gone
\* is an error; a failure may leave the directory behind.
ForkClone(t) ==
  LET needs == catalogThread[t].copy.attached
      found == catalogThread[t].job.source \in attachments
  IN
  /\ catalogThread[t].at = "journalled"
  /\ \/ /\ needs => found
        /\ attachments' = IF needs THEN attachments \cup {Target(t)} ELSE attachments
        /\ To(t, "cloned")
     \/ /\ attachments' \in {attachments, attachments \cup {Target(t)}}
        /\ To(t, "aborting")
  /\ UNCHANGED <<catalog, journals, events, artifacts, phase, deferred,
                 running, issued, spent>>

\* persist_fork_events, one transaction.
ForkStore(t) ==
  /\ catalogThread[t].at = "cloned" /\ StoreFree(t)
  /\ \/ /\ events' = [events EXCEPT ![Target(t)] =
              IF catalogThread[t].copy.present
              THEN [catalogThread[t].copy EXCEPT !.project = catalogThread[t].job.project]
              ELSE NoEvents]
        /\ To(t, "stored")
     \/ UNCHANGED events /\ To(t, "aborting")
  /\ UNCHANGED <<catalog, journals, attachments, artifacts, phase, deferred,
                 running, issued, spent>>

ForkPublish(t) ==
  LET j == catalogThread[t].job
      current == catalog.home[j.source] = j.project
  IN
  /\ catalogThread[t].at = "stored" /\ CatalogFree
  /\ \/ /\ current
        /\ catalog' = [catalog EXCEPT !.home[Target(t)] = j.project,
                                      !.activeProject = j.project,
                                      !.activeSession = Target(t)]
        /\ To(t, "done")
     \* the source changed, or the catalog could not be saved
     \/ UNCHANGED catalog /\ To(t, "aborting")
  /\ UNCHANGED <<journals, events, attachments, artifacts, phase, deferred,
                 running, issued, spent>>

\* rollback_unpublished_fork, its transaction and then its directory; what
\* fails is left to the journal.
RollbackFork(t) ==
  /\ catalogThread[t].at = "aborting" /\ StoreFree(t)
  /\ events' = [events EXCEPT ![Target(t)] = NoEvents]
  /\ To(t, "rolledBack")
  /\ UNCHANGED <<catalog, journals, attachments, artifacts, phase, deferred,
                 running, issued, spent>>

RemoveForkFiles(t) ==
  /\ catalogThread[t].at = "rolledBack"
  /\ attachments' = attachments \ {Target(t)}
  /\ To(t, "done")
  /\ UNCHANGED <<catalog, journals, events, artifacts, phase, deferred,
                 running, issued, spent>>

-----------------------------------------------------------------------------
(* delete_session_blocking and delete_project_blocking.                    *)

\* session_deletion_block_reason, and the journal, under gate and catalog.
Delete(t, ids, p, whole) ==
  /\ CatalogFree /\ catalogThread[t].at = "idle"
  /\ ids \cap running = {}
  /\ \E job \in {[kind |-> "delete", project |-> p, source |-> NoSession,
                  ids |-> ids, whole |-> whole]} :
       /\ journals' = journals \cup {job}
       /\ catalogThread' = [catalogThread EXCEPT
             ![t] = [at |-> "deleting", job |-> job, copy |-> NoEvents]]
  /\ Spend("operations", MaxOperations)
  /\ UNCHANGED <<catalog, events, attachments, artifacts, phase, deferred,
                 running, issued>>

DeleteSession(t, s) == Listed(s) /\ Delete(t, {s}, catalog.home[s], FALSE)
DeleteProject(t, p) ==
  p \in catalog.projects /\ Delete(t, {s \in SessionIds : catalog.home[s] = p}, p, TRUE)

Removed(ids) == [catalog EXCEPT
  !.home = [s \in SessionIds |-> IF s \in ids THEN NoProject ELSE catalog.home[s]],
  !.archived = @ \ ids]

\* remove_project_from_config
WithoutProject(p, ids) ==
  LET c == [Removed(ids) EXCEPT !.projects = @ \ {p}]
      choices == IF catalog.activeProject = p THEN c.projects ELSE {c.activeProject}
  IN  IF c.projects = {}
      THEN {[c EXCEPT !.activeProject = NoProject, !.activeSession = NoSession]}
      ELSE UNION {LET d == [c EXCEPT !.activeProject = q] IN
                  IF d.activeSession \in OpenSessions(d, q) THEN {d} ELSE EnsureOpen(d, q)
                  : q \in choices}

WithoutSession(s) ==
  IF catalog.activeSession = s THEN EnsureOpen(Removed({s}), catalog.home[s])
                               ELSE {Removed({s})}

DeletePublish(t) ==
  LET j == catalogThread[t].job IN
  /\ catalogThread[t].at = "deleting"
  /\ \/ /\ \E c \in IF j.whole THEN WithoutProject(j.project, j.ids)
                    ELSE WithoutSession(Target(t)) : Commit(c)
        /\ To(t, "published")
        /\ UNCHANGED journals
     \* not saved: the journal is dropped, if that works
     \/ /\ UNCHANGED <<catalog, issued>>
        /\ journals' \in {journals, journals \ {j}}
        /\ Done(t)
  /\ UNCHANGED <<events, attachments, artifacts, phase, deferred, running,
                 spent>>

References(sessions) == UNION {events[s].refs : s \in sessions}

\* Fault: everything the deleted sessions refer to is retired.
RetirableOfDeleted(ids) == References(ids)

\* plan_managed_artifact_retirement: what no other session refers to.
Retirable(ids) == References(ids) \ References(SessionIds \ ids)

\* cleanup_published_delete_with_managed_artifacts, to the end of
\* apply_managed_artifact_retirement; a failure may stop it half-way.
RetireArtifacts(t) ==
  /\ catalogThread[t].at = "published" /\ StoreFree(t)
  /\ artifacts' = artifacts \ Retirable(catalogThread[t].job.ids)
  /\ To(t, "retired")
  /\ UNCHANGED <<catalog, journals, events, attachments, phase, deferred,
                 running, issued, spent>>

\* Fault: a project's records are found by their project alone.
CleanByProject(t) ==
  LET j == catalogThread[t].job IN
  /\ catalogThread[t].at = "retired"
  /\ events' = [s \in SessionIds |->
        IF events[s].project = j.project THEN NoEvents ELSE events[s]]
  /\ To(t, "cleaned")
  /\ UNCHANGED <<catalog, journals, attachments, artifacts, phase, deferred,
                 running, issued, spent>>

\* cleanup_deleted_session_storage and cleanup_deleted_project_storage
CleanStore(t) ==
  LET j == catalogThread[t].job IN
  /\ catalogThread[t].at = "retired"
  /\ events' = [s \in SessionIds |->
        IF s \in j.ids \/ (j.whole /\ events[s].project = j.project)
        THEN NoEvents ELSE events[s]]
  /\ To(t, "cleaned")
  /\ UNCHANGED <<catalog, journals, attachments, artifacts, phase, deferred,
                 running, issued, spent>>

\* The rest of cleanup_published_delete.
RemoveSessionFiles(t) ==
  /\ catalogThread[t].at = "cleaned"
  /\ attachments' = attachments \ catalogThread[t].job.ids
  /\ To(t, "done")
  /\ UNCHANGED <<catalog, journals, events, artifacts, phase, deferred,
                 running, issued, spent>>

\* A step of the clean-up fails: the command ends and its journal stays; at
\* start-up the failure is fatal and the next start begins again.
CleanupFails(t) ==
  /\ catalogThread[t].at \in {"aborting", "rolledBack", "published", "retired", "cleaned"}
  /\ Done(t)
  /\ deferred' = IF t = Boot THEN {} ELSE deferred
  /\ UNCHANGED <<catalogDurable, phase, running, issued, spent>>

\* complete_project_lifecycle_journal
CompleteJournal(t) ==
  LET j == catalogThread[t].job IN
  /\ catalogThread[t].at = "done"
  /\ IF t = Boot /\ j.kind = "delete" /\ ~j.whole
     THEN deferred' = deferred \cup {j} /\ UNCHANGED journals
     ELSE journals' \in {journals, journals \ {j}} /\ UNCHANGED deferred
  /\ Done(t)
  /\ UNCHANGED <<catalog, events, attachments, artifacts, phase, running,
                 issued, spent>>

-----------------------------------------------------------------------------
(* Crash and start-up.                                                     *)

ProcessDies ==
  /\ phase' = "down"
  /\ deferred' = {}
  /\ catalogThread' = [t \in AllThreads |-> IdleCommand]
  /\ running' = {}
  /\ Spend("deaths", MaxDeaths)
  /\ UNCHANGED <<catalogDurable, issued>>

\* Journals are taken in the order of their file names: deletes, then forks.
Foremost(pending) ==
  {j \in pending : j.kind = "delete" \/ \A k \in pending : k.kind = "fork"}

\* What recovery does with a journal, by what the catalog says was published.
RecoveryOf(j) ==
  CASE j.kind = "fork" ->
         IF \E s \in j.ids : Listed(s) THEN "done" ELSE "aborting"
    [] j.kind = "delete" /\ j.whole ->
         IF j.project \in catalog.projects THEN "done" ELSE "published"
    [] OTHER -> IF \E s \in j.ids : Listed(s) THEN "done" ELSE "published"

\* recover_project_lifecycle_operations_at, one journal.  A delete that was
\* not published is over; its journal is removed.
RecoverJournal ==
  /\ phase = "down" /\ catalogThread[Boot].at = "idle"
  /\ \E j \in Foremost(journals \ deferred) :
       IF RecoveryOf(j) = "done"
       THEN journals' = journals \ {j} /\ UNCHANGED catalogThread
       ELSE /\ catalogThread' = [catalogThread EXCEPT
                 ![Boot] = [at |-> RecoveryOf(j), job |-> j, copy |-> NoEvents]]
            /\ UNCHANGED journals
  /\ UNCHANGED <<catalog, events, attachments, artifacts, phase, deferred,
                 running, issued, spent>>

\* Recovery is over: the application serves.
Serve ==
  /\ phase = "down" /\ catalogThread[Boot].at = "idle"
  /\ journals = deferred
  /\ phase' = "up"
  /\ UNCHANGED <<catalogDurable, deferred, catalogThread, running, issued,
                 spent>>

\* resume_recovered_memory_refreshes; a journal that cannot be removed stays.
ResumeRefresh ==
  /\ phase = "up"
  /\ \E j \in deferred :
       /\ deferred' = deferred \ {j}
       /\ journals' \in {journals, journals \ {j}}
  /\ UNCHANGED <<catalog, events, attachments, artifacts, phase, catalogThread,
                 running, issued, spent>>

CatalogNext ==
  \/ CreateProject \/ CreateSession \/ SelectProject \/ SelectSession
  \/ ArchiveSession \/ RestoreSession
  \/ \E s \in SessionIds : StartSessionRun(s) \/ RecordToolOutput(s) \/ EndSessionRun(s)
  \/ \E t \in CatalogThreads :
       \/ \E s, f \in SessionIds : ForkChoose(t, s, f)
       \/ ForkLoad(t) \/ ForkJournal(t) \/ ForkClone(t) \/ ForkStore(t) \/ ForkPublish(t)
       \/ \E s \in SessionIds : DeleteSession(t, s)
       \/ \E p \in ProjectIds : DeleteProject(t, p)
       \/ DeletePublish(t)
  \/ \E t \in AllThreads :
       \/ RollbackFork(t) \/ RemoveForkFiles(t)
       \/ RetireArtifacts(t) \/ CleanStore(t) \/ RemoveSessionFiles(t)
       \/ CleanupFails(t) \/ CompleteJournal(t)
  \/ ProcessDies \/ RecoverJournal \/ Serve \/ ResumeRefresh

CatalogSpec == CatalogInit /\ [][CatalogNext]_catalogVars

-----------------------------------------------------------------------------
(* Properties.                                                             *)

JobSet == [kind : {"none", "fork", "delete"}, project : ProjectIds \cup {NoProject},
           source : SessionIds \cup {NoSession}, ids : SUBSET SessionIds, whole : BOOLEAN]
EventSet == [present : BOOLEAN, project : ProjectIds \cup {NoProject},
             refs : SUBSET Artifacts, attached : BOOLEAN]

\* Types; a job under way, once it is journalled, has its journal on disk until
\* it is complete.
CatalogTypeOK ==
  /\ catalog \in [home : [SessionIds -> ProjectIds \cup {NoProject}],
                  archived : SUBSET SessionIds, projects : SUBSET ProjectIds,
                  activeProject : ProjectIds \cup {NoProject},
                  activeSession : SessionIds \cup {NoSession}]
  /\ journals \subseteq JobSet /\ deferred \subseteq journals
  /\ events \in [SessionIds -> EventSet]
  /\ attachments \subseteq SessionIds /\ artifacts \subseteq Artifacts
  /\ phase \in {"up", "down"} /\ running \subseteq SessionIds /\ issued \subseteq SessionIds \cup ProjectIds
  /\ \A t \in AllThreads :
       /\ catalogThread[t].job \in JobSet /\ catalogThread[t].copy \in EventSet
       /\ catalogThread[t].at \notin {"idle", "chosen", "loaded"}
            => catalogThread[t].job \in journals

\* Whatever is stored for a session that the catalog does not list is named by
\* a journal, so that recovery will remove it: after a failed or interrupted
\* fork or delete nothing is orphaned (project_lifecycle_runtime.rs).
ResidueIsJournalled ==
  /\ CatalogTypeOK
  /\ \A s \in SessionIds :
       ~Listed(s) /\ (events[s].present \/ s \in attachments)
       => \E j \in journals : s \in j.ids

\* A listed session keeps its events, its attachments and the artifacts it
\* shares with a fork: neither the deletion of another session or project, nor
\* the rollback of a fork, nor recovery takes them (the retirement plan, the
\* published check of recovery, and the second look of fork_session_blocking).
ListedSessionIsWhole ==
  \A s \in SessionIds : Listed(s) =>
    /\ events[s].refs \subseteq artifacts
    /\ events[s].attached => s \in attachments
    /\ events[s].present => events[s].project = catalog.home[s]
    /\ catalog.home[s] \in catalog.projects

\* The selection is always an open session of the selected project, unless the
\* catalog is empty (ensure_open_session_for_project, remove_project_from_config).
SelectionIsOpen ==
  IF catalog.projects = {} THEN catalog.activeSession = NoSession
  ELSE catalog.activeSession \in OpenSessions(catalog, catalog.activeProject)

\* Both: what the catalog shows can be opened, whole.
CatalogIsWhole == ListedSessionIsWhole /\ SelectionIsOpen

\* A listed session keeps its history: no step but a run of that session, its
\* fork or its own deletion changes what is stored for it.
HistoryIsKept ==
  [][\A s \in SessionIds :
       Listed(s) /\ events[s].present /\ catalog'.home[s] # NoProject
       => events'[s].present /\ events[s].refs \subseteq events'[s].refs]_catalogVars
=============================================================================
