---------------------------- MODULE VectorRefresh ----------------------------
(***************************************************************************)
(* The vector index of one project's memory: threads that changed or       *)
(* recalled the memory ledger schedule a refresh, one background refresher *)
(* prepares and publishes generations, readers hold snapshots, and a       *)
(* deletion purges what older generations still contain                    *)
(* (memory_vector_refresh_coordinator.rs,                                  *)
(* memory_vector_refresh_generation.rs,                                    *)
(* memory_vector_generation_runtime.rs).                                   *)
(*                                                                         *)
(* The latest revision, the pending refresh, the in-flight lease and the   *)
(* set of deleted projects have a lock each, and each access is a step.    *)
(* The refresh gate is held from the refresher's second check until its    *)
(* generation is published.  A generation is known by its number and the   *)
(* ledger revision it was built from; embeddings are left out.             *)
(***************************************************************************)
EXTENDS Naturals, FiniteSets, FiniteSetsExt

CONSTANTS VectorThreads,        \* threads that schedule, forget or delete
          VectorReaders,        \* recalls that search a snapshot
          RetainedGenerations,  \* MEMORY_VECTOR_RETAINED_PREVIOUS_GENERATIONS
          MaxRevision,          \* bound: ledger revisions
          MaxGeneration         \* bound: generations staged

ASSUME VectorBounds == /\ RetainedGenerations \in Nat
                       /\ MaxRevision \in Nat \ {0}
                       /\ MaxGeneration \in Nat

VARIABLES
  ledgerRevision,  \* durable: revision of the memory ledger
  resetRequired,   \* durable: vector_history_reset_required
  projectFate,     \* durable: "live", "deleting" (journalled) or "deleted"
  generations,     \* on disk: complete generations [id, rev]
  currentPointer,  \* on disk: the CURRENT file; 0 when there is none
  latestRevision,  \* MEMORY_VECTOR_REFRESH_LATEST_REVISIONS; 0 for no entry
  pendingRefresh,  \* MEMORY_VECTOR_REFRESH_PENDING; 0 for no entry
  refreshLease,    \* MEMORY_VECTOR_REFRESH_INFLIGHT holds the project
  deletedRegistry, \* DELETED_MEMORY_VECTOR_PROJECTS holds the project
  vectorThread,    \* [at, rev] of each thread
  refresher,       \* [at, rev] of the spawned loop
  vectorReader,    \* [gen, purged] of each reader; gen 0: no snapshot
  forgotten,       \* history: revision of the newest deletion of a memory
  unflagged,       \* history: a crash came before a deletion was flagged
  owed             \* history: newest scheduled revision that nobody published,
                   \* found published, failed to publish, superseded or
                   \* overwrote in the queue with an older request

vectorDisk == <<generations, currentPointer>>
vectorDurable == <<ledgerRevision, resetRequired, projectFate, vectorDisk>>
vectorShared == <<latestRevision, pendingRefresh, refreshLease, deletedRegistry>>
vectorHistory == <<forgotten, unflagged, owed>>
vectorVars == <<vectorDurable, vectorShared, vectorThread, refresher,
                vectorReader, vectorHistory>>

IdleThread == [at |-> "idle", rev |-> 0]
RefresherOff == [at |-> "off", rev |-> 0]
NoSnapshot == [gen |-> 0, purged |-> FALSE]

VectorInit ==
  /\ ledgerRevision = 1 /\ resetRequired = FALSE /\ projectFate = "live"
  /\ generations = {} /\ currentPointer = 0
  /\ latestRevision = 0 /\ pendingRefresh = 0
  /\ refreshLease = FALSE /\ deletedRegistry = FALSE
  /\ vectorThread = [t \in VectorThreads |-> IdleThread]
  /\ refresher = RefresherOff
  /\ vectorReader = [r \in VectorReaders |-> NoSnapshot]
  /\ forgotten = 0 /\ unflagged = FALSE /\ owed = 0

Move(t, from, to) ==
  /\ vectorThread[t].at = from
  /\ vectorThread' = [vectorThread EXCEPT ![t].at = to]

\* The threads that hold the store lock while they forget or delete.
StoreHeld == \E t \in VectorThreads :
  vectorThread[t].at \in {"forgotten", "flagged", "noted", "dropped", "purged",
                          "marked", "unqueued", "unlisted"}
GateHeld == refresher.at \in {"staging", "staged"}

\* memory_vector_refresh_revision_is_current
RevisionIsCurrent(rev) == latestRevision = 0 \/ rev >= latestRevision

Newest(a, b) == IF a >= b THEN a ELSE b

-----------------------------------------------------------------------------
(* schedule_project_memory_vector_refresh, up to the spawn.                *)

\* A run ended, a recall began or a preference changed: the thread has the
\* ledger of this revision in hand, however late it goes on.
HoldLedger(t) ==
  /\ projectFate = "live"
  /\ vectorThread[t].at = "idle"
  /\ \/ ledgerRevision' = ledgerRevision
     \/ /\ ~StoreHeld /\ ledgerRevision < MaxRevision
        /\ ledgerRevision' = ledgerRevision + 1
  /\ vectorThread' = [vectorThread EXCEPT
                        ![t] = [at |-> "loaded", rev |-> ledgerRevision']]
  /\ UNCHANGED <<resetRequired, projectFate, vectorDisk, vectorShared,
                 refresher, vectorReader, vectorHistory>>

CheckDeleted(t) ==
  /\ Move(t, "loaded", IF deletedRegistry THEN "idle" ELSE "checked")
  /\ UNCHANGED <<vectorDurable, vectorShared, refresher, vectorReader, vectorHistory>>

RegisterRevision(t) ==
  LET rev == vectorThread[t].rev IN
  /\ IF rev < latestRevision
     THEN Move(t, "checked", "idle") /\ UNCHANGED <<latestRevision, owed>>
     ELSE /\ Move(t, "checked", "registered")
          /\ latestRevision' = rev
          /\ owed' = rev
  /\ UNCHANGED <<vectorDurable, pendingRefresh, refreshLease, deletedRegistry,
                 refresher, vectorReader, forgotten, unflagged>>

\* The queue has a lock of its own and does not compare: an older request may
\* overwrite a newer one.
InsertPending(t) ==
  /\ Move(t, "registered", "queued")
  /\ pendingRefresh' = vectorThread[t].rev
  /\ owed' = IF pendingRefresh > vectorThread[t].rev THEN 0 ELSE owed
  /\ UNCHANGED <<vectorDurable, latestRevision, refreshLease, deletedRegistry,
                 refresher, vectorReader, forgotten, unflagged>>

\* try_acquire: the thread that gets the lease spawns the loop.
SpawnRefresher(t) ==
  /\ Move(t, "queued", "idle")
  /\ refreshLease' = TRUE
  /\ refresher' = IF refreshLease THEN refresher ELSE [at |-> "take", rev |-> 0]
  /\ UNCHANGED <<vectorDurable, latestRevision, pendingRefresh, deletedRegistry,
                 vectorReader, vectorHistory>>

-----------------------------------------------------------------------------
(* The refresher's loop.                                                   *)

\* Fault: the lease is released after the queue is unlocked.
TakeThenRelease ==
  \/ /\ refresher.at = "take" /\ pendingRefresh # 0
     /\ refresher' = [at |-> "taken", rev |-> pendingRefresh]
     /\ pendingRefresh' = 0
     /\ UNCHANGED <<vectorDurable, latestRevision, refreshLease, deletedRegistry,
                    vectorThread, vectorReader, vectorHistory>>
  \/ /\ refresher.at = "take" /\ pendingRefresh = 0
     /\ refresher' = [at |-> "leaving", rev |-> 0]
     /\ UNCHANGED <<vectorDurable, vectorShared, vectorThread, vectorReader,
                    vectorHistory>>
  \/ /\ refresher.at = "leaving"
     /\ refresher' = RefresherOff
     /\ refreshLease' = FALSE
     /\ UNCHANGED <<vectorDurable, latestRevision, pendingRefresh,
                    deletedRegistry, vectorThread, vectorReader, vectorHistory>>

\* One critical section of the queue: the next refresh, or the lease is given
\* back before the queue is unlocked.
TakePending ==
  /\ refresher.at = "take"
  /\ IF pendingRefresh = 0
     THEN refresher' = RefresherOff /\ refreshLease' = FALSE
     ELSE /\ refresher' = [at |-> "taken", rev |-> pendingRefresh]
          /\ UNCHANGED refreshLease
  /\ pendingRefresh' = 0
  /\ UNCHANGED <<vectorDurable, latestRevision, deletedRegistry, vectorThread,
                 vectorReader, vectorHistory>>

CheckTaken ==
  /\ refresher.at = "taken"
  /\ refresher' = [refresher EXCEPT
        !.at = IF deletedRegistry \/ ~RevisionIsCurrent(refresher.rev)
               THEN "take" ELSE "preparing"]
  /\ UNCHANGED <<vectorDurable, vectorShared, vectorThread, vectorReader, vectorHistory>>

\* prepare_project_memory_vector_refresh: the current generation may be the
\* wanted one (unless its embedding profile is out of date), or embedding fails.
PrepareRefresh ==
  LET found == [id |-> currentPointer, rev |-> refresher.rev] \in generations IN
  /\ refresher.at = "preparing"
  /\ \/ /\ refresher' = [refresher EXCEPT !.at = "prepared"]
        /\ UNCHANGED owed
     \/ /\ refresher' = [refresher EXCEPT !.at = "take"]
        \* found, or failed
        /\ owed' = IF found \/ owed = refresher.rev THEN 0 ELSE owed
  /\ UNCHANGED <<vectorDurable, vectorShared, vectorThread, vectorReader,
                 forgotten, unflagged>>

\* Fault: only the deletion is looked at again.
EnterGateIgnoresRevision ==
  /\ refresher.at = "prepared"
  /\ refresher' = [refresher EXCEPT !.at = IF deletedRegistry THEN "take" ELSE "staging"]
  /\ UNCHANGED <<vectorDurable, vectorShared, vectorThread, vectorReader, vectorHistory>>

\* The gate is taken, and deletion and revision are looked at again.
EnterGate ==
  /\ refresher.at = "prepared"
  /\ refresher' = [refresher EXCEPT
        !.at = IF deletedRegistry \/ ~RevisionIsCurrent(refresher.rev)
               THEN "take" ELSE "staging"]
  /\ UNCHANGED <<vectorDurable, vectorShared, vectorThread, vectorReader, vectorHistory>>

NextGeneration == 1 + Max({0} \cup {g.id : g \in generations})

\* publish_prepared_memory_vector_refresh up to its manifest: the generation
\* is complete on disk, leased and not yet current.
StageGeneration ==
  /\ refresher.at = "staging"
  /\ NextGeneration <= MaxGeneration
  /\ generations' = generations \cup {[id |-> NextGeneration, rev |-> refresher.rev]}
  /\ refresher' = [refresher EXCEPT !.at = "staged"]
  /\ UNCHANGED <<ledgerRevision, resetRequired, projectFate, currentPointer,
                 vectorShared, vectorThread, vectorReader, vectorHistory>>

Staged == Max({0} \cup {g.id : g \in generations})

\* Staging fails, or publication does and PendingMemoryVectorGeneration::drop
\* removes its directory.
PublicationFails ==
  /\ refresher.at \in {"staging", "staged"}
  /\ generations' = IF refresher.at = "staged"
                    THEN {g \in generations : g.id # Staged} ELSE generations
  /\ refresher' = [refresher EXCEPT !.at = "take"]
  /\ owed' = IF owed = refresher.rev THEN 0 ELSE owed
  /\ UNCHANGED <<ledgerRevision, resetRequired, projectFate, currentPointer,
                 vectorShared, vectorThread, vectorReader, forgotten, unflagged>>

SnapshotHeld(id) == \E r \in VectorReaders : vectorReader[r].gen = id

\* Fault: the collection forgets the readers.
CollectedIgnoringLeases(id) ==
  {g \in generations :
     /\ g.id # id
     /\ Cardinality({h \in generations : h.id # id /\ h.id > g.id})
          >= RetainedGenerations}

\* garbage_collect_memory_vector_generations: what goes when `id' is current.
Collected(id) ==
  {g \in generations :
     /\ g.id # id
     /\ Cardinality({h \in generations : h.id # id /\ h.id > g.id})
          >= RetainedGenerations
     /\ ~SnapshotHeld(g.id)}

\* publish_memory_vector_generation, under the project's write lock.
PublishGeneration ==
  /\ refresher.at = "staged"
  /\ currentPointer' = Staged
  /\ generations' = generations \ Collected(Staged)
  /\ refresher' = [refresher EXCEPT !.at = "take"]
  /\ owed' = IF owed <= refresher.rev THEN 0 ELSE owed
  /\ UNCHANGED <<ledgerRevision, resetRequired, projectFate, vectorShared,
                 vectorThread, vectorReader, forgotten, unflagged>>

-----------------------------------------------------------------------------
(* Readers: open_memory_vector_snapshot under the read lock, and its drop.  *)

OpenSnapshot(r) ==
  /\ vectorReader[r] = NoSnapshot
  /\ currentPointer # 0
  /\ vectorReader' = [vectorReader EXCEPT ![r].gen = currentPointer]
  /\ UNCHANGED <<vectorDurable, vectorShared, vectorThread, refresher, vectorHistory>>

DropSnapshot(r) ==
  /\ vectorReader[r] # NoSnapshot
  /\ vectorReader' = [vectorReader EXCEPT ![r] = NoSnapshot]
  /\ UNCHANGED <<vectorDurable, vectorShared, vectorThread, refresher, vectorHistory>>

\* remove_memory_vector_root: leases do not stop it.
RemoveRoot ==
  /\ generations' = {}
  /\ currentPointer' = 0
  /\ vectorReader' = [r \in VectorReaders |->
        [vectorReader[r] EXCEPT !.purged = vectorReader[r].gen # 0]]

-----------------------------------------------------------------------------
(* Forgetting, with the store lock held.                                   *)

Forget(t, at) ==
  /\ projectFate = "live"
  /\ ~StoreHeld
  /\ vectorThread[t].at = "idle"
  /\ ledgerRevision < MaxRevision
  /\ ledgerRevision' = ledgerRevision + 1
  /\ forgotten' = ledgerRevision'
  /\ vectorThread' = [vectorThread EXCEPT ![t] = [at |-> at, rev |-> ledgerRevision']]
  /\ UNCHANGED <<projectFate, vectorDisk, vectorShared, refresher, vectorReader,
                 unflagged, owed>>

\* update_project_memory_blocking with "delete": the transaction commits, and
\* a second write flags the reset.
DeleteMemory(t) == Forget(t, "forgotten") /\ UNCHANGED resetRequired
FlagReset(t) ==
  /\ Move(t, "forgotten", "flagged")
  /\ resetRequired' = TRUE
  /\ UNCHANGED <<ledgerRevision, projectFate, vectorDisk, vectorShared, refresher,
                 vectorReader, vectorHistory>>

\* cleanup_deleted_session_storage flags the reset in its own transaction.
RetireSession(t) == Forget(t, "flagged") /\ resetRequired' = TRUE

\* recall_project_memory_for_prompt and get_project_memory_state_blocking
\* take up a reset that is still due.
ResumeReset(t) ==
  /\ projectFate = "live" /\ resetRequired /\ ~StoreHeld
  /\ vectorThread[t].at = "idle"
  /\ vectorThread' = [vectorThread EXCEPT
                        ![t] = [at |-> "flagged", rev |-> ledgerRevision]]
  /\ UNCHANGED <<vectorDurable, vectorShared, refresher, vectorReader, vectorHistory>>

\* reset_project_memory_vector_index, purge_history = true: three locks.
NoteRevision(t) ==
  /\ Move(t, "flagged", "noted")
  /\ latestRevision' = Newest(latestRevision, vectorThread[t].rev)
  /\ owed' = IF owed < vectorThread[t].rev THEN 0 ELSE owed
  /\ UNCHANGED <<vectorDurable, pendingRefresh, refreshLease, deletedRegistry,
                 refresher, vectorReader, forgotten, unflagged>>

DropOlderPending(t) ==
  /\ Move(t, "noted", "dropped")
  /\ pendingRefresh' = IF pendingRefresh <= vectorThread[t].rev THEN 0 ELSE pendingRefresh
  /\ UNCHANGED <<vectorDurable, latestRevision, refreshLease, deletedRegistry,
                 refresher, vectorReader, vectorHistory>>

PurgeHistory(t) ==
  /\ ~GateHeld
  /\ Move(t, "dropped", "purged")
  /\ IF RevisionIsCurrent(vectorThread[t].rev)
     THEN RemoveRoot /\ unflagged' = FALSE
     ELSE UNCHANGED <<vectorDisk, vectorReader, unflagged>>
  /\ UNCHANGED <<ledgerRevision, resetRequired, projectFate, vectorShared,
                 refresher, forgotten, owed>>

\* The reset is done; the thread goes on to schedule the ledger it has.
ClearReset(t) ==
  /\ Move(t, "purged", "loaded")
  /\ resetRequired' = FALSE
  /\ UNCHANGED <<ledgerRevision, projectFate, vectorDisk, vectorShared, refresher,
                 vectorReader, vectorHistory>>

-----------------------------------------------------------------------------
(* delete_project_memory_vector_index, in a journalled project deletion.    *)

MarkDeleted(t) ==
  /\ projectFate # "deleted" /\ ~StoreHeld
  /\ Move(t, "idle", "marked")
  /\ projectFate' = "deleting"
  /\ deletedRegistry' = TRUE
  /\ owed' = 0
  /\ UNCHANGED <<ledgerRevision, resetRequired, vectorDisk, latestRevision,
                 pendingRefresh, refreshLease, refresher, vectorReader,
                 forgotten, unflagged>>

RemovePending(t) ==
  /\ Move(t, "marked", "unqueued")
  /\ pendingRefresh' = 0
  /\ UNCHANGED <<vectorDurable, latestRevision, refreshLease, deletedRegistry,
                 refresher, vectorReader, vectorHistory>>

RemoveLatest(t) ==
  /\ Move(t, "unqueued", "unlisted")
  /\ latestRevision' = 0
  /\ UNCHANGED <<vectorDurable, pendingRefresh, refreshLease, deletedRegistry,
                 refresher, vectorReader, vectorHistory>>

RemoveProjectVectors(t) ==
  /\ ~GateHeld
  /\ Move(t, "unlisted", "idle")
  /\ RemoveRoot
  /\ projectFate' = "deleted"
  /\ UNCHANGED <<ledgerRevision, resetRequired, vectorShared, refresher, vectorHistory>>

-----------------------------------------------------------------------------
\* The process dies: locks, registries, threads and leases are gone.
VectorCrash ==
  /\ latestRevision' = 0 /\ pendingRefresh' = 0
  /\ refreshLease' = FALSE /\ deletedRegistry' = FALSE
  /\ vectorThread' = [t \in VectorThreads |-> IdleThread]
  /\ refresher' = RefresherOff
  /\ vectorReader' = [r \in VectorReaders |-> NoSnapshot]
  /\ unflagged' = (unflagged \/ \E t \in VectorThreads : vectorThread[t].at = "forgotten")
  /\ owed' = 0
  /\ UNCHANGED <<vectorDurable, forgotten>>

VectorNext ==
  \/ \E t \in VectorThreads :
       \/ HoldLedger(t) \/ CheckDeleted(t) \/ RegisterRevision(t)
       \/ InsertPending(t) \/ SpawnRefresher(t)
       \/ DeleteMemory(t) \/ FlagReset(t) \/ RetireSession(t) \/ ResumeReset(t)
       \/ NoteRevision(t) \/ DropOlderPending(t) \/ PurgeHistory(t) \/ ClearReset(t)
       \/ MarkDeleted(t) \/ RemovePending(t) \/ RemoveLatest(t)
       \/ RemoveProjectVectors(t)
  \/ TakePending \/ CheckTaken \/ PrepareRefresh \/ EnterGate
  \/ StageGeneration \/ PublicationFails \/ PublishGeneration
  \/ \E r \in VectorReaders : OpenSnapshot(r) \/ DropSnapshot(r)
  \/ VectorCrash

VectorSpec == VectorInit /\ [][VectorNext]_vectorVars

-----------------------------------------------------------------------------
(* Properties.                                                             *)

\* Once the reset of a deletion is done, no generation that still holds the
\* deleted memory is on disk, and none appears later: not from a refresh that
\* was prepared before the deletion, not after a crash and not from a retained
\* or an unpublished generation (publish under the gate against
\* reset_project_memory_vector_index).  The exception is a crash between the
\* deletion's commit and the write that flags the reset.
ForgottenStaysForgotten ==
  \/ resetRequired \/ unflagged
  \/ \E t \in VectorThreads : vectorThread[t].at = "forgotten"
  \/ \A g \in generations : g.rev >= forgotten

\* No vectors of a deleted project are left or written later by a refresh that
\* was under way (delete_project_memory_vector_index).
DeletedProjectHasNoVectors == projectFate = "deleted" => generations = {}

\* Both: what the user deletes, a memory or a project, stays out of the index.
DeletedStaysDeleted == ForgottenStaysForgotten /\ DeletedProjectHasNoVectors

\* A pending refresh is never stranded: the loop that holds the lease will
\* look again, or the thread that queued it is about to ask for the lease
\* (the lease is returned before the queue is unlocked).
PendingHasARefresher ==
  /\ pendingRefresh # 0 =>
       refreshLease \/ \E t \in VectorThreads : vectorThread[t].at = "queued"
  /\ refreshLease <=> refresher.at # "off"

\* A snapshot stays readable and current stays complete: only a purge of the
\* whole root removes a generation that is leased or that CURRENT names.
SnapshotStaysWhole ==
  \A id \in {currentPointer} \cup
            {vectorReader[r].gen : r \in {s \in VectorReaders : ~vectorReader[s].purged}} :
    id # 0 => \E g \in generations : g.id = id

\* No scheduled refresh of a live project is lost: when nobody is at work any
\* more, the newest scheduled revision is published, unless its own refresh
\* failed or an older request, registered before it, overwrote it in the queue
\* (in schedule_project_memory_vector_refresh the revision and the queue have a
\* lock each).
NewestIsIndexed ==
  (/\ projectFate = "live"
   /\ pendingRefresh = 0 /\ ~refreshLease
   /\ \A t \in VectorThreads : vectorThread[t].at = "idle")
  => owed = 0

\* Both: a refresh under way has somebody to carry it out, and is carried out.
NoRefreshIsLost == PendingHasARefresher /\ NewestIsIndexed
=============================================================================
