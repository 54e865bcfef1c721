------------------------- MODULE KnowledgeGenerations -------------------------
(***************************************************************************)
(* The workspace knowledge index: generations on disk, the pointer to the  *)
(* current one, the cache of an opened one, and the operations that build, *)
(* publish and read them.                                                  *)
(*                                                                         *)
(* A generation is a directory of four files and a manifest; its number    *)
(* stands for its id, which grows with time.  It is published by renaming  *)
(* a pointer file under the workspace's write lock, and older ones nobody  *)
(* has open are then collected under the same lock.  Generation 0 is the   *)
(* legacy index, here an empty one.                                        *)
(*                                                                         *)
(* A manual operation (index, search, answer) can be cancelled.  Whatever  *)
(* it writes, it writes inside a commit window, which cancellation cannot  *)
(* enter; the window of an indexing or a last window ends the operation's  *)
(* cancellable life, the others give it back.  An automatic preparation    *)
(* ("auto") has no window: it belongs to a run and is only interrupted.    *)
(***************************************************************************)
EXTENDS Naturals, FiniteSets, FiniteSetsExt

CONSTANTS
  Operations,        \* threads that run one operation at a time
  RetainedPrevious,  \* complete generations kept beside the current one
  MaxGenerations,    \* bound on generations ever created
  MaxTouches,        \* bound on changes of the workspace
  MaxStarts,         \* bound on operations started
  MaxKnowledgeFaults \* bound on failed file operations and crashes

ASSUME KnowledgeAssumption ==
  RetainedPrevious \in Nat /\ MaxGenerations \in Nat /\ MaxTouches \in Nat
  /\ MaxStarts \in Nat /\ MaxKnowledgeFaults \in Nat

VARIABLES
  workspace,   \* version of the workspace's text
  disk,        \* generations on disk: [id, of, whole]; of is the version indexed
  current,     \* the generation the pointer file names
  created,     \* generations ever created
  cached,      \* generation of the opened index in the cache, or 0
  indexLock,   \* operations inside the workspace's index lock: none or one
  oper,        \* the operation of each thread
  started, knowledgeFaults

knowledgeVars == <<workspace, disk, current, created, cached, indexLock, oper,
                   started, knowledgeFaults>>

NoOper == [kind |-> "none", at |-> "idle", phase |-> "Cancellable", seen |-> 0,
           snap |-> 0, own |-> 0, of |-> 0, status |-> "none"]

KnowledgeInit ==
  /\ workspace = 1 /\ disk = {} /\ current = 0 /\ created = 0 /\ cached = 0
  /\ indexLock = {}
  /\ oper = [o \in Operations |-> NoOper]
  /\ started = 0 /\ knowledgeFaults = 0

(***************************************************************************)
(* Generations.                                                            *)
(***************************************************************************)
WholeIds == {g.id : g \in {d \in disk : d.whole}}
VersionOf(g) == LET d == CHOOSE d \in disk : d.id = g IN d.of

\* Generations some adapter has open: a lease on the path of its index.
Leased == {oper[o].snap : o \in Operations} \cup {oper[o].own : o \in Operations}
          \cup {cached}

\* The newest ones besides the current, as many as are retained.
Retained(g) ==
  {g} \cup {h \in WholeIds \ {g} :
              Cardinality({k \in WholeIds \ {g} : k > h}) < RetainedPrevious}

\* Fault: leases do not protect what somebody has open.
DoomedUnleased(g) == WholeIds \ Retained(g)
Doomed(g) == (WholeIds \ Retained(g)) \ Leased

\* The write lock is held from the rename to the end of the collection.
WriteLocked == \E o \in Operations : oper[o].at = "collect"

(***************************************************************************)
(* How an operation moves.                                                 *)
(***************************************************************************)
Manual(o) == oper[o].kind # "auto"
Cancelled(o) == oper[o].phase = "Cancelled"
OperTo(o, at) == oper' = [oper EXCEPT ![o].at = at]
KeepFiles == UNCHANGED <<workspace, disk, current, created, cached>>
Unlocked(o) == indexLock' = indexLock \ {o}

\* The worker returns an error: the lock is left, a pending generation dropped
\* with its directory, and an open commit window gives cancellation back.
ReturnError(o) ==
  /\ oper' = [oper EXCEPT ![o].at = "failed", ![o].own = 0, ![o].snap = 0,
                          ![o].phase = IF @ = "CommitWindow" THEN "Cancellable" ELSE @]
  /\ disk' = {d \in disk : d.id # oper[o].own}
  /\ Unlocked(o)
  /\ UNCHANGED <<workspace, current, created, cached, started>>

FileFault ==
  /\ knowledgeFaults < MaxKnowledgeFaults
  /\ knowledgeFaults' = knowledgeFaults + 1

\* Where the worker looks whether it was cancelled or interrupted.
Checkpoints == {"lock", "decide", "pending", "build", "ready"}

ObserveCancel(o) ==
  /\ oper[o].at \in Checkpoints
  /\ Cancelled(o) \/ oper[o].kind = "auto"
  /\ ReturnError(o)
  /\ UNCHANGED knowledgeFaults

(***************************************************************************)
(* The steps of an operation.                                              *)
(***************************************************************************)
RegisterOperation(o, kind) ==
  /\ oper[o].at = "idle"
  /\ started < MaxStarts
  /\ started' = started + 1
  /\ oper' = [oper EXCEPT ![o] = [NoOper EXCEPT !.kind = kind,
                !.at = IF kind = "index" THEN "lock" ELSE "path"]]
  /\ KeepFiles
  /\ UNCHANGED <<indexLock, knowledgeFaults>>

\* cached_workspace_knowledge_snapshot_for: the path is read with no lock ...
ReadActivePath(o) ==
  /\ oper[o].at \in {"path", "again"}
  /\ oper' = [oper EXCEPT ![o].seen = current,
                          ![o].at = IF @ = "path" THEN "snapshot" ELSE "resnapshot"]
  /\ KeepFiles
  /\ UNCHANGED <<indexLock, started, knowledgeFaults>>

\* ... and the cached index is taken when it has that path, or the active one is
\* opened under the read lock.  A hit needs no index, the first time.
TakeSnapshot(o) ==
  LET hit == cached # 0 /\ cached = oper[o].seen
  IN /\ oper[o].at \in {"snapshot", "resnapshot"}
     /\ hit \/ ~WriteLocked
     /\ oper' = [oper EXCEPT ![o].snap = IF hit THEN cached ELSE current,
                             ![o].at = IF @ = "resnapshot" \/ hit THEN "ready" ELSE "lock"]
     /\ KeepFiles
     /\ UNCHANGED <<indexLock, started, knowledgeFaults>>

EnterWithoutLock(o) ==
  /\ oper[o].at = "lock" /\ ~Cancelled(o)
  /\ indexLock' = indexLock \cup {o}
  /\ OperTo(o, "decide")
  /\ KeepFiles
  /\ UNCHANGED <<started, knowledgeFaults>>

EnterIndexLock(o) ==
  /\ oper[o].at = "lock" /\ ~Cancelled(o)
  /\ indexLock = {}
  /\ indexLock' = {o}
  /\ OperTo(o, "decide")
  /\ KeepFiles
  /\ UNCHANGED <<started, knowledgeFaults>>

\* Inside the lock the active index is opened again.  A fresh one is used; else,
\* and always for "index", the workspace is scanned.
DecideIndex(o) ==
  LET fresh == oper[o].kind # "index" /\ current # 0 /\ VersionOf(current) = workspace
  IN /\ oper[o].at = "decide" /\ ~Cancelled(o)
     /\ ~WriteLocked
     /\ oper' = [oper EXCEPT ![o].snap = current, ![o].of = workspace,
                             ![o].at = IF fresh THEN "caching" ELSE "pending"]
     /\ indexLock' = IF fresh THEN indexLock \ {o} ELSE indexLock
     /\ KeepFiles
     /\ UNCHANGED <<started, knowledgeFaults>>

CreatePending(o) ==
  /\ oper[o].at = "pending" /\ ~Cancelled(o)
  /\ created < MaxGenerations
  /\ created' = created + 1
  /\ disk' = disk \cup {[id |-> created + 1, of |-> oper[o].of, whole |-> FALSE]}
  /\ oper' = [oper EXCEPT ![o].own = created + 1, ![o].at = "build"]
  /\ UNCHANGED <<workspace, current, cached, indexLock, started, knowledgeFaults>>

\* The four files are written with a checkpoint after each; then the commit window
\* opens, unless the operation was cancelled.
BeginCommit(o) ==
  /\ oper[o].at = "build"
  /\ oper[o].phase = "Cancellable"
  /\ oper' = [oper EXCEPT ![o].at = "manifest",
                          ![o].phase = IF Manual(o) THEN "CommitWindow" ELSE @]
  /\ KeepFiles
  /\ UNCHANGED <<indexLock, started, knowledgeFaults>>

WriteManifest(o) ==
  /\ oper[o].at = "manifest"
  /\ disk' = {IF d.id = oper[o].own THEN [d EXCEPT !.whole = TRUE] ELSE d : d \in disk}
  /\ OperTo(o, "rename")
  /\ UNCHANGED <<workspace, current, created, cached, indexLock, started, knowledgeFaults>>

RenamePointer(o) ==
  /\ oper[o].at = "rename"
  /\ ~WriteLocked
  /\ current' = oper[o].own
  /\ OperTo(o, "collect")
  /\ UNCHANGED <<workspace, disk, created, cached, indexLock, started, knowledgeFaults>>

\* The doomed ones go, newest first; a failure leaves one of them in part and the
\* older ones whole, and is only logged.  The window is completed.
Collect(o) ==
  LET doomed == Doomed(oper[o].own)
  IN /\ oper[o].at = "collect"
     /\ \/ disk' = {d \in disk : d.id \notin doomed} /\ UNCHANGED knowledgeFaults
        \/ \E g \in doomed :
             /\ FileFault
             /\ disk' = {IF d.id = g THEN [d EXCEPT !.whole = FALSE] ELSE d :
                           d \in {d \in disk : d.id \notin doomed \/ d.id <= g}}
     /\ oper' = [oper EXCEPT ![o].at = "caching", ![o].snap = oper[o].own,
                   ![o].own = 0,
                   ![o].phase = CASE oper[o].kind = "index" -> "Finalized"
                                  [] oper[o].kind = "auto" -> @
                                  [] OTHER -> "Cancellable"]
     /\ Unlocked(o)
     /\ UNCHANGED <<workspace, current, created, cached, started>>

\* A file operation fails while building or publishing.
BuildFails(o) ==
  /\ oper[o].at \in {"decide", "pending", "build", "manifest", "rename"}
  /\ FileFault
  /\ ReturnError(o)

\* cache_rag_adapter: only the index of the active generation is cached.
CacheAdapter(o) ==
  /\ oper[o].at = "caching"
  /\ ~WriteLocked
  /\ cached' = IF oper[o].snap = current THEN current ELSE cached
  /\ OperTo(o, "again")
  /\ UNCHANGED <<workspace, disk, current, created, indexLock, started, knowledgeFaults>>

\* The store is written in a window of its own: an answer records its sources and
\* its request in windows that give cancellation back, the last window does not.
\* An indexing operation already finalized writes with no window.
OpenStoreWindow(o, at) ==
  /\ oper[o].at = "ready"
  /\ oper[o].kind \in {"search", "answer"} /\ oper[o].phase = "Cancellable"
  /\ at = "record" => oper[o].kind = "answer"
  /\ oper' = [oper EXCEPT ![o].at = at, ![o].phase = "CommitWindow"]
  /\ KeepFiles
  /\ UNCHANGED <<indexLock, started, knowledgeFaults>>

RecordAndResume(o) ==
  /\ oper[o].at = "record"
  /\ oper' = [oper EXCEPT ![o].at = "ready", ![o].phase = "Cancellable"]
  /\ KeepFiles
  /\ UNCHANGED <<indexLock, started, knowledgeFaults>>

RecordAndFinalize(o) ==
  /\ \/ oper[o].at = "finish"
     \/ oper[o].at = "ready" /\ oper[o].kind \in {"index", "auto"}
  /\ oper' = [oper EXCEPT ![o].at = "succeeded", ![o].phase =
                IF Manual(o) THEN "Finalized" ELSE @]
  /\ KeepFiles
  /\ UNCHANGED <<indexLock, started, knowledgeFaults>>

StoreFails(o) ==
  /\ oper[o].at \in {"record", "finish", "ready"}
  /\ FileFault
  /\ ReturnError(o)

\* run_rag_operation: the outcome is named, then the registration is dropped.
ReportStatus(o) ==
  /\ oper[o].at \in {"succeeded", "failed"} /\ oper[o].status = "none"
  /\ oper' = [oper EXCEPT ![o].status =
                CASE oper[o].at = "succeeded" -> "completed"
                  [] Cancelled(o) -> "cancelled"
                  [] OTHER -> "failed"]
  /\ KeepFiles
  /\ UNCHANGED <<indexLock, started, knowledgeFaults>>

Unregister(o) ==
  /\ oper[o].status # "none"
  /\ oper' = [oper EXCEPT ![o] = NoOper]
  /\ KeepFiles
  /\ UNCHANGED <<indexLock, started, knowledgeFaults>>

(***************************************************************************)
(* The user, the tools, time and crashes.                                  *)
(***************************************************************************)
\* Fault: a cancellation is accepted in any phase.
CancelAlways(o) ==
  /\ oper[o].kind \in {"index", "search", "answer"}
  /\ oper[o].phase \in {"Cancellable", "CommitWindow"}
  /\ oper' = [oper EXCEPT ![o].phase = "Cancelled"]
  /\ KeepFiles
  /\ UNCHANGED <<indexLock, started, knowledgeFaults>>

CancelOperation(o) ==
  /\ oper[o].kind \in {"index", "search", "answer"}
  /\ oper[o].phase = "Cancellable"
  /\ oper' = [oper EXCEPT ![o].phase = "Cancelled"]
  /\ KeepFiles
  /\ UNCHANGED <<indexLock, started, knowledgeFaults>>

TouchWorkspace ==
  /\ workspace <= MaxTouches
  /\ workspace' = workspace + 1
  /\ UNCHANGED <<disk, current, created, cached, indexLock, oper, started, knowledgeFaults>>

\* A tool that wrote the workspace invalidates the cache, and so does its age.
InvalidateCache ==
  /\ cached # 0
  /\ cached' = 0
  /\ UNCHANGED <<workspace, disk, current, created, indexLock, oper, started,
                 knowledgeFaults>>

CrashIndexer ==
  /\ \E o \in Operations : oper[o].at # "idle"
  /\ FileFault
  /\ oper' = [o \in Operations |-> NoOper]
  /\ indexLock' = {} /\ cached' = 0
  /\ UNCHANGED <<workspace, disk, current, created, started>>

KnowledgeNext ==
  \/ \E o \in Operations :
       \/ \E kind \in {"index", "search", "answer", "auto"} : RegisterOperation(o, kind)
       \/ ReadActivePath(o) \/ TakeSnapshot(o) \/ EnterIndexLock(o) \/ DecideIndex(o)
       \/ CreatePending(o) \/ BeginCommit(o) \/ WriteManifest(o) \/ RenamePointer(o)
       \/ Collect(o) \/ BuildFails(o) \/ CacheAdapter(o)
       \/ \E at \in {"record", "finish"} : OpenStoreWindow(o, at)
       \/ RecordAndResume(o) \/ RecordAndFinalize(o) \/ StoreFails(o)
       \/ ReportStatus(o) \/ Unregister(o) \/ ObserveCancel(o) \/ CancelOperation(o)
  \/ TouchWorkspace \/ InvalidateCache \/ CrashIndexer

KnowledgeSpec == KnowledgeInit /\ [][KnowledgeNext]_knowledgeVars

-----------------------------------------------------------------------------
\* The pointer file names a whole generation from the first publication on,
\* through failures and crashes between the manifest, the rename and the
\* collection: no reader ever falls back to the legacy index.
PublishedIsWhole == current # 0 => current \in WholeIds

\* What an operation or the cache has open stays whole on disk while it is open,
\* although other operations publish and collect.
SnapshotIsWhole ==
  /\ cached # 0 => cached \in WholeIds
  /\ \A o \in Operations : oper[o].snap # 0 => oper[o].snap \in WholeIds

\* Both: what can be opened and what is open are whole.
GenerationsInUseAreWhole == PublishedIsWhole /\ SnapshotIsWhole

\* Once a cancellation has been accepted nothing more is written for the
\* operation: it is in no commit window and does not succeed.
CancelledWritesNothing ==
  \A o \in Operations : Cancelled(o) =>
    oper[o].at \notin {"manifest", "rename", "collect", "record", "finish", "succeeded"}

\* A publication never replaces an index by one of an older scan of the
\* workspace, whichever operation scanned first.
IndexNeverGoesBack ==
  [][current' # current /\ current # 0 =>
       /\ current' > current
       /\ \E d, e \in disk : d.id = current /\ e.id = current' /\ d.of <= e.of]_knowledgeVars
=============================================================================
