# Cindx agent runtime: TLA+ models, model checks and proofs

Cindx is a local desktop coding agent (Rust workspace under `crates/`, Tauri
application under `apps/desktop/src-tauri`). A user talks to a session; a
session runs one agent at a time; a run calls models and tools against budgets,
asks for permission, accepts new guidance ("steers") while it works, survives
pauses and restarts, and leaves a transcript, a memory, an index and an undo
history behind.

This directory models the part of the program where that goes wrong silently:
the shared and the stored state that several threads, callbacks, failures and
restarts change. Paths below are relative to the repository; `src-tauri/` stands
for `apps/desktop/src-tauri/src/`. `PROJECT.json` maps every definition to its
source lines.

## 1. Inventory

### How the parts interact

```
 user, schedules ──commands──► session queue ──starts──► run (one per session)
   │    │                         ▲   │steer                │
   │    │ cancel, answers         │   ▼                     ▼
   │    └────────────────────► AgentRunControl ◄──── agent loop, stages,
   │                           (one mutex)           subagents, tools
   │                            │ budgets, clocks, epochs      │ permission
   │                            │ resource ledger ─checkpoint─┐│ requests
   │                            ▼                             ▼▼
   │                       terminal commit ──────────────► event store
   │                            │                             │ derived rows
   ▼                            ▼                             ▼
 catalog, journals      semantic memory queue ──► memory ledger ──► vectors
 (fork, delete)                                   knowledge index, undo stack
```

Everything a run does passes through `AgentRunControl`
(`crates/agent-runtime/src/control*.rs`), an object behind one mutex. Callers
sample its steer epoch, work without the lock, and come back with the epoch they
sampled. Durable writes run as closures under that mutex, into an event store
whose transactions are atomic. The desktop layer adds more locks: the
`session_lifecycle_gate`, the harness registry of active runs, an exclusive key
per dispatching session, one store mutex, one lock per background registry. The
catalog of sessions, the schedules, the vector and the knowledge generations are
files of their own, so an operation that touches two of them is never atomic.

### Components

| component | state it keeps | operations | what is hard | what makes it correct |
|---|---|---|---|---|
| run control: lifecycle, steering (`control.rs`, `control_steer*.rs`) | phase, stop reason, cancel flag, steer epochs, pending steers, partial output, candidates | cancel, stop, preparation and execution commits, steer request and application, terminal commit, retry | late commits of workers that sampled an old epoch; terminal commit against steer and cancel | durable work is for the newest applied guidance; nothing follows the terminal commit; a stop is final |
| run control: budgets, clocks (`control_progress.rs`, `run_budget.rs`, `control_goal_delta.rs`) | calls, turns, repairs, limits, goal deltas, stage usage, clocks | begin and finish a model call, stage call, turn, repair, tool; goal delta; directive | budgets that grow with progress; the final answer's reserve; directive and admission | headroom is earned once; the final answer is never starved; a run ends |
| run control: tool admission (`control_tool_batch.rs`, `control_tool_continuation.rs`) | tool count, limit, per-scope guard | serial and batched admission, continuation lease, external calls | a batch decides at once what the serial path decides call by call | same decision; no executed cycle |
| resource ledger (`resource_ledger.rs`, `control_resources.rs`, `src-tauri/agent_resource_snapshot.rs`, `model_resource_runtime.rs`) | reserved, settled and pending attempts; durable checkpoint | reserve, settle, checkpoint, restore | concurrent reservations; checkpoints written out of order; crash between reservation, dispatch, settlement; late answers | sums balance; ceiling and final reserve hold; a sent attempt is in the checkpoint |
| permission requests, resume and recovery (`src-tauri/agent_commands/permission/`, `agent_recovery_service.rs`, `agent_permission_recovery.rs`, `guardian_runtime.rs`) | requests and answers, observations, recovery envelope, runtime snapshot, suspended run | ask, review, answer, grant, claim, resume, reconcile, retry | an answer is six durable writes around a tool call; cancel, expiry, failure or crash between any two | an approved tool runs once; a denial is not forgotten; an answered run moves on |
| session queue (`src-tauri/agent_commands/queue.rs`, `queue_service.rs`) | queued messages, mode, text, order; dispatch lease | enqueue, edit, delete, steer, dispatch, restore | a dispatch does not hold the gate between its store accesses | no message lost or delivered twice; one dispatcher |
| session run entry points (`agent_commands/task.rs`, `agent_steer_runtime.rs`, `suspended_run_runtime.rs`, `crates/agent-harness`) | registered run, suspended run, durable run status | start, retry, cancel, permission resume, plan pause | registration, event and status change in separate steps | a deleted session is quiet; a dispatch waits for its own run |
| session catalog and lifecycle journal (`session_commands.rs`, `project_commands.rs`, `project_lifecycle_runtime.rs`, `managed_artifact_lifecycle.rs`) | catalog file, journals, events, attachments, artefacts | create, select, archive, fork, delete, recover | a fork or delete spans four stores and may stop between any two steps | nothing orphaned; nothing taken from a listed session |
| event log and derived rows (`crates/agent-storage`, `session_projection.rs`, `session_output_cache.rs`, `memory_projection_runtime.rs`) | events with sequences, read models, memory ledger row, output cache | append, fork, delete, load, bring forward, recall | rows are trusted by count and highest sequence alone; sequences are reused; recall has no snapshot | a row says what the log says |
| scheduled runs (`schedule.rs`, `schedule_commands.rs`) | schedule records in a file, messages in the log | trigger, dispatch, adopt, reconcile, cancel, edit | records and messages are written apart, under different locks | a recorded run has its message; a run that cannot start is retired |
| memory vector refresh (`memory_vector_refresh_*.rs`, `memory_vector_generation_runtime.rs`) | latest revision, pending refresh, in-flight lease, generations, readers | schedule, refresh, publish, collect, purge | four locks; refreshes prepared before a deletion | deleted memory does not come back; no refresh is lost |
| knowledge generations (`knowledge_generation_runtime.rs`, `knowledge_runtime.rs`, `rag_operation_runtime.rs`) | generations, pointer, reader leases, operations | index, publish, collect, cancel, query | collection against readers; cancel against the commit window; crash while publishing | what is open is whole; a cancelled operation writes nothing |
| workspace undo and redo (`workspace_undo_runtime.rs`) | undo registry and the files | record, undo, redo, sweep | files first, registry second; other writers | files follow the registry |
| semantic memory queue (`loss_aware_work_queue.rs`, `semantic_memory_*.rs`, `background_work_runtime.rs`) | job queue with identities and metrics, `worker_started`, the worker's loop | schedule, claim, retry, drain, finish | start and finish of the worker against new jobs; preemption; backoff; exit | each job in one place; one worker; an accepted job is handled |
| agent loop, terminal commit, subagents | the run they drive | turn, batch, delegate, commit | seen through the controls above | |
| kernel and tools, context compiler, task contract and evidence, effort planner, provider, RAG and graph ranking, MCP, skills, eval, core types, React interface | mostly none that is shared | | text, wire formats, I/O | seen by the modelled parts as inputs |

The statuses and reasons are in `PROJECT.json` under `components`, the hazards,
each at its line, under `hazards`.

## 2. Modules

| module | models | composition |
|---|---|---|
| `SteeringPromise` | what a user who steers a run is promised (abstract) | implemented by `RunControl` |
| `RunControl` | lifecycle half of `AgentRunControl` | instantiates `SteeringPromise` with a refinement mapping |
| `Budgets` | the arithmetic shared by all budgets: extension, headroom, segment | used by the next three |
| `ToolGuard` | admission of one tool call: budget, identical-call and cycle guard, lease (pure operators) | extends `Budgets` |
| `ToolBatch` (`MCToolBatch`) | tool admission over a run, serial against batched | extends `ToolGuard` |
| `ToolBatchProofs` | theorems about `ToolBatch` | extends it |
| `RunMetering` | metering half of `AgentRunControl` | extends `Budgets` |
| `RunMeteringProofs` | theorems about `RunMetering` | extends it |
| `PermissionResume` | permission requests, their answers, and how a waiting, interrupted or retried run goes on | |
| `RunStepsProofs` | theorems about `RunControl` and `PermissionResume` | extends both |
| `ResourceLedger` (`MCResourceLedger`) | ledger, callers, checkpoint, restart | |
| `ResourceLedgerProofs` | theorems about `ResourceLedger` | extends it |
| `QueuePromise` | what the user who leaves messages in the queue is promised (abstract) | implemented by `SessionQueue` |
| `SessionQueue` | queue, dispatchers, run registration, suspended store, deletion, crash | instantiates `QueuePromise` with a refinement mapping |
| `SessionCatalog` | catalog, journals, fork, delete, recovery | |
| `EventProjections` | event log, derived rows, recall | |
| `SessionStoresProofs` | theorems about `SessionCatalog`, `EventProjections` and `SessionQueue` | extends all three |
| `ScheduledRuns` | one schedule, its records, its messages | |
| `VectorRefresh` | refresh coordinator, generations, readers, deletion | |
| `KnowledgeGenerations` | index operations, pointer, leases, collection | |
| `GenerationsProofs` | theorems about `KnowledgeGenerations` and `VectorRefresh` | extends both |
| `WorkspaceUndo` | undo and redo of file groups | |
| `MemoryWorker` | memory queue, schedulers, worker threads, idle wait | |
| `MemoryWorkerProofs` | theorems about `MemoryWorker` | extends it |
| `BackgroundWorkProofs` | theorems about `WorkspaceUndo` and `ScheduledRuns` | extends both |
| `MCRunSteps` | `RunControl`, `PermissionResume` | union for TLC |
| `MCSessionStores` | `SessionCatalog`, `EventProjections`, `SessionQueue` | union for TLC |
| `MCBackgroundWork` | `ScheduledRuns`, `VectorRefresh`, `KnowledgeGenerations`, `WorkspaceUndo` | union for TLC |

A union module puts protocols that share no variable into one run: a variable
says which of them is at work, a behaviour exercises that one while the others
rest, and the state spaces add up instead of multiplying. `MCToolBatch` and
`MCResourceLedger` only add symmetry sets. Operators whose comment starts with
"Fault:" or "Mutant:" are deliberately wrong versions of the definition below
them. `PROJECT.json` names, for every property, the one that breaks it; no
specification uses them.

### RunControl and SteeringPromise

One action per handler, because each handler holds the mutex for its whole body,
commit closure included: `RequestCancel`, `RequestStop`, `RefreshStopReason`
(the first line of every handler, when it finds an expired clock),
`CommitStartCheckpoint`, `BeginPreparation`, `CommitPreparationCheckpoint`,
`CommitPreparation`, `CommitPreparationTerminal`, `CommitSteerRequest`,
`CommitPendingSteers`, `CommitExecutionStep`, `CommitTerminalResult`,
`RecordPartialOutput`, `RecordBestKnownResult`, `ContinueStoppedRun`. Callers
bring any epoch they may have sampled earlier (`SampledEpochs`), so every
staleness is explored. Closure failures and refusals change nothing: stuttering.
`MeterStop` stands for the stop reasons the metering half sets. `log` is the
sequence of durable commits, each with the epoch it was made for. Texts and
payloads are left out.

`SteeringPromise` has three actions, Accept, Apply, Answer: guidance is accepted
until the run is answered, what was accepted is applied at once, the answer is
for the newest. The mapping takes accepted and applied epochs as they are, and
the answer from the log.

### ToolGuard and ToolBatch

`ToolGuard` translates `begin_tool_call_locked` and
`has_repeated_action_cycle` as operators on a record of counters, budget and
guard. `ToolBatch` adds `AdmitBatch`, which is
`begin_tool_call_batch_with_epoch` as written: it tests the whole budget,
replays the guard on a copy and commits. The actions mix single calls, batches,
leases, calls of delegated children, goal deltas, retries and applied
objectives, so that the comparison of batch and serial path is made in every
state the mixture reaches.

### RunMetering

Model calls (with or without a stage), turns, repairs, tool calls, goal deltas
with overlapping receipts, accepted and applied steers, the terminal commit,
retry and resume, and `Tick`. `phase` summarises the lifecycle half as Active,
Steered or Committed; that summary is what `RunControl`'s `EpochIsCurrent` makes
of it. `Directive` is `continuation_directive`. Stage allocations and the final
reserve follow `run_budget.rs`. `book` is a history variable: who made the calls
and what the current objective earned. Telemetry is left out.

### PermissionResume

One session, one task and its retries. The loop's actions are a turn with its
snapshot, a request (`Ask`), a call a session grant covers (`UseGrant`), the
guardian's answer, a subagent's request and its return, and the ways out of the
loop: `Park`, `PauseLoop`, `LoopStops`, `Complete`. The command that answers is
one action per store access, because `resolve_agent_permission_blocking` drops
the store lock in between: `BeginAnswer`, `Rule`, `RunTool`, `Finish`, `Note`,
`ListSiblings`, `AnswerSibling`, `ApplyHot`, `CheckPending`, `TakeSuspended`,
`Restore`, `Claim`. `StoreFails` breaks any of them, `Fail` is the pause the
command then leaves behind. `CancelTask` and `Evict` happen at any moment,
`Restart` loses the memory and reconciles. The contract and the transcript of a
task state are abstracted to the permission observations it holds and the ones
it had seen in the log, which decides what a rebuilt run replays. A doom-loop
request, the only one that is no tool call, is left out.

### ResourceLedger

Threads of two kinds reserve, checkpoint, dispatch and settle provider attempts:
`Recorders` (owner turns, embeddings) checkpoint before dispatch and after
settlement; `Children` (`controlled_aux_model_call`) do not. The ledger changes
under the control lock, the checkpoint under the store lock; a checkpointing
caller reads the one and then takes the other, so that two callers can write
their copies in the opposite order. The code's revision check is in
`RecordAndDispatch`. Pause, permission wait, retry, crash and recovery are
actions on the run. Tokens are one total per attempt.

### SessionQueue and QueuePromise

One session. A command that holds `session_lifecycle_gate` is one step, and so
is a start, which holds it from registration to its durable start. A queue
dispatch is six steps (`BeginQueueDispatch`, `TakeHead`, `StartTakenMessage` or
`RefuseTakenMessage`, `RestoreUnlessStarted`, `ReleaseLease`), because it owns
only an exclusive key in between. The order of steered messages is left open,
because the stored and the rebuilt read model differ on it. History variables
record what was delivered, erased, lost by a crash, typed and sent.

`QueuePromise` knows nothing of dispatchers, leases, runs and restore checks. A
message is new, waiting, on its way, received or gone; it moves by one step at a
time, one message at most is on its way, a steer batch receives several waiting
ones, a run gets the text saved last, and the session closes when nothing waits.
Two of its steps are weak points of the code, and the promise names them so
that everything else is excluded: `Lose`, a crash between the "start" event and
the start of the run, and `Reclaim`, another start before the restore check
(finding 1). The mapping (`Place`) takes a message as on its way while a dispatch
would put it back: after its "start" event, and on the return, unless the
session's latest run start names it. A message that were in none of the places
would be "nowhere", which no step of the promise allows.

### SessionCatalog

The catalog file is replaced under its lock, so a command on it alone is one
step. A fork reads its source, writes a journal, clones attachments, copies
events and publishes; a delete writes its journal, publishes, retires artefacts,
cleans the store and the directories and removes the journal. Each of these is an
action of the command's thread that may also fail, and the process may die
between any two; `Boot` is the thread that goes through the journals at
start-up. A session's events are known by the artefacts they refer to and by
whether they refer to an attachment.

### EventProjections

One project's log with several sessions. An event is a session and a sequence;
a derived row is the set of events it was built from with its label (count,
highest sequence). Loading a row, bringing it forward, rebuilding it, saving it,
forking, publishing, rolling back and deleting are one transaction each. A
recall reads count, row and events in three steps and stores the result later,
through `persist_project_memory_snapshot_if_current`.

### ScheduledRuns

Memory and file copies of the records, the messages in the log, the runner that
polls, dispatch threads and command threads. Every lock acquisition is a step;
a save may replace the file or fail. What reconciliation carries between its
locks is part of the thread's state. Time is abstract: an occurrence comes due,
is missed, a backoff expires.

### VectorRefresh

Latest revision, pending refresh, in-flight lease, deleted projects and refresh
gate are separate locks and each access is a step. A generation is a number and
the ledger revision it was built from. Publishing is stage, manifest, pointer,
collection; readers hold leases; a deletion stores its flag and later purges;
a crash loses locks, leases and threads.

### KnowledgeGenerations

Threads run indexing, search and answer operations and automatic preparations,
and cancel the manual ones; an operation's state machine is that of
`rag_operation_runtime.rs`, with its commit windows. A generation on disk is
whole or not and is known by the version of the workspace it indexes; what an
operation or the cache has open is leased. Faults break a publication between
its manifest, its pointer and the collection.

### WorkspaceUndo

A call loads the registry, checks all files of a group, writes them one by one
and commits the stack with a compare-and-swap that is tried three times (two in
the runs); whatever fails is rolled back newest first. Other programs write
files, other connections rewrite the row, the retention sweep removes snapshots,
the process dies.

### MemoryWorker

Each critical section of the queue mutex, each access of `worker_started` and of
`allow_exit` is a step of its own. `scheduler[r]` is where
`schedule_semantic_memory_refresh` is for a completed run, `worker[w]` where the
worker loop is, with its claimed job and the jobs it owes a projection. Time is
what remains of a delay. The idle wait has its own run control, which stops by
itself after `IdleTimeout`; the code reads that as a shutdown and so does the
model. `cancel_pending` has no caller and is left out; a duplicate enqueue
changes nothing.

## 3. Runs

`tlc -config <cfg> <module>`, each under five minutes with two workers.

| run | checks | bounds | distinct states |
|---|---|---|---|
| `run_steps` | control: `CommittedWorkIsCurrent`, `TerminalEndsTheLog`, `SteerQueueIsExact`, `ResultsMatchObjective`, `StopIsFinal`, `ImplementsPromise`; permissions: `ApprovedRunsOnce`, `DenialIsRemembered`, `AnsweredRunMovesOn` | 2 steers, capacity 2, 3 epochs, 5 durable commits; 2 requests and 1 of a subagent, 2 attempts, 1 crash, 1 store failure | 1,277,209 |
| `tool_batches` | `BatchAgreesWithSerial`, `NoCycleIsExecuted`, `ToolHeadroomIsEarned` | 3 signatures, window 6, budget 4 to 7 by 2, batches of 2 and 3, 1 segment | 108,924 |
| `metering` | `FinalizerIsNeverStarved`, `HeadroomIsEarned`, `ProgressIsCreditedOnce`, `ContinueIsHonoured`, `RunEnds` | 3 stage classes, 2 receipts, calls 3 to 4, turns 1 to 2, deadline 2 | 2,336,004 |
| `ledger` | `LedgerBalances`, `CeilingAndReserveHold`, `AttemptsSurviveRestart` | 2 recorders, 1 child, 4 attempts, 6 tokens, reserves 1 and 2, 2 runs, 1 steer | 2,764,793 |
| `session_stores` | catalog: `ResidueIsJournalled`, `CatalogIsWhole`, `HistoryIsKept`; projections: `RowsAgreeWithTheLog`; queue: `ImplementsDelivery`, `DeliveredOnceAsSaved`, `DispatchIsExclusive`, `DeletedSessionIsQuiet` | 3 sessions, 2 projects, 2 threads, 2 forks or deletes, 1 edit, 1 crash; 2 sessions, 4 events, 1 rollback; 2 messages, 2 dispatchers, 1 edit | 1,261,224 |
| `background_work` | schedule: `QueuedRunIsInTheLog`, `RetiresWithoutFaults`; vectors: `DeletedStaysDeleted`, `NoRefreshIsLost`, `SnapshotStaysWhole`; knowledge: `GenerationsInUseAreWhole`, `CancelledWritesNothing`, `IndexNeverGoesBack`; undo: `WorkspaceFollowsRegistry` | 1 dispatch and 1 command thread, cap 2, 2 runs, 1 fault; 2 revisions, 3 generations, 1 reader; 2 threads, 3 operations, 1 change, 1 fault; 2 files, 2 contents, 2 calls, 2 incidents | 3,751,801 |
| `memory_queue` | `QueueIsExact`, `OneWorkerOnePlace`, `ClaimedIsHandled` | 3 jobs, queue of 2, 2 worker threads, 2 attempts, idle timeout 2 | 263,140 |
| `queue_restore` | `NotRestoredAfterStart` (violated) | as the queue above | |
| `memory_stranded` | `AcceptedIsHandled` (violated) | 2 jobs, otherwise the same | |
| `schedule_stuck` | `StuckRunRetires` (violated) | 1 run, cap 1, 1 fault | |
| `undo_half` | `PanelAgreesWithWorkspace` (violated) | 2 files, 1 incident | |
| `permission_stranded` | `WaitingCanBeAnswered` (violated) | 1 request and 1 of a subagent, 1 crash | |

The type invariants are parts of the properties above (`ApprovedRunsOnce`
contains `PermissionTypeOK`, and so on) or of the inductive invariants that
section 5 proves.

Why the bounds are enough to be interesting:

- control: two pending steers fill the queue and make a batch; three epochs
  give two superseded objectives besides the current one; five commits hold a
  start, two steers, an application and work behind it, or a retry after a stop.
- permissions: two requests of one capability are needed for a session grant
  and its sibling, for an answer that is not the last, and for one answered
  twice; the subagent's for an answer beside a running loop. Two attempts give
  one retry of a paused, a cancelled and a reconciled run.
- `tool_batches`: with at most one identical action in a row, cycles of period
  one, two and three need two copies, six actions, the window; the limit is
  reached by a batch that the extension covers fully, partly and not at all.
- `metering`: one and two deltas extend up to the caps; the reserve is reached
  by staged calls; the time reserve begins one tick before the deadline's end; a
  tool call is more patient than an idle run, and steers, retries and resumes
  postpone what they can.
- queue: two messages are enough for an order, for steering one while the
  other is dispatched and for the restore race.
- catalog: three sessions allow a fork of a fork beside its deletion; two threads
  a fork racing a delete of its source; one crash at any step, with recovery.
- projections: four events fill, empty and refill a label, so that a row built
  before a deletion can meet the same count and sequence again.
- schedule: two runs give an active and a finished record; a cap of two gives a
  first and a last attempt; one dispatch and one command beside the runner.
- vectors: two revisions give an older and a newer ledger; the third generation
  makes collection remove one while another is retained and one is read.
- knowledge: three operations of two threads let one publish between the scan
  and the publication of another, and one be cancelled.
- undo: a group of two files is half-done after the first; two calls make a
  stack; two incidents combine another writer with a failure.
- `ledger`: two concurrent writers are needed for checkpoints out of order, the
  child for charges nobody checkpoints; two physical runs for one restart or
  retry; a provider may report more than was reserved.
- `memory_queue`: three jobs overflow a queue of two; two threads let a second
  worker start while the first one leaves; two attempts give one retry and its
  exhaustion.

Symmetry is used in safety runs only. In the union runs protocols that never
meet draw their names from the same set, so that a protocol at rest breaks no
symmetry of another. `CHECK_DEADLOCK FALSE` is set where a finished run, an ended
session or a bound stops the behaviour; `memory_queue` checks deadlock, since the
foreground can always change.

### What the properties say

- **Steering.** Work written after a steer is work for that steer or a newer
  one, which was applied in between (`CommittedWorkIsCurrent`); the pending queue
  is exactly the epochs between applied and accepted (`SteerQueueIsExact`); no
  candidate answer of an older objective survives (`ResultsMatchObjective`); a
  terminal commit is the last (`TerminalEndsTheLog`); a stop is neither replaced
  nor written past, and a retry never lifts a cancellation (`StopIsFinal`).
- **Budgets.** Limits grow by one extension per accepted goal delta of the
  current objective and stay below their caps (`HeadroomIsEarned`,
  `ToolHeadroomIsEarned`); overlapping receipts count once
  (`ProgressIsCreditedOnce`); staged calls never take the final answer's call
  (`FinalizerIsNeverStarved`; embedding calls have no stage and are exempt, as in
  the code); `Continue` is never followed by a refusal of the turn it invites
  (`ContinueIsHonoured`); a run is answered or stopped (`RunEnds`).
- **Tools.** A batch is admitted exactly when its calls would be admitted one by
  one, with the same resulting state (`BatchAgreesWithSerial`); the calls really
  executed contain no cycle, whatever the window forgot (`NoCycleIsExecuted`).
- **Permissions.** A tool that needs permission runs at most once and only with
  an answer, a grant or the guardian behind it (`ApprovedRunsOnce`); a run that
  goes on, hot, rebuilt, reconciled or retried, holds every denial of its task
  (`DenialIsRemembered`, with three exceptions that section 4 names); a session
  that waits has something to answer and a checkpoint to claim, and one that
  counts as running has somebody at work (`AnsweredRunMovesOn`).
- **Resources.** Sums match the attempts in flight and each belongs to one live
  caller (`LedgerBalances`); the ceiling holds up to what providers overran, and
  a final call within the reserve is admitted (`CeilingAndReserveHold`); an
  attempt at the provider is in the durable checkpoint and is charged after a
  crash (`AttemptsSurviveRestart`, about callers that checkpoint).
- **Queue.** A message moves only as `QueuePromise` allows, so that none
  disappears except one that a crash catches between its "start" event and the
  start of its run (`ImplementsDelivery`); none is delivered twice except by the
  restore race below, and each with the text last saved
  (`DeliveredOnceAsSaved`); dispatches exclude each other and wait for their run
  (`DispatchIsExclusive`); a deleted session has no run, no suspended run, no
  dispatch, no message (`DeletedSessionIsQuiet`).
- **Catalog.** Whatever is stored for a session that is not listed is named by a
  journal (`ResidueIsJournalled`); a listed session can be opened whole and the
  selection is open (`CatalogIsWhole`); only a session's own run, fork or
  deletion changes its history (`HistoryIsKept`).
- **Derived rows.** Bringing any stored row forward gives what a rebuild gives,
  although only counts and sequences are compared (`RowsAgreeWithTheLog`).
- **Schedules.** A record names a message the log has (`QueuedRunIsInTheLog`);
  without a crash, a failed save or an overwritten record, a run at the cap is
  retired (`RetiresWithoutFaults`).
- **Vectors.** After a reset no generation holds the deleted memory, nor does one
  appear later (`DeletedStaysDeleted`); when everything is quiet nothing is
  pending (`NoRefreshIsLost`); what a reader holds stays (`SnapshotStaysWhole`).
- **Knowledge.** The pointer and every open reader are at a whole generation
  (`GenerationsInUseAreWhole`); a cancelled operation writes nothing more
  (`CancelledWritesNothing`); an older scan never replaces a newer index
  (`IndexNeverGoesBack`).
- **Undo.** Between calls every file holds what the last tool, outside edit or
  committed undo left (`WorkspaceFollowsRegistry`).
- **Memory.** Identities and metrics are exact (`QueueIsExact`); a job is in one
  place and there is one worker (`OneWorkerOnePlace`); a claimed job is curated or
  projected (`ClaimedIsHandled`).

### Fairness

- `RunMetering!FairSpec`: weak fairness of `Tick` and of `RefreshStopReason`.
  Time passes, and every handler and every poll of `should_stop` begins with
  `refresh_stop_reason_locked`. Nothing is assumed of the model, the user or the
  tools.
- `MemoryWorker!Spec`: weak fairness of each scheduler and each worker thread (a
  spawned thread runs; a provider call ends by its 45 s timeout), strong fairness
  of `Tick` (the foreground cannot change infinitely often within a unit of
  time, and the 80 ms poll sees it before time moves on). Nothing is assumed of
  the foreground or of the user quitting; the liveness properties end at an exit.

## 4. Findings

1. `queue_restore`: whether a dispatched message ran is inferred, after its run
   has returned, from the session's latest start. A direct prompt or a retry that
   starts in between makes a run that happened look as if it had not, and the
   message is put back and dispatched again.
2. `memory_stranded`: a job accepted between the worker's drain and
   `finish_worker` is handled by nobody. The worker takes that exit also without
   a shutdown, because the idle wait's own run control expires after two minutes.
   `docs/CURRENT.md` says no memory is silently dropped.
3. `schedule_stuck`: a queued run at the attempt cap is retired only by the
   dispatch that counted the last attempt. A crash or a failed save in between
   leaves it queued for ever, and the schedule blocked behind it.
4. `undo_half`: a crash after the first file of a group leaves workspace and
   panel in disagreement, against `docs/CURRENT.md`.
5. `permission_stranded`: a subagent's request that outlives its process is
   answered in place, as if its parent still ran; the reconciled run then waits
   with no request left.

The quotations are in `PROJECT.json`.

Seen while modelling, allowed for in the models and excepted in the properties
they touch:

- A batch that exceeds its budget is refused before its signatures are looked
  at, so its stop reason may differ from the serial one; a steered auxiliary call
  is reported as an exhausted budget. Both differ from the comments there.
- Revision and pending vector refresh are updated under two locks: an older
  ledger can replace a newer pending one, and the newer one is then indexed only
  by the next refresh.
- A crash between the transaction that deletes a memory and the write of its
  reset flag leaves the old vectors until another reset.
- The rollback of an unpublished fork deletes its events and leaves a ledger row
  built from them, which counts as current once as many other events follow.
- A reconciliation that read a schedule before its run was retired, or before
  the run took another message, writes "queued" with the old message back. (The
  second case came out of the attempt to prove `RetiresWithoutFaults`.)
- The guardian's approval is stored for the tool's own request id, not for the
  id the request is saved under: the saved request stays pending.
- A denial is forgotten when the handing over to the resumed run fails (the
  pause is written without replaying denials), when it is given while the run is
  paused and its suspended run expires, and when a retry crashes before its first
  snapshot.
- After a failed handing over, the pause counts the pending requests of the whole
  session; one left by an older attempt keeps the run waiting.
- A cancel while an approved tool executes is followed by "resumed": the
  session counts as running, with nobody at work, until the next start.

## 5. Proofs

`tlapm <module>` on the eight proof modules; together about 19,200 obligations.
The theorems hold for every value of the constants that satisfies the named
assumptions; the bounds of the runs are parameters too, so that nothing depends
on their size. The assumptions say that bounds are natural numbers and that a
value standing for "none" is none of the real ones; those that say more are
named below.

Each module goes the same way. The properties are seldom inductive, so that an
invariant is stated that is: the properties, the types, and what the handlers
rely on without checking it. One lemma per action, or per group of actions that
change the state alike, shows that a step keeps it; `<name>Next` or `<name>Step`
puts the cases together, and the theorems follow by `PTL`. Each invariant was
model-checked before it was proved.

**RunControl** (assumption `ControlConstants`: a queue capacity of at least one,
natural bounds), in `RunStepsProofs`. `TypeCorrect` comes first; then `ControlInv`, inductive
together with `TypeOK`: the four properties `SteerQueueIsExact`,
`ResultsMatchObjective`, `TerminalEndsTheLog`, `CommittedWorkIsCurrent`, and
three facts that they need:

- `CancelIsVisible`: a raised cancel flag always stands beside a stop reason;
- `TerminalAgrees` says that the phase is TerminalCommitted exactly when the log
  holds a terminal commit, which is for the newest objective and left no steer
  pending: without it, "the phase refuses" says nothing about the log;
- `SteersAreAccounted` says that each steer in the log up to the applied epoch
  has an "apply" of at least its epoch behind it: without it, a commit with a
  current epoch says nothing about what was applied since.

The step is one lemma per shape of commit (`WorkCommit`, `NonWorkAppend`,
`StartCommit`, `SteerCommit`, `ApplyCommit`, `QuietLog` for steps that write
nothing), used per action in `ControlStep`. `StopIsAlwaysFinal` proves the action
property from the invariant, and `KeepsSteeringPromise` the refinement: initial
states map to initial states, and every step to a step of the promise or a
stutter.

**ToolBatch** (`ToolConstants`, `BatchConstants`: a cap and
a window of at least one, natural bounds), in `ToolBatchProofs`. Both loops, over a batch and
over single calls, are folds over a sequence of any length. The library's
induction theorems cannot be used, so that a fold is first unrolled: `ObserveFold`
and `AdmitFold` show that it is the last of a sequence of intermediate values
with one step of the loop between neighbours. What holds of all of them follows
from the least index at which it fails (`CountingUp`), a set, which the
well-foundedness of the naturals provides.

- `BatchIsSerial` compares the two sequences. The guards agree as long as nothing
  is refused. The limits do not: a batch asks for its last call at once and is
  extended once, the serial path is extended when it gets there. That they meet
  in the end is `HeadroomChain`, and holds because an extension is never granted
  twice for the same progress.
- `BatchInv` is `TypeOK` with `PaidFor`: the limit has grown by no more than the
  progress spent since the segment began, and what is spent is never more than
  what was made. `ToolHeadroomIsEarned` follows; it is not inductive, as it says
  nothing about what is spent.
- `CycleInv`: the executed calls are free of cycles and, until the run stops, the
  window holds the newest of them, all of them until it is full (`Trails`). A
  cycle can then only end at the newest call, and would lie in the window whole
  when that call was asked for (`WindowShowsCycle`). This is where the one
  hypothesis comes in, `WindowHoldsCycles`: three times the copies that make a
  cycle fit in the window. The code's window is 24 and the effort profiles of
  `run_budget.rs` allow 3 or 4 identical actions, at most 15 calls; the run uses a
  window of 6 with 1. With a shorter window the guard could not see what it
  looks for, and the retrieval operations (`rag_operation_runtime.rs`), which set
  the limit to 50,000, turn it off in this way.

**RunMetering** (assumption `MeteringConstants`: the shape of the effort
profiles of `run_budget.rs`, in particular a reserve below the first limit, and
finitely many receipts). `MeterInv` is `TypeOK` with

- `SoundBudget` for model calls and turns: the limit is at most the segment's
  base plus one step for each delta spent since its start, and what is spent lies
  between the start and the count. `HeadroomIsEarned` alone is not inductive,
  since it does not say which deltas were already spent;
- `ReserveKept`: staged calls plus the reserve fit in the limit, which never
  falls below its first value;
- `StagesWithinRun`: no stage counts more calls than the run;
- `ProgressIsCreditedOnce`.

Lemmas about `Headroom` and `OpenSegment` (`HeadroomFacts`, `SegmentFacts`,
`PaidGrowth`) carry the arithmetic; one lemma per kind of action carries the
step. `FinalizerIsNeverStarvedAlways`, `HeadroomIsAlwaysEarned`,
`ProgressIsAlwaysCreditedOnce` and `ContinueIsAlwaysHonoured` follow.

**ResourceLedger** (`BudgetAssumption`: reserves of at least one and within the
limits; `InputAssumption`). The properties need each other, and `LedgerInv` adds
what joins them:

- the type of a ledger (`Ledgers`) says that it balances and that its attempts
  are numbered below `next`, and is required of every copy too, in a caller's
  hands or on disk, since a restart makes any of them the ledger;
- `HandsAgree`: each attempt in flight has exactly one caller;
- `CopiesAreOrdered`: two callers may write their copies in the wrong order. A
  copy with a later revision numbers no fewer attempts, and a copy that could hold
  an attempt in flight does; hence the checkpoint, which refuses an older
  revision, never forgets an attempt;
- `SentAreNumbered`, `SentAreDurable`: the attempts sent since the run began and
  those recorded but not yet sent are different ones, and what a restart would
  find numbers all that were sent. Without the unsent ones in the count, two
  callers between their record and their call could be counted as one;
- `SpendingIsWithin`: the ceiling and the reserve, for the ledger and for every
  copy that a restart may continue in the same segment.

What is reserved is a sum over the attempts in flight. The community module's
fold is unfolded by looking for a smallest set on which a claim about it fails,
which needs no induction theorem with an operator as a parameter; the lemmas say
what the sum becomes when an attempt is added, removed, or all are settled.
`LedgerAlwaysBalances`, `CeilingAlwaysHolds` and `AttemptsAlwaysSurviveRestart`
follow without further hypotheses. `ReserveAlwaysHolds` assumes no more callers
than `PendingLimit` (`MAX_PENDING_RESOURCE_ATTEMPTS`, 64): the code has no cap of
its own on the children that run at once, and with more of them than that the
finalizer can be refused for want of a pending slot while its reserve is there.

**SessionCatalog** (`CatalogNames`), in `SessionStoresProofs`.
`ResidueIsJournalled` is not inductive: a journal whose work is over still names
its sessions, and nothing says that what it named is gone. `CatalogInv` therefore
says what each command knows at the place it has reached:

- `IdsAreIssued`: an id that was never made names nothing, so that the target of
  a fork is empty;
- `CommandIsSound`: until it is published a fork's target is unlisted and holds
  no reference its listed source has lost; the sessions of a delete are its own
  from the journal on, and stay unlisted once it is published;
- `CommandsAreApart`, `TargetsAreOwn`: no other command and no other journal names
  a target that may yet be published; this is what lets recovery and a rollback
  remove what they find without taking a listed session's events;
- `BootIsAlone`: start-up recovery never meets a command, and
  `DeferredAreDeletes`: what it puts off waits only for the memory refresh;
- `ResidueIsCovered`: what is stored of an unlisted session is named by a journal
  that somebody will still act on.

The action property `HistoryIsKept` follows from the same invariant.

**EventProjections** (`ProjectionAssumption`), in `SessionStoresProofs`.
`ProjectionInv` says that a row holds exactly the events up to its label
(`RowsAreExact`), that a recall does while the log has not moved on
(`RecallIsExact`), and that each deletion leaves a higher sequence behind, so that
a label of a count and a sequence cannot be met again by another log. Both are
claimed until a fork is rolled back, as in the property; the types are
claimed always.

**SessionQueue** (`MessagesAssumption`: finitely many messages, since a message's
order of creation is how many were accepted before it), in `SessionStoresProofs`.
`QueueInv` joins the safety invariants, which hold only together: a message is delivered once because one
dispatch at a time holds it, and as it was saved because the copy a dispatch took
cannot be edited behind its back. It adds

- `IdsAgree`: status, registered run and suspended run carry the queue id of the
  latest start or none, so that a retry never revives an older message's id;
- `HandsAreSound`: from its "start" event to its restore check a dispatcher holds
  an accepted message that is out of the queue, in the text last saved, and the
  latest start names it exactly while the run is its own. `RestoreUnlessStarted`
  puts back what `InHand` describes, which is why it loses nothing;
- `QueueHoldsSaved`, `LatestGotSaved`, `OnlyAccepted`: whose text is where.

Besides them, `ReceivedTextIsFinal` proves an action property no
run states: the text a run has received of a message is never replaced by a
second delivery, unless the restore check had put the message back.

`KeepsDeliveryPromise` proves the refinement of `QueuePromise`. It needs one more
invariant, `GoneForGood`: what was deleted or lost is neither queued nor with a
dispatch. One lemma per group of actions (`CommandsDeliver`, `DispatchDelivers`,
`StartsDeliver`, `SteersDeliver`, `CrashDelivers`, `DeletionDelivers`,
`OthersDeliver`) shows which step of the promise it is. The two that need the
invariant most are `StartsDeliver`, where a new start makes a received message
"on its way" again and nothing else, and `CrashDelivers`, where one message is
lost because one dispatch at most has one.

**PermissionResume** (`PermissionNames`, `NoCheckpointAssumption`), in
`RunStepsProofs`. Three invariants, each resting on the one before:

- `OnceInv`, for `ApprovedRunsOnce`: whoever is about to run a tool knows that it
  has not run. An unanswered request has no run behind it
  (`UnansweredIsUnrun`); the loop under review or with a subagent
  (`LoopIsAhead`) and the command between its answer and the run
  (`ResolverIsAhead`) each hold a request nobody else can take;
- `MoveInv`, for `AnsweredRunMovesOn`: status, checkpoint, restart mark and owner
  agree, so that a run nobody works on is left where someone finds it;
- `DenialInv`, for `DenialIsRemembered`: each place a run may go on from gives
  the denials, and what a checkpoint calls seen was in the log when it was saved,
  so that the replay adds exactly what it lacks.

**KnowledgeGenerations** (`KnowledgeAssumption`), in `GenerationsProofs`.
`KnowledgeInv` says what an operation may rely on where it is (`OperOK`): who builds holds the index lock
alone (`LockIsExclusive`), its generation is newer than the pointer and nobody
has it open, so that a failure may remove it, and was scanned no earlier than the
current one, so that a rename only moves the pointer on. The two invariants
follow, and from the same invariant the action property `IndexNeverGoesBack`.

**VectorRefresh** (`VectorBounds`: at least one revision), in `GenerationsProofs`.
`VectorInv` has three parts. `DiskInv`: numbers of generations are distinct, and neither the collection
nor a failed publication takes what a reader or the pointer names. `CarriedInv`:
the newest scheduled revision is in somebody's hands (a thread that registered
it, the queue, the refresher, or a thread whose reset took it out of the queue
and will schedule it again); "nothing is pending when all is quiet" says nothing
about the steps before the quiet. `PurgeInv`: the ledger stands still while a
thread forgets, so that its reset is not skipped as outdated, and older refreshes
are turned away at the gate once it has noted its revision.

**MemoryWorker** (`PolicyAssumption`: capacity, attempts and backoffs are at
least one; `IdleAssumption`). `MemoryInv`: `worker_started` is a token with one
owner, a scheduler that spawns or a worker (`TokenIsUnique`); the known
identities are those of the waiting sequence, pairwise distinct, and of the
worker's hands; waiting, claimed, owed and settled exclude each other
(`PlacesAreApart`). A failed start drains the queue beside a worker that a later
run started, so that what two schedulers drained must be kept apart as well. The
theorems are about the safety part of `Spec`; its fairness is not used.

**WorkspaceUndo** (`UndoBounds`), in `BackgroundWorkProofs`. `UndoInv` says that a
call has written one part of its group and has the other left, without a file in
both; each file is at the goal if it was written and at the origin if not. That
is what makes the commit and the rollback, newest first, both leave files that
agree with the registry. The stack has no entry twice.

**ScheduledRuns** (`ScheduleAssumption`: a cap of at least one), in
`BackgroundWorkProofs`. `ScheduleInv`: what a thread carries between its locks is
true of the log and stays true, since the log only goes on; the thread that keeps
the queue lock finds no active record when it comes back; and while nothing has
failed, an active record that was not overwritten is the last one and, when it
waits after its last attempt, a dispatch that carries its message stands between
that attempt and the write that retires the run. `RecordsNameTheLog` and
`BoundRetiresRuns` follow.

**Only model-checked.**

- `RunEnds` and `ClaimedIsHandled`: liveness under fairness is out of the
  prover's reach.

## 6. Not modelled

- Text, prompts, wire formats, ranking, retrieval, serialisation: no shared
  state, and nothing the models tell apart. This is most of the code by lines:
  the RAG and graph crates, the provider, tools, MCP, skills, evaluation, task
  contract, context compiler, effort planner, core types.
- File, process and network effects of tools; a call is admitted and finishes.
- SQLite: its immediate transactions are the atomic steps of the models.
- Lock poisoning.
- What the resource ledger's children lose in a crash: they never checkpoint,
  so the properties about restarts do not cover them (see `hazards`).
- Which calls need permission: the policy is an input of `PermissionResume`.
- The React interface, which issues the commands that are modelled.

## 7. Plan

Done, in this order: run control and its promise; tool admission; metering;
session queue; resource ledger; memory queue; session catalog; event projections;
scheduled runs; vector refresh; knowledge generations; workspace undo;
permissions and recovery; the proofs of section 5; the promise of the queue.

Next, in order of weight:

1. **Terminal commit store**: `persist_agent_terminal_once` with a crash between
   its parts, implementing the abstract "one terminal record".
2. **Parallel stages**: fan-out, per-child budgets and the choice of a result.
