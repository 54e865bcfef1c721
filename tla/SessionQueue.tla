------------------------------ MODULE SessionQueue ------------------------------
(***************************************************************************)
(* The message queue of one desktop session and the runs it feeds: the     *)
(* queue commands (agent_commands/queue.rs), the start, retry, permission  *)
(* and cancel entries (agent_commands/task.rs), the steer batch of a       *)
(* running agent (agent_steer_runtime.rs), the in-memory store of          *)
(* suspended runs, the two agent-harness registries, session deletion and  *)
(* a crash of the application.                                             *)
(*                                                                         *)
(* Atomicity follows the locks.  A command that holds session_lifecycle_   *)
(* gate is one step; a start holds it from the registration of its control *)
(* until its durable start transaction commits.  A queue dispatch does not *)
(* hold the gate between its steps: it owns a key of an                    *)
(* ExclusiveKeyRegistry instead, and what happens between two of its store *)
(* accesses is what the module is about.                                   *)
(*                                                                         *)
(* The queue is a projection of the session's event log; its order is kept *)
(* only as far as the code fixes it: unsteered messages leave in the order *)
(* of their creation and behind every steered one.  Steered messages leave *)
(* in any order, because the stored read model and the rebuilt one order   *)
(* them differently (by the time of the last event, edits included, and by *)
(* the sequence of the last steer).                                        *)
(***************************************************************************)
EXTENDS Naturals, FiniteSets

CONSTANTS Messages,     \* queue ids
          Dispatchers,  \* threads that run_next_queued_agent_message
          NoMessage,    \* the queue_id of a run that no queue message started
          SteerLimit,   \* 16 in commit_steer_request_with
          MaxMessageEdits      \* bound: edits of one message

ASSUME NoMessageAssumption == NoMessage \notin Messages
ASSUME MessagesAssumption == IsFiniteSet(Messages)
ASSUME OwnersAssumption == "nobody" \notin Dispatchers /\ "command" \notin Dispatchers
ASSUME BoundsAssumption == SteerLimit \in Nat /\ MaxMessageEdits \in Nat

VARIABLES
  session,    \* "open"; "deleting" once deletion is published; "deleted"
  queued,     \* messages in the queue projection
  mode,       \* "queue" or "steer", of each message
  payload,    \* the text the queue holds for each message (its revision)
  age,        \* order of creation; 0 before the message is enqueued
  status,     \* durable run status and the queue_id of the run it is about
  latest,     \* latest_run_queue_id of the read model
  run,        \* the registered run: owner, queue_id, pending steers, stop
  suspended,  \* the session's entry of the suspended run store
  lease,      \* the session is in queue_dispatching_sessions
  dispatch,   \* each dispatcher: where it is, and the message it took
  delivered,  \* history: messages some run durably received
  stale,      \* history: messages put back after a run had received them
  erased,     \* history: messages the user deleted
  lost,       \* history: messages taken by a dispatch that a crash ended
  typed,      \* history: the text the user last saved for each message
  sent        \* history: the text the last run to receive it got

queueVars == <<queued, mode, payload, age>>
historyVars == <<delivered, stale, erased, lost, typed, sent>>
vars == <<session, queueVars, status, latest, run, suspended, lease, dispatch,
          historyVars>>

MaybeMessage == Messages \cup {NoMessage}
Revisions == 0..MaxMessageEdits
Owners == Dispatchers \cup {"command", "nobody"}

\* The records the session keeps, and those of a dispatcher.
Statuses == [kind : {"none", "running", "waiting", "paused", "ended"}, queue : MaybeMessage]
Runs == [owner : Owners, queue : MaybeMessage, pending : SUBSET Messages,
         stop : {"no", "budget", "cancelled", "terminal", "parked"}, resuming : BOOLEAN]
Suspensions == [kept : BOOLEAN, queue : MaybeMessage, pending : SUBSET Messages]
Places == {"idle", "leased", "taken", "running", "returning", "leaving"}
Hands == [at : Places, msg : MaybeMessage, mode : {"queue", "steer"}, text : Revisions]

\* A dispatcher's local state: queue.rs reads the head, writes "start", starts
\* the run, waits for it, checks whether to restore and drops its lease.
Idle == [at |-> "idle", msg |-> NoMessage, mode |-> "queue", text |-> 0]
At(d, pc) == [dispatch EXCEPT ![d].at = pc]

NoRun == [owner |-> "nobody", queue |-> NoMessage, pending |-> {}, stop |-> "no",
          resuming |-> FALSE]
NewRun(owner, message, pending) ==
  [owner |-> owner, queue |-> message, pending |-> pending, stop |-> "no",
   resuming |-> FALSE]
Active == run.owner # "nobody"
\* The registered run is past its registration and executes the agent loop.
Looping == Active /\ ~run.resuming
\* Its control is neither stopped nor terminal; "parked" is a run that has
\* durably paused for the user and whose call has yet to return.
Accepting == Active /\ run.stop \in {"no", "parked"}

NoSuspended == [kept |-> FALSE, queue |-> NoMessage, pending |-> {}]
KeepRun == [kept |-> TRUE, queue |-> run.queue, pending |-> run.pending]

\* The durable run status: "none" before the first run, "ended" for the three
\* terminal ones (completed, failed, cancelled).
Status(kind, message) == [kind |-> kind, queue |-> message]
Ended == Status("ended", NoMessage)

\* A message a dispatcher has taken out of the queue and not yet accounted for.
Held(m) == \E d \in Dispatchers :
             dispatch[d].at \in {"taken", "returning"} /\ dispatch[d].msg = m

\* One that will go back to the queue unless its run starts: a dispatch that is
\* about to return with the latest run start naming it will leave it there.
OnItsWay(m) == \E d \in Dispatchers :
                 /\ dispatch[d].msg = m
                 /\ \/ dispatch[d].at = "taken"
                    \/ dispatch[d].at = "returning" /\ latest # m

---------------------------------------------------------------------------
Init ==
  /\ session = "open"
  /\ queued = {}
  /\ mode = [m \in Messages |-> "queue"]
  /\ payload = [m \in Messages |-> 0]
  /\ age = [m \in Messages |-> 0]
  /\ status = Status("none", NoMessage)
  /\ latest = NoMessage
  /\ run = NoRun
  /\ suspended = NoSuspended
  /\ lease = FALSE
  /\ dispatch = [d \in Dispatchers |-> Idle]
  /\ delivered = {} /\ stale = {} /\ erased = {} /\ lost = {}
  /\ typed = [m \in Messages |-> 0]
  /\ sent = [m \in Messages |-> 0]

---------------------------------------------------------------------------
(* Queue commands.  Each holds the lifecycle gate and the store lock.      *)

\* enqueue_agent_message_inner: queue ids are new, so a message enters once.
Enqueue(m) ==
  /\ session = "open"
  /\ age[m] = 0
  /\ queued' = queued \cup {m}
  /\ age' = [age EXCEPT ![m] = Cardinality({n \in Messages : age[n] > 0}) + 1]
  /\ UNCHANGED <<session, mode, payload, status, latest, run, suspended, lease,
                 dispatch, historyVars>>

\* edit_queued_agent_message_blocking: refused when the message is not queued.
EditQueued(m) ==
  /\ session = "open"
  /\ m \in queued
  /\ payload[m] < MaxMessageEdits
  /\ payload' = [payload EXCEPT ![m] = @ + 1]
  /\ typed' = [typed EXCEPT ![m] = payload[m] + 1]
  /\ UNCHANGED <<session, queued, mode, age, status, latest, run, suspended, lease,
                 dispatch, delivered, stale, erased, lost, sent>>

\* delete_queued_agent_message_blocking; a message that is not queued is left
\* alone and the command succeeds.
DeleteQueued(m) ==
  /\ session = "open"
  /\ m \in queued
  /\ queued' = queued \ {m}
  /\ erased' = erased \cup {m}
  /\ UNCHANGED <<session, mode, payload, age, status, latest, run, suspended, lease,
                 dispatch, delivered, stale, lost, typed, sent>>

\* steer_queued_agent_message_blocking with commit_steer_request_with: only a
\* running control that is neither stopped nor terminal accepts, and the store
\* is checked for the message inside the control's lock.
SteerQueued(m) ==
  /\ session = "open"
  /\ Accepting
  /\ m \notin run.pending
  /\ Cardinality(run.pending) < SteerLimit
  /\ m \in queued
  /\ mode' = [mode EXCEPT ![m] = "steer"]
  /\ run' = [run EXCEPT !.pending = @ \cup {m}]
  /\ UNCHANGED <<session, queued, payload, age, status, latest, suspended, lease,
                 dispatch, historyVars>>

---------------------------------------------------------------------------
(* A dispatch of the queue head.                                           *)

\* Fault: the head is taken whether or not the dispatch owns the session's key.
BeginWithoutLease(d) ==
  /\ dispatch[d].at = "idle"
  /\ session = "open"
  /\ lease' = TRUE
  /\ dispatch' = At(d, "leased")
  /\ UNCHANGED <<session, queueVars, status, latest, run, suspended, historyVars>>

\* begin_queue_dispatch: under the gate, for an open session.
BeginQueueDispatch(d) ==
  /\ dispatch[d].at = "idle"
  /\ session = "open"
  /\ ~lease
  /\ lease' = TRUE
  /\ dispatch' = At(d, "leased")
  /\ UNCHANGED <<session, queueVars, status, latest, run, suspended, historyVars>>

\* Which message next_queued_agent_message_from_read_model may return.
Heads ==
  LET steered == {m \in queued : mode[m] = "steer"}
  IN  IF steered # {} THEN steered
      ELSE {m \in queued : \A n \in queued : age[m] <= age[n]}

\* run_next_queued_agent_message_blocking_inner, up to its "start" event.  The
\* gate is not held and no registered run is looked for.
TakeHead(d) ==
  /\ dispatch[d].at = "leased"
  /\ \/ /\ lease /\ session = "open"
        /\ \E m \in Heads :
             /\ queued' = queued \ {m}
             /\ dispatch' = [dispatch EXCEPT ![d] =
                  [at |-> "taken", msg |-> m, mode |-> mode[m], text |-> payload[m]]]
     \/ /\ ~lease \/ session # "open" \/ queued = {}
        /\ dispatch' = At(d, "leaving")
        /\ UNCHANGED queued
  /\ UNCHANGED <<session, mode, payload, age, status, latest, run, suspended, lease,
                 historyVars>>

\* run_agent_task_blocking called by a dispatch: the durable start records the
\* queue id with the run and the user message in one transaction.
StartTakenMessage(d) ==
  /\ dispatch[d].at = "taken"
  /\ session = "open"
  /\ ~Active
  /\ LET m == dispatch[d].msg IN
       /\ run' = NewRun(d, m, {})
       /\ status' = Status("running", m)
       /\ latest' = m
       /\ delivered' = delivered \cup {m}
       /\ sent' = [sent EXCEPT ![m] = dispatch[d].text]
  /\ suspended' = NoSuspended
  /\ dispatch' = At(d, "running")
  /\ UNCHANGED <<session, queueVars, lease, stale, erased, lost, typed>>

\* What a start that fails after its registration leaves behind: the suspended
\* run is cleared, nothing has started, and an incomplete provider or an empty
\* prompt is recorded as a failed run.
StartFails ==
  /\ suspended' = NoSuspended
  /\ status' \in {status, Ended}
  /\ UNCHANGED <<run, latest>>

\* The same call refused: the session is gone or a run is already registered,
\* or the start fails.
RefuseTakenMessage(d) ==
  /\ dispatch[d].at = "taken"
  /\ \/ (session # "open" \/ Active) /\ UNCHANGED <<suspended, status, run, latest>>
     \/ session = "open" /\ ~Active /\ StartFails
  /\ dispatch' = At(d, "returning")
  /\ UNCHANGED <<session, queueVars, lease, historyVars>>

\* Fault: nothing is put back when the run could not start.
NeverRestore(d) ==
  /\ dispatch[d].at = "returning"
  /\ dispatch' = At(d, "leaving")
  /\ UNCHANGED <<session, queueVars, status, latest, run, suspended, lease, historyVars>>

\* restore_queued_agent_message_before_run_start: on success and on failure of
\* the run alike, the message goes back unless the session's latest run start
\* carries its queue id.
RestoreUnlessStarted(d) ==
  /\ dispatch[d].at = "returning"
  /\ LET m == dispatch[d].msg IN
       IF latest = m
       THEN UNCHANGED <<queued, mode, payload, stale>>
       ELSE /\ queued' = queued \cup {m}
            /\ mode' = [mode EXCEPT ![m] = dispatch[d].mode]
            /\ payload' = [payload EXCEPT ![m] = dispatch[d].text]
            /\ stale' = stale \cup (delivered \cap {m})
  /\ dispatch' = At(d, "leaving")
  /\ UNCHANGED <<session, age, status, latest, run, suspended, lease, delivered,
                 erased, lost, typed, sent>>

\* The lease is dropped: ExclusiveKeyRegistry::release removes the key.
ReleaseLease(d) ==
  /\ dispatch[d].at = "leaving"
  /\ lease' = FALSE
  /\ dispatch' = [dispatch EXCEPT ![d] = Idle]
  /\ UNCHANGED <<session, queueVars, status, latest, run, suspended, historyVars>>

---------------------------------------------------------------------------
(* Runs started by a command, and what ends a run.                         *)

\* run_agent_task for a prompt the user sends directly.
StartPrompt ==
  /\ session = "open"
  /\ ~Active
  /\ \/ /\ run' = NewRun("command", NoMessage, {})
        /\ status' = Status("running", NoMessage)
        /\ latest' = NoMessage
        /\ suspended' = NoSuspended
     \/ StartFails
  /\ UNCHANGED <<session, queueVars, lease, dispatch, historyVars>>

\* retry_agent_task: a suspended run continues with its pending steers, and the
\* start event carries the queue id of the paused or suspended run it goes on
\* with.  A run that waits for a permission is not retried.
RetryTask ==
  /\ session = "open"
  /\ ~Active
  /\ status.kind \in {"running", "paused", "ended"}
  /\ LET message == IF status.kind = "paused" THEN status.queue ELSE suspended.queue IN
       \/ /\ run' = NewRun("command", message, suspended.pending)
          /\ status' = Status("running", message)
          /\ latest' = message
          /\ suspended' = NoSuspended
       \/ StartFails
  /\ UNCHANGED <<session, queueVars, lease, dispatch, historyVars>>

\* resolve_agent_permission registers a control from the suspended snapshot and
\* releases the gate long before the run goes on.
RegisterResume ==
  /\ session = "open"
  /\ ~Active
  /\ status.kind # "none"
  /\ run' = [NewRun("command", status.queue, suspended.pending) EXCEPT !.resuming = TRUE]
  /\ UNCHANGED <<session, queueVars, status, latest, suspended, lease, dispatch,
                 historyVars>>

\* commit_permission_recovery_claim continues the same run, without a new start
\* event.  A cancellation that came in after the command had found its request
\* pending does not keep it from writing "resumed".
ContinueResumed ==
  /\ Active /\ run.resuming
  /\ status.kind = "waiting" \/ run.stop = "cancelled"
  /\ run' = [run EXCEPT !.resuming = FALSE]
  /\ status' = Status("running", run.queue)
  /\ suspended' = NoSuspended
  /\ UNCHANGED <<session, queueVars, latest, lease, dispatch, historyVars>>

\* A budget, a deadline or the loop's observers stop the control.
StopRun ==
  /\ Looping
  /\ run.stop = "no"
  /\ run' = [run EXCEPT !.stop = "budget"]
  /\ UNCHANGED <<session, queueVars, status, latest, suspended, lease, dispatch,
                 historyVars>>

\* cancel_agent_task_blocking: the first stop reason stays, the suspended run is
\* dropped, and the cancelled terminal is committed when there is something to
\* cancel: a run that has not committed its terminal, a running or waiting
\* status, or a plan that waits for its confirmation (one kind of pause).
CancelTask ==
  /\ session = "open"
  /\ run' = IF Accepting THEN [run EXCEPT !.stop = "cancelled"] ELSE run
  /\ suspended' = NoSuspended
  /\ \/ /\ status.kind # "none"
        /\ status' = Ended
     \/ /\ status.kind \notin {"running", "waiting"}
        /\ ~Active \/ run.stop = "terminal"
        /\ UNCHANGED status
  /\ UNCHANGED <<session, queueVars, latest, lease, dispatch, historyVars>>

\* commit_terminal_result_with refuses while a steer is pending.
CompleteRun ==
  /\ Looping
  /\ run.stop = "no"
  /\ run.pending = {}
  /\ run' = [run EXCEPT !.stop = "terminal"]
  /\ status' = Ended
  /\ UNCHANGED <<session, queueVars, latest, suspended, lease, dispatch, historyVars>>

\* The call that owns the run returns: its RegisteredRun is dropped, and a
\* dispatch goes on to its restore check.
RunReturns ==
  /\ run' = NoRun
  /\ dispatch' = IF run.owner \in Dispatchers THEN At(run.owner, "returning") ELSE dispatch

\* The permission command returns without continuing the run: other requests
\* are still open, its own is no longer pending (nothing changes), the provider
\* is incomplete (a failed run), or the handoff failed (a waiting run pauses).
AbandonResume ==
  /\ Active /\ run.resuming
  /\ \/ status' \in {status, Ended}
     \/ status.kind = "waiting" /\ status' = [status EXCEPT !.kind = "paused"]
  /\ RunReturns
  /\ UNCHANGED <<session, queueVars, latest, suspended, lease, historyVars>>

\* pause_agent_loop_for_control_stop (a stop during preparation pauses without a
\* suspended run), or the return after a terminal commit, a cancellation or a
\* pause for the user.
FinishStoppedRun ==
  /\ Looping
  /\ \/ /\ run.stop = "budget"
        /\ suspended' \in {KeepRun, suspended}
        /\ status' = Status("paused", run.queue)
     \/ /\ run.stop = "cancelled"
        /\ suspended' = NoSuspended
        /\ UNCHANGED status
     \/ /\ run.stop \in {"terminal", "parked"}
        /\ UNCHANGED <<suspended, status>>
  /\ RunReturns
  /\ UNCHANGED <<session, queueVars, latest, lease, historyVars>>

\* The loop pauses for the user, in an execution step or a preparation
\* checkpoint of its control, which a pending steer would have refused: for a
\* permission, with the run kept in memory, or for the confirmation of a plan.
Park(kind, kept) ==
  /\ Looping
  /\ run.stop = "no"
  /\ run.pending = {}
  /\ suspended' = kept
  /\ status' = Status(kind, run.queue)
  /\ run' = [run EXCEPT !.stop = "parked"]
  /\ UNCHANGED <<session, queueVars, latest, lease, dispatch, historyVars>>
WaitForPermission == Park("waiting", KeepRun)
AwaitPlanConfirmation == Park("paused", suspended)

\* An error of the loop returns without a terminal event and leaves the status
\* as it is; one of the preparation records a failed run.
FailRun ==
  /\ Looping
  /\ status' \in {status, Ended}
  /\ RunReturns
  /\ UNCHANGED <<session, queueVars, latest, suspended, lease, historyVars>>

\* Fault: the batch does not look at the latest queue event of a message.
ApplyWhateverIsPending ==
  /\ Looping
  /\ run.stop = "no"
  /\ run.pending # {}
  /\ delivered' = delivered \cup run.pending
  /\ sent' = [m \in Messages |-> IF m \in run.pending THEN payload[m] ELSE sent[m]]
  /\ queued' = queued \ run.pending
  /\ run' = [run EXCEPT !.pending = {}]
  /\ UNCHANGED <<session, mode, payload, age, status, latest, suspended, lease,
                 dispatch, stale, erased, lost, typed>>

\* commit_pending_steers: a deleted message is acknowledged, a queued one is
\* given to the run and leaves the queue, and a message whose latest event is a
\* "start" that is not this run's fails the whole batch, and with it the run
\* (FailRun).
Applicable(m) == m \in queued \/ m \in erased
ApplySteers ==
  /\ Looping
  /\ run.stop = "no"
  /\ run.pending # {}
  /\ \A m \in run.pending : Applicable(m)
  /\ delivered' = delivered \cup (run.pending \cap queued)
  /\ sent' = [m \in Messages |-> IF m \in run.pending \cap queued THEN payload[m] ELSE sent[m]]
  /\ queued' = queued \ run.pending
  /\ run' = [run EXCEPT !.pending = {}]
  /\ UNCHANGED <<session, mode, payload, age, status, latest, suspended, lease,
                 dispatch, stale, erased, lost, typed>>

\* The suspended run store evicts its oldest entry at its limit and drops
\* expired ones.
EvictSuspended ==
  /\ suspended.kept
  /\ suspended' = NoSuspended
  /\ UNCHANGED <<session, queueVars, status, latest, run, lease, dispatch, historyVars>>

---------------------------------------------------------------------------
(* Session deletion and crashes.                                           *)

\* Fault: a dispatch in flight does not block the deletion.
PublishDeletionDuringDispatch ==
  /\ session = "open"
  /\ ~Active
  /\ ~suspended.kept
  /\ status.kind \in {"none", "ended"}
  /\ queued = {}
  /\ session' = "deleting"
  /\ UNCHANGED <<queueVars, status, latest, run, suspended, lease, dispatch, historyVars>>

\* delete_session_blocking, under the gate: session_deletion_block_reason, then
\* the session leaves the configuration.
PublishDeletion ==
  /\ session = "open"
  /\ ~Active
  /\ ~suspended.kept
  /\ ~lease
  /\ status.kind \in {"none", "ended"}
  /\ queued = {}
  /\ session' = "deleting"
  /\ UNCHANGED <<queueVars, status, latest, run, suspended, lease, dispatch, historyVars>>

\* clear_session_runtime_state, after the gate is released: both registries
\* forget the session and the suspended run is removed.
ClearSessionRuntime ==
  /\ session = "deleting"
  /\ session' = "deleted"
  /\ run' = NoRun
  /\ suspended' = NoSuspended
  /\ lease' = FALSE
  /\ UNCHANGED <<queueVars, status, latest, dispatch, historyVars>>

\* The application dies and restarts: everything in memory is gone, and
\* reconcile_interrupted_agent_runs pauses a run that was still going.
Crash ==
  /\ lost' = lost \cup {m \in Messages : OnItsWay(m)}
  /\ run' = NoRun
  /\ suspended' = NoSuspended
  /\ lease' = FALSE
  /\ dispatch' = [d \in Dispatchers |-> Idle]
  /\ status' = IF status.kind = "running" THEN [status EXCEPT !.kind = "paused"] ELSE status
  /\ session' = IF session = "deleting" THEN "deleted" ELSE session
  /\ UNCHANGED <<queueVars, latest, delivered, stale, erased, typed, sent>>

---------------------------------------------------------------------------
Next ==
  \/ \E m \in Messages :
       Enqueue(m) \/ EditQueued(m) \/ DeleteQueued(m) \/ SteerQueued(m)
  \/ \E d \in Dispatchers :
       \/ BeginQueueDispatch(d) \/ TakeHead(d)
       \/ StartTakenMessage(d) \/ RefuseTakenMessage(d)
       \/ RestoreUnlessStarted(d) \/ ReleaseLease(d)
  \/ StartPrompt \/ RetryTask \/ RegisterResume \/ ContinueResumed \/ AbandonResume
  \/ StopRun \/ CancelTask \/ CompleteRun \/ FinishStoppedRun
  \/ WaitForPermission \/ AwaitPlanConfirmation \/ FailRun
  \/ ApplySteers \/ EvictSuspended
  \/ PublishDeletion \/ ClearSessionRuntime \/ Crash

Spec == Init /\ [][Next]_vars

---------------------------------------------------------------------------
\* Every variable stays in its range: the type invariant of the module.
TypeOK ==
  /\ session \in {"open", "deleting", "deleted"}
  /\ queued \subseteq Messages
  /\ mode \in [Messages -> {"queue", "steer"}]
  /\ payload \in [Messages -> Revisions]
  /\ age \in [Messages -> Nat]
  /\ status \in Statuses
  /\ latest \in MaybeMessage
  /\ run \in Runs
  /\ suspended \in Suspensions
  /\ lease \in BOOLEAN
  /\ dispatch \in [Dispatchers -> Hands]
  /\ delivered \subseteq Messages
  /\ stale \subseteq Messages
  /\ erased \subseteq Messages
  /\ lost \subseteq Messages
  /\ typed \in [Messages -> Revisions]
  /\ sent \in [Messages -> Revisions]

\* A message that a run has durably received is not waiting to be received
\* again, neither in the queue nor in a dispatch, by whichever of the two ways
\* (its own run, or a steer of another run) it was delivered; the exception is
\* a message that the restore check put back although its run had started.
DeliveredAtMostOnce ==
  \A m \in delivered \ stale :
    /\ m \notin queued
    /\ \A d \in Dispatchers : dispatch[d].at = "taken" => dispatch[d].msg # m

\* What is delivered is the text the user last saved: an edit acknowledged while
\* the message was queued, restored or steered is the one the run gets.
EditsReachTheRun ==
  \A m \in delivered \ (queued \cup erased \cup lost) : ~Held(m) => sent[m] = typed[m]

\* Both: a message reaches a run at most once, and as it was last saved.
DeliveredOnceAsSaved == TypeOK /\ DeliveredAtMostOnce /\ EditsReachTheRun

\* At most one dispatch owns the session's queue at a time, and a dispatch that
\* is under way still holds its key: neither the end of another dispatch nor a
\* session deletion takes it away.
OneDispatchAtATime ==
  \A d \in Dispatchers : dispatch[d].at # "idle" =>
    /\ lease
    /\ \A e \in Dispatchers \ {d} : dispatch[e].at = "idle"

\* A deleted session is quiet: no run, no suspended run, no dispatch and no
\* queued message outlives the published deletion.
DeletedSessionIsQuiet ==
  session # "open" =>
    /\ ~Active /\ ~suspended.kept /\ ~lease
    /\ queued = {}
    /\ \A d \in Dispatchers : dispatch[d].at = "idle"

\* A run that a dispatch waits for is the dispatch's own, and a dispatch waits
\* only for a run that is registered: nothing else takes the registration away.
DispatchWaitsForItsRun ==
  \A d \in Dispatchers :
    dispatch[d].at = "running" <=> run.owner = d

\* Both: dispatches exclude each other, and the run of one is its own until it
\* has returned.
DispatchIsExclusive == OneDispatchAtATime /\ DispatchWaitsForItsRun

\* Where the user's message is.
Place(m) ==
  IF age[m] = 0 THEN "new"
  ELSE IF m \in queued THEN "queued"
  ELSE IF OnItsWay(m) THEN "held"
  ELSE IF m \in erased \cup lost THEN "gone"
  ELSE IF m \in delivered THEN "received"
  ELSE "nowhere"

\* The session keeps the promise of QueuePromise, whichever dispatches, steers,
\* refused starts, retries, resumes, deletions and crashes come in between: an
\* accepted message is never nowhere and never in two places, it changes places
\* one promised step at a time, a run receives it in the text saved last, and
\* the session is not deleted from under it (queue.rs, agent_steer_runtime.rs).
Delivery == INSTANCE QueuePromise
  WITH place <- [m \in Messages |-> Place(m)], text <- typed, got <- sent,
       open <- session = "open"
ImplementsDelivery == Delivery!DeliverySpec

\* What queue_runtime_tests.rs expects of restore_queued_agent_message_before_
\* run_start: a message whose run has started is never put back in the queue.
NotRestoredAfterStart == stale = {}

=============================================================================
