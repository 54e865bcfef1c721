---------------------------- MODULE PermissionResume ----------------------------
(***************************************************************************)
(* Permission requests of one session and how a run that waits for them    *)
(* goes on (agent_tool_runtime.rs, agent_commands/permission/,             *)
(* suspended_run_runtime.rs, agent_recovery_service.rs,                    *)
(* agent_permission_recovery.rs, agent_subagent_runtime.rs).               *)
(*                                                                         *)
(* The loop saves a request and parks: a checkpoint in the event log and,  *)
(* in memory, the suspended run.  Each answer is a command that owns the   *)
(* run control, writes the answer, runs the tool, and, after the last one, *)
(* claims the checkpoint and goes on with the suspended run or with one    *)
(* rebuilt from the checkpoint.  A subagent's request is answered in       *)
(* place, while its parent runs.  The user may cancel at any moment, the   *)
(* store may fail, the suspended run may expire, the process may die.      *)
(*                                                                         *)
(* A task state is known by the answers its contract holds (knows) and the *)
(* permission observations that were in the log when it was saved (seen):  *)
(* the later ones are replayed onto it.                                    *)
(***************************************************************************)
EXTENDS Naturals

CONSTANTS
  Requests,         \* tool calls that need permission
  ChildRequests,    \* those made by subagents
  Grantable,        \* those of one capability that may be allowed for the session
  NoRequest, NoRun, NoCheckpoint,
  MaxAttempts,      \* bound: a task and its retries
  MaxRestarts,      \* bound: crashes of the process
  MaxStoreFailures  \* bound: failures of the store under a command

ASSUME PermissionNames ==
  /\ ChildRequests \cup Grantable \subseteq Requests
  /\ ChildRequests \cap Grantable = {} /\ NoRequest \notin Requests
  /\ MaxAttempts \in Nat \ {0} /\ MaxRestarts \in Nat /\ MaxStoreFailures \in Nat

Answers == {"none", "allow", "session", "deny"}

\* What is kept of a run, in the log and in memory.
TaskRecords == [attempt : 1..MaxAttempts,
                status : {"running", "waiting", "paused", "ended"},
                terminal : BOOLEAN, open : BOOLEAN, waitIsLast : BOOLEAN, keyed : BOOLEAN]
Envelopes == [state : {"blocked", "resuming", "paused"}, knows : SUBSET Requests,
              seen : SUBSET Requests]
Snapshots == [attempt : 1..MaxAttempts, knows : SUBSET Requests, seen : SUBSET Requests]
Loops == [at : {"idle", "model", "batch", "review", "child"},
          request : Requests \cup {NoRequest}, waiting : BOOLEAN, knows : SUBSET Requests]
Resolvers ==
  [at : {"idle", "rule", "run", "finish", "note", "list", "next", "check", "take",
         "restore", "claim hot", "claim cold"},
   request : Requests \cup {NoRequest}, decision : Answers, listed : BOOLEAN,
   rest : SUBSET Requests, done : SUBSET Requests, keyed : BOOLEAN,
   base : [knows : SUBSET Requests, seen : SUBSET Requests], knows : SUBSET Requests]

\* The absence of a checkpoint is not one.
ASSUME NoCheckpointAssumption == NoCheckpoint \notin Envelopes \cup Snapshots

VARIABLES
  asked,        \* durable: the attempt that saved each request, 0 if not saved
  ruling,       \* durable: the answer
  finished,     \* durable: tool calls with a finished event
  noted,        \* durable: requests with a permission observation in the log
  task,         \* durable: [attempt, status, terminal, open, waitIsLast, keyed],
                \* what the log says of the newest attempt: its last status, that
                \* it has a terminal record, that a restart has to reconcile it,
                \* that a blocked wait is its last event, that its context
                \* carries a resume key
  envelope,     \* durable: its newest recovery envelope, [state, knows, seen]
  snapshot,     \* durable: the runtime snapshot, [attempt, knows, seen]
  suspended,    \* in memory: what the suspended run knows
  owner,        \* in memory: who holds the session's run control
  cancelRaised, \* in memory: that control is cancelled
  loop,         \* in memory: [at, request, waiting, knows] of the agent loop
  resolver,     \* in memory: the command that answers a request
  ran,          \* history: how often each tool ran
  vetted,       \* history: requests the guardian allowed
  origin,       \* history: the attempt at which the task last began afresh
  forgotten,    \* history: denials lost in one of the three known ways
  faults        \* history: [restarts, failures] so far

permissionLog == <<asked, ruling, finished, noted>>
permissionMemory == <<suspended, owner, cancelRaised, loop, resolver>>
permissionHistory == <<ran, vetted, origin, forgotten, faults>>
permissionVars == <<permissionLog, task, envelope, snapshot, permissionMemory,
                    permissionHistory>>

IdleLoop == [at |-> "idle", request |-> NoRequest, waiting |-> FALSE, knows |-> {}]
LoopFrom(knows) == [IdleLoop EXCEPT !.at = "model", !.knows = knows]

NoState == [knows |-> {}, seen |-> {}]
IdleResolver == [at |-> "idle", request |-> NoRequest, decision |-> "none",
                 listed |-> FALSE, rest |-> {}, done |-> {}, keyed |-> FALSE,
                 base |-> NoState, knows |-> {}]

PermissionInit ==
  /\ asked = [r \in Requests |-> 0] /\ ruling = [r \in Requests |-> "none"]
  /\ finished = {} /\ noted = {}
  /\ task = [attempt |-> 1, status |-> "running", terminal |-> FALSE, open |-> TRUE,
             waitIsLast |-> FALSE, keyed |-> FALSE]
  /\ envelope = NoCheckpoint /\ snapshot = NoCheckpoint
  /\ suspended = NoRun /\ owner = "loop" /\ cancelRaised = FALSE
  /\ loop = LoopFrom({}) /\ resolver = IdleResolver
  /\ ran = [r \in Requests |-> 0] /\ vetted = {} /\ origin = 1 /\ forgotten = {}
  /\ faults = [restarts |-> 0, failures |-> 0]

\* pending_agent_permissions_for_run, and the same without a run id.
PendingOf(attempt) == {r \in Requests : asked[r] = attempt /\ ruling[r] = "none"}
PendingInSession == {r \in Requests : asked[r] # 0 /\ ruling[r] = "none"}

\* agent_session_permission_granted.
Granted(r) == r \in Grantable /\ \E q \in Grantable : ruling[q] = "session"

\* persisted_permission_observations: those of the newest attempt.
NotedHere == {r \in noted : asked[r] = task.attempt}

EnvelopeOf(state, saved) == [state |-> state, knows |-> saved.knows, seen |-> saved.seen]
SnapshotOf(knows) == [attempt |-> task.attempt, knows |-> knows, seen |-> noted]
SnapshotMatches == snapshot # NoCheckpoint /\ snapshot.attempt = task.attempt

\* peek_agent_recovery_envelope.  A claim that has been settled is stale, an
\* unsettled one refuses; any other checkpoint counts while the run waits or
\* is paused, and must then be in the state the caller resumes from.
Peek(wanted) ==
  CASE envelope = NoCheckpoint -> "none"
    [] envelope # NoCheckpoint /\ envelope.state = "resuming" ->
         IF task.terminal THEN "none" ELSE "error"
    [] OTHER ->
         IF task.status \notin {"paused", "waiting"} THEN "none"
         ELSE IF envelope.state = wanted THEN "some" ELSE "error"

(***************************************************************************)
(* The agent loop.                                                         *)
(***************************************************************************)
LoopAt(places) == owner = "loop" /\ loop.at \in places

\* A model turn is committed together with the runtime snapshot.
TakeTurn ==
  /\ LoopAt({"model"}) /\ ~cancelRaised
  /\ loop' = [loop EXCEPT !.at = "batch", !.waiting = FALSE]
  /\ snapshot' = SnapshotOf(loop.knows)
  /\ UNCHANGED <<permissionLog, task, envelope, suspended, owner, cancelRaised,
                 resolver, permissionHistory>>

\* A call of the batch needs permission and no session grant covers it: the
\* request is saved under an id of its own and handed to the guardian.
Ask(r) ==
  /\ LoopAt({"batch"}) /\ ~cancelRaised
  /\ r \notin ChildRequests /\ asked[r] = 0 /\ r \notin finished /\ ~Granted(r)
  /\ asked' = [asked EXCEPT ![r] = task.attempt]
  /\ loop' = [loop EXCEPT !.at = "review", !.request = r]
  /\ UNCHANGED <<ruling, finished, noted, task, envelope, snapshot, suspended, owner,
                 cancelRaised, resolver, permissionHistory>>

\* A session grant covers it: the tool runs at once.
UseGrant(r) ==
  /\ LoopAt({"batch"}) /\ ~cancelRaised
  /\ asked[r] = 0 /\ r \notin finished /\ Granted(r)
  /\ ran' = [ran EXCEPT ![r] = @ + 1] /\ finished' = finished \cup {r}
  /\ snapshot' = SnapshotOf(loop.knows)
  /\ UNCHANGED <<asked, ruling, noted, task, envelope, permissionMemory, vetted, origin,
                 forgotten, faults>>

\* The guardian allows the call.  Its approval is written for the id the tool
\* gave the request, not for the one it was saved under, so the saved request
\* stays pending.  The tool runs unless the run was stopped meanwhile.
GuardianAllows ==
  /\ LoopAt({"review"})
  /\ LET r == loop.request
     IN  /\ vetted' = vetted \cup {r} /\ finished' = finished \cup {r}
         /\ ran' = IF cancelRaised THEN ran ELSE [ran EXCEPT ![r] = @ + 1]
  /\ snapshot' = IF cancelRaised THEN snapshot ELSE SnapshotOf(loop.knows)
  /\ loop' = [loop EXCEPT !.at = "batch", !.request = NoRequest]
  /\ UNCHANGED <<asked, ruling, noted, task, envelope, suspended, owner, cancelRaised,
                 resolver, origin, forgotten, faults>>

\* It is off, denies, times out or is unavailable: the user decides.
GuardianDefers ==
  /\ LoopAt({"review"})
  /\ loop' = [loop EXCEPT !.at = "batch", !.request = NoRequest, !.waiting = TRUE]
  /\ UNCHANGED <<permissionLog, task, envelope, snapshot, suspended, owner, cancelRaised,
                 resolver, permissionHistory>>

\* A write subagent saves a request in the run's name and polls for its answer.
AskChild(r) ==
  /\ LoopAt({"batch"}) /\ ~cancelRaised /\ r \in ChildRequests /\ asked[r] = 0
  /\ asked' = [asked EXCEPT ![r] = task.attempt]
  /\ loop' = [loop EXCEPT !.at = "child", !.request = r]
  /\ UNCHANGED <<ruling, finished, noted, task, envelope, snapshot, suspended, owner,
                 cancelRaised, resolver, permissionHistory>>

ChildGoesOn ==
  /\ LoopAt({"child"})
  /\ LET r == loop.request
     IN  /\ cancelRaised \/ ruling[r] # "none"
         /\ ran' = IF ~cancelRaised /\ ruling[r] = "allow"
                   THEN [ran EXCEPT ![r] = @ + 1] ELSE ran
         /\ finished' = IF cancelRaised THEN finished ELSE finished \cup {r}
  /\ loop' = [loop EXCEPT !.at = "batch", !.request = NoRequest]
  /\ UNCHANGED <<asked, ruling, noted, task, envelope, snapshot, suspended, owner,
                 cancelRaised, resolver, vetted, origin, forgotten, faults>>

EndBatch ==
  /\ LoopAt({"batch"}) /\ ~loop.waiting /\ ~cancelRaised
  /\ loop' = [loop EXCEPT !.at = "model"]
  /\ UNCHANGED <<permissionLog, task, envelope, snapshot, suspended, owner, cancelRaised,
                 resolver, permissionHistory>>

\* The loop gives the run control up.
LeaveLoop == owner' = "none" /\ loop' = IdleLoop /\ UNCHANGED <<resolver, cancelRaised>>

\* The batch left something to the user: checkpoint and suspended run.
Park ==
  /\ LoopAt({"batch"}) /\ loop.waiting /\ ~cancelRaised
  /\ envelope' = EnvelopeOf("blocked", SnapshotOf(loop.knows))
  /\ task' = [task EXCEPT !.status = "waiting", !.waitIsLast = TRUE]
  /\ suspended' = loop.knows /\ LeaveLoop
  /\ UNCHANGED <<permissionLog, snapshot, permissionHistory>>

\* A budget ran out.
PauseLoop ==
  /\ LoopAt({"model", "batch"}) /\ ~cancelRaised
  /\ envelope' = EnvelopeOf("paused", SnapshotOf(loop.knows)) /\ snapshot' = NoCheckpoint
  /\ task' = [task EXCEPT !.status = "paused", !.open = FALSE]
  /\ suspended' = loop.knows /\ LeaveLoop
  /\ UNCHANGED <<permissionLog, permissionHistory>>

\* The cancellation has written its own record; the loop only ends.
LoopStops ==
  /\ LoopAt({"model", "batch"}) /\ cancelRaised
  /\ suspended' = NoRun /\ LeaveLoop
  /\ UNCHANGED <<permissionLog, task, envelope, snapshot, permissionHistory>>

\* The terminal record of a run.
EndedTask == [task EXCEPT !.status = "ended", !.terminal = TRUE, !.open = FALSE,
                          !.waitIsLast = FALSE]

Complete ==
  /\ LoopAt({"model"}) /\ ~cancelRaised
  /\ task' = EndedTask /\ snapshot' = NoCheckpoint
  /\ suspended' = NoRun /\ LeaveLoop
  /\ UNCHANGED <<permissionLog, envelope, permissionHistory>>

\* cancel_agent_task: the control is cancelled, the suspended run dropped, and
\* the record written unless the attempt has one.
CancelTask ==
  /\ task.status \in {"running", "waiting"} \/ owner # "none"
  /\ cancelRaised' = (cancelRaised \/ owner # "none") /\ suspended' = NoRun
  /\ IF task.terminal THEN UNCHANGED <<task, snapshot>>
     ELSE task' = EndedTask /\ snapshot' = NoCheckpoint
  /\ UNCHANGED <<permissionLog, envelope, owner, loop, resolver, permissionHistory>>

(***************************************************************************)
(* The command that answers a request.                                     *)
(***************************************************************************)
ResolverAt(place) == owner = "answer" /\ resolver.at = place

BeginAnswer(r, decision) ==
  /\ owner = "none" /\ task.status # "ended"
  /\ r \in PendingOf(task.attempt) \ ChildRequests
  /\ decision = "session" => r \in Grantable
  /\ suspended = NoRun => Peek("blocked") # "error"
  /\ owner' = "answer" /\ cancelRaised' = FALSE
  /\ resolver' = [IdleResolver EXCEPT !.at = "rule", !.request = r, !.decision = decision]
  /\ UNCHANGED <<permissionLog, task, envelope, snapshot, suspended, loop,
                 permissionHistory>>

\* A denial is written with its finished event and its observation in one
\* transaction; an approval is written first.
Rule ==
  /\ ResolverAt("rule")
  /\ LET r == resolver.request
         denied == resolver.decision = "deny"
         paused == envelope # NoCheckpoint /\ envelope.state = "paused"
     IN  /\ ruling' = [ruling EXCEPT ![r] = resolver.decision]
         /\ finished' = IF denied THEN finished \cup {r} ELSE finished
         /\ noted' = IF denied THEN noted \cup {r} ELSE noted
         /\ resolver' = IF denied
                        THEN [resolver EXCEPT !.at = "list", !.done = @ \cup {r}]
                        ELSE [resolver EXCEPT !.at = "run"]
         /\ forgotten' = IF denied /\ paused THEN forgotten \cup {r} ELSE forgotten
  /\ task' = [task EXCEPT !.waitIsLast = FALSE]
  /\ UNCHANGED <<asked, envelope, snapshot, suspended, owner, cancelRaised, loop,
                 ran, vetted, origin, faults>>

\* Fault: a completed call is not looked up before the tool runs.
RunToolAgain ==
  /\ ResolverAt("run")
  /\ ran' = IF cancelRaised THEN ran ELSE [ran EXCEPT ![resolver.request] = @ + 1]
  /\ resolver' = [resolver EXCEPT !.at = "finish"]
  /\ UNCHANGED <<permissionLog, task, envelope, snapshot, suspended, owner, cancelRaised,
                 loop, vetted, origin, forgotten, faults>>

\* A call that has a finished event is not run again (completed_tool_result);
\* a stopped run control refuses it.
RunTool ==
  /\ ResolverAt("run")
  /\ LET r == resolver.request
     IN  /\ ran' = IF r \in finished \/ cancelRaised THEN ran ELSE [ran EXCEPT ![r] = @ + 1]
         /\ resolver' = [resolver EXCEPT !.at = IF r \in finished THEN "note" ELSE "finish"]
  /\ UNCHANGED <<permissionLog, task, envelope, snapshot, suspended, owner, cancelRaised,
                 loop, vetted, origin, forgotten, faults>>

Finish ==
  /\ ResolverAt("finish")
  /\ finished' = finished \cup {resolver.request}
  /\ resolver' = [resolver EXCEPT !.at = "note"]
  /\ UNCHANGED <<asked, ruling, noted, task, envelope, snapshot, suspended, owner,
                 cancelRaised, loop, permissionHistory>>

Note ==
  /\ ResolverAt("note")
  /\ noted' = noted \cup {resolver.request}
  /\ resolver' = [resolver EXCEPT !.at = "list", !.done = @ \cup {resolver.request}]
  /\ UNCHANGED <<asked, ruling, finished, task, envelope, snapshot, suspended, owner,
                 cancelRaised, loop, permissionHistory>>

\* A grant for the session also answers the run's other requests it covers.
ListSiblings ==
  /\ ResolverAt("list")
  /\ resolver' = [resolver EXCEPT
       !.at = "next", !.listed = TRUE,
       !.rest = IF resolver.listed THEN @
                ELSE IF resolver.decision = "session"
                THEN PendingOf(task.attempt) \cap Grantable ELSE {}]
  /\ UNCHANGED <<permissionLog, task, envelope, snapshot, suspended, owner, cancelRaised,
                 loop, permissionHistory>>

AnswerSibling(r) ==
  /\ ResolverAt("next") /\ r \in resolver.rest
  /\ resolver' = [resolver EXCEPT !.at = "rule", !.request = r, !.rest = @ \ {r}]
  /\ UNCHANGED <<permissionLog, task, envelope, snapshot, suspended, owner, cancelRaised,
                 loop, permissionHistory>>

\* append_observations_to_suspended_run.
ApplyHot ==
  /\ ResolverAt("next") /\ resolver.rest = {}
  /\ suspended' = IF suspended = NoRun THEN NoRun ELSE suspended \cup resolver.done
  /\ resolver' = [resolver EXCEPT !.at = "check"]
  /\ UNCHANGED <<permissionLog, task, envelope, snapshot, owner, cancelRaised, loop,
                 permissionHistory>>

LeaveResolver ==
  owner' = "none" /\ resolver' = IdleResolver /\ UNCHANGED <<cancelRaised, loop>>

\* Fault: the command only reports its error.
FailOnly ==
  /\ LeaveResolver
  /\ UNCHANGED <<task, envelope, forgotten>>

\* The command fails (pause_permission_recovery_after_handoff_error): unless
\* something is still pending in the session, the run is left paused so that it
\* can be retried.  Its caller knows no run id, so that requests of older
\* attempts count too and denials since the checkpoint are not replayed.
Fail ==
  /\ LeaveResolver
  /\ IF /\ envelope # NoCheckpoint /\ envelope.state \in {"blocked", "resuming"}
        /\ ~task.terminal /\ PendingInSession = {}
     THEN LET saved == IF SnapshotMatches THEN snapshot ELSE envelope
          IN  /\ envelope' = EnvelopeOf("paused", saved)
              /\ task' = [task EXCEPT !.status = "paused", !.open = FALSE,
                                      !.waitIsLast = FALSE]
              /\ forgotten' = forgotten \cup
                   {r \in NotedHere \ saved.seen : ruling[r] = "deny"}
     ELSE UNCHANGED <<task, envelope, forgotten>>

\* Not the last answer: the run goes on waiting.  Otherwise the checkpoint is
\* read for the resume.
CheckPending ==
  /\ ResolverAt("check")
  /\ LET peeked == Peek("blocked")
     IN  \/ /\ PendingOf(task.attempt) # {}
            /\ LeaveResolver /\ UNCHANGED <<task, envelope, forgotten>>
         \/ /\ PendingOf(task.attempt) = {} /\ peeked = "error" /\ Fail
         \/ /\ PendingOf(task.attempt) = {} /\ peeked # "error"
            /\ resolver' = [resolver EXCEPT
                 !.at = "take", !.keyed = task.keyed \/ peeked = "some",
                 !.base = IF peeked = "some"
                          THEN [knows |-> envelope.knows, seen |-> envelope.seen]
                          ELSE NoState]
            /\ UNCHANGED <<task, envelope, owner, cancelRaised, loop, forgotten>>
  /\ UNCHANGED <<permissionLog, snapshot, suspended, ran, vetted, origin, faults>>

\* Fault: a rebuilt run gets the checkpoint's contract and no replay.
RebuiltWithoutReplay(base) == base.knows

\* The run a checkpoint gives: its contract, with the run's permission
\* observations since replayed onto it.
Rebuilt(base) == base.knows \cup (NotedHere \ base.seen)

TakeSuspended ==
  /\ ResolverAt("take")
  /\ resolver' = IF suspended # NoRun
                 THEN [resolver EXCEPT !.at = "claim hot", !.knows = suspended]
                 ELSE [resolver EXCEPT !.at = "restore", !.knows = Rebuilt(resolver.base)]
  /\ suspended' = NoRun
  /\ UNCHANGED <<permissionLog, task, envelope, snapshot, owner, cancelRaised, loop,
                 permissionHistory>>

\* persist_cold_permission_recovery: a rebuilt run is saved before the claim.
Restore ==
  /\ ResolverAt("restore")
  /\ snapshot' = IF NotedHere \subseteq resolver.base.seen THEN snapshot
                 ELSE SnapshotOf(resolver.knows)
  /\ resolver' = [resolver EXCEPT !.at = "claim cold"]
  /\ UNCHANGED <<permissionLog, task, envelope, suspended, owner, cancelRaised, loop,
                 permissionHistory>>

Claiming == ResolverAt("claim hot") \/ ResolverAt("claim cold")

\* A suspended run that could not be claimed is put back.
PutBack == suspended' = IF resolver.at = "claim hot" THEN resolver.knows ELSE suspended

\* commit_permission_recovery_claim, and the loop goes on.
Claim ==
  /\ Claiming
  /\ LET peeked == Peek("blocked")
         refused == peeked = "error" \/ (resolver.keyed /\ peeked = "none")
         claims == peeked = "some"
     IN  \/ refused /\ Fail /\ PutBack
         \/ /\ ~refused
            /\ envelope' = IF claims THEN [envelope EXCEPT !.state = "resuming"] ELSE envelope
            /\ task' = [task EXCEPT !.status = "running", !.open = @ \/ claims,
                                    !.waitIsLast = FALSE, !.keyed = @ \/ claims]
            /\ owner' = "loop" /\ loop' = LoopFrom(resolver.knows)
            /\ resolver' = IdleResolver
            /\ UNCHANGED <<cancelRaised, suspended, forgotten>>
  /\ UNCHANGED <<permissionLog, snapshot, ran, vetted, origin, faults>>

\* The store fails under the command's next step.
StoreFails ==
  /\ owner = "answer" /\ faults.failures < MaxStoreFailures
  /\ resolver.at \notin {"next", "take"}
  /\ resolver.at = "list" => resolver.decision = "session" /\ ~resolver.listed
  /\ faults' = [faults EXCEPT !.failures = @ + 1]
  /\ Fail /\ PutBack
  /\ UNCHANGED <<permissionLog, snapshot, ran, vetted, origin>>

\* resolve_subagent_permission_if_pending: only the answer is written.
ResolveInPlace(r, decision) ==
  /\ r \in ChildRequests \cap PendingOf(task.attempt) /\ task.status # "ended"
  /\ decision # "session"
  /\ ruling' = [ruling EXCEPT ![r] = decision]
  /\ task' = [task EXCEPT !.waitIsLast = FALSE]
  /\ UNCHANGED <<asked, finished, noted, envelope, snapshot, permissionMemory,
                 permissionHistory>>

(***************************************************************************)
(* Retries, expiry, crashes.                                               *)
(***************************************************************************)
\* retry_agent_task: a new attempt from the suspended run, else from a paused
\* checkpoint, else from the transcript alone.  The claim precedes the start
\* event, so the new attempt starts without an envelope.
Retry ==
  /\ owner = "none" /\ task.attempt < MaxAttempts /\ Peek("paused") # "error"
  /\ LET resumes == Peek("paused") = "some"
         hot == suspended # NoRun
         fresh == ~hot /\ ~resumes
     IN  /\ task' = [attempt |-> task.attempt + 1, status |-> "running",
                     terminal |-> FALSE, open |-> TRUE, waitIsLast |-> FALSE,
                     keyed |-> resumes \/ (hot /\ task.keyed)]
         /\ loop' = LoopFrom(CASE hot -> suspended
                               [] ~hot /\ resumes -> envelope.knows
                               [] OTHER -> {})
         /\ origin' = IF fresh THEN task.attempt + 1 ELSE origin
         /\ forgotten' = IF fresh THEN {} ELSE forgotten
  /\ envelope' = NoCheckpoint /\ suspended' = NoRun
  /\ owner' = "loop" /\ cancelRaised' = FALSE
  /\ UNCHANGED <<permissionLog, snapshot, resolver, ran, vetted, faults>>

\* The store refuses the start: the suspended run is gone, the checkpoint stays.
RetryFails ==
  /\ owner = "none" /\ Peek("paused") # "error" /\ suspended # NoRun
  /\ faults.failures < MaxStoreFailures
  /\ faults' = [faults EXCEPT !.failures = @ + 1]
  /\ suspended' = NoRun
  /\ UNCHANGED <<permissionLog, task, envelope, snapshot, owner, cancelRaised, loop,
                 resolver, ran, vetted, origin, forgotten>>

\* Only SUSPENDED_AGENT_RUN_LIMIT runs are kept, and for a day.
Evict ==
  /\ suspended # NoRun
  /\ suspended' = NoRun
  /\ UNCHANGED <<permissionLog, task, envelope, snapshot, owner, cancelRaised, loop,
                 resolver, permissionHistory>>

\* Denials the task was given since it last began afresh.
DueDenials == {r \in Requests \ ChildRequests : ruling[r] = "deny" /\ asked[r] >= origin}

\* The task state reconcile_interrupted_agent_runs saves: a snapshot that has
\* every denial since the checkpoint, else the checkpoint with those denials
\* (recovery_task_state_with_persisted_permission_denials); without denials the
\* snapshot, else the checkpoint's own.
ReconciledState ==
  LET denied == IF envelope = NoCheckpoint THEN {}
                ELSE {r \in NotedHere \ envelope.seen : ruling[r] = "deny"}
  IN  CASE SnapshotMatches /\ denied \subseteq snapshot.knows -> snapshot
        [] ~(SnapshotMatches /\ denied \subseteq snapshot.knows)
           /\ envelope # NoCheckpoint ->
             IF denied = {} THEN envelope
             ELSE [knows |-> envelope.knows \cup denied, seen |-> noted]
        [] OTHER -> NoState

\* The process dies and reconciles the interrupted run when it starts again.
Restart ==
  /\ faults.restarts < MaxRestarts
  /\ faults' = [faults EXCEPT !.restarts = @ + 1]
  /\ suspended' = NoRun /\ owner' = "none" /\ cancelRaised' = FALSE
  /\ loop' = IdleLoop /\ resolver' = IdleResolver
  /\ CASE ~task.open -> UNCHANGED <<task, envelope, snapshot, forgotten>>
       [] task.open /\ task.waitIsLast ->
            snapshot' = NoCheckpoint /\ UNCHANGED <<task, envelope, forgotten>>
       [] OTHER ->
            LET waits == PendingOf(task.attempt) # {}
            IN  /\ envelope' = EnvelopeOf(IF waits THEN "blocked" ELSE "paused",
                                          ReconciledState)
                /\ task' = [task EXCEPT !.status = IF waits THEN "waiting" ELSE "paused",
                                        !.open = waits, !.waitIsLast = waits]
                /\ snapshot' = NoCheckpoint
                /\ forgotten' = IF envelope = NoCheckpoint /\ ~SnapshotMatches
                                THEN forgotten \cup DueDenials ELSE forgotten
  /\ UNCHANGED <<permissionLog, ran, vetted, origin>>

PermissionNext ==
  \/ TakeTurn \/ GuardianAllows \/ GuardianDefers \/ ChildGoesOn \/ EndBatch
  \/ Park \/ PauseLoop \/ LoopStops \/ Complete \/ CancelTask
  \/ \E r \in Requests : Ask(r) \/ UseGrant(r) \/ AskChild(r)
  \/ \E r \in Requests, decision \in {"allow", "session", "deny"} :
        BeginAnswer(r, decision) \/ ResolveInPlace(r, decision)
  \/ Rule \/ RunTool \/ Finish \/ Note \/ ListSiblings
  \/ \E r \in Requests : AnswerSibling(r)
  \/ ApplyHot \/ CheckPending \/ TakeSuspended \/ Restore \/ Claim \/ StoreFails
  \/ Retry \/ RetryFails \/ Evict \/ Restart

PermissionSpec == PermissionInit /\ [][PermissionNext]_permissionVars

(***************************************************************************)
(* Properties.                                                             *)
(***************************************************************************)
PermissionTypeOK ==
  /\ asked \in [Requests -> 0..MaxAttempts] /\ ruling \in [Requests -> Answers]
  /\ finished \subseteq Requests /\ noted \subseteq finished
  /\ task \in TaskRecords
  /\ envelope # NoCheckpoint => envelope \in Envelopes
  /\ snapshot # NoCheckpoint => snapshot \in Snapshots
  /\ suspended # NoRun => suspended \subseteq Requests
  /\ owner \in {"none", "loop", "answer"} /\ cancelRaised \in BOOLEAN
  /\ loop \in Loops /\ resolver \in Resolvers
  /\ (owner = "loop") = (loop.at # "idle") /\ (owner = "answer") = (resolver.at # "idle")
  /\ ran \in [Requests -> Nat] /\ vetted \subseteq Requests
  /\ origin \in 1..MaxAttempts /\ forgotten \subseteq Requests
  /\ faults \in [restarts : 0..MaxRestarts, failures : 0..MaxStoreFailures]

\* A tool that needs permission runs at most once, and only when the user or
\* the guardian allowed it or a session grant covers it: through crashes,
\* retries, a second answer to a request the guardian already let through, and
\* the grant that answers a request's siblings.
ApprovedRunsOnce ==
  /\ PermissionTypeOK
  /\ \A r \in Requests :
       /\ ran[r] <= 1
       /\ ran[r] = 1 => ruling[r] \in {"allow", "session"} \/ r \in vetted \/ Granted(r)

\* A run that goes on holds every denial its task was given since it began
\* afresh, whether it was resumed hot, rebuilt from a checkpoint, reconciled
\* after a crash or retried.  Excepted are the denials written after the last
\* snapshot when the handing over itself fails, those given while the run is
\* paused, which only its suspended run learns of, and those of earlier
\* attempts when a retry crashes before its first snapshot.
DenialIsRemembered ==
  owner = "loop" /\ ~cancelRaised => DueDenials \ forgotten \subseteq loop.knows

\* A session that waits with nobody at work still has a request to answer, or
\* had a subagent's request answered in place, and its checkpoint can be
\* claimed; one that counts as running with nobody at work was cancelled.
AnsweredRunMovesOn ==
  owner = "none" =>
    /\ task.status = "waiting" =>
         /\ envelope # NoCheckpoint /\ envelope.state = "blocked"
         /\ \/ PendingInSession # {}
            \/ \E r \in ChildRequests : asked[r] = task.attempt /\ ruling[r] # "none"
    /\ task.status = "running" => task.terminal

\* resolution.rs: a subagent's request is answered in place because "the parent
\* run is still executing", so that no answer leaves a waiting run behind.
WaitingCanBeAnswered ==
  owner = "none" /\ task.status = "waiting" => PendingOf(task.attempt) # {}
=============================================================================
