---------------------------- MODULE ScheduledRuns ----------------------------
(***************************************************************************)
(* One schedule of schedule_commands.rs and its execution session.         *)
(*                                                                         *)
(* The schedule's run records live in a JSON file that is rewritten under  *)
(* the schedule lock; the message a run queues lives in the SQLite event   *)
(* log.  Nothing spans the two, so a trigger first queues the message and  *)
(* then saves the record, a dispatch reads the queue and then the records, *)
(* and reconciliation reads the records, then the log, then writes the     *)
(* records back.  A runner thread polls; every poll and every "run now"    *)
(* spawns a dispatch on a blocking thread; the user's commands run on      *)
(* blocking threads too.                                                   *)
(*                                                                         *)
(* Time is abstract: the next occurrence comes due and is then missed, and *)
(* a dispatch backoff expires, whenever the clock says so.  The history    *)
(* limit of sixteen records is above the bound on runs.                    *)
(***************************************************************************)
EXTENDS Naturals, Sequences, FiniteSets, SequencesExt

CONSTANTS
  DispatchThreads,   \* blocking threads that carry out spawned dispatches
  CommandThreads,    \* blocking threads that carry out the user's commands
  Runner,            \* the runner thread
  NoItem,            \* a run record without a queue id
  DispatchCap,       \* SCHEDULE_MAX_DISPATCH_ATTEMPTS
  Recurring,         \* cadence.recurring()
  CatchUp,           \* catch_up
  MaxItems,          \* bound on messages the schedule queues
  MaxCommands,       \* bound on the user's commands
  MaxScheduleFaults  \* bound on crashes and failed saves together

ASSUME ScheduleAssumption ==
  /\ DispatchCap \in Nat \ {0} /\ MaxItems \in Nat
  /\ MaxCommands \in Nat /\ MaxScheduleFaults \in Nat
  /\ Recurring \in BOOLEAN /\ CatchUp \in BOOLEAN
  /\ Runner \notin DispatchThreads \cup CommandThreads /\ NoItem \notin Nat

VARIABLES
  schedule,       \* memory: [exists, enabled, next, runs]
  scheduleFile,   \* durable: the last saved schedule
  itemLog,        \* durable: where the event log says each queued message is
  sessionLease,   \* the queue dispatch lease of the execution session
  scheduleLock,   \* thread that keeps the schedule lock over a queue write
  actor,          \* [at, job, run, copy, seen, item] of each thread
  spawned,        \* dispatches spawned and not begun
  commands,       \* commands given so far
  scheduleCrashes,\* history: crashes so far
  failedSaves     \* history: saves that failed so far

scheduleVars == <<schedule, scheduleFile, itemLog, sessionLease, scheduleLock,
                  actor, spawned, commands, scheduleCrashes, failedSaves>>

Actors == DispatchThreads \cup CommandThreads \cup {Runner}
Items == 1..MaxItems
Ended == {"completed", "failed", "cancelled", "paused", "skipped"}
ActiveStatus == {"queued", "running"}

\* "run", "copy" and "seen" are what reconciliation carries between its locks:
\* the active record, its queue id and the progress the log gave.
IdleActor == [at |-> "idle", job |-> "none", run |-> 0, copy |-> NoItem,
              seen |-> "none", item |-> NoItem]

\* "overwritten" is history: a reconciliation wrote into the record what it had
\* read before the record ended or took another message.
RunRecord(item, status) ==
  [item |-> item, status |-> status, attempts |-> 0, backoff |-> FALSE,
   started |-> FALSE, overwritten |-> FALSE]

ScheduleInit ==
  /\ schedule = [exists |-> TRUE, enabled |-> TRUE, next |-> "later", runs |-> <<>>]
  /\ scheduleFile = schedule
  /\ itemLog = [q \in Items |-> "absent"]
  /\ sessionLease = FALSE
  /\ scheduleLock = {}
  /\ actor = [t \in Actors |-> IdleActor]
  /\ spawned = 0
  /\ commands = 0
  /\ scheduleCrashes = 0
  /\ failedSaves = 0

(***************************************************************************)
(* Reading the records and the log.                                        *)
(***************************************************************************)
ActiveRuns(s) == {i \in DOMAIN s.runs : s.runs[i].status \in ActiveStatus}

\* The newest active record; 0 when there is none.
ActiveRun(s) ==
  IF ActiveRuns(s) = {} THEN 0
  ELSE CHOOSE i \in ActiveRuns(s) : \A j \in ActiveRuns(s) : j <= i

\* The newest record that carries a queue id; 0 when there is none.
RunOfItem(s, q) ==
  LET holders == {i \in DOMAIN s.runs : s.runs[i].item = q}
  IN IF holders = {} THEN 0 ELSE CHOOSE i \in holders : \A j \in holders : j <= i

Pending == {q \in Items : itemLog[q] = "queued"}

HeadItem == CHOOSE q \in Pending : \A p \in Pending : q <= p

SessionIsRunning == \E q \in Items : itemLog[q] = "running"

\* What the log says of a message, as a run status.
QueueProgress(q) ==
  IF q = NoItem THEN "none"
  ELSE IF itemLog[q] = "deleted" THEN "cancelled" ELSE itemLog[q]

(***************************************************************************)
(* Locking and saving.  Every writer holds the schedule lock from its read *)
(* to its save, so one step stands for both, except for a trigger, which   *)
(* queues its message in between.                                          *)
(***************************************************************************)
ScheduleIsFree == scheduleLock = {}
FaultsLeft == scheduleCrashes + failedSaves < MaxScheduleFaults

Become(t, a) == actor' = [actor EXCEPT ![t] = a]
Step(t, at) == Become(t, [actor[t] EXCEPT !.at = at])
Finish(t) == Become(t, IdleActor)

\* A save either replaces the file and goes on to "saved", or leaves the old
\* file and goes on to "unsaved"; memory has the new records in both cases.
SaveSchedule(t, s, saved, unsaved) ==
  /\ schedule' = s
  /\ \/ /\ scheduleFile' = s
        /\ Become(t, saved)
        /\ UNCHANGED failedSaves
     \/ /\ FaultsLeft
        /\ failedSaves' = failedSaves + 1
        /\ Become(t, unsaved)
        /\ UNCHANGED scheduleFile

(***************************************************************************)
(* Reconciliation, the first part of every job: the active record is       *)
(* copied, the log is read, and the record is overwritten, each under its  *)
(* own lock.                                                               *)
(***************************************************************************)
AfterReconcile(job) ==
  CASE job = "poll" -> "scan"
    [] job = "dispatch" -> "head"
    [] job = "settle" -> "exhausted"
    [] job = "cancel" -> "target"
    [] job = "remove" -> "removing"
    [] job = "toggle" -> "toggling"

ReconcileRead(t) ==
  /\ actor[t].at = "reconcile"
  /\ ScheduleIsFree
  /\ IF ActiveRun(schedule) = 0
     THEN Step(t, AfterReconcile(actor[t].job))
     ELSE Become(t, [actor[t] EXCEPT !.at = "progress", !.run = ActiveRun(schedule),
                       !.copy = schedule.runs[ActiveRun(schedule)].item])
  /\ UNCHANGED <<schedule, scheduleFile, itemLog, sessionLease, scheduleLock,
                 spawned, commands, scheduleCrashes, failedSaves>>

ReconcileProgress(t) ==
  /\ actor[t].at = "progress"
  /\ Become(t, [actor[t] EXCEPT !.at = "overwrite",
                                !.seen = QueueProgress(actor[t].copy)])
  /\ UNCHANGED <<schedule, scheduleFile, itemLog, sessionLease, scheduleLock,
                 spawned, commands, scheduleCrashes, failedSaves>>

ReconcileWrite(t) ==
  LET a == actor[t]
      r == schedule.runs[a.run]
      done == [a EXCEPT !.at = AfterReconcile(a.job), !.run = 0, !.copy = NoItem,
                         !.seen = "none"]
      over == r.status \notin ActiveStatus
      started == a.seen # "queued"
      s == [schedule EXCEPT !.runs[a.run] =
              [r EXCEPT !.status = a.seen, !.started = started,
                        !.overwritten = @ \/ over \/ r.item # a.copy]]
      failed == IF a.job = "toggle" \/ a.job = "remove" THEN done ELSE IdleActor
  IN /\ a.at = "overwrite"
     /\ ScheduleIsFree
     /\ IF /\ a.run \in DOMAIN schedule.runs /\ a.seen # "none"
           /\ r.status # a.seen \/ r.started # started \/ over
        THEN SaveSchedule(t, s, done, failed)
        ELSE Become(t, done) /\ UNCHANGED <<schedule, scheduleFile,
                                            failedSaves>>
     /\ UNCHANGED <<itemLog, sessionLease, scheduleLock, spawned, commands,
                    scheduleCrashes>>

(***************************************************************************)
(* The runner.                                                             *)
(***************************************************************************)
Poll ==
  /\ actor[Runner].at = "idle"
  /\ spawned = 0
  /\ Become(Runner, [IdleActor EXCEPT !.at = "reconcile", !.job = "poll"])
  /\ UNCHANGED <<schedule, scheduleFile, itemLog, sessionLease, scheduleLock,
                 spawned, commands, scheduleCrashes, failedSaves>>

\* The schedule after an occurrence is used up.
AdvanceChoices(s) ==
  (IF Recurring THEN {[s EXCEPT !.next = "later"]} ELSE {})
  \cup {[s EXCEPT !.enabled = FALSE, !.next = "none"]}

\* A missed occurrence is recorded as skipped unless the schedule catches up.
ScanForDue ==
  LET a == actor[Runner]
      idle == ~schedule.exists \/ ~schedule.enabled \/ ActiveRun(schedule) # 0
      skips == schedule.next = "missed" /\ ~CatchUp
      isDue == schedule.next \in {"due", "missed"} /\ ~skips
      list == [a EXCEPT !.at = "list"]
  IN /\ a.at = "scan"
     /\ ScheduleIsFree
     /\ IF idle \/ ~(skips \/ isDue)
        THEN Become(Runner, list) /\ UNCHANGED <<schedule, scheduleFile,
                                                 failedSaves>>
        ELSE IF skips
        THEN /\ Len(schedule.runs) < MaxItems
             /\ \E s \in AdvanceChoices(schedule) :
                  SaveSchedule(Runner,
                    [s EXCEPT !.runs = Append(@, RunRecord(NoItem, "skipped"))],
                    list, IdleActor)
        ELSE /\ Become(Runner, [a EXCEPT !.at = "trigger"])
             /\ UNCHANGED <<schedule, scheduleFile, failedSaves>>
     /\ UNCHANGED <<itemLog, sessionLease, scheduleLock, spawned, commands,
                    scheduleCrashes>>

\* The poll ends with a dispatch for a session whose active run is queued.
ListQueued ==
  LET i == ActiveRun(schedule)
  IN /\ actor[Runner].at = "list"
     /\ ScheduleIsFree
     /\ spawned' = IF i # 0 /\ schedule.runs[i].status = "queued"
                   THEN spawned + 1 ELSE spawned
     /\ Finish(Runner)
     /\ UNCHANGED <<schedule, scheduleFile, itemLog, sessionLease,
                    scheduleLock, commands, scheduleCrashes, failedSaves>>

(***************************************************************************)
(* A trigger, from the runner or from "run now".  It does not look at      *)
(* "enabled" again.  The lock is kept while the message is queued.         *)
(***************************************************************************)
NextItem == Cardinality({q \in Items : itemLog[q] # "absent"}) + 1

TriggerFails(t) ==
  /\ actor[t].at = "trigger"
  /\ ScheduleIsFree
  /\ ~schedule.exists \/ ActiveRun(schedule) # 0
  /\ IF t = Runner THEN Step(t, "list") ELSE Finish(t)
  /\ UNCHANGED <<schedule, scheduleFile, itemLog, sessionLease, scheduleLock,
                 spawned, commands, scheduleCrashes, failedSaves>>

\* Fault: the record is saved before the message is queued.
TriggerSaveFirst(t) ==
  /\ actor[t].at = "trigger"
  /\ ScheduleIsFree
  /\ schedule.exists /\ ActiveRun(schedule) = 0
  /\ NextItem \in Items /\ Len(schedule.runs) < MaxItems
  /\ SaveSchedule(t, [schedule EXCEPT !.runs = Append(@, RunRecord(NextItem, "queued"))],
                  IdleActor, IdleActor)
  /\ UNCHANGED <<itemLog, scheduleLock, sessionLease, spawned, commands,
                 scheduleCrashes>>

TriggerEnqueue(t) ==
  /\ actor[t].at = "trigger"
  /\ ScheduleIsFree
  /\ schedule.exists /\ ActiveRun(schedule) = 0
  /\ NextItem \in Items /\ Len(schedule.runs) < MaxItems
  /\ itemLog' = [itemLog EXCEPT ![NextItem] = "queued"]
  /\ scheduleLock' = {t}
  /\ Become(t, [actor[t] EXCEPT !.at = "record", !.item = NextItem])
  /\ UNCHANGED <<schedule, scheduleFile, sessionLease, spawned, commands,
                 scheduleCrashes, failedSaves>>

\* A message that could not be queued leaves a failed record.
TriggerNotQueued(t) ==
  /\ actor[t].at = "trigger"
  /\ ScheduleIsFree
  /\ schedule.exists /\ ActiveRun(schedule) = 0
  /\ Len(schedule.runs) < MaxItems
  /\ \E s \in IF t = Runner THEN AdvanceChoices(schedule) ELSE {schedule} :
       LET after == IF t = Runner THEN [actor[t] EXCEPT !.at = "list"] ELSE IdleActor
       IN SaveSchedule(t, [s EXCEPT !.runs = Append(@, RunRecord(NoItem, "failed"))],
                       after, after)
  /\ UNCHANGED <<itemLog, sessionLease, scheduleLock, spawned, commands,
                 scheduleCrashes>>

TriggerRecord(t) ==
  LET a == actor[t]
      recorded(s) == [s EXCEPT !.runs = Append(@, RunRecord(a.item, "queued"))]
      after == IF t = Runner THEN [a EXCEPT !.at = "list", !.item = NoItem] ELSE IdleActor
      unsaved == IF t = Runner THEN after ELSE IdleActor
  IN /\ a.at = "record"
     /\ \E s \in IF t = Runner THEN AdvanceChoices(schedule) ELSE {schedule} :
          SaveSchedule(t, recorded(s), after, unsaved)
     /\ scheduleLock' = {}
     /\ spawned' = IF t = Runner \/ failedSaves' # failedSaves
                   THEN spawned ELSE spawned + 1
     /\ UNCHANGED <<itemLog, sessionLease, commands, scheduleCrashes>>

(***************************************************************************)
(* A spawned dispatch.                                                     *)
(***************************************************************************)
BeginDispatch(t) ==
  /\ actor[t].at = "idle"
  /\ spawned > 0
  /\ spawned' = spawned - 1
  /\ Become(t, [IdleActor EXCEPT !.at = "reconcile", !.job = "dispatch"])
  /\ UNCHANGED <<schedule, scheduleFile, itemLog, sessionLease, scheduleLock,
                 commands, scheduleCrashes, failedSaves>>

\* The head of the session's queue is read under the store lock.
ReadHead(t) ==
  /\ actor[t].at = "head"
  /\ IF SessionIsRunning \/ Pending = {} THEN Finish(t)
     ELSE Become(t, [actor[t] EXCEPT !.at = "decide", !.item = HeadItem])
  /\ UNCHANGED <<schedule, scheduleFile, itemLog, sessionLease, scheduleLock,
                 spawned, commands, scheduleCrashes, failedSaves>>

\* decide_scheduled_dispatch: "skip", "dispatch", "adopt" or "mismatch".
Decision(head) ==
  LET i == ActiveRun(schedule)
      r == schedule.runs[i]
  IN IF i = 0 \/ ~schedule.exists THEN "skip"
     ELSE IF r.status # "queued" \/ r.attempts >= DispatchCap \/ r.backoff THEN "skip"
     ELSE IF r.item = head THEN "dispatch"
     ELSE IF r.attempts = 0 /\ ~r.started THEN "adopt" ELSE "mismatch"

Decide(t) ==
  LET a == actor[t]
      i == ActiveRun(schedule)
      lease == [a EXCEPT !.at = "lease"]
      counted == schedule.runs[i].attempts + 1
      retired == IF counted >= DispatchCap THEN "failed" ELSE "queued"
  IN /\ a.at = "decide"
     /\ ScheduleIsFree
     /\ CASE Decision(a.item) = "skip" ->
               Finish(t) /\ UNCHANGED <<schedule, scheduleFile, failedSaves>>
          [] Decision(a.item) = "dispatch" ->
               Become(t, lease) /\ UNCHANGED <<schedule, scheduleFile,
                                               failedSaves>>
          [] Decision(a.item) = "adopt" ->
               SaveSchedule(t, [schedule EXCEPT !.runs[i].item = a.item], lease, IdleActor)
          [] Decision(a.item) = "mismatch" ->
               SaveSchedule(t, [schedule EXCEPT !.runs[i].attempts = counted,
                                                !.runs[i].backoff = TRUE,
                                                !.runs[i].status = retired],
                            IdleActor, IdleActor)
     /\ UNCHANGED <<itemLog, sessionLease, scheduleLock, spawned, commands,
                    scheduleCrashes>>

TakeSessionLease(t) ==
  /\ actor[t].at = "lease"
  /\ IF sessionLease THEN Finish(t) /\ UNCHANGED sessionLease
     ELSE Step(t, "attempt") /\ sessionLease' = TRUE
  /\ UNCHANGED <<schedule, scheduleFile, itemLog, scheduleLock, spawned,
                 commands, scheduleCrashes, failedSaves>>

\* A record that no longer carries the queue id ends the attempt.
CountAttempt(t) ==
  LET a == actor[t]
      i == RunOfItem(schedule, a.item)
      settle == [a EXCEPT !.at = "release"]
      counted == [schedule EXCEPT !.runs[i].attempts = @ + 1, !.runs[i].backoff = TRUE]
  IN /\ a.at = "attempt"
     /\ ScheduleIsFree
     /\ IF i = 0 THEN Become(t, settle) /\ UNCHANGED <<schedule, scheduleFile,
                                                       failedSaves>>
        ELSE SaveSchedule(t, counted, [a EXCEPT !.at = "start"], settle)
     /\ UNCHANGED <<itemLog, sessionLease, scheduleLock, spawned, commands,
                    scheduleCrashes>>

\* run_next_queued_agent_message takes whatever is the head now.  A start that
\* fails restores the message, so the log says "queued" again.
StartHead(t) ==
  /\ actor[t].at = "start"
  /\ \/ /\ Pending # {} /\ ~SessionIsRunning
        /\ itemLog' = [itemLog EXCEPT ![HeadItem] = "running"]
        /\ Step(t, "await")
     \/ /\ Step(t, "release")
        /\ UNCHANGED itemLog
  /\ UNCHANGED <<schedule, scheduleFile, sessionLease, scheduleLock, spawned,
                 commands, scheduleCrashes, failedSaves>>

\* The call returns when the run has ended or waits for the user.
AwaitRun(t) ==
  /\ actor[t].at = "await"
  /\ ~SessionIsRunning
  /\ Step(t, "release")
  /\ UNCHANGED <<schedule, scheduleFile, itemLog, sessionLease, scheduleLock,
                 spawned, commands, scheduleCrashes, failedSaves>>

ReleaseSessionLease(t) ==
  /\ actor[t].at = "release"
  /\ sessionLease' = FALSE
  /\ Become(t, [actor[t] EXCEPT !.at = "reconcile", !.job = "settle"])
  /\ UNCHANGED <<schedule, scheduleFile, itemLog, scheduleLock, spawned,
                 commands, scheduleCrashes, failedSaves>>

\* Fault: nobody asks whether the last attempt was used up.
CheckNothing(t) ==
  /\ actor[t].at = "exhausted"
  /\ Finish(t)
  /\ UNCHANGED <<schedule, scheduleFile, itemLog, sessionLease, scheduleLock,
                 spawned, commands, scheduleCrashes, failedSaves>>

\* A run still queued after its last attempt gives its message up.
CheckExhausted(t) ==
  LET i == RunOfItem(schedule, actor[t].item)
      exhausted == /\ i # 0
                   /\ schedule.runs[i].status = "queued"
                   /\ schedule.runs[i].attempts >= DispatchCap
  IN /\ actor[t].at = "exhausted"
     /\ ScheduleIsFree
     /\ IF exhausted THEN Step(t, "delete") ELSE Finish(t)
     /\ UNCHANGED <<schedule, scheduleFile, itemLog, sessionLease,
                    scheduleLock, spawned, commands, scheduleCrashes,
                    failedSaves>>

\* delete_queue_message_by_id: a message that is not pending is left alone, and
\* the caller is not told.
DeleteItem(t) ==
  LET q == actor[t].item
  IN /\ actor[t].at = "delete"
     /\ itemLog' = IF q \in Pending THEN [itemLog EXCEPT ![q] = "deleted"] ELSE itemLog
     /\ Step(t, "mark")
     /\ UNCHANGED <<schedule, scheduleFile, sessionLease, scheduleLock,
                    spawned, commands, scheduleCrashes, failedSaves>>

\* The last write of an exhausted dispatch and of a cancellation.
MarkRun(t) ==
  LET a == actor[t]
      i == RunOfItem(schedule, a.item)
      status == IF a.job = "cancel" THEN "cancelled" ELSE "failed"
      s == IF i = 0 THEN schedule ELSE [schedule EXCEPT !.runs[i].status = status]
  IN /\ a.at = "mark"
     /\ ScheduleIsFree
     /\ SaveSchedule(t, s, IdleActor, IdleActor)
     /\ UNCHANGED <<itemLog, sessionLease, scheduleLock, spawned, commands,
                    scheduleCrashes>>

(***************************************************************************)
(* The user's commands.                                                    *)
(***************************************************************************)
Commanded == commands < MaxCommands /\ commands' = commands + 1

UserCommand(t, at, job) ==
  /\ actor[t].at = "idle"
  /\ schedule.exists
  /\ Commanded
  /\ Become(t, [IdleActor EXCEPT !.at = at, !.job = job])
  /\ UNCHANGED <<schedule, scheduleFile, itemLog, sessionLease, scheduleLock,
                 spawned, scheduleCrashes, failedSaves>>

RunNow(t) == spawned = 0 /\ UserCommand(t, "trigger", "now")
CancelRun(t) == ActiveRun(schedule) # 0 /\ UserCommand(t, "reconcile", "cancel")
RemoveSchedule(t) == UserCommand(t, "reconcile", "remove")
ToggleSchedule(t) == UserCommand(t, "reconcile", "toggle")

\* A queued run loses its message; any other run is cancelled, provided it is
\* still the run the session is on.
CancelTarget(t) ==
  LET i == ActiveRun(schedule)
      r == schedule.runs[i]
      aim(at) == Become(t, [actor[t] EXCEPT !.at = at, !.item = r.item])
  IN /\ actor[t].at = "target"
     /\ ScheduleIsFree
     /\ IF i = 0 \/ ~schedule.exists THEN Finish(t)
        ELSE IF r.status = "queued" THEN aim("delete") ELSE aim("stop")
     /\ UNCHANGED <<schedule, scheduleFile, itemLog, sessionLease,
                    scheduleLock, spawned, commands, scheduleCrashes,
                    failedSaves>>

CancelAgent(t) ==
  LET q == actor[t].item
  IN /\ actor[t].at = "stop"
     /\ IF q # NoItem /\ QueueProgress(q) = "running"
        THEN itemLog' = [itemLog EXCEPT ![q] = "cancelled"] /\ Step(t, "mark")
        ELSE Finish(t) /\ UNCHANGED itemLog
     /\ UNCHANGED <<schedule, scheduleFile, sessionLease, scheduleLock,
                    spawned, commands, scheduleCrashes, failedSaves>>

RemoveIfIdle(t) ==
  /\ actor[t].at = "removing"
  /\ ScheduleIsFree
  /\ IF ActiveRun(schedule) # 0 \/ ~schedule.exists
     THEN Finish(t) /\ UNCHANGED <<schedule, scheduleFile, failedSaves>>
     ELSE SaveSchedule(t, [exists |-> FALSE, enabled |-> FALSE, next |-> "none",
                           runs |-> <<>>], IdleActor, IdleActor)
  /\ UNCHANGED <<itemLog, sessionLease, scheduleLock, spawned, commands,
                 scheduleCrashes>>

\* Enabling needs an occurrence: a future one, or a past one to catch up with.
Retimed(s) ==
  {[s EXCEPT !.enabled = FALSE, !.next = "none"],
   [s EXCEPT !.enabled = TRUE, !.next = "later"]}
  \cup (IF CatchUp THEN {[s EXCEPT !.enabled = TRUE, !.next = "due"]} ELSE {})

SetEnabled(t) ==
  /\ actor[t].at = "toggling"
  /\ ScheduleIsFree
  /\ IF ~schedule.exists
     THEN Finish(t) /\ UNCHANGED <<schedule, scheduleFile, failedSaves>>
     ELSE \E s \in Retimed(schedule) : SaveSchedule(t, s, IdleActor, IdleActor)
  /\ UNCHANGED <<itemLog, sessionLease, scheduleLock, spawned, commands,
                 scheduleCrashes>>

\* An edit keeps the records and is refused while a run is active.
UpsertSchedule(t) ==
  /\ actor[t].at = "idle"
  /\ ScheduleIsFree
  /\ Commanded
  /\ schedule.exists /\ ActiveRun(schedule) = 0
  /\ \E s \in Retimed(schedule) : SaveSchedule(t, s, IdleActor, IdleActor)
  /\ UNCHANGED <<itemLog, sessionLease, scheduleLock, spawned,
                 scheduleCrashes>>

(***************************************************************************)
(* The clock, the agent run and the process.                               *)
(***************************************************************************)
TimePasses ==
  /\ schedule.next \in {"later", "due"}
  /\ LET next == IF schedule.next = "later" THEN "due" ELSE "missed"
     IN /\ schedule' = [schedule EXCEPT !.next = next]
        /\ scheduleFile' = IF scheduleFile.next = schedule.next
                           THEN [scheduleFile EXCEPT !.next = next] ELSE scheduleFile
  /\ ScheduleIsFree
  /\ UNCHANGED <<itemLog, sessionLease, scheduleLock, actor, spawned,
                 commands, scheduleCrashes, failedSaves>>

BackoffExpires ==
  LET fresh(s) == [s EXCEPT !.runs = [i \in DOMAIN s.runs |->
                                        [s.runs[i] EXCEPT !.backoff = FALSE]]]
  IN /\ ScheduleIsFree
     /\ schedule # fresh(schedule)
     /\ schedule' = fresh(schedule)
     /\ scheduleFile' = fresh(scheduleFile)
     /\ UNCHANGED <<itemLog, sessionLease, scheduleLock, actor, spawned,
                    commands, scheduleCrashes, failedSaves>>

AgentRunEnds ==
  /\ \E q \in Items, status \in {"completed", "failed"} :
       itemLog[q] = "running" /\ itemLog' = [itemLog EXCEPT ![q] = status]
  /\ UNCHANGED <<schedule, scheduleFile, sessionLease, scheduleLock, actor,
                 spawned, commands, scheduleCrashes, failedSaves>>

\* At the next start the file is loaded and interrupted runs are paused.
CrashAndLoad ==
  /\ FaultsLeft
  /\ scheduleCrashes' = scheduleCrashes + 1
  /\ schedule' = scheduleFile
  /\ itemLog' = [q \in Items |-> IF itemLog[q] = "running" THEN "paused" ELSE itemLog[q]]
  /\ sessionLease' = FALSE
  /\ scheduleLock' = {}
  /\ actor' = [t \in Actors |-> IdleActor]
  /\ spawned' = 0
  /\ UNCHANGED <<scheduleFile, commands, failedSaves>>

ScheduleNext ==
  \/ Poll \/ ScanForDue \/ ListQueued
  \/ \E t \in Actors :
       \/ ReconcileRead(t) \/ ReconcileProgress(t) \/ ReconcileWrite(t)
       \/ TriggerFails(t) \/ TriggerNotQueued(t) \/ TriggerEnqueue(t) \/ TriggerRecord(t)
  \/ \E t \in DispatchThreads :
       \/ BeginDispatch(t) \/ ReadHead(t) \/ Decide(t) \/ TakeSessionLease(t)
       \/ CountAttempt(t) \/ StartHead(t) \/ AwaitRun(t) \/ ReleaseSessionLease(t)
       \/ CheckExhausted(t)
  \/ \E t \in DispatchThreads \cup CommandThreads : DeleteItem(t) \/ MarkRun(t)
  \/ \E t \in CommandThreads :
       \/ RunNow(t) \/ CancelRun(t) \/ RemoveSchedule(t) \/ ToggleSchedule(t)
       \/ CancelTarget(t) \/ CancelAgent(t) \/ RemoveIfIdle(t) \/ SetEnabled(t)
       \/ UpsertSchedule(t)
  \/ TimePasses \/ BackoffExpires \/ AgentRunEnds \/ CrashAndLoad

ScheduleSpec == ScheduleInit /\ [][ScheduleNext]_scheduleVars

-----------------------------------------------------------------------------
RunRecords ==
  [item : Items \cup {NoItem}, status : ActiveStatus \cup Ended,
   attempts : Nat, backoff : BOOLEAN, started : BOOLEAN, overwritten : BOOLEAN]

\* Run records only ever hold the statuses a ScheduleRunRecord has, whatever
\* reconciliation copies into them from the event log.
ScheduleTypeOK ==
  /\ \A s \in {schedule, scheduleFile} :
       /\ s.exists \in BOOLEAN /\ s.enabled \in BOOLEAN
       /\ s.next \in {"none", "later", "due", "missed"}
       /\ s.runs \in Seq(RunRecords)
  /\ itemLog \in [Items -> {"absent", "queued", "running", "deleted"} \cup Ended]
  /\ sessionLease \in BOOLEAN
  /\ scheduleLock \subseteq Actors
  /\ spawned \in Nat

\* A record, in memory or in the file, names only messages the event log has:
\* trigger_schedule_run queues before it records, so a crash or a failed save
\* leaves an orphan message and never a run that waits for nothing.
QueuedRunIsInTheLog ==
  /\ ScheduleTypeOK
  /\ \A s \in {schedule, scheduleFile} : \A i \in DOMAIN s.runs :
       s.runs[i].item # NoItem => itemLog[s.runs[i].item] # "absent"

\* Some dispatch is between its last attempt and the check that retires it.
BeingSettled ==
  \E t \in DispatchThreads :
    \/ actor[t].at \in {"start", "await", "release", "exhausted", "delete", "mark"}
    \/ actor[t].job = "settle"

StuckAtCap(r) ==
  /\ r.status = "queued" /\ r.attempts >= DispatchCap
  /\ ~BeingSettled /\ QueueProgress(r.item) = "queued"

\* decide_scheduled_dispatch skips a run at the attempt cap, so such a run must
\* be about to be retired, or the log must say it is over.  The comment there
\* says that "a stuck run retires through the existing bound"; a crash or a
\* failed save after the last attempt is counted leaves a queued run that
\* nothing retires, and so does a reconciliation that read the run before it
\* was retired, or before it took another message, and writes back afterwards.
StuckRunRetires ==
  ActiveRun(schedule) # 0 => ~StuckAtCap(schedule.runs[ActiveRun(schedule)])

\* Those are the only ways: while no save fails, nothing crashes and the record
\* was not overwritten, the bound retires every run, with dispatches, polls,
\* reconciliations and commands interleaved at will.
RetiresWithoutFaults ==
  (/\ scheduleCrashes + failedSaves = 0
   /\ ActiveRun(schedule) # 0 => ~schedule.runs[ActiveRun(schedule)].overwritten)
  => StuckRunRetires
=============================================================================
