---------------------------- MODULE MemoryWorker ----------------------------
(***************************************************************************)
(* The semantic memory queue of the desktop application: completed runs    *)
(* schedule the curation of their memory on one loss-aware work queue      *)
(* (agent-application/src/loss_aware_work_queue.rs); a worker thread,      *)
(* started on demand, claims the jobs, waits until no agent runs in the    *)
(* foreground, asks the model, and falls back to the deterministic         *)
(* projection when that does not succeed (semantic_memory_worker.rs,       *)
(* semantic_memory_scheduler.rs, semantic_memory_queue.rs).                *)
(*                                                                         *)
(* Each critical section of the queue's mutex and each access of the       *)
(* worker_started flag or of allow_exit is a step of its own.  Time is     *)
(* what remains of a delay (not_before_ms minus the clock), counted down   *)
(* by Tick.  The mutexes are never poisoned: no code runs under them that  *)
(* panics.                                                                 *)
(***************************************************************************)
EXTENDS Integers, Sequences, FiniteSets, SequencesExt

CONSTANTS
  Requests,     \* completed runs, which schedule their refresh: the job's id
                \* is the run's (project, session, run)
  Workers,      \* worker threads the process may spawn
  Capacity,     \* SEMANTIC_MEMORY_QUEUE_LIMIT
  MaxAttempts,  \* SEMANTIC_MEMORY_MAX_ATTEMPTS
  BaseBackoff,  \* SEMANTIC_MEMORY_RETRY_BASE_MS
  MaxBackoff,   \* SEMANTIC_MEMORY_RETRY_MAX_MS
  IdleGrace,    \* BACKGROUND_WORK_IDLE_GRACE_MS
  IdleTimeout   \* no_progress_timeout of the idle wait's run control

\* WorkQueuePolicy::validate
ASSUME PolicyAssumption ==
  /\ {Capacity, MaxAttempts, BaseBackoff, MaxBackoff} \subseteq Nat \ {0}
  /\ MaxBackoff >= BaseBackoff
ASSUME IdleAssumption == {IdleGrace, IdleTimeout} \subseteq Nat \ {0}

VARIABLES
  pending,      \* the queue's VecDeque: [req, attempts, delay]
  known,        \* known_ids
  metrics,      \* WorkQueueMetrics, the counters that dispose of a job
  started,      \* worker_started
  scheduler,    \* [Requests -> where schedule_semantic_memory_refresh is]
  drained,      \* [Requests -> jobs its failed start drained, to project]
  worker,       \* [Workers -> where the worker loop is, with its job]
  fate,         \* [Requests -> what became of its memory]
  active,       \* is an agent run registered in the foreground?
  exiting       \* allow_exit

vars == <<pending, known, metrics, started, scheduler, drained, worker, fate,
          active, exiting>>
queue == <<pending, known, metrics>>

\* Option::None of idle_since.
NotIdle == -1
NoJob == [req |-> {}, attempts |-> 0]
Off == [at |-> "off", job |-> NoJob, quiet |-> NotIdle, waited |-> 0,
        owed |-> {}, next |-> "top"]

Least(a, b) == IF a <= b THEN a ELSE b

Init ==
  /\ pending = <<>>
  /\ known = {}
  /\ metrics = [accepted |-> 0, completed |-> 0, exhausted |-> 0, abandoned |-> 0]
  /\ started = FALSE
  /\ scheduler = [r \in Requests |-> "running"]
  /\ drained = [r \in Requests |-> {}]
  /\ worker = [w \in Workers |-> Off]
  /\ fate = [r \in Requests |-> "none"]
  /\ active \in BOOLEAN
  /\ exiting = FALSE

-----------------------------------------------------------------------------
(* The loss-aware queue                                                    *)

\* retry_delay_ms: doubles with each attempt made, up to the policy's ceiling.
RetryDelay(attempts) ==
  LET grown == BaseBackoff * 2 ^ Least(attempts - 1, 31)
  IN  IF grown \in 0..MaxBackoff THEN grown ELSE MaxBackoff

Count(counter, n) == metrics' = [metrics EXCEPT ![counter] = @ + n]

\* enqueue refuses an id that is pending or in flight: a second call for a
\* known run changes nothing (Duplicate) and is a stuttering step.  Then it
\* refuses when the queue is full.
Full == Cardinality(known) >= Capacity

PushPending(r) ==
  /\ pending' = Append(pending, [req |-> r, attempts |-> 0, delay |-> 0])
  /\ known' = known \cup {r}
  /\ Count("accepted", 1)

Ready == {i \in DOMAIN pending : pending[i].delay = 0}
\* claim_ready takes the first job whose not_before has come.
FirstReady == CHOOSE i \in Ready : \A k \in Ready : i <= k

\* Mutant: the id stays in known_ids.
DisposeKeepsId(r, counter) ==
  /\ Count(counter, 1)
  /\ UNCHANGED <<pending, known>>

\* complete, abandon and an exhausted retry: the id is forgotten.
Dispose(r, counter) ==
  /\ known' = known \ {r}
  /\ Count(counter, 1)
  /\ UNCHANGED pending

PendingRequests == {pending[i].req : i \in DOMAIN pending}

\* drain_pending forgets every waiting job, not the claimed one.
DrainPending ==
  /\ pending' = <<>>
  /\ known' = known \ PendingRequests
  /\ Count("abandoned", Len(pending))

-----------------------------------------------------------------------------
(* schedule_semantic_memory_refresh, on the thread of the completed run    *)

\* recover_semantic_memory_without_model for each of the jobs.
Projected(jobs) == [r \in Requests |-> IF r \in jobs THEN "projected" ELSE fate[r]]

RejectAtCapacity(r) ==
  /\ scheduler[r] = "running"
  /\ Full
  /\ fate' = Projected({r})
  /\ scheduler' = [scheduler EXCEPT ![r] = "done"]
  /\ UNCHANGED <<queue, started, drained, worker, active, exiting>>

Enqueue(r) ==
  /\ scheduler[r] = "running"
  /\ r \notin known /\ ~Full
  /\ PushPending(r)
  /\ scheduler' = [scheduler EXCEPT ![r] = "queued"]
  /\ UNCHANGED <<started, drained, worker, fate, active, exiting>>

\* begin_worker: a compare-exchange; the loser trusts the running worker.
BeginWorker(r) ==
  /\ scheduler[r] = "queued"
  /\ scheduler' = [scheduler EXCEPT ![r] = IF started THEN "done" ELSE "spawning"]
  /\ started' = TRUE
  /\ UNCHANGED <<queue, drained, worker, fate, active, exiting>>

\* Any thread of the process that does not run a loop yet.
Spawn(r) ==
  /\ scheduler[r] = "spawning"
  /\ \E w \in Workers : worker[w].at = "off"
  /\ LET thread == CHOOSE w \in Workers : worker[w].at = "off"
     IN  worker' = [worker EXCEPT ![thread] = [Off EXCEPT !.at = "top"]]
  /\ scheduler' = [scheduler EXCEPT ![r] = "done"]
  /\ UNCHANGED <<queue, started, drained, fate, active, exiting>>

\* The operating system refuses the thread: finish_worker, then the error.
SpawnFails(r) ==
  /\ scheduler[r] = "spawning"
  /\ started' = FALSE
  /\ scheduler' = [scheduler EXCEPT ![r] = "failed"]
  /\ UNCHANGED <<queue, drained, worker, fate, active, exiting>>

\* fallback_pending_semantic_memory_jobs(.., "worker_start_failed", ..): the
\* drain under the lock, then the projections.
DrainAfterFailedStart(r) ==
  /\ scheduler[r] = "failed"
  /\ drained' = [drained EXCEPT ![r] = PendingRequests]
  /\ DrainPending
  /\ scheduler' = [scheduler EXCEPT ![r] = "projecting"]
  /\ UNCHANGED <<started, worker, fate, active, exiting>>

ProjectAfterFailedStart(r) ==
  /\ scheduler[r] = "projecting"
  /\ fate' = Projected(drained[r])
  /\ drained' = [drained EXCEPT ![r] = {}]
  /\ scheduler' = [scheduler EXCEPT ![r] = "done"]
  /\ UNCHANGED <<queue, started, worker, active, exiting>>

Schedule(r) ==
  \/ RejectAtCapacity(r) \/ Enqueue(r) \/ BeginWorker(r) \/ Spawn(r)
  \/ SpawnFails(r) \/ DrainAfterFailedStart(r) \/ ProjectAfterFailedStart(r)

-----------------------------------------------------------------------------
(* semantic_memory_worker_loop                                             *)

Goto(w, place) == worker' = [worker EXCEPT ![w].at = place]

\* The job leaves the worker's hands; it owes the projection of `jobs`.
Owe(w, jobs, next) ==
  worker' = [worker EXCEPT ![w] = [Off EXCEPT !.at = "project", !.owed = jobs, !.next = next]]

LoopHead(w) ==
  /\ worker[w].at = "top"
  /\ Goto(w, IF exiting THEN "drain" ELSE "next")
  /\ UNCHANGED <<queue, started, scheduler, drained, fate, active, exiting>>

\* queue.next: claim the first ready job, or time out waiting for one.
Claim(w) ==
  /\ worker[w].at = "next"
  /\ Ready # {}
  /\ LET job == pending[FirstReady]
     IN  worker' = [worker EXCEPT ![w] =
           [Off EXCEPT !.at = "idle",
                       !.job = [req |-> job.req, attempts |-> job.attempts + 1]]]
  /\ pending' = RemoveAt(pending, FirstReady)
  /\ UNCHANGED <<known, metrics, started, scheduler, drained, fate, active, exiting>>

WaitTimesOut(w) ==
  /\ worker[w].at = "next"
  /\ Ready = {}
  /\ Goto(w, "top")
  /\ UNCHANGED <<queue, started, scheduler, drained, fate, active, exiting>>

\* wait_for_foreground_agent_idle gives up when the application exits, and
\* when its own run control has seen no progress for IdleTimeout.
GivesUp(w) == exiting \/ worker[w].waited >= IdleTimeout

\* Ok(false): abandon, project, and leave the loop.
IdleWaitGivesUp(w) ==
  /\ worker[w].at = "idle"
  /\ GivesUp(w)
  /\ Dispose(worker[w].job.req, "abandoned")
  /\ Owe(w, {worker[w].job.req}, "drain")
  /\ UNCHANGED <<started, scheduler, drained, fate, active, exiting>>

\* One turn of the 80 ms poll: idle_since is set, kept or cleared.
PollForeground(w) ==
  /\ worker[w].at = "idle"
  /\ ~GivesUp(w)
  /\ \/ /\ active /\ worker[w].quiet # NotIdle
        /\ worker' = [worker EXCEPT ![w].quiet = NotIdle]
     \/ /\ ~active /\ worker[w].quiet = NotIdle
        /\ worker' = [worker EXCEPT ![w].quiet = 0]
     \/ /\ ~active /\ worker[w].quiet >= IdleGrace
        /\ Goto(w, "attempt")
  /\ UNCHANGED <<queue, started, scheduler, drained, fate, active, exiting>>

AttemptCompletes(w) ==
  /\ worker[w].at = "attempt"
  /\ fate' = [fate EXCEPT ![worker[w].job.req] = "generated"]
  /\ Dispose(worker[w].job.req, "completed")
  /\ worker' = [worker EXCEPT ![w] = [Off EXCEPT !.at = "top"]]
  /\ UNCHANGED <<started, scheduler, drained, active, exiting>>

\* A provider, parse or store error, or a panic that catch_unwind isolates:
\* complete_semantic_memory_job_with_fallback.
AttemptFails(w) ==
  /\ worker[w].at = "attempt"
  /\ Dispose(worker[w].job.req, "completed")
  /\ Owe(w, {worker[w].job.req}, "top")
  /\ UNCHANGED <<started, scheduler, drained, fate, active, exiting>>

\* foreground_agent_should_preempt cancels the request: MODEL_REQUEST_CANCELLED.
AttemptPreempted(w) ==
  /\ worker[w].at = "attempt"
  /\ active \/ exiting
  /\ Goto(w, "preempted")
  /\ UNCHANGED <<queue, started, scheduler, drained, fate, active, exiting>>

\* A cancelled attempt while the application exits counts as a failed one.
CancelledAtExit(w) ==
  /\ worker[w].at = "preempted"
  /\ exiting
  /\ Dispose(worker[w].job.req, "completed")
  /\ Owe(w, {worker[w].job.req}, "top")
  /\ UNCHANGED <<started, scheduler, drained, fate, active, exiting>>

\* retry, with attempts left: to the back of the queue, after the backoff.
RetryLater(w) ==
  LET job == worker[w].job IN
  /\ worker[w].at = "preempted"
  /\ ~exiting
  /\ job.attempts < MaxAttempts
  /\ pending' = Append(pending, [req |-> job.req, attempts |-> job.attempts,
                                 delay |-> RetryDelay(job.attempts)])
  /\ worker' = [worker EXCEPT ![w] = [Off EXCEPT !.at = "top"]]
  /\ UNCHANGED <<known, metrics, started, scheduler, drained, fate, active, exiting>>

\* Mutant: the exhausted job is forgotten without a projection.
ExhaustSilently(w) ==
  LET job == worker[w].job IN
  /\ worker[w].at = "preempted"
  /\ ~exiting
  /\ job.attempts >= MaxAttempts
  /\ Dispose(job.req, "exhausted")
  /\ Owe(w, {}, "top")
  /\ UNCHANGED <<started, scheduler, drained, fate, active, exiting>>

\* retry, exhausted: forget the job and project without the model.
RetryExhausted(w) ==
  LET job == worker[w].job IN
  /\ worker[w].at = "preempted"
  /\ ~exiting
  /\ job.attempts >= MaxAttempts
  /\ Dispose(job.req, "exhausted")
  /\ Owe(w, {job.req}, "top")
  /\ UNCHANGED <<started, scheduler, drained, fate, active, exiting>>

\* recover_semantic_memory_without_model for what the worker owes.
Project(w) ==
  /\ worker[w].at = "project"
  /\ fate' = Projected(worker[w].owed)
  /\ worker' = [worker EXCEPT ![w] = [Off EXCEPT !.at = worker[w].next]]
  /\ UNCHANGED <<queue, started, scheduler, drained, active, exiting>>

\* Mutant: finish_worker before the projections.
FinishThenProject(w) ==
  /\ worker[w].at = "drain"
  /\ Owe(w, PendingRequests, "finish")
  /\ DrainPending
  /\ started' = FALSE
  /\ UNCHANGED <<scheduler, drained, fate, active, exiting>>

\* After the loop: drain under the lock, project, and only then finish_worker.
DrainAtExit(w) ==
  /\ worker[w].at = "drain"
  /\ Owe(w, PendingRequests, "finish")
  /\ DrainPending
  /\ UNCHANGED <<started, scheduler, drained, fate, active, exiting>>

FinishWorker(w) ==
  /\ worker[w].at = "finish"
  /\ started' = FALSE
  /\ worker' = [worker EXCEPT ![w] = Off]
  /\ UNCHANGED <<queue, scheduler, drained, fate, active, exiting>>

Work(w) ==
  \/ LoopHead(w) \/ Claim(w) \/ WaitTimesOut(w)
  \/ IdleWaitGivesUp(w) \/ PollForeground(w)
  \/ AttemptCompletes(w) \/ AttemptFails(w) \/ AttemptPreempted(w)
  \/ CancelledAtExit(w) \/ RetryLater(w) \/ RetryExhausted(w)
  \/ Project(w) \/ DrainAtExit(w) \/ FinishWorker(w)

-----------------------------------------------------------------------------
(* The environment                                                         *)

\* A run is registered, or the last registered one returns.
ForegroundChanges ==
  /\ active' = ~active
  /\ UNCHANGED <<queue, started, scheduler, drained, worker, fate, exiting>>

\* confirm_application_exit
Quit ==
  /\ ~exiting
  /\ exiting' = TRUE
  /\ UNCHANGED <<queue, started, scheduler, drained, worker, fate, active>>

Aged(w) ==
  IF worker[w].at # "idle" THEN worker[w]
  ELSE [worker[w] EXCEPT
          !.waited = Least(@ + 1, IdleTimeout),
          !.quiet = IF @ = NotIdle THEN @ ELSE Least(@ + 1, IdleGrace)]

\* The 80 ms poll is far shorter than the unit of time: an idle wait has seen
\* the foreground before time moves on.
Polled(w) ==
  worker[w].at = "idle" /\ ~GivesUp(w) =>
    /\ active <=> worker[w].quiet = NotIdle
    /\ worker[w].quiet < IdleGrace

\* Time passes for every waiting job and every idle wait at once.
Tick ==
  /\ \A w \in Workers : Polled(w)
  /\ worker' = [w \in Workers |-> Aged(w)]
  /\ pending' = [i \in DOMAIN pending |->
                   [pending[i] EXCEPT !.delay = IF @ = 0 THEN 0 ELSE @ - 1]]
  /\ <<pending, worker>>' # <<pending, worker>>
  /\ UNCHANGED <<known, metrics, started, scheduler, drained, fate, active, exiting>>

Next ==
  \/ \E r \in Requests : Schedule(r)
  \/ \E w \in Workers : Work(w)
  \/ ForegroundChanges \/ Quit \/ Tick

\* A spawned thread runs, a thread in the scheduler returns, provider calls
\* end (timeout_seconds: 45), and time passes, strongly: the foreground
\* cannot change infinitely often within one unit of time.
Fairness ==
  /\ \A r \in Requests : WF_vars(Schedule(r))
  /\ \A w \in Workers : WF_vars(Work(w))
  /\ SF_vars(Tick)

Spec == Init /\ [][Next]_vars /\ Fairness

-----------------------------------------------------------------------------
(* Properties                                                              *)

Job == [req : Requests, attempts : Nat]
Places == {"off", "top", "next", "idle", "attempt", "preempted", "project",
           "drain", "finish"}

\* The shape of the queue, of the worker loop and of the schedulers.
TypeOK ==
  /\ pending \in Seq([req : Requests, attempts : Nat, delay : Nat])
  /\ known \subseteq Requests
  /\ metrics \in [{"accepted", "completed", "exhausted", "abandoned"} -> Nat]
  /\ started \in BOOLEAN /\ active \in BOOLEAN /\ exiting \in BOOLEAN
  /\ scheduler \in [Requests -> {"running", "queued", "spawning", "failed",
                                 "projecting", "done"}]
  /\ drained \in [Requests -> SUBSET Requests]
  /\ worker \in [Workers -> [at : Places, job : Job \cup {NoJob},
                             quiet : {NotIdle} \cup 0..IdleGrace,
                             waited : 0..IdleTimeout,
                             owed : SUBSET Requests,
                             next : {"top", "drain", "finish"}]]
  /\ fate \in [Requests -> {"none", "generated", "projected"}]

Holding == {w \in Workers : worker[w].at \in {"idle", "attempt", "preempted"}}
InFlight == {worker[w].job.req : w \in Holding}

(* The queue's identity set is exactly the waiting and the claimed jobs,   *)
(* each once, never more than the capacity, and the metrics add up: every  *)
(* accepted job was completed, exhausted or abandoned, or is still known   *)
(* (in_flight = known_ids - pending in LossAwareWorkQueue::metrics).       *)
QueueIsExact ==
  /\ TypeOK
  /\ known = PendingRequests \cup InFlight
  /\ Cardinality(known) = Len(pending) + Cardinality(Holding)
  /\ Cardinality(known) <= Capacity
  /\ metrics.accepted = metrics.completed + metrics.exhausted
                        + metrics.abandoned + Cardinality(known)

(* A scheduled memory is in exactly one place: waiting, claimed, owed a    *)
(* projection by one thread, or disposed of.  None is dropped between two  *)
(* critical sections, and none is curated twice.                           *)
EachMemoryInOnePlace ==
  \A r \in Requests : scheduler[r] # "running" =>
    LET waiting == {i \in DOMAIN pending : pending[i].req = r}
        claimed == {w \in Holding : worker[w].job.req = r}
        owing   == {w \in Workers : r \in worker[w].owed}
        failing == {s \in Requests : r \in drained[s]}
        settled == IF fate[r] = "none" THEN 0 ELSE 1
    IN  Cardinality(waiting) + Cardinality(claimed) + Cardinality(owing)
        + Cardinality(failing) + settled = 1

(* begin_worker and finish_worker make the worker a singleton: no second   *)
(* loop runs beside one that still drains.                                 *)
OneWorker == Cardinality({w \in Workers : worker[w].at # "off"}) <= 1

(* Both: one worker, and each memory in one place.                         *)
OneWorkerOnePlace == OneWorker /\ EachMemoryInOnePlace

(* Unless the application exits, a claimed job is curated or projected in  *)
(* the end, however often the foreground preempts it and even if it never  *)
(* falls idle: retries are bounded, the idle wait gives up, and a worker   *)
(* that leaves its loop drains the jobs it put back.                       *)
ClaimedIsHandled ==
  \A r \in Requests : (r \in InFlight) ~> (fate[r] # "none" \/ exiting)

(* docs/CURRENT.md: "Failed or rejected jobs use deterministic projection  *)
(* instead of silently dropping memory."  Unless the application exits,    *)
(* every accepted job is curated or projected in the end.                  *)
AcceptedIsHandled ==
  \A r \in Requests : (scheduler[r] = "queued") ~> (fate[r] # "none" \/ exiting)
=============================================================================
