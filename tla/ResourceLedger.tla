----------------------------- MODULE ResourceLedger -----------------------------
(***************************************************************************)
(* The physical model-resource ledger of a run and its durable checkpoint: *)
(* RunResourceLedger (resource_ledger.rs) behind the run-control lock      *)
(* (control_resources.rs), the callers that reserve, dispatch and settle   *)
(* provider attempts (agent_model_turn_runtime.rs,                         *)
(* knowledge_embedding_runtime.rs, controlled_aux_model_call), the         *)
(* checkpoint they write (agent_resource_snapshot.rs), and what pause,     *)
(* permission wait, retry and a restart of the application rebuild from it.*)
(*                                                                         *)
(* Every caller is a thread.  The ledger changes under the control lock and*)
(* the checkpoint under the store lock; a checkpoint reads the one and     *)
(* then takes the other, so two callers may write their copies in the      *)
(* order opposite to the one they read them in.                            *)
(*                                                                         *)
(* Tokens are kept as one normalised total per attempt.  The split into    *)
(* prompt, completion and per-model sums is left out: no guard reads it.   *)
(***************************************************************************)
EXTENDS Naturals, FiniteSets, Functions

CONSTANTS Recorders,      \* callers that checkpoint: owner turns, embeddings
          Children,       \* callers of controlled_aux_model_call
          MaxAttempts,    \* max_physical_model_attempts
          MaxTokens,      \* max_total_tokens
          AttemptReserve, \* terminal_physical_model_attempt_reserve
          TokenReserve,   \* terminal_token_reserve
          PendingLimit,   \* MAX_PENDING_RESOURCE_ATTEMPTS
          Sizes,          \* tokens a request may reserve
          Usages,         \* totals a provider may report
          MaxRuns,        \* bound: physical runs of the lineage
          MaxSteers,      \* bound: accepted steers
          Unknown         \* a settlement without a provider usage

ASSUME BudgetAssumption ==
  /\ MaxAttempts \in Nat /\ MaxTokens \in Nat
  /\ AttemptReserve \in 1..MaxAttempts
  /\ TokenReserve \in 1..MaxTokens
  /\ PendingLimit \in Nat \ {0}
ASSUME InputAssumption ==
  /\ Sizes \subseteq Nat /\ Usages \subseteq Nat
  /\ MaxRuns \in Nat \ {0} /\ MaxSteers \in Nat
  /\ Recorders \cap Children = {}
  /\ Unknown \notin Usages

VARIABLES
  ledger,      \* the ledger of the registered run control
  run,         \* run id, stop reason, requested and applied steer epochs
  caller,      \* each caller thread: where it is and the attempt it holds
  phase,       \* "running", "waiting", "paused", "down" or "ended"
  suspended,   \* the in-memory store holds the run's control snapshot
  checkpoint,  \* the durable read model: run id and ledger copy
  envelope,    \* the durable recovery envelope of the active run
  base,        \* history: lineage attempts when this physical run began
  sent,        \* history: attempts of this run a Recorder sent to the provider
  overrun,     \* history: tokens charged beyond what their attempts reserved
  finals       \* history: a finalizer attempt was admitted in this segment

durableVars == <<checkpoint, envelope>>
historyVars == <<base, sent, overrun, finals>>
vars == <<ledger, run, caller, phase, suspended, durableVars, historyVars>>

Callers == Recorders \cup Children

---------------------------------------------------------------------------
(* RunResourceLedger.                                                      *)

NoUsage == [attempts |-> 0, total |-> 0, reserved |-> 0, settled |-> 0]

NoPending == [id \in {} |-> 0]

NewLedger ==
  [rev |-> 0, next |-> 1, segment |-> NoUsage, lineage |-> NoUsage,
   pending |-> NoPending]

SumOf(pending) == FoldFunction(LAMBDA s, t : s + t, 0, pending)
Charged(usage) == usage.total + usage.reserved

\* Fault: only the attempts are kept for the finalizer, not the tokens.
AdmissionWithoutTokenReserve(l, class, size) ==
  IF class # "finalizer" /\ l.segment.attempts >= MaxAttempts - AttemptReserve
  THEN "protected"
  ELSE IF \/ l.segment.attempts >= MaxAttempts
          \/ Charged(l.segment) + size > MaxTokens
       THEN "exhausted"
       ELSE "admitted"

\* What reserve answers, in the order of its checks.
Admission(l, class, size) ==
  LET attempt == l.segment.attempts + 1
      tokens == Charged(l.segment) + size
      Protects == class # "finalizer"
  IN  IF Protects /\ (\/ attempt > MaxAttempts - AttemptReserve
                      \/ tokens > MaxTokens - TokenReserve)
      THEN "protected"
      ELSE IF \/ attempt > MaxAttempts
              \/ tokens > MaxTokens
              \/ Cardinality(DOMAIN l.pending) >= PendingLimit
              \/ l.next \in DOMAIN l.pending
           THEN "exhausted"
           ELSE "admitted"

ReserveUsage(usage, size) ==
  [usage EXCEPT !.attempts = @ + 1, !.reserved = @ + size]

SettleUsage(usage, size, total) ==
  [usage EXCEPT !.reserved = @ - size, !.total = @ + total, !.settled = @ + 1]

\* Fault: a reservation charged to the segment only.
ReserveSegmentOnly(l, size) ==
  [rev |-> l.rev + 1, next |-> l.next + 1,
   segment |-> ReserveUsage(l.segment, size),
   lineage |-> l.lineage,
   pending |-> [id \in DOMAIN l.pending \cup {l.next} |->
                  IF id = l.next THEN size ELSE l.pending[id]]]

Reserve(l, size) ==
  [rev |-> l.rev + 1, next |-> l.next + 1,
   segment |-> ReserveUsage(l.segment, size),
   lineage |-> ReserveUsage(l.lineage, size),
   pending |-> [id \in DOMAIN l.pending \cup {l.next} |->
                  IF id = l.next THEN size ELSE l.pending[id]]]

\* A handle whose attempt is no longer pending settles nothing.  A missing
\* usage is charged at the size of the reservation.
Settle(l, id, usage) ==
  IF id \notin DOMAIN l.pending THEN l
  ELSE LET size == l.pending[id]
           total == IF usage = Unknown THEN size ELSE usage
       IN  [rev |-> l.rev + 1, next |-> l.next,
            segment |-> SettleUsage(l.segment, size, total),
            lineage |-> SettleUsage(l.lineage, size, total),
            pending |-> Restrict(l.pending, DOMAIN l.pending \ {id})]

SettleAllUsage(usage, pending) ==
  [usage EXCEPT !.reserved = @ - SumOf(pending), !.total = @ + SumOf(pending),
                !.settled = @ + Cardinality(DOMAIN pending)]

SettleAllPendingAsUnknown(l) ==
  IF DOMAIN l.pending = {} THEN l
  ELSE [rev |-> l.rev + 1, next |-> l.next,
        segment |-> SettleAllUsage(l.segment, l.pending),
        lineage |-> SettleAllUsage(l.lineage, l.pending),
        pending |-> NoPending]

StartNewSegment(l) ==
  LET settled == SettleAllPendingAsUnknown(l)
  IN  [settled EXCEPT !.segment = NoUsage, !.rev = @ + 1]

FromPersistedSnapshot(l) == SettleAllPendingAsUnknown(l)

---------------------------------------------------------------------------
NoCopy == [run |-> 0, ledger |-> NewLedger]
NoEnvelope == [reason |-> "none", copy |-> NoCopy]
NoAttempt == [at |-> "idle", epoch |-> 0, id |-> 0, copy |-> NewLedger]

AllIdle == \A c \in Callers : caller[c].at = "idle"

Init ==
  /\ ledger = NewLedger
  /\ run = [id |-> 1, stop |-> "no", epoch |-> 0, applied |-> 0]
  /\ caller = [c \in Callers |-> NoAttempt]
  /\ phase = "running"
  /\ suspended = FALSE
  /\ checkpoint = NoCopy
  /\ envelope = NoEnvelope
  /\ base = 0 /\ sent = 0 /\ overrun = 0 /\ finals = FALSE

---------------------------------------------------------------------------
(* The control around the ledger.                                          *)

\* commit_steer_request_with and the application of the steer.
RequestSteer ==
  /\ phase = "running" /\ run.stop = "no" /\ run.epoch < MaxSteers
  /\ run' = [run EXCEPT !.epoch = @ + 1]
  /\ UNCHANGED <<ledger, caller, phase, suspended, durableVars, historyVars>>

ApplySteer ==
  /\ phase = "running" /\ run.stop = "no" /\ run.applied < run.epoch
  /\ \A c \in Recorders : caller[c].at = "idle"
  /\ run' = [run EXCEPT !.applied = run.epoch]
  /\ UNCHANGED <<ledger, caller, phase, suspended, durableVars, historyVars>>

\* Any other budget of the run ends it (request_stop, refresh_stop_reason).
OtherStop ==
  /\ phase = "running" /\ run.stop = "no"
  /\ run' = [run EXCEPT !.stop = "other"]
  /\ UNCHANGED <<ledger, caller, phase, suspended, durableVars, historyVars>>

---------------------------------------------------------------------------
(* One provider attempt of a caller.                                       *)

\* A turn holds the lease of the applied objective; controlled_aux_model_call
\* reads steer_epoch just before it reserves.
BeginCall(c) ==
  /\ phase = "running"
  /\ caller[c].at = "idle"
  /\ c \in Recorders => run.applied = run.epoch /\ run.stop = "no"
  /\ caller' = [caller EXCEPT ![c] = [NoAttempt EXCEPT !.at = "ready", !.epoch = run.epoch]]
  /\ UNCHANGED <<ledger, run, phase, suspended, durableVars, historyVars>>

Matches(c) == run.applied = caller[c].epoch /\ run.epoch = caller[c].epoch

\* The call is refused: by a stop of the run, by a steer, or by the budget.
RefuseStopped(c) ==
  /\ caller[c].at = "ready" /\ run.stop # "no"
  /\ caller' = [caller EXCEPT ![c] = NoAttempt]
  /\ UNCHANGED <<ledger, run, phase, suspended, durableVars, historyVars>>

RefuseSuperseded(c) ==
  /\ caller[c].at = "ready" /\ run.stop = "no" /\ ~Matches(c)
  /\ caller' = [caller EXCEPT ![c] = NoAttempt]
  /\ UNCHANGED <<ledger, run, phase, suspended, durableVars, historyVars>>

RefuseReserve(c, class, size) ==
  /\ caller[c].at = "ready" /\ run.stop = "no" /\ Matches(c)
  /\ Admission(ledger, class, size) # "admitted"
  /\ run' = IF Admission(ledger, class, size) = "exhausted"
            THEN [run EXCEPT !.stop = "resources"] ELSE run
  /\ caller' = [caller EXCEPT ![c] = NoAttempt]
  /\ UNCHANGED <<ledger, phase, suspended, durableVars, historyVars>>

BeginPhysicalModelAttempt(c, class, size) ==
  /\ caller[c].at = "ready" /\ run.stop = "no" /\ Matches(c)
  /\ Admission(ledger, class, size) = "admitted"
  /\ ledger' = Reserve(ledger, size)
  /\ caller' = [caller EXCEPT
                  ![c] = [NoAttempt EXCEPT !.at = IF c \in Children THEN "calling" ELSE "reserved",
                                           !.id = ledger.next]]
  /\ finals' = (finals \/ class = "finalizer")
  /\ UNCHANGED <<run, phase, suspended, durableVars, base, sent, overrun>>

\* checkpoint_agent_run_resources: the copy is taken under the control lock,
\* before the store lock.
ReadUsage(c) ==
  /\ caller[c].at \in {"reserved", "settled"}
  /\ caller' = [caller EXCEPT ![c].at = IF @ = "reserved" THEN "recording" ELSE "closing",
                              ![c].copy = ledger]
  /\ UNCHANGED <<ledger, run, phase, suspended, durableVars, historyVars>>

\* Fault: the writer does not look at the revision it replaces.
PersistBlindly(copy) == [run |-> run.id, ledger |-> copy]

\* persist_agent_resource_snapshot keeps a newer copy of the same run.
Persist(copy) ==
  IF checkpoint.run = run.id /\ checkpoint.ledger.rev > copy.rev
  THEN checkpoint
  ELSE [run |-> run.id, ledger |-> copy]

\* The reservation is durable and the request goes out.
RecordAndDispatch(c) ==
  /\ caller[c].at = "recording"
  /\ checkpoint' = Persist(caller[c].copy)
  /\ caller' = [caller EXCEPT ![c].at = "calling", ![c].copy = NewLedger]
  /\ sent' = sent + 1
  /\ UNCHANGED <<ledger, run, phase, suspended, envelope, base, overrun, finals>>

Excess(id, usage) ==
  IF usage = Unknown \/ id \notin DOMAIN ledger.pending THEN 0
  ELSE IF usage > ledger.pending[id] THEN usage - ledger.pending[id] ELSE 0

\* Fault: the answer to a call of a superseded objective is dropped unsettled.
FinishOnlyCurrent(c, usage, next) ==
  /\ ledger' = IF run.epoch = run.applied THEN Settle(ledger, caller[c].id, usage) ELSE ledger
  /\ caller' = [caller EXCEPT ![c] = next]
  /\ UNCHANGED <<run, phase, suspended, durableVars, historyVars>>

\* finish_physical_model_attempt(_at): a charge past the ceiling stops the run.
FinishAttempt(c, usage, next) ==
  /\ ledger' = Settle(ledger, caller[c].id, usage)
  /\ run' = IF run.stop = "no" /\ Charged(ledger'.segment) > MaxTokens
            THEN [run EXCEPT !.stop = "resources"] ELSE run
  /\ overrun' = overrun + Excess(caller[c].id, usage)
  /\ caller' = [caller EXCEPT ![c] = next]
  /\ UNCHANGED <<phase, suspended, durableVars, base, sent, finals>>

\* The store refuses the checkpoint: the attempt is settled and not sent.
CheckpointFails(c) ==
  /\ caller[c].at = "recording"
  /\ FinishAttempt(c, Unknown, NoAttempt)

ProviderAnswers(c, usage) ==
  /\ caller[c].at = "calling"
  /\ FinishAttempt(c, usage,
       IF c \in Children THEN NoAttempt ELSE [NoAttempt EXCEPT !.at = "settled"])

\* Drop of ControlledModelAttempt when the caller's frame unwinds.
Unwind(c) ==
  /\ caller[c].at \in {"reserved", "calling"}
  /\ FinishAttempt(c, Unknown, NoAttempt)

\* The settlement checkpoint; its failure is only logged.
RecordSettlement(c) ==
  /\ caller[c].at = "closing"
  /\ checkpoint' \in {Persist(caller[c].copy), checkpoint}
  /\ caller' = [caller EXCEPT ![c] = NoAttempt]
  /\ UNCHANGED <<ledger, run, phase, suspended, envelope, historyVars>>

---------------------------------------------------------------------------
(* Pause, permission wait, completion, restart and retry.  The threads of a *)
(* run are scoped: they have returned when the run leaves its loop.        *)

NewHistory(l) ==
  /\ base' = l.lineage.attempts
  /\ sent' = 0
  /\ overrun' = 0
  /\ finals' = FALSE

\* persist_paused_agent_run: envelope and deletion of the read model are one
\* transaction; the control snapshot is remembered.
PauseRun ==
  /\ phase = "running" /\ run.stop # "no" /\ AllIdle
  /\ phase' = "paused"
  /\ suspended' = TRUE
  /\ envelope' = [reason |-> "paused", copy |-> [run |-> run.id, ledger |-> ledger]]
  /\ checkpoint' = NoCopy
  /\ UNCHANGED <<ledger, run, caller, historyVars>>

\* The wait commits the envelope with the usage and leaves the read model.
WaitForPermission ==
  /\ phase = "running" /\ run.stop = "no" /\ run.applied = run.epoch /\ AllIdle
  /\ phase' = "waiting"
  /\ suspended' = TRUE
  /\ envelope' = [reason |-> "blocked", copy |-> [run |-> run.id, ledger |-> ledger]]
  /\ UNCHANGED <<ledger, run, caller, checkpoint, historyVars>>

CompleteRun ==
  /\ phase = "running" /\ run.stop = "no" /\ run.applied = run.epoch /\ AllIdle
  /\ phase' = "ended"
  /\ checkpoint' = NoCopy
  /\ UNCHANGED <<ledger, run, caller, suspended, envelope, historyVars>>

\* Fault: the run resumed after a restart starts with an empty ledger.
ResumeFresh ==
  /\ phase = "waiting"
  /\ phase' = "running"
  /\ suspended' = FALSE
  /\ ledger' = IF suspended THEN ledger ELSE NewLedger
  /\ UNCHANGED <<run, caller, durableVars, historyVars>>

\* The permission is resolved: the same physical run goes on, from the control
\* snapshot or, after a restart, from the blocked envelope.
ResumeWaiting ==
  /\ phase = "waiting"
  /\ phase' = "running"
  /\ suspended' = FALSE
  /\ ledger' = IF suspended THEN ledger ELSE FromPersistedSnapshot(envelope.copy.ledger)
  /\ UNCHANGED <<run, caller, durableVars, historyVars>>

\* retry_agent_task_blocking, with the control snapshot still in memory.
ContinueStoppedRun ==
  /\ phase = "paused" /\ suspended /\ run.id < MaxRuns
  /\ phase' = "running"
  /\ suspended' = FALSE
  /\ ledger' = StartNewSegment(ledger)
  /\ run' = [run EXCEPT !.id = @ + 1, !.stop = "no"]
  /\ envelope' = NoEnvelope
  /\ NewHistory(ledger')
  /\ UNCHANGED <<caller, checkpoint>>

RestoredLedger ==
  IF envelope.copy = NoCopy THEN NewLedger
  ELSE IF envelope.reason = "paused"
       THEN StartNewSegment(FromPersistedSnapshot(envelope.copy.ledger))
       ELSE FromPersistedSnapshot(envelope.copy.ledger)

\* The retry after a restart: only a pause by the user's budget opens a new
\* segment, an interrupted run keeps its own.
RetryFromEnvelope ==
  /\ phase = "paused" /\ ~suspended /\ run.id < MaxRuns
  /\ phase' = "running"
  /\ ledger' = RestoredLedger
  /\ run' = [run EXCEPT !.id = @ + 1, !.stop = "no", !.epoch = run.applied]
  /\ envelope' = NoEnvelope
  /\ base' = RestoredLedger.lineage.attempts
  /\ sent' = 0
  /\ IF envelope.reason = "paused" \/ envelope.copy = NoCopy
     THEN overrun' = 0 /\ finals' = FALSE
     ELSE UNCHANGED <<overrun, finals>>
  /\ UNCHANGED <<caller, suspended, checkpoint>>

\* The application goes down.  The next startup finds a wait already recorded
\* as blocked and only deletes the read model; an interrupted run is recovered
\* by the next action.
Crash ==
  /\ phase \in {"running", "paused", "waiting"}
  /\ caller' = [c \in Callers |-> NoAttempt]
  /\ suspended' = FALSE
  /\ ledger' = NewLedger
  /\ phase' = IF phase = "running" THEN "down" ELSE phase
  /\ checkpoint' = IF phase = "waiting" THEN NoCopy ELSE checkpoint
  /\ UNCHANGED <<run, envelope, historyVars>>

\* Startup recovery of an interrupted run: the checkpoint of its own run id,
\* else what its last envelope held.
RecoverInterruptedRun ==
  /\ phase = "down"
  /\ phase' = "paused"
  /\ envelope' = [reason |-> "restarted",
                  copy |-> IF checkpoint.run = run.id THEN checkpoint ELSE envelope.copy]
  /\ checkpoint' = NoCopy
  /\ UNCHANGED <<ledger, run, caller, suspended, historyVars>>

---------------------------------------------------------------------------
Classes(c) == IF c \in Children THEN {"inner"} ELSE {"inner", "finalizer"}

CallerStep(c) ==
  \/ BeginCall(c)
  \/ RefuseStopped(c)
  \/ RefuseSuperseded(c)
  \/ \E class \in Classes(c), size \in Sizes :
       RefuseReserve(c, class, size) \/ BeginPhysicalModelAttempt(c, class, size)
  \/ ReadUsage(c)
  \/ RecordAndDispatch(c)
  \/ CheckpointFails(c)
  \/ \E usage \in Usages \cup {Unknown} : ProviderAnswers(c, usage)
  \/ Unwind(c)
  \/ RecordSettlement(c)

RunStep ==
  \/ RequestSteer \/ ApplySteer \/ OtherStop
  \/ PauseRun \/ WaitForPermission \/ CompleteRun
  \/ ResumeWaiting \/ ContinueStoppedRun \/ RetryFromEnvelope
  \/ Crash \/ RecoverInterruptedRun

Next == RunStep \/ \E c \in Callers : CallerStep(c)

Spec == Init /\ [][Next]_vars

---------------------------------------------------------------------------
(* Properties.                                                             *)

UsageType == [attempts : Nat, total : Nat, reserved : Nat, settled : Nat]
IsLedger(l) ==
  /\ l.rev \in Nat /\ l.next \in Nat \ {0}
  /\ l.segment \in UsageType /\ l.lineage \in UsageType
  /\ DOMAIN l.pending \subseteq 1..(l.next - 1)
  /\ \A id \in DOMAIN l.pending : l.pending[id] \in Sizes

\* The state has its types; in particular no saturating subtraction of
\* settle_usage ever meets its floor, and an attempt id is never given twice.
TypeOK ==
  /\ IsLedger(ledger)
  /\ run \in [id : 1..MaxRuns, stop : {"no", "other", "resources"},
              epoch : 0..MaxSteers, applied : 0..MaxSteers]
  /\ phase \in {"running", "waiting", "paused", "down", "ended"}
  /\ suspended \in BOOLEAN
  /\ checkpoint.run \in 0..MaxRuns /\ IsLedger(checkpoint.ledger)
  /\ envelope.reason \in {"none", "paused", "blocked", "restarted"}
  /\ IsLedger(envelope.copy.ledger)
  /\ \A c \in Callers :
       /\ caller[c].at \in {"idle", "ready", "reserved", "recording", "calling",
                            "settled", "closing"}
       /\ IsLedger(caller[c].copy)

\* Whatever interleaving of reservations, settlements, failed checkpoints,
\* unwinding, pauses and restarts: the reserved sums of segment and lineage are
\* those of the attempts in flight, every attempt is settled once or in flight,
\* each attempt in flight belongs to one live caller, and the lineage covers
\* the segment (reserve, settle, settle_all_pending_as_unknown).
Holds(c) == caller[c].at \in {"reserved", "recording", "calling"}
LedgerBalances ==
  /\ TypeOK
  /\ phase = "running" =>
    /\ \A usage \in {ledger.segment, ledger.lineage} :
         /\ usage.reserved = SumOf(ledger.pending)
         /\ usage.attempts = usage.settled + Cardinality(DOMAIN ledger.pending)
    /\ DOMAIN ledger.pending = {caller[c].id : c \in {d \in Callers : Holds(d)}}
    /\ Cardinality(DOMAIN ledger.pending) = Cardinality({c \in Callers : Holds(c)})
    /\ ledger.segment.attempts <= ledger.lineage.attempts
    /\ ledger.segment.total <= ledger.lineage.total

\* A segment is never charged past its ceiling except by what providers used
\* beyond their reservations, and never makes more attempts than its budget,
\* concurrent callers and restarts into the same segment included.
CeilingHolds ==
  /\ Charged(ledger.segment) <= MaxTokens + overrun
  /\ ledger.segment.attempts <= MaxAttempts

\* Until the finalizer has spent it, the terminal reserve is there: as long as
\* no provider exceeded its reservation, a final call within the reserve is
\* admitted whatever the other callers have in flight
\* (protected_token_reserve, protected_physical_model_attempt_reserve).
FinalAnswerIsAffordable ==
  (/\ phase = "running" /\ ~finals /\ overrun = 0
   /\ \E c \in Recorders : ~Holds(c))
  => \A size \in Sizes :
       size <= TokenReserve => Admission(ledger, "finalizer", size) = "admitted"

\* Both: what the callers may spend and what is kept for the final answer.
CeilingAndReserveHold == CeilingHolds /\ FinalAnswerIsAffordable

\* While a checkpointing caller's request is at the provider, the durable
\* checkpoint of this very run holds its reservation, although writers may
\* store their copies in the wrong order (persist_agent_resource_snapshot).
DispatchIsRecorded ==
  \A c \in Recorders :
    (phase = "running" /\ caller[c].at = "calling") =>
      /\ checkpoint.run = run.id
      /\ caller[c].id \in DOMAIN checkpoint.ledger.pending

\* After a crash, recovery charges the interrupted run at least every attempt
\* its checkpointing callers sent, on top of what its lineage had before.
AttemptsSurviveCrash ==
  (phase = "paused" /\ envelope.reason = "restarted" /\ sent > 0) =>
    envelope.copy.ledger.lineage.attempts >= base + sent

\* Both: an attempt is in the checkpoint before it is sent, and in the budget of
\* the run that recovery starts.
AttemptsSurviveRestart == DispatchIsRecorded /\ AttemptsSurviveCrash
===============================================================================
