----------------------------- MODULE RunControl -----------------------------
(***************************************************************************)
(* The lifecycle half of AgentRunControl, the one lock-protected object    *)
(* that serialises everything that happens to a running agent: user        *)
(* steering, cancellation, the budget and clock stops, the preparation     *)
(* hand-off, every durable checkpoint and the terminal commit.             *)
(*                                                                         *)
(* Each handler takes the state mutex for its whole body, so each one is   *)
(* one action here.  A handler that refuses (Stopped, RestartAfterSteer,   *)
(* Duplicate, CapacityReached, AlreadyCommitted) or whose commit closure   *)
(* fails changes nothing and is a stuttering step.  Every handler first    *)
(* runs refresh_stop_reason_locked; a refresh that finds an expired clock  *)
(* is the action RefreshStopReason, after which the handler refuses.       *)
(*                                                                         *)
(* The metering half (budgets, clocks, tool guards) is the subject of      *)
(* RunMetering; here its only effect is the stop reason it may set.        *)
(***************************************************************************)
EXTENDS Naturals, Sequences

CONSTANTS Steers,        \* queue ids of the messages a user may steer with
          SteerCapacity, \* most pending steers (16 in the code)
          InitialEpoch,  \* epoch new_at_steer_epoch starts from
          MaxEpoch,      \* bound: steers accepted in one behaviour
          MaxLog         \* bound: durable commits in one behaviour

ASSUME ControlConstants == /\ SteerCapacity \in Nat \ {0}
                           /\ InitialEpoch \in Nat
                           /\ MaxEpoch \in Nat
                           /\ MaxLog \in Nat

VARIABLES phase,         \* RunMutableState.phase
          stopReason,    \* RunMutableState.stop_reason
          userCancelled, \* the user_cancelled flag
          steerEpoch,    \* steer_epoch: epoch of the newest accepted steer
          appliedEpoch,  \* applied_steer_epoch: newest steer in the context
          pendingSteers, \* accepted steers the owner has not applied
          partialOutput, \* epochs whose streamed text partial_output holds
          results,       \* epochs of the candidates in the ResultFrontier
          log            \* the durable commits the closures wrote, in order

controlVars == <<phase, stopReason, userCancelled, steerEpoch, appliedEpoch,
                 pendingSteers, partialOutput, results, log>>

NoStop == "None"
MeterReasons == {"ModelCallBudgetExceeded", "ToolCallBudgetExceeded",
                 "TurnBudgetExhausted", "RepeatedAction",
                 "ModelResourceBudgetExceeded"}
ClockReasons == {"DeadlineExceeded", "NoProgress"}
\* What callers of request_stop report.
RequestedReasons == {"ProviderUnavailable", "TurnBudgetExhausted"}
\* StageBudgetExhausted and RepairBudgetExhausted are refusals a caller gets,
\* never the stop reason of the run.
StopReasons == {"UserCancelled"} \cup RequestedReasons \cup MeterReasons
                 \cup ClockReasons

RunPhases == {"Preparing", "Executing", "TerminalCommitted"}
CommitKinds == {"start", "steer", "apply", "checkpoint", "prepared", "step",
                "terminal"}
\* Commits that carry work done for an objective.
WorkKinds == {"checkpoint", "prepared", "step", "terminal"}

RunSteer == [queueId : Steers, epoch : Nat]
LogEntry == [kind : CommitKinds, epoch : Nat]

TypeOK == /\ phase \in RunPhases
          /\ stopReason \in StopReasons \cup {NoStop}
          /\ userCancelled \in BOOLEAN
          /\ steerEpoch \in Nat
          /\ appliedEpoch \in Nat
          /\ pendingSteers \in Seq(RunSteer)
          /\ partialOutput \in SUBSET Nat
          /\ results \in SUBSET Nat
          /\ log \in Seq(LogEntry)

Init == /\ phase = "Executing"
        /\ stopReason = NoStop
        /\ userCancelled = FALSE
        /\ steerEpoch = InitialEpoch
        /\ appliedEpoch = InitialEpoch
        /\ pendingSteers = << >>
        /\ partialOutput = {}
        /\ results = {}
        /\ log = << >>

(***************************************************************************)
(* What the handlers test.                                                 *)
(***************************************************************************)
Terminal == phase = "TerminalCommitted"

\* refresh_stop_reason_locked returned None.  Cancellation needs no test of
\* its own: request_cancel sets the reason under the same lock.
Running == stopReason = NoStop

\* Fault: the gate compares the newest accepted epoch only.
GateOnAcceptedEpochOnly(e) == steerEpoch = e

\* The epoch gate: no steer is waiting and e is both the newest accepted and
\* the newest applied epoch.
EpochIsCurrent(e) == /\ pendingSteers = << >>
                     /\ appliedEpoch = e
                     /\ steerEpoch = e

ObjectiveEpochMatches(e) == ~Terminal /\ EpochIsCurrent(e)

\* Every epoch a caller can have sampled, as a lease or from steer_epoch().
SampledEpochs == 0 .. steerEpoch

\* The closure of a commit succeeded and wrote one entry.
Persist(kind, e) == /\ Len(log) < MaxLog
                    /\ log' = Append(log, [kind |-> kind, epoch |-> e])

(***************************************************************************)
(* Stopping.                                                               *)
(***************************************************************************)
\* Fault: cancelling replaces an earlier stop reason.
CancelOverwritesReason ==
    /\ ~Terminal
    /\ userCancelled' = TRUE
    /\ stopReason' = "UserCancelled"
    /\ UNCHANGED <<phase, steerEpoch, appliedEpoch, pendingSteers,
                   partialOutput, results, log>>

RequestCancel ==
    /\ ~Terminal
    /\ userCancelled' = TRUE
    /\ stopReason' = IF Running THEN "UserCancelled" ELSE stopReason
    /\ UNCHANGED <<phase, steerEpoch, appliedEpoch, pendingSteers,
                   partialOutput, results, log>>

SetStopReason(reason) ==
    /\ stopReason' = reason
    /\ UNCHANGED <<phase, userCancelled, steerEpoch, appliedEpoch,
                   pendingSteers, partialOutput, results, log>>

RequestStop(reason) == ~Terminal /\ Running /\ SetStopReason(reason)

\* Any handler that refreshes and finds the deadline or the no-progress
\* timeout exceeded.
RefreshStopReason(reason) ==
    ~Terminal /\ Running /\ SetStopReason(reason)

\* A metered handler that exhausts its budget.  The handlers without an epoch
\* test and the settling of a physical attempt do not look at the phase.
MeterStop(reason) == Running /\ SetStopReason(reason)

(***************************************************************************)
(* Starting and preparing.                                                 *)
(***************************************************************************)
CommitStartCheckpoint ==
    /\ Running
    /\ ~Terminal
    /\ Persist("start", appliedEpoch)
    /\ UNCHANGED <<phase, stopReason, userCancelled, steerEpoch, appliedEpoch,
                   pendingSteers, partialOutput, results>>

BeginPreparation ==
    /\ ~Terminal
    /\ Running
    /\ phase' = "Preparing"
    /\ UNCHANGED <<stopReason, userCancelled, steerEpoch, appliedEpoch,
                   pendingSteers, partialOutput, results, log>>

CommitPreparationCheckpoint(e) ==
    /\ Running
    /\ phase = "Preparing"
    /\ EpochIsCurrent(e)
    /\ Persist("checkpoint", e)
    /\ UNCHANGED <<phase, stopReason, userCancelled, steerEpoch, appliedEpoch,
                   pendingSteers, partialOutput, results>>

CommitPreparation(e) ==
    /\ Running
    /\ phase = "Preparing"
    /\ EpochIsCurrent(e)
    /\ Persist("prepared", e)
    /\ phase' = "Executing"
    /\ UNCHANGED <<stopReason, userCancelled, steerEpoch, appliedEpoch,
                   pendingSteers, partialOutput, results>>

CommitPreparationTerminal(e) ==
    /\ Running
    /\ phase = "Preparing"
    /\ EpochIsCurrent(e)
    /\ Persist("terminal", e)
    /\ phase' = "TerminalCommitted"
    /\ UNCHANGED <<stopReason, userCancelled, steerEpoch, appliedEpoch,
                   pendingSteers, partialOutput, results>>

(***************************************************************************)
(* Steering.                                                               *)
(***************************************************************************)
\* Fault: the request does not look for a terminal commit.
SteerAfterTerminal(id) ==
    /\ Running
    /\ \A i \in 1 .. Len(pendingSteers) : pendingSteers[i].queueId # id
    /\ Len(pendingSteers) < SteerCapacity
    /\ steerEpoch < MaxEpoch
    /\ Persist("steer", steerEpoch + 1)
    /\ steerEpoch' = steerEpoch + 1
    /\ pendingSteers' = Append(pendingSteers,
                               [queueId |-> id, epoch |-> steerEpoch + 1])
    /\ partialOutput' = {}
    /\ results' = {}
    /\ UNCHANGED <<phase, stopReason, userCancelled, appliedEpoch>>

\* Fault: the candidate answers of the old objective are kept.
SteerKeepsResults(id) ==
    /\ ~Terminal
    /\ Running
    /\ \A i \in 1 .. Len(pendingSteers) : pendingSteers[i].queueId # id
    /\ Len(pendingSteers) < SteerCapacity
    /\ steerEpoch < MaxEpoch
    /\ Persist("steer", steerEpoch + 1)
    /\ steerEpoch' = steerEpoch + 1
    /\ pendingSteers' = Append(pendingSteers,
                               [queueId |-> id, epoch |-> steerEpoch + 1])
    /\ partialOutput' = {}
    /\ UNCHANGED <<phase, stopReason, userCancelled, appliedEpoch, results>>

CommitSteerRequest(id) ==
    /\ ~Terminal
    /\ Running
    /\ \A i \in 1 .. Len(pendingSteers) : pendingSteers[i].queueId # id
    /\ Len(pendingSteers) < SteerCapacity
    /\ steerEpoch < MaxEpoch
    /\ Persist("steer", steerEpoch + 1)
    /\ steerEpoch' = steerEpoch + 1
    /\ pendingSteers' = Append(pendingSteers,
                               [queueId |-> id, epoch |-> steerEpoch + 1])
    /\ partialOutput' = {}
    /\ results' = {}
    /\ UNCHANGED <<phase, stopReason, userCancelled, appliedEpoch>>

\* Fault: the batch acknowledges only the oldest steer.
AcknowledgeOldestOnly ==
    /\ Running
    /\ ~Terminal
    /\ pendingSteers # << >>
    /\ Persist("apply", pendingSteers[1].epoch)
    /\ appliedEpoch' = pendingSteers[1].epoch
    /\ pendingSteers' = << >>
    /\ UNCHANGED <<phase, stopReason, userCancelled, steerEpoch,
                   partialOutput, results>>

\* The owner drains the whole queue in one durable batch.
CommitPendingSteers ==
    /\ Running
    /\ ~Terminal
    /\ pendingSteers # << >>
    /\ LET newest == pendingSteers[Len(pendingSteers)].epoch
       IN  /\ Persist("apply", newest)
           /\ appliedEpoch' = IF newest > appliedEpoch THEN newest
                                                       ELSE appliedEpoch
    /\ pendingSteers' = << >>
    /\ UNCHANGED <<phase, stopReason, userCancelled, steerEpoch,
                   partialOutput, results>>

(***************************************************************************)
(* Executing.                                                              *)
(***************************************************************************)
CommitExecutionStep(e) ==
    /\ Running
    /\ phase = "Executing"
    /\ EpochIsCurrent(e)
    /\ Persist("step", e)
    /\ UNCHANGED <<phase, stopReason, userCancelled, steerEpoch, appliedEpoch,
                   pendingSteers, partialOutput, results>>

\* Fault: the terminal commit forgets that steers may be waiting.
TerminalIgnoresPending(e) ==
    /\ Running
    /\ phase = "Executing"
    /\ steerEpoch = e
    /\ Persist("terminal", e)
    /\ phase' = "TerminalCommitted"
    /\ UNCHANGED <<stopReason, userCancelled, steerEpoch, appliedEpoch,
                   pendingSteers, partialOutput, results>>

CommitTerminalResult(e) ==
    /\ Running
    /\ phase = "Executing"
    /\ EpochIsCurrent(e)
    /\ Persist("terminal", e)
    /\ phase' = "TerminalCommitted"
    /\ UNCHANGED <<stopReason, userCancelled, steerEpoch, appliedEpoch,
                   pendingSteers, partialOutput, results>>

\* Streamed text and candidate answers are kept after a stop, so that the
\* stopped run still has something to show, but never across a steer.
RecordPartialOutput(e) ==
    /\ ObjectiveEpochMatches(e)
    /\ partialOutput' = {e}
    /\ UNCHANGED <<phase, stopReason, userCancelled, steerEpoch, appliedEpoch,
                   pendingSteers, results, log>>

RecordBestKnownResult(e) ==
    /\ ObjectiveEpochMatches(e)
    /\ results' = results \cup {e}
    /\ UNCHANGED <<phase, stopReason, userCancelled, steerEpoch, appliedEpoch,
                   pendingSteers, partialOutput, log>>

\* from_snapshot_for_continuation: the user retries a run that stopped for a
\* reason other than cancellation.  Only a suspended run is retried, and a
\* committed run is never suspended.
ContinueStoppedRun ==
    /\ stopReason \notin {NoStop, "UserCancelled"}
    /\ ~Terminal
    /\ phase' = "Executing"
    /\ stopReason' = NoStop
    /\ userCancelled' = FALSE
    /\ UNCHANGED <<steerEpoch, appliedEpoch, pendingSteers, partialOutput,
                   results, log>>

Next == \/ RequestCancel
        \/ \E reason \in RequestedReasons : RequestStop(reason)
        \/ \E reason \in ClockReasons : RefreshStopReason(reason)
        \/ \E reason \in MeterReasons : MeterStop(reason)
        \/ CommitStartCheckpoint
        \/ BeginPreparation
        \/ \E e \in SampledEpochs : CommitPreparationCheckpoint(e)
        \/ \E e \in SampledEpochs : CommitPreparation(e)
        \/ \E e \in SampledEpochs : CommitPreparationTerminal(e)
        \/ \E id \in Steers : CommitSteerRequest(id)
        \/ CommitPendingSteers
        \/ \E e \in SampledEpochs : CommitExecutionStep(e)
        \/ \E e \in SampledEpochs : CommitTerminalResult(e)
        \/ \E e \in SampledEpochs : RecordPartialOutput(e)
        \/ \E e \in SampledEpochs : RecordBestKnownResult(e)
        \/ ContinueStoppedRun

Spec == Init /\ [][Next]_controlVars

(***************************************************************************)
(* Properties.                                                             *)
(***************************************************************************)

\* The durable log read on its own: any work (a preparation checkpoint, the
\* prepared context, an execution step, the terminal answer) that is written
\* after a steer request was written is work for that steer or a newer one,
\* and the batch that put that steer into the context was written in between.
\* A worker that sampled its epoch before the steer, or between the request
\* and its application, never gets its commit in (control.rs,
\* commit_execution_step_with and its siblings).
CommittedWorkIsCurrent ==
    \A i, j \in 1 .. Len(log) :
        (i < j /\ log[i].kind = "steer" /\ log[j].kind \in WorkKinds)
          => /\ log[j].epoch >= log[i].epoch
             /\ \E k \in i + 1 .. j - 1 :
                    log[k].kind = "apply" /\ log[k].epoch >= log[i].epoch

\* A terminal commit is the last thing a run writes: no steer is accepted,
\* nothing is applied, checkpointed or committed a second time after it
\* (commit_terminal_result_with against commit_steer_request_with).
TerminalEndsTheLog ==
    \A i \in 1 .. Len(log) : log[i].kind = "terminal" => i = Len(log)

\* The pending queue holds exactly the epochs between the applied and the
\* newest accepted one, in order and within its capacity, so that no accepted
\* steer is skipped by an application or applied twice, across stops and
\* continuations (commit_pending_steers_with_applied_objective).
SteerQueueIsExact ==
    /\ Len(pendingSteers) <= SteerCapacity
    /\ steerEpoch = appliedEpoch + Len(pendingSteers)
    /\ \A i \in 1 .. Len(pendingSteers) :
          pendingSteers[i].epoch = appliedEpoch + i

\* Partial output and candidate answers always belong to the newest accepted
\* objective, whichever late worker recorded them (record_partial_output_at,
\* record_best_known_result_at, the clearing in commit_steer_request_with).
ResultsMatchObjective == partialOutput \cup results \subseteq {steerEpoch}

\* A stop is final for its run segment: its reason is not replaced, nothing
\* durable is written and no steer is applied while it stands; only a retry
\* lifts it, and a retry never lifts a cancellation
\* (refresh_stop_reason_locked first in every handler).
StopIsFinal ==
    [][~Running =>
          \/ UNCHANGED <<stopReason, phase, pendingSteers, appliedEpoch, log>>
          \/ /\ stopReason # "UserCancelled"
             /\ stopReason' = NoStop
             /\ userCancelled' = FALSE
             /\ UNCHANGED <<pendingSteers, appliedEpoch, log>>]_controlVars

\* The run keeps the promise of SteeringPromise: the answer it commits is an
\* answer to the newest guidance it accepted, and it accepts none afterwards.
answered == {log[i].epoch : i \in {n \in 1 .. Len(log) : log[n].kind = "terminal"}}

Promise == INSTANCE SteeringPromise
             WITH FirstObjective <- InitialEpoch, accepted <- steerEpoch,
                  applied <- appliedEpoch, answer <- answered

ImplementsPromise == Promise!PromiseSpec
=============================================================================
