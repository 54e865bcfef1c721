------------------------------ MODULE ToolBatch ------------------------------
(***************************************************************************)
(* Tool-call admission of one scope, over a run: single calls, parallel    *)
(* batches, continuation leases, calls of delegated children and goal      *)
(* progress, in any order.  The question is whether reserving a batch in   *)
(* one step (begin_tool_call_batch_with_epoch) is the same decision as     *)
(* admitting its calls one by one (begin_tool_call_locked).                *)
(*                                                                         *)
(* The epoch gate in front of both is RunControl's; here the lease is      *)
(* always current.  Counters below the machine word never overflow within  *)
(* MaxToolCalls, so the checked_add refusals of the batch are left out.    *)
(***************************************************************************)
EXTENDS ToolGuard, SequencesExt

CONSTANTS InitialToolCalls, \* budget.initial_tool_calls
          MaxBatch,         \* bound: longest batch
          MaxProgress,      \* bound: goal deltas accepted
          MaxExternal,      \* bound: calls of delegated children
          MaxSegments       \* bound: retries of the run and applied objectives

ASSUME BatchConstants == /\ InitialToolCalls \in Nat
                         /\ MaxBatch \in Nat
                         /\ MaxProgress \in Nat
                         /\ MaxExternal \in Nat
                         /\ MaxSegments \in Nat

VARIABLES admission, \* counters, budget and guard, as Admission packs them
          progress,  \* goal_delta_count
          external,  \* tool_calls counted by record_external_tool_call
          executed,  \* the admitted calls that no lease exempted, in order
          segment    \* the segments opened so far, and the limit and the
                     \* progress the newest one started from

batchVars == <<admission, progress, external, executed, segment>>

FirstLimit == StartLimit(InitialToolCalls, MaxToolCalls)

Init == /\ admission = [outcome |-> "Started", calls |-> 0,
                        limit |-> FirstLimit, spent |-> 0,
                        guard |-> EmptyGuard]
        /\ progress = 0
        /\ external = 0
        /\ executed = << >>
        /\ segment = [opened |-> 0, limit |-> FirstLimit, progress |-> 0]

Admitting == admission.outcome = "Started"

(***************************************************************************)
(* The batch.                                                              *)
(***************************************************************************)
\* Fault: a mismatch does not clear the lease for the rest of the batch.
ObserveKeepingLease(local, sig) ==
    IF local.repeated \/ local.guard.lease = sig
    THEN local
    ELSE LET seen == Observe(local.guard, sig)
         IN  [seen EXCEPT !.guard.lease = local.guard.lease]

\* One call of the batch against the local copies of the guard; the first
\* repetition ends the loop.
ObserveInBatch(local, sig) ==
    IF local.repeated \/ local.guard.lease = sig
    THEN local
    ELSE Observe([local.guard EXCEPT !.lease = NoSignature], sig)

\* What a refused batch leaves behind: a stop, and the extension it may have
\* bought; the guard's local copies are dropped.
RefuseBatch(s, budget, reason) ==
    Admission(reason, s.calls, budget, s.guard)

\* begin_tool_call_batch_with_epoch, past its epoch gate.  The budget of the
\* whole batch comes before the guard.  An uncertified batch in any trouble
\* is handed back to the serial path.
AdmitBatch(s, batch, goalDelta, certified) ==
    LET lastCall == s.calls + Len(batch)
        risky    == s.guard.lease # NoSignature \/ lastCall > s.limit
        budget   == ToolHeadroom(s, lastCall, goalDelta)
        seen     == FoldLeft(ObserveInBatch,
                             [repeated |-> FALSE, guard |-> s.guard], batch)
    IN  IF ~certified /\ (risky \/ seen.repeated)
        THEN [s EXCEPT !.outcome = "SerialRequired"]
        ELSE IF ~budget.granted
        THEN RefuseBatch(s, budget, "ToolCallBudgetExceeded")
        ELSE IF seen.repeated
        THEN RefuseBatch(s, budget, "RepeatedAction")
        ELSE Admission("Started", lastCall, budget, seen.guard)

\* The same calls one by one, as the serial loop of the caller admits them;
\* it ends at the first refusal.
AdmitInOrder(s, calls, goalDelta) ==
    FoldLeft(LAMBDA now, sig : IF now.outcome = "Started"
                               THEN AdmitCall(now, sig, goalDelta) ELSE now,
             s, calls)

\* The calls of a batch that go through the guard.
Unleased(guard, calls) ==
    LET matching == {i \in 0 .. Len(calls) :
                        \A j \in 1 .. i : calls[j] = guard.lease}
        exempt   == CHOOSE i \in matching : \A j \in matching : j <= i
    IN  SubSeq(calls, exempt + 1, Len(calls))

(***************************************************************************)
(* The run.                                                                *)
(***************************************************************************)
BeginToolCall(sig) ==
    /\ Admitting
    /\ admission' = AdmitCall(admission, sig, progress)
    /\ executed' = IF admission'.outcome = "Started"
                   THEN executed \o Unleased(admission.guard, <<sig>>)
                   ELSE executed
    /\ UNCHANGED <<progress, external, segment>>

BeginToolCallBatch(batch, certified) ==
    /\ Admitting
    /\ LET tried == AdmitBatch(admission, batch, progress, certified)
       IN  /\ tried.outcome # "SerialRequired"
           /\ admission' = tried
           /\ executed' = IF tried.outcome = "Started"
                          THEN executed \o Unleased(admission.guard, batch)
                          ELSE executed
    /\ UNCHANGED <<progress, external, segment>>

\* record_tool_continuation_at: a partial observation of a repeatable tool
\* leases its exact action, any other outcome clears the lease.
RecordToolContinuation(sig, continuationSafe) ==
    /\ admission' = [admission EXCEPT
                        !.guard.lease = IF continuationSafe THEN sig
                                                            ELSE NoSignature]
    /\ UNCHANGED <<progress, external, executed, segment>>

RecordExternalToolCall ==
    /\ external < MaxExternal
    /\ external' = external + 1
    /\ admission' = [admission EXCEPT !.calls = @ + 1]
    /\ UNCHANGED <<progress, executed, segment>>

RecordGoalDelta ==
    /\ Admitting
    /\ progress < MaxProgress
    /\ progress' = progress + 1
    /\ UNCHANGED <<admission, external, executed, segment>>

\* from_snapshot_for_continuation: fresh counters and limits, every recorded
\* delta counts as spent, the guard and the lease are kept.
ContinueStoppedRun ==
    /\ ~Admitting
    /\ segment.opened < MaxSegments
    /\ admission' = [admission EXCEPT !.outcome = "Started", !.calls = 0,
                                      !.limit = FirstLimit, !.spent = progress]
    /\ external' = 0
    /\ executed' = << >>
    /\ segment' = [opened |-> segment.opened + 1, limit |-> FirstLimit,
                   progress |-> progress]
    /\ UNCHANGED progress

\* A steer was applied: the new objective opens a bounded base segment and
\* drops the lease; the guard keeps watching.
OpenAppliedObjectiveSegment ==
    /\ Admitting
    /\ segment.opened < MaxSegments
    /\ admission' = [OpenSegment(admission, progress, InitialToolCalls,
                                 MaxToolCalls)
                        EXCEPT !.guard.lease = NoSignature]
    /\ segment' = [opened |-> segment.opened + 1, limit |-> admission'.limit,
                   progress |-> progress]
    /\ UNCHANGED <<progress, external, executed>>

Batches == UNION {[1 .. n -> Signatures] : n \in 2 .. MaxBatch}

Next == \/ \E sig \in Signatures : BeginToolCall(sig)
        \/ \E batch \in Batches, certified \in BOOLEAN :
              BeginToolCallBatch(batch, certified)
        \/ \E sig \in Signatures, safe \in BOOLEAN :
              RecordToolContinuation(sig, safe)
        \/ RecordExternalToolCall
        \/ RecordGoalDelta
        \/ ContinueStoppedRun
        \/ OpenAppliedObjectiveSegment

Spec == Init /\ [][Next]_batchVars

(***************************************************************************)
(* Properties.                                                             *)
(***************************************************************************)
StopOutcomes == {"ToolCallBudgetExceeded", "RepeatedAction"}

TypeOK == /\ admission \in [outcome : {"Started"} \cup StopOutcomes,
                            calls : Nat, limit : 1 .. MaxToolCalls,
                            spent : Nat, guard : ToolGuards]
          /\ admission.spent <= progress
          /\ Len(admission.guard.recent) <= RecentWindow

\* In every reachable state, a certified batch is admitted exactly when the
\* serial path would admit all of its calls, and it then leaves exactly the
\* counters, the budget, the lease and the guard the serial path would leave;
\* an uncertified batch that is admitted does so too
\* (control_tool_batch.rs against begin_tool_call_locked).
BatchAgreesWithSerial ==
    Admitting =>
      \A batch \in Batches, certified \in BOOLEAN :
        LET together == AdmitBatch(admission, batch, progress, certified)
            inOrder  == AdmitInOrder(admission, batch, progress)
        IN  /\ together.outcome = "Started" => together = inOrder
            /\ (certified /\ inOrder.outcome = "Started")
                  => together = inOrder

\* What a run segment really executes never repeats: the calls that no lease
\* exempted contain no block of one, two or three actions that is executed
\* more than max_identical_actions times in a row, however they were split
\* into batches and whatever the window has dropped
\* (has_repeated_action_cycle, stated over the whole history with SubSeq).
NoCycleIsExecuted ==
    \A period \in 1 .. 3 :
      LET copies == AtLeast(MaxIdenticalActions + 1, 2)
      IN  ~\E from \in 0 .. Len(executed) - period * copies :
             \A n \in 1 .. copies - 1 :
                SubSeq(executed, from + 1, from + period)
                  = SubSeq(executed, from + n * period + 1,
                           from + (n + 1) * period)

\* Headroom is earned: the limit only grows by one extension per goal delta
\* of its segment, neither a retry nor a new objective buys anything with the
\* progress before it, and the run's own calls stay within it; only calls of
\* delegated children, which are counted but not gated, go beyond
\* (extend_tool_budget_if_progressed, record_external_tool_call).  The limit
\* itself never passes its cap (TypeOK).
ToolHeadroomIsEarned ==
    /\ TypeOK
    /\ admission.calls <= admission.limit + external
    /\ admission.limit
         <= segment.limit + (progress - segment.progress)
                           * AtLeast(ToolCallsPerExtension, 1)
=============================================================================
