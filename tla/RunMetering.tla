----------------------------- MODULE RunMetering -----------------------------
(***************************************************************************)
(* The metering half of AgentRunControl: model-call and turn budgets with  *)
(* their goal-progress extensions, the per-stage allocations, the reserve  *)
(* kept for the final answer, repairs, goal deltas, and the deadline and   *)
(* no-progress clocks.  Tool admission is ToolBatch; here a tool call is   *)
(* an admission that starts it or stops the run.                           *)
(*                                                                         *)
(* The lifecycle half is summarised by `phase': a steer is waiting, the    *)
(* run is committed, or neither.  A handler with an epoch gate goes ahead  *)
(* only in "Active" (RunControl's EpochIsCurrent); the entry points that   *)
(* take no epoch go ahead in every phase.  Refusals that change nothing    *)
(* are stuttering steps.  Time advances in ticks.                          *)
(***************************************************************************)
EXTENDS Budgets, FiniteSets

CONSTANTS InitialModelCalls, MaxModelCalls, ModelCallsPerExtension,
          InitialTurns, MaxTurns, TurnsPerExtension,
          MaxRepairAttempts,
          TerminalModelCallReserve, TerminalTimeReserve,
          MaxDuration, ModelCallTimeout, ToolCallTimeout, NoProgressTimeout,
          Classes,   \* the stage classes whose calls are explored
          Receipts,  \* receipt ids a goal delta can carry
          MaxActive  \* bound: model calls and tool calls in flight

StageClasses == {"Actor", "Conductor", "Candidate", "Worker", "Reviewer",
                 "Synthesizer", "Repair", "Finalizer", "Other"}

\* The effort profiles of run_budget.rs keep a reserve, and keep it below the
\* first limit.
ASSUME MeteringConstants ==
    /\ InitialModelCalls \in Nat
    /\ MaxModelCalls \in Nat \ {0}
    /\ ModelCallsPerExtension \in Nat
    /\ InitialTurns \in Nat
    /\ MaxTurns \in Nat \ {0}
    /\ TurnsPerExtension \in Nat
    /\ MaxRepairAttempts \in Nat
    /\ TerminalModelCallReserve \in Nat \ {0}
    /\ TerminalModelCallReserve < StartLimit(InitialModelCalls, MaxModelCalls)
    /\ TerminalTimeReserve \in Nat \ {0}
    /\ MaxDuration \in Nat \ {0}
    /\ ModelCallTimeout \in Nat \ {0}
    /\ ToolCallTimeout \in Nat \ {0}
    /\ NoProgressTimeout \in Nat \ {0}
    /\ Classes \subseteq StageClasses
    /\ IsFiniteSet(Receipts)
    /\ MaxActive \in Nat

VARIABLES phase,      \* "Active", "Steered" or "Committed"
          stopReason, \* RunMutableState.stop_reason
          model,      \* model_calls, model_call_limit and its extension mark
          turns,      \* agent_turns, agent_turn_limit and its extension mark
          repairs,    \* repair_attempts
          goal,       \* goal_delta_count and goal_delta_fingerprints
          active,     \* active_model_calls and active_tool_calls
          usage,      \* stage_usage: calls and start of each class
          clock,      \* time since started_at and since last_progress_at
          book        \* bookkeeping of the checks: who made the model calls,
                      \* and what the current objective started with and earned

meterVars == <<phase, stopReason, model, turns, repairs, goal, active, usage,
               clock, book>>

NoStop == "None"
Usage == [open : BOOLEAN, calls : Nat, since : Nat]
Unused == [open |-> FALSE, calls |-> 0, since |-> 0]
Budget == [calls : Nat, limit : Nat, spent : Nat]

FirstModel == [calls |-> 0, spent |-> 0,
               limit |-> StartLimit(InitialModelCalls, MaxModelCalls)]
FirstTurns == [calls |-> 0, spent |-> 0,
               limit |-> StartLimit(InitialTurns, MaxTurns)]
FreshBook(m, t) == [staged |-> 0, direct |-> 0, earned |-> 0,
                    modelBase |-> m, turnBase |-> t]

Init == /\ phase = "Active"
        /\ stopReason = NoStop
        /\ model = FirstModel
        /\ turns = FirstTurns
        /\ repairs = 0
        /\ goal = [count |-> 0, receipts |-> {}]
        /\ active = [model |-> 0, tool |-> 0]
        /\ usage = [c \in Classes |-> Unused]
        /\ clock = [elapsed |-> 0, quiet |-> 0]
        /\ book = FreshBook(FirstModel.limit, FirstTurns.limit)

(***************************************************************************)
(* Stage budgets and reserves (run_budget.rs).                             *)
(***************************************************************************)
IsTerminalClass(c) == c \in {"Reviewer", "Synthesizer", "Repair", "Finalizer"}

FinalizerModelCallReserve == AtLeast(TerminalModelCallReserve, 1)

\* Fault: review and synthesis may use up the whole limit.
ReserveForInnerStagesOnly(c) ==
    IF IsTerminalClass(c) THEN 0 ELSE TerminalModelCallReserve

ProtectedModelCallReserve(c) ==
    IF c = "Finalizer" THEN 0
    ELSE IF IsTerminalClass(c) THEN FinalizerModelCallReserve
    ELSE TerminalModelCallReserve

ProtectedTimeReserve(c) == IF c = "Finalizer" THEN 0 ELSE TerminalTimeReserve

StageModelCalls(c) ==
    LET share == CASE c \in {"Actor", "Other"}           -> MaxModelCalls
                   [] c = "Conductor"                    -> MaxRepairAttempts + 1
                   [] c = "Candidate"    -> AtLeast(MaxModelCalls \div 3, 2)
                   [] c = "Worker"       -> AtLeast(MaxModelCalls \div 2, 2)
                   [] c \in {"Reviewer", "Synthesizer"}  -> MaxRepairAttempts + 2
                   [] c = "Repair"                       -> MaxRepairAttempts
                   [] c = "Finalizer"            -> FinalizerModelCallReserve
    IN  AtLeast(AtMost(share, MaxModelCalls), 1)

StageDuration(c) ==
    CASE c \in {"Actor", "Worker", "Other"}      -> MaxDuration
      [] c \in {"Candidate", "Synthesizer"}      -> MaxDuration \div 2
      [] c = "Reviewer"                          -> MaxDuration \div 3
      [] c = "Repair"                            -> MaxDuration \div 4
      [] c = "Conductor"                         -> MaxDuration \div 5
      [] c = "Finalizer"                         -> TerminalTimeReserve

(***************************************************************************)
(* Clocks and stops.                                                       *)
(***************************************************************************)
Patience == IF active.model > 0 THEN ModelCallTimeout
            ELSE IF active.tool > 0 THEN ToolCallTimeout
            ELSE NoProgressTimeout

Expired == clock.elapsed >= MaxDuration \/ clock.quiet >= Patience

\* refresh_stop_reason_locked returned None: a committed run's clocks are not
\* looked at any more.
Proceeds == stopReason = NoStop /\ (phase = "Committed" \/ ~Expired)

\* The handler got past its refresh and, when it takes an epoch, its gate.
Enters(gated) == Proceeds /\ (gated => phase = "Active")

\* Fault: every sign of life restarts the run's clock.
ProgressRestartsClock == [elapsed |-> 0, quiet |-> 0]

ProgressNow == [clock EXCEPT !.quiet = 0]

RefreshStopReason ==
    /\ phase # "Committed"
    /\ stopReason = NoStop
    /\ Expired
    /\ stopReason' = IF clock.elapsed >= MaxDuration THEN "DeadlineExceeded"
                                                     ELSE "NoProgress"
    /\ UNCHANGED <<phase, model, turns, repairs, goal, active, usage, clock,
                   book>>

\* request_cancel and request_stop.
RequestStop(reason) ==
    /\ phase # "Committed"
    /\ stopReason = NoStop
    /\ stopReason' = reason
    /\ UNCHANGED <<phase, model, turns, repairs, goal, active, usage, clock,
                   book>>

Longest == AtLeast(AtLeast(ModelCallTimeout, ToolCallTimeout),
                   NoProgressTimeout)

\* The clocks stop mattering at their largest threshold, and after a stop.
Tick ==
    LET later == [elapsed |-> AtMost(clock.elapsed + 1, MaxDuration),
                  quiet   |-> AtMost(clock.quiet + 1, Longest)]
    IN  /\ stopReason = NoStop
        /\ clock # later
        /\ clock' = later
        /\ UNCHANGED <<phase, stopReason, model, turns, repairs, goal, active,
                       usage, book>>

(***************************************************************************)
(* Model calls.                                                            *)
(***************************************************************************)
Charge(owner) ==
    [book EXCEPT !.staged = IF owner = "staged" THEN @ + 1 ELSE @,
                 !.direct = IF owner = "direct" THEN @ + 1 ELSE @]

\* begin_model_call_locked with the entry `owner' of the book: the call is
\* counted, or the run stops.
CountModelCall(owner) ==
    LET call == model.calls + 1
        room == Headroom(model, call, goal.count, ModelCallsPerExtension,
                         MaxModelCalls)
    IN  IF room.granted
        THEN /\ model' = [calls |-> call, limit |-> room.limit,
                          spent |-> room.spent]
             /\ active' = [active EXCEPT !.model = @ + 1]
             /\ clock' = ProgressNow
             /\ book' = Charge(owner)
             /\ UNCHANGED stopReason
        ELSE /\ model' = [model EXCEPT !.limit = room.limit,
                                       !.spent = room.spent]
             /\ stopReason' = "ModelCallBudgetExceeded"
             /\ UNCHANGED <<active, clock, book>>

\* begin_model_call_at and begin_model_call: calls of no stage (embedding).
BeginModelCall(gated) ==
    /\ Enters(gated)
    /\ active.model < MaxActive
    /\ CountModelCall("direct")
    /\ UNCHANGED <<phase, turns, repairs, goal, usage>>

ReserveReached(c) ==
    \/ /\ ProtectedTimeReserve(c) > 0
       /\ MaxDuration - clock.elapsed <= ProtectedTimeReserve(c)
    \/ /\ ProtectedModelCallReserve(c) > 0
       /\ model.calls >= AtLeast(model.limit - ProtectedModelCallReserve(c), 1)

\* The usage entry of a class, opened by its first call past the reserve.
UsageOf(c) == IF usage[c].open
              THEN usage[c]
              ELSE [open |-> TRUE, calls |-> 0, since |-> clock.elapsed]

StageExhausted(c) ==
    \/ UsageOf(c).calls >= StageModelCalls(c)
    \/ clock.elapsed - UsageOf(c).since >= StageDuration(c)

\* begin_stage_model_call_at and begin_stage_model_call.  An exhausted stage
\* only leaves its usage entry behind; a run-wide refusal gives the stage its
\* call back.
BeginStageModelCall(c, gated) ==
    /\ Enters(gated)
    /\ active.model < MaxActive
    /\ ~ReserveReached(c)
    /\ IF StageExhausted(c)
       THEN /\ usage' = [usage EXCEPT ![c] = UsageOf(c)]
            /\ UNCHANGED <<stopReason, model, active, clock, book>>
       ELSE /\ CountModelCall(IF c = "Finalizer" THEN "final" ELSE "staged")
            /\ usage' = [usage EXCEPT ![c] =
                            IF stopReason' = NoStop
                            THEN [UsageOf(c) EXCEPT !.calls = @ + 1]
                            ELSE UsageOf(c)]
    /\ UNCHANGED <<phase, turns, repairs, goal>>

\* finish_model_call_at and finish_model_call: only a current caller of a
\* running run makes progress, the ungated one always does.
FinishModelCall(gated) ==
    /\ active.model > 0
    /\ active' = [active EXCEPT !.model = @ - 1]
    /\ clock' = IF gated /\ ~(stopReason = NoStop /\ phase = "Active")
                THEN clock ELSE ProgressNow
    /\ UNCHANGED <<phase, stopReason, model, turns, repairs, goal, usage, book>>

(***************************************************************************)
(* Turns, repairs, tools, progress.                                        *)
(***************************************************************************)
RecordAgentTurn ==
    /\ Enters(TRUE)
    /\ LET turn == turns.calls + 1
           room == Headroom(turns, turn, goal.count, TurnsPerExtension, MaxTurns)
       IN  IF room.granted
           THEN /\ turns' = [calls |-> turn, limit |-> room.limit,
                             spent |-> room.spent]
                /\ clock' = ProgressNow
                /\ UNCHANGED stopReason
           ELSE /\ turns' = [turns EXCEPT !.limit = room.limit,
                                          !.spent = room.spent]
                /\ stopReason' = "TurnBudgetExhausted"
                /\ UNCHANGED clock
    /\ UNCHANGED <<phase, model, repairs, goal, active, usage, book>>

\* An exhausted repair allowance is the caller's problem, not the run's.
BeginRepairAttempt ==
    /\ Enters(TRUE)
    /\ repairs < MaxRepairAttempts
    /\ repairs' = repairs + 1
    /\ clock' = ProgressNow
    /\ UNCHANGED <<phase, stopReason, model, turns, goal, active, usage, book>>

BeginToolCall ==
    /\ Enters(TRUE)
    /\ active.tool < MaxActive
    /\ active' = [active EXCEPT !.tool = @ + 1]
    /\ clock' = ProgressNow
    /\ UNCHANGED <<phase, stopReason, model, turns, repairs, goal, usage, book>>

RefuseToolCall(reason) ==
    /\ Enters(TRUE)
    /\ stopReason' = reason
    /\ UNCHANGED <<phase, model, turns, repairs, goal, active, usage, clock,
                   book>>

FinishToolCall(gated) ==
    /\ active.tool > 0
    /\ active' = [active EXCEPT !.tool = @ - 1]
    /\ clock' = IF gated /\ ~(stopReason = NoStop /\ phase = "Active")
                THEN clock ELSE ProgressNow
    /\ UNCHANGED <<phase, stopReason, model, turns, repairs, goal, usage, book>>

\* Fault: receipts that were presented before count again.
CountEveryDelta(receipts) ==
    /\ phase = "Active"
    /\ stopReason = NoStop
    /\ goal.count < 3
    /\ goal' = [count |-> goal.count + 1, receipts |-> goal.receipts \cup receipts]
    /\ clock' = ProgressNow
    /\ book' = [book EXCEPT !.earned = @ + 1]
    /\ UNCHANGED <<phase, stopReason, model, turns, repairs, active, usage>>

\* record_goal_delta_locked: progress counts once, however often its receipts
\* are presented again.
RecordGoalDelta(receipts) ==
    /\ phase = "Active"
    /\ stopReason = NoStop
    /\ ~(receipts \subseteq goal.receipts)
    /\ goal' = [count |-> goal.count + 1, receipts |-> goal.receipts \cup receipts]
    /\ clock' = ProgressNow
    /\ book' = [book EXCEPT !.earned = @ + 1]
    /\ UNCHANGED <<phase, stopReason, model, turns, repairs, active, usage>>

\* note_wire_activity, mark_progress(_at), recorded observations, checkpoints,
\* partial output: a sign of life.
MarkProgress ==
    /\ stopReason = NoStop
    /\ clock # ProgressNow
    /\ clock' = ProgressNow
    /\ UNCHANGED <<phase, stopReason, model, turns, repairs, goal, active,
                   usage, book>>

(***************************************************************************)
(* The lifecycle, as far as the meters see it.                             *)
(***************************************************************************)
AcceptSteer ==
    /\ phase # "Committed"
    /\ Proceeds
    /\ phase' = "Steered"
    /\ clock' = ProgressNow
    /\ UNCHANGED <<stopReason, model, turns, repairs, goal, active, usage, book>>

\* Fault: the new objective may spend the progress of the old one.
ApplyKeepingCredit(objectiveApplied) ==
    /\ phase = "Steered"
    /\ Proceeds
    /\ phase' = "Active"
    /\ IF objectiveApplied
       THEN /\ model' = [OpenSegment(model, goal.count, InitialModelCalls,
                                     MaxModelCalls) EXCEPT !.spent = model.spent]
            /\ turns' = OpenSegment(turns, goal.count, InitialTurns, MaxTurns)
            /\ clock' = ProgressNow
            /\ book' = [book EXCEPT !.earned = 0, !.modelBase = model'.limit,
                                    !.turnBase = turns'.limit]
       ELSE UNCHANGED <<model, turns, clock, book>>
    /\ UNCHANGED <<stopReason, repairs, goal, active, usage>>

\* commit_pending_steers_with_applied_objective: a batch of deleted steers is
\* acknowledged without opening a segment.
ApplySteers(objectiveApplied) ==
    /\ phase = "Steered"
    /\ Proceeds
    /\ phase' = "Active"
    /\ IF objectiveApplied
       THEN /\ model' = OpenSegment(model, goal.count, InitialModelCalls,
                                    MaxModelCalls)
            /\ turns' = OpenSegment(turns, goal.count, InitialTurns, MaxTurns)
            /\ clock' = ProgressNow
            /\ book' = [book EXCEPT !.earned = 0, !.modelBase = model'.limit,
                                    !.turnBase = turns'.limit]
       ELSE UNCHANGED <<model, turns, clock, book>>
    /\ UNCHANGED <<stopReason, repairs, goal, active, usage>>

CommitTerminalResult ==
    /\ phase = "Active"
    /\ Proceeds
    /\ phase' = "Committed"
    /\ UNCHANGED <<stopReason, model, turns, repairs, goal, active, usage,
                   clock, book>>

\* from_snapshot_for_continuation of a stopped run: a fresh control in which
\* all recorded progress is spent.
ContinueStoppedRun ==
    /\ stopReason \notin {NoStop, "UserCancelled"}
    /\ phase # "Committed"
    /\ stopReason' = NoStop
    /\ model' = [FirstModel EXCEPT !.spent = goal.count]
    /\ turns' = [FirstTurns EXCEPT !.spent = goal.count]
    /\ repairs' = 0
    /\ active' = [model |-> 0, tool |-> 0]
    /\ usage' = [c \in Classes |-> Unused]
    /\ clock' = [elapsed |-> 0, quiet |-> 0]
    /\ book' = FreshBook(FirstModel.limit, FirstTurns.limit)
    /\ UNCHANGED <<phase, goal>>

\* from_snapshot of a run suspended while running (waiting for a permission):
\* the counters stay, nothing is in flight any more.
ResumeSuspendedRun ==
    /\ stopReason = NoStop
    /\ phase # "Committed"
    /\ active' = [model |-> 0, tool |-> 0]
    /\ clock' = ProgressNow
    /\ UNCHANGED <<phase, stopReason, model, turns, repairs, goal, usage, book>>

RequestedReasons == {"UserCancelled", "ProviderUnavailable"}
ToolReasons == {"ToolCallBudgetExceeded", "RepeatedAction"}
StopReasons == RequestedReasons \cup ToolReasons
                 \cup {"DeadlineExceeded", "NoProgress",
                       "ModelCallBudgetExceeded", "TurnBudgetExhausted"}

Next == \/ RefreshStopReason
        \/ \E reason \in RequestedReasons : RequestStop(reason)
        \/ Tick
        \/ \E gated \in BOOLEAN : BeginModelCall(gated)
        \/ \E c \in Classes, gated \in BOOLEAN : BeginStageModelCall(c, gated)
        \/ \E gated \in BOOLEAN : FinishModelCall(gated)
        \/ RecordAgentTurn
        \/ BeginRepairAttempt
        \/ BeginToolCall
        \/ \E reason \in ToolReasons : RefuseToolCall(reason)
        \/ \E gated \in BOOLEAN : FinishToolCall(gated)
        \/ \E receipts \in SUBSET Receipts \ {{}} : RecordGoalDelta(receipts)
        \/ MarkProgress
        \/ AcceptSteer
        \/ \E objectiveApplied \in BOOLEAN : ApplySteers(objectiveApplied)
        \/ CommitTerminalResult
        \/ ContinueStoppedRun
        \/ ResumeSuspendedRun

Spec == Init /\ [][Next]_meterVars

\* Time passes, and the driver polls should_stop before every step.
FairSpec == Spec /\ WF_meterVars(Tick) /\ WF_meterVars(RefreshStopReason)

(***************************************************************************)
(* continuation_directive.                                                 *)
(***************************************************************************)
\* Fault: the directive counts an extension even at the cap.
TurnExtensionAssumed == goal.count > turns.spent

TurnExtensionAvailable == turns.limit < MaxTurns /\ goal.count > turns.spent

Directive ==
    IF ~Proceeds THEN "Stop"
    ELSE IF \/ model.limit - model.calls <= TerminalModelCallReserve
            \/ turns.limit - turns.calls <= 1 /\ ~TurnExtensionAvailable
            \/ MaxDuration - clock.elapsed <= TerminalTimeReserve
    THEN "CommitTerminalResult"
    ELSE "Continue"

(***************************************************************************)
(* Properties.                                                             *)
(***************************************************************************)
TypeOK ==
    /\ phase \in {"Active", "Steered", "Committed"}
    /\ stopReason \in StopReasons \cup {NoStop}
    /\ model \in Budget
    /\ turns \in Budget
    /\ repairs \in 0 .. MaxRepairAttempts
    /\ goal \in [count : Nat, receipts : SUBSET Receipts]
    /\ active \in [model : Nat, tool : Nat]
    /\ usage \in [Classes -> Usage]
    /\ clock \in [elapsed : Nat, quiet : Nat]
    /\ book \in [staged : Nat, direct : Nat, earned : Nat, modelBase : Nat,
                 turnBase : Nat]

\* The final answer keeps its window: as long as no call outside the stages
\* was made, a run that has not used up the finalizer's own allocation still
\* has a model call left for it, whatever the actors, reviewers, repairs and
\* synthesizers asked for, across steers and retries
\* (begin_stage_model_call_locked, protected_model_call_reserve).
FinalizerIsNeverStarved ==
    LET final == model.calls - book.staged - book.direct
    IN  (book.direct = 0 /\ final < FinalizerModelCallReserve)
            => model.calls < model.limit

\* Budgets are kept and headroom is earned: no budget is exceeded, no limit
\* exceeds its cap, and since the current objective or retry began each limit
\* grew by at most one extension per goal delta accepted since then; evidence
\* for an earlier objective buys nothing (extend_*_budget_if_progressed,
\* open_applied_objective_segment).
HeadroomIsEarned ==
    /\ model.calls <= model.limit /\ model.limit <= MaxModelCalls
    /\ turns.calls <= turns.limit /\ turns.limit <= MaxTurns
    /\ model.limit <= book.modelBase
                        + book.earned * AtLeast(ModelCallsPerExtension, 1)
    /\ turns.limit <= book.turnBase
                        + book.earned * AtLeast(TurnsPerExtension, 1)

\* Progress is credited once per receipt at most, although deltas overlap and
\* are presented again after a resume (record_goal_delta_locked).
ProgressIsCreditedOnce == goal.count <= Cardinality(goal.receipts)

\* When continuation_directive says Continue, the turn it invites can be
\* made: an actor's model call is not refused by the reserve, by its stage or
\* by the run, and neither is the turn itself.
ContinueIsHonoured ==
    (Directive = "Continue" /\ "Actor" \in Classes)
        => /\ ~ReserveReached("Actor")
           /\ ~StageExhausted("Actor")
           /\ Headroom(model, model.calls + 1, goal.count,
                       ModelCallsPerExtension, MaxModelCalls).granted
           /\ Headroom(turns, turns.calls + 1, goal.count,
                       TurnsPerExtension, MaxTurns).granted

\* No run goes on for ever: whatever progress it reports and however often it
\* is steered, it is answered or stopped again and again
\* (refresh_stop_reason_locked: the deadline counts from started_at).
RunEnds == []<>(phase = "Committed" \/ stopReason # NoStop)
=============================================================================
