------------------------------ MODULE ToolGuard ------------------------------
(***************************************************************************)
(* The pure part of tool-call admission in AgentRunControl: the budget of  *)
(* tool calls with its one extension per recorded goal progress, and the   *)
(* repeated-action guard of one scope.  begin_tool_call_locked admits one  *)
(* call; begin_tool_call_batch_with_epoch admits an ordered batch at once. *)
(* A call is its signature, the fingerprint of tool name and input.        *)
(***************************************************************************)
EXTENDS Budgets, Sequences

CONSTANTS Signatures,          \* fingerprints of (tool name, input)
          MaxIdenticalActions, \* budget.max_identical_actions
          RecentWindow,        \* actions kept per scope (24 in the code)
          ToolCallsPerExtension,
          MaxToolCalls

NoSignature == "none"

ASSUME ToolConstants == /\ NoSignature \notin Signatures
                        /\ MaxIdenticalActions \in Nat
                        /\ RecentWindow \in Nat \ {0}
                        /\ ToolCallsPerExtension \in Nat
                        /\ MaxToolCalls \in Nat \ {0}

\* The guard of one scope: the signature leased for a continuation, the
\* latest action with its run length, and the recent actions.
ToolGuards == [lease  : Signatures \cup {NoSignature},
               last   : Signatures \cup {NoSignature},
               run    : Nat,
               recent : Seq(Signatures)]

EmptyGuard == [lease |-> NoSignature, last |-> NoSignature, run |-> 0,
               recent |-> << >>]

\* Fault: the comparison reads one action too far back.
CycleOffByOne(actions, repetitions) ==
    \E period \in 1 .. 3 :
        LET required == period * AtLeast(repetitions, 2)
            start    == Len(actions) - required
        IN  /\ Len(actions) > required
            /\ \A offset \in period .. required - 1 :
                  actions[start + offset]
                    = actions[start + (offset % period)]

\* has_repeated_action_cycle: the newest actions are at least `repetitions'
\* (never fewer than two) copies of a block of one, two or three actions.
RepeatedCycle(actions, repetitions) ==
    \E period \in 1 .. 3 :
        LET required == period * AtLeast(repetitions, 2)
            start    == Len(actions) - required
        IN  /\ Len(actions) >= required
            /\ \A offset \in period .. required - 1 :
                  actions[start + offset + 1]
                    = actions[start + (offset % period) + 1]

\* One action that is not a continuation goes through the guard.
Observe(guard, sig) ==
    LET run    == IF guard.last = sig THEN guard.run + 1 ELSE 1
        pushed == Append(guard.recent, sig)
        recent == SubSeq(pushed, AtLeast(Len(pushed) - RecentWindow, 0) + 1,
                         Len(pushed))
    IN  IF run > MaxIdenticalActions
        THEN [repeated |-> TRUE,
              guard    |-> [guard EXCEPT !.last = sig, !.run = run]]
        ELSE [repeated |-> RepeatedCycle(recent, MaxIdenticalActions + 1),
              guard    |-> [guard EXCEPT !.last = sig, !.run = run,
                                         !.recent = recent]]

ToolHeadroom(s, requested, progress) ==
    Headroom(s, requested, progress, ToolCallsPerExtension, MaxToolCalls)

\* The state admission works on: tool calls so far, budget and scope guard.
\* An outcome is "Started" or the stop reason the run records.
Admission(outcome, calls, budget, guard) ==
    [outcome |-> outcome, calls |-> calls, limit |-> budget.limit,
     spent |-> budget.spent, guard |-> guard]

\* Fault: the extension does not remember the progress it was bought with.
AdmitWithoutSpending(s, sig, progress) ==
    LET call   == s.calls + 1
        leased == s.guard.lease = sig
        guard  == IF leased THEN s.guard
                            ELSE [s.guard EXCEPT !.lease = NoSignature]
        budget == [ToolHeadroom(s, call, progress) EXCEPT !.spent = s.spent]
        seen   == Observe(guard, sig)
    IN  IF ~budget.granted
        THEN Admission("ToolCallBudgetExceeded", s.calls, budget, guard)
        ELSE IF leased
        THEN Admission("Started", call, budget, guard)
        ELSE IF seen.repeated
        THEN Admission("RepeatedAction", s.calls, budget, seen.guard)
        ELSE Admission("Started", call, budget, seen.guard)

\* begin_tool_call_locked.
AdmitCall(s, sig, progress) ==
    LET call   == s.calls + 1
        leased == s.guard.lease = sig
        guard  == IF leased THEN s.guard
                            ELSE [s.guard EXCEPT !.lease = NoSignature]
        budget == ToolHeadroom(s, call, progress)
        seen   == Observe(guard, sig)
    IN  IF ~budget.granted
        THEN Admission("ToolCallBudgetExceeded", s.calls, budget, guard)
        ELSE IF leased
        THEN Admission("Started", call, budget, guard)
        ELSE IF seen.repeated
        THEN Admission("RepeatedAction", s.calls, budget, seen.guard)
        ELSE Admission("Started", call, budget, seen.guard)

=============================================================================
