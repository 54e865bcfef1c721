------------------------------- MODULE Budgets -------------------------------
(***************************************************************************)
(* The arithmetic every metered budget of a run shares.  A budget is a     *)
(* record with the fields calls, limit and spent: how often it was used,   *)
(* how often it may be used, and the goal progress that bought the newest  *)
(* extension of the limit.                                                 *)
(***************************************************************************)
EXTENDS Integers

AtLeast(n, m) == IF n < m THEN m ELSE n
AtMost(n, m) == IF n > m THEN m ELSE n

\* extend_model_budget_if_progressed and its tool and turn siblings: progress
\* recorded since the last extension buys one larger limit, even when the
\* call that asked for it stays out of reach.
Extension(b, requested, progress, step, cap) ==
    IF requested > cap \/ progress <= b.spent
    THEN [granted |-> FALSE, limit |-> b.limit, spent |-> b.spent]
    ELSE LET limit == AtMost(b.limit + AtLeast(step, 1), cap)
         IN  [granted |-> requested <= limit, limit |-> limit,
              spent |-> progress]

\* What the call with number `requested' finds.
Headroom(b, requested, progress, step, cap) ==
    IF requested > b.limit
    THEN Extension(b, requested, progress, step, cap)
    ELSE [granted |-> TRUE, limit |-> b.limit, spent |-> b.spent]

\* The limit a fresh run segment starts with.
StartLimit(initial, cap) == AtLeast(AtMost(initial, cap), 1)

\* open_applied_objective_segment: a newly applied objective gets its own base
\* allowance on top of what was used, and nothing for the old progress.
OpenSegment(b, progress, initial, cap) ==
    [b EXCEPT !.limit = AtMost(AtLeast(b.limit, b.calls + AtLeast(initial, 1)),
                               cap),
              !.spent = progress]
=============================================================================
