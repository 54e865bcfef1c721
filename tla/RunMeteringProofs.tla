-------------------------- MODULE RunMeteringProofs --------------------------
(***************************************************************************)
(* Proofs about RunMetering, for every budget, reserve and clock.          *)
(*                                                                         *)
(* The properties are not inductive on their own.  MeterInv adds what the  *)
(* handlers rely on: the staged calls never reach into the reserve, every  *)
(* extension is paid for with progress of the current objective that was   *)
(* not spent before, and a stage has made no more calls than the run.      *)
(***************************************************************************)
EXTENDS RunMetering, FiniteSetTheorems, TLAPS

ModelStep == AtLeast(ModelCallsPerExtension, 1)
TurnStep == AtLeast(TurnsPerExtension, 1)

\* Progress recorded when the current objective or retry began.
Start == goal.count - book.earned

\* A budget within its cap whose growth was paid for since Start.
SoundBudget(b, base, step, cap) ==
    /\ b.calls <= b.limit
    /\ b.limit <= cap
    /\ Start <= b.spent
    /\ b.spent <= goal.count
    /\ b.limit <= base + (b.spent - Start) * step

ReserveKept ==
    /\ FirstModel.limit <= model.limit
    /\ book.staged + TerminalModelCallReserve <= model.limit
    /\ book.staged + book.direct <= model.calls

StagesWithinRun == \A c \in Classes : usage[c].calls <= model.calls

MeterInv == /\ TypeOK
            /\ book.earned <= goal.count
            /\ SoundBudget(model, book.modelBase, ModelStep, MaxModelCalls)
            /\ SoundBudget(turns, book.turnBase, TurnStep, MaxTurns)
            /\ ReserveKept
            /\ StagesWithinRun
            /\ ProgressIsCreditedOnce

-----------------------------------------------------------------------------
\* One more unit of progress buys one more step.
LEMMA OneMoreStep ==
    ASSUME NEW s \in Nat, NEW x \in Nat, NEW y \in Nat, x < y
    PROVE  x * s + s <= y * s
<1>1. (x + 1) * s <= y * s
  BY Z3
<1>2. (x + 1) * s = x * s + s
  BY Z3
<1> QED
  BY <1>1, <1>2

\* Multiplying by a step keeps the order.
LEMMA OrderedProducts ==
    ASSUME NEW s \in Nat, NEW x \in Int, NEW y \in Int, x <= y
    PROVE  x * s <= y * s
  BY Z3

\* The steps and the first budgets are well formed and within their caps.
LEMMA ConstantFacts ==
    /\ ModelStep \in Nat \ {0}
    /\ TurnStep \in Nat \ {0}
    /\ FirstModel \in Budget
    /\ FirstTurns \in Budget
    /\ FirstModel.calls = 0 /\ FirstTurns.calls = 0
    /\ FirstModel.limit <= MaxModelCalls
    /\ FirstTurns.limit <= MaxTurns
    /\ TerminalModelCallReserve < FirstModel.limit
  BY MeteringConstants
  DEF ModelStep, TurnStep, FirstModel, FirstTurns, Budget, StartLimit, AtLeast,
      AtMost

\* What a metered call finds: the limit and the mark only grow, within the cap
\* and the recorded progress, and growth is one step paid for with progress
\* that was not spent before.
LEMMA HeadroomFacts ==
    ASSUME NEW b \in Budget, NEW step \in Nat, NEW cap \in Nat,
           NEW progress \in Nat,
           b.calls <= b.limit, b.limit <= cap, b.spent <= progress
    PROVE  LET room == Headroom(b, b.calls + 1, progress, step, cap)
           IN  /\ room.limit \in Nat /\ room.spent \in Nat
               /\ b.limit <= room.limit /\ room.limit <= cap
               /\ b.spent <= room.spent /\ room.spent <= progress
               /\ room.granted => b.calls + 1 <= room.limit
               /\ \/ room.limit = b.limit /\ room.spent = b.spent
                  \/ /\ b.spent < room.spent
                     /\ room.limit <= b.limit + AtLeast(step, 1)
<1> DEFINE room == Headroom(b, b.calls + 1, progress, step, cap)
           larger == AtMost(b.limit + AtLeast(step, 1), cap)
<1>1. b.calls \in Nat /\ b.limit \in Nat /\ b.spent \in Nat
  BY DEF Budget
<1>2. CASE b.calls + 1 <= b.limit
  <2>1. room = [granted |-> TRUE, limit |-> b.limit, spent |-> b.spent]
    BY <1>1, <1>2 DEF Headroom
  <2> QED
    BY <1>1, <1>2, <2>1
<1>3. CASE b.calls + 1 > b.limit /\ (b.calls + 1 > cap \/ progress <= b.spent)
  <2>1. room = [granted |-> FALSE, limit |-> b.limit, spent |-> b.spent]
    BY <1>1, <1>3 DEF Headroom, Extension
  <2> QED
    BY <1>1, <1>3, <2>1
<1>4. CASE /\ b.calls + 1 > b.limit
           /\ ~(b.calls + 1 > cap \/ progress <= b.spent)
  <2>1. room = [granted |-> b.calls + 1 <= larger, limit |-> larger,
                spent |-> progress]
    BY <1>4 DEF Headroom, Extension
  <2>2. room.limit = larger /\ room.spent = progress
    BY <2>1
  <2>3. /\ larger \in Nat /\ b.limit <= larger /\ larger <= cap
        /\ larger <= b.limit + AtLeast(step, 1)
        /\ b.calls + 1 <= larger
    BY <1>1, <1>4 DEF AtLeast, AtMost
  <2> QED
    BY <1>1, <1>4, <2>2, <2>3
<1> QED
  BY <1>1, <1>2, <1>3, <1>4

\* A new segment keeps the calls, never lowers the limit and stays within the cap.
LEMMA SegmentFacts ==
    ASSUME NEW b \in Budget, NEW initial \in Nat, NEW cap \in Nat,
           NEW progress \in Nat, b.calls <= b.limit, b.limit <= cap
    PROVE  LET seg == OpenSegment(b, progress, initial, cap)
           IN  /\ seg \in Budget
               /\ seg.calls = b.calls
               /\ b.limit <= seg.limit /\ seg.limit <= cap
               /\ seg.spent = progress
<1> DEFINE limit == AtMost(AtLeast(b.limit, b.calls + AtLeast(initial, 1)), cap)
           seg == OpenSegment(b, progress, initial, cap)
<1>1. b.calls \in Nat /\ b.limit \in Nat /\ b.spent \in Nat
  BY DEF Budget
<1>2. limit \in Nat /\ b.limit <= limit /\ limit <= cap
  BY <1>1 DEF AtLeast, AtMost
<1>3. seg = [b EXCEPT !.limit = limit, !.spent = progress]
  BY DEF OpenSegment
<1> HIDE DEF limit
<1>4. seg = [calls |-> b.calls, limit |-> limit, spent |-> progress]
  BY <1>3 DEF Budget
<1> QED
  BY <1>1, <1>2, <1>4 DEF Budget

\* The payment argument, once for both budgets.
LEMMA PaidGrowth ==
    ASSUME NEW limit \in Nat, NEW limit2 \in Nat, NEW base \in Nat,
           NEW spent \in Nat, NEW spent2 \in Nat, NEW start \in Int,
           NEW step \in Nat,
           start <= spent, spent <= spent2,
           limit <= base + (spent - start) * step,
           \/ limit2 = limit /\ spent2 = spent
           \/ spent < spent2 /\ limit2 <= limit + step
    PROVE  limit2 <= base + (spent2 - start) * step
<1> DEFINE x == spent - start
           y == spent2 - start
<1>1. x \in Nat /\ y \in Nat
  OBVIOUS
<1>2. CASE spent < spent2 /\ limit2 <= limit + step
  <2>1. x * step + step <= y * step
    BY <1>1, <1>2, OneMoreStep
  <2>2. x * step \in Nat /\ y * step \in Nat
    BY <1>1, Z3
  <2> QED
    BY <1>2, <2>1, <2>2
<1> QED
  BY <1>2
-----------------------------------------------------------------------------
\* The first state satisfies the invariant.
LEMMA InitEstablishes == Init => MeterInv
<1> SUFFICES ASSUME Init PROVE MeterInv
  OBVIOUS
<1>1. TypeOK
  BY ConstantFacts, MeteringConstants
  DEF Init, TypeOK, FreshBook, Budget, Usage, Unused, FirstModel, FirstTurns
<1>2. /\ Start = 0 /\ goal.count = 0 /\ book.earned = 0
      /\ model.spent = 0 /\ turns.spent = 0
      /\ model = FirstModel /\ turns = FirstTurns
      /\ book.modelBase = FirstModel.limit /\ book.turnBase = FirstTurns.limit
      /\ book.staged = 0 /\ book.direct = 0
  BY DEF Init, Start, FreshBook, FirstModel, FirstTurns
<1>3. FirstModel.limit \in Nat /\ FirstTurns.limit \in Nat
  BY ConstantFacts DEF Budget
<1>4. SoundBudget(model, book.modelBase, ModelStep, MaxModelCalls)
  BY <1>2, <1>3, ConstantFacts DEF SoundBudget
<1>5. SoundBudget(turns, book.turnBase, TurnStep, MaxTurns)
  BY <1>2, <1>3, ConstantFacts DEF SoundBudget
<1>6. ReserveKept
  BY <1>2, <1>3, ConstantFacts, MeteringConstants DEF ReserveKept
<1>7. StagesWithinRun
  BY <1>2, ConstantFacts DEF Init, StagesWithinRun, Unused
<1>8. ProgressIsCreditedOnce
  BY FS_EmptySet DEF Init, ProgressIsCreditedOnce
<1> QED
  BY <1>1, <1>2, <1>4, <1>5, <1>6, <1>7, <1>8 DEF MeterInv

\* A step that leaves the meters alone.
LEMMA QuietStep ==
    ASSUME MeterInv, TypeOK', UNCHANGED <<model, turns, goal, usage, book>>
    PROVE  MeterInv'
  BY DEF MeterInv, SoundBudget, Start, ReserveKept, StagesWithinRun,
         ProgressIsCreditedOnce

\* A counted or refused model call keeps the model budget sound.
LEMMA CountStep ==
    ASSUME MeterInv, NEW owner \in {"staged", "direct", "final"},
           CountModelCall(owner)
    PROVE  /\ model' \in Budget
           /\ model.calls <= model'.calls
           /\ model.limit <= model'.limit
           /\ model'.calls <= model'.limit
           /\ model'.limit <= MaxModelCalls
           /\ model.spent <= model'.spent /\ model'.spent <= goal.count
           /\ model'.limit <= book.modelBase + (model'.spent - Start) * ModelStep
           /\ active' \in [model : Nat, tool : Nat]
           /\ clock' \in [elapsed : Nat, quiet : Nat]
           /\ \/ /\ stopReason' = stopReason
                 /\ model'.calls = model.calls + 1
                 /\ book' = Charge(owner)
              \/ /\ stopReason' = "ModelCallBudgetExceeded"
                 /\ model'.calls = model.calls
                 /\ book' = book
<1> DEFINE room == Headroom(model, model.calls + 1, goal.count,
                            ModelCallsPerExtension, MaxModelCalls)
<1>1. /\ model \in Budget /\ goal.count \in Nat /\ book.modelBase \in Nat
      /\ book.earned \in Nat /\ Start \in Int
      /\ active \in [model : Nat, tool : Nat]
      /\ clock \in [elapsed : Nat, quiet : Nat]
      /\ model.calls \in Nat /\ model.limit \in Nat /\ model.spent \in Nat
  BY DEF MeterInv, TypeOK, Start, Budget
<1>2. /\ model.calls <= model.limit /\ model.limit <= MaxModelCalls
      /\ Start <= model.spent /\ model.spent <= goal.count
      /\ model.limit <= book.modelBase + (model.spent - Start) * ModelStep
  BY DEF MeterInv, SoundBudget
<1>3. /\ room.limit \in Nat /\ room.spent \in Nat
      /\ model.limit <= room.limit /\ room.limit <= MaxModelCalls
      /\ model.spent <= room.spent /\ room.spent <= goal.count
      /\ room.granted => model.calls + 1 <= room.limit
      /\ \/ room.limit = model.limit /\ room.spent = model.spent
         \/ model.spent < room.spent /\ room.limit <= model.limit + ModelStep
  BY <1>1, <1>2, HeadroomFacts, MeteringConstants DEF ModelStep
<1> HIDE DEF room
<1>4. room.limit <= book.modelBase + (room.spent - Start) * ModelStep
  BY <1>1, <1>2, <1>3, PaidGrowth, ConstantFacts
<1>5. CASE room.granted
  <2>1. /\ model' = [calls |-> model.calls + 1, limit |-> room.limit,
                     spent |-> room.spent]
        /\ active' = [active EXCEPT !.model = @ + 1]
        /\ clock' = ProgressNow
        /\ stopReason' = stopReason
        /\ book' = Charge(owner)
    BY <1>5 DEF CountModelCall, room
  <2>2. /\ active' \in [model : Nat, tool : Nat]
        /\ clock' \in [elapsed : Nat, quiet : Nat]
    BY <1>1, <2>1 DEF ProgressNow
  <2>3. /\ model' \in Budget
        /\ model'.calls = model.calls + 1
        /\ model'.limit = room.limit
        /\ model'.spent = room.spent
    BY <1>1, <1>3, <2>1 DEF Budget
  <2> QED
    BY <1>1, <1>2, <1>3, <1>4, <1>5, <2>1, <2>2, <2>3
<1>6. CASE ~room.granted
  <2>1. /\ model' = [model EXCEPT !.limit = room.limit, !.spent = room.spent]
        /\ stopReason' = "ModelCallBudgetExceeded"
        /\ UNCHANGED <<active, clock, book>>
    BY <1>6 DEF CountModelCall, room
  <2>2. /\ model' \in Budget
        /\ model'.calls = model.calls
        /\ model'.limit = room.limit
        /\ model'.spent = room.spent
    BY <1>1, <1>3, <2>1 DEF Budget
  <2> QED
    BY <1>1, <1>2, <1>3, <1>4, <2>1, <2>2
<1> QED
  BY <1>5, <1>6

\* The parts of MeterInv that a model call keeps whoever makes it.
LEMMA CallKeepsMeters ==
    ASSUME MeterInv, NEW owner \in {"staged", "direct", "final"},
           CountModelCall(owner), UNCHANGED <<phase, turns, repairs, goal>>,
           usage' \in [Classes -> Usage],
           owner = "staged" =>
              model.calls + TerminalModelCallReserve < model.limit
    PROVE  /\ TypeOK'
           /\ (book.earned <= goal.count)'
           /\ SoundBudget(model, book.modelBase, ModelStep, MaxModelCalls)'
           /\ SoundBudget(turns, book.turnBase, TurnStep, MaxTurns)'
           /\ ReserveKept'
           /\ ProgressIsCreditedOnce'
<1>1. TypeOK /\ ReserveKept
  BY DEF MeterInv
<1>2. /\ book.staged \in Nat /\ book.direct \in Nat /\ book.earned \in Nat
      /\ model.calls \in Nat /\ model.limit \in Nat
      /\ model'.calls \in Nat /\ model'.limit \in Nat
      /\ model' \in Budget
  BY <1>1, CountStep DEF TypeOK, Budget
<1>3. /\ book' \in [staged : Nat, direct : Nat, earned : Nat, modelBase : Nat,
                    turnBase : Nat]
      /\ book'.earned = book.earned
      /\ book'.modelBase = book.modelBase
      /\ book'.turnBase = book.turnBase
      /\ \/ book'.staged = book.staged
         \/ owner = "staged" /\ book'.staged = book.staged + 1
      /\ book'.staged + book'.direct <= model'.calls
  <2>1. /\ book \in [staged : Nat, direct : Nat, earned : Nat, modelBase : Nat,
                     turnBase : Nat]
        /\ book.staged + book.direct <= model.calls
    BY <1>1 DEF TypeOK, ReserveKept
  <2>2. CASE book' = book
    <3>1. model.calls <= model'.calls
      BY CountStep
    <3> QED
      BY <1>2, <2>1, <2>2, <3>1
  <2>3. CASE model'.calls = model.calls + 1 /\ book' = Charge(owner)
    <3> DEFINE staged == IF owner = "staged" THEN book.staged + 1 ELSE book.staged
               direct == IF owner = "direct" THEN book.direct + 1 ELSE book.direct
    <3>1. book' = [staged |-> staged, direct |-> direct,
                   earned |-> book.earned, modelBase |-> book.modelBase,
                   turnBase |-> book.turnBase]
      BY <2>1, <2>3 DEF Charge
    <3>2. staged \in Nat /\ direct \in Nat /\ staged + direct <= model'.calls
      BY <1>2, <2>1, <2>3
    <3>3. staged = book.staged \/ (owner = "staged" /\ staged = book.staged + 1)
      OBVIOUS
    <3> HIDE DEF staged, direct
    <3>4. /\ book'.staged = staged /\ book'.direct = direct
          /\ book'.earned = book.earned /\ book'.modelBase = book.modelBase
          /\ book'.turnBase = book.turnBase
      BY <3>1
    <3>5. book' \in [staged : Nat, direct : Nat, earned : Nat, modelBase : Nat,
                     turnBase : Nat]
      BY <2>1, <3>1, <3>2
    <3> QED
      BY <3>2, <3>3, <3>4, <3>5
  <2> QED
    BY <2>2, <2>3, CountStep
<1>4. TypeOK'
  <2>1. stopReason' \in StopReasons \cup {NoStop}
    BY <1>1, CountStep DEF TypeOK, StopReasons
  <2> QED
    BY <1>1, <1>2, <1>3, <2>1, CountStep DEF TypeOK
<1>5. Start' = Start
  BY <1>3 DEF Start
<1>6. (book.earned <= goal.count)'
  BY <1>3 DEF MeterInv
<1>7. SoundBudget(model, book.modelBase, ModelStep, MaxModelCalls)'
  <2>1. Start <= model.spent /\ model.spent \in Nat /\ model'.spent \in Nat
        /\ Start \in Int
    BY <1>1, <1>2 DEF MeterInv, SoundBudget, TypeOK, Budget, Start
  <2>2. Start <= model'.spent
    BY <2>1, CountStep
  <2> QED
    BY <1>3, <1>5, <2>2, CountStep DEF SoundBudget
<1>8. SoundBudget(turns, book.turnBase, TurnStep, MaxTurns)'
  BY <1>3, <1>5 DEF MeterInv, SoundBudget
<1>9. ReserveKept'
  <2>1. /\ FirstModel.limit \in Nat
        /\ FirstModel.limit <= model.limit /\ model.limit <= model'.limit
    BY <1>1, ConstantFacts, CountStep DEF ReserveKept, Budget
  <2>2. book.staged + book.direct <= model.calls
    BY <1>1 DEF ReserveKept
  <2>3. book.staged + TerminalModelCallReserve <= model.limit
    BY <1>1 DEF ReserveKept
  <2>4. book'.staged + TerminalModelCallReserve <= model'.limit
    BY <1>2, <1>3, <2>1, <2>2, <2>3, MeteringConstants
  <2>5. FirstModel.limit <= model'.limit
    BY <1>2, <2>1
  <2> QED
    BY <1>3, <2>4, <2>5 DEF ReserveKept, FirstModel
<1>10. ProgressIsCreditedOnce'
  BY DEF MeterInv, ProgressIsCreditedOnce
<1> QED
  BY <1>4, <1>6, <1>7, <1>8, <1>9, <1>10

\* A model call outside any stage.
LEMMA DirectCallStep ==
    ASSUME MeterInv, NEW gated \in BOOLEAN, BeginModelCall(gated)
    PROVE  MeterInv'
<1>1. /\ CountModelCall("direct")
      /\ UNCHANGED <<phase, turns, repairs, goal, usage>>
  BY DEF BeginModelCall
<1>2. usage' \in [Classes -> Usage]
  BY <1>1 DEF MeterInv, TypeOK
<1>3. StagesWithinRun'
  <2>1. /\ model.calls \in Nat /\ model'.calls \in Nat
        /\ model.calls <= model'.calls
    BY <1>1, CountStep DEF MeterInv, TypeOK, Budget
  <2>2. \A c \in Classes : usage[c].calls \in Nat
    BY DEF MeterInv, TypeOK, Usage
  <2> QED
    BY <1>1, <2>1, <2>2 DEF MeterInv, StagesWithinRun
<1> QED
  BY <1>1, <1>2, <1>3, CallKeepsMeters DEF MeterInv

\* A stage's model call counts against the run and against its class.
LEMMA StageCallStep ==
    ASSUME MeterInv, NEW c \in Classes, NEW gated \in BOOLEAN,
           BeginStageModelCall(c, gated)
    PROVE  MeterInv'
<1>1. /\ UsageOf(c) \in Usage
      /\ UsageOf(c).calls <= model.calls
      /\ usage \in [Classes -> Usage]
      /\ clock.elapsed \in Nat /\ model.calls \in Nat /\ model.limit \in Nat
  BY DEF MeterInv, TypeOK, UsageOf, Usage, StagesWithinRun, Budget
<1>2. CASE StageExhausted(c)
  <2>1. /\ usage' = [usage EXCEPT ![c] = UsageOf(c)]
        /\ UNCHANGED <<phase, stopReason, model, turns, repairs, goal, active,
                       clock, book>>
    BY <1>2 DEF BeginStageModelCall
  <2>2. TypeOK'
    BY <1>1, <2>1 DEF MeterInv, TypeOK
  <2>3. StagesWithinRun'
    BY <1>1, <2>1 DEF MeterInv, StagesWithinRun
  <2> QED
    BY <2>1, <2>2, <2>3
    DEF MeterInv, SoundBudget, Start, ReserveKept, ProgressIsCreditedOnce
<1>3. CASE ~StageExhausted(c)
  <2> DEFINE owner == IF c = "Finalizer" THEN "final" ELSE "staged"
             used  == IF stopReason' = NoStop
                      THEN [UsageOf(c) EXCEPT !.calls = @ + 1]
                      ELSE UsageOf(c)
  <2>1. /\ CountModelCall(owner)
        /\ usage' = [usage EXCEPT ![c] = used]
        /\ UNCHANGED <<phase, turns, repairs, goal>>
        /\ ~ReserveReached(c)
        /\ stopReason = NoStop
    BY <1>3 DEF BeginStageModelCall, Enters, Proceeds
  <2>2. owner \in {"staged", "direct", "final"}
    OBVIOUS
  <2>3. owner = "staged" => model.calls + TerminalModelCallReserve < model.limit
    <3> SUFFICES ASSUME c # "Finalizer"
                 PROVE  model.calls + TerminalModelCallReserve < model.limit
      OBVIOUS
    <3>1. ProtectedModelCallReserve(c) = TerminalModelCallReserve
      BY MeteringConstants
      DEF ProtectedModelCallReserve, FinalizerModelCallReserve, AtLeast
    <3>2. model.calls
             < AtLeast(model.limit - TerminalModelCallReserve, 1)
      BY <1>1, <2>1, <3>1, MeteringConstants DEF ReserveReached, AtLeast
    <3>3. TerminalModelCallReserve < model.limit
      BY <1>1, ConstantFacts, MeteringConstants DEF MeterInv, ReserveKept, Budget
    <3> QED
      BY <1>1, <3>2, <3>3, MeteringConstants DEF AtLeast
  <2>4. /\ used \in Usage
        /\ used.calls <= model'.calls
        /\ model'.calls \in Nat /\ model.calls <= model'.calls
    <3>1. model'.calls \in Nat /\ model.calls <= model'.calls
      BY <2>1, <2>2, CountStep DEF Budget
    <3>2. CASE stopReason' = NoStop
      <4>1. model'.calls = model.calls + 1
        BY <2>1, <2>2, <3>2, CountStep DEF NoStop
      <4>2. used = [UsageOf(c) EXCEPT !.calls = @ + 1]
        BY <3>2
      <4> QED
        BY <1>1, <3>1, <4>1, <4>2 DEF Usage
    <3>3. CASE stopReason' # NoStop
      BY <1>1, <3>1, <3>3 DEF Usage
    <3> QED
      BY <3>1, <3>2, <3>3
  <2> HIDE DEF owner, used
  <2>5. usage' \in [Classes -> Usage]
    BY <1>1, <2>1, <2>4
  <2>6. StagesWithinRun'
    <3> SUFFICES ASSUME NEW d \in Classes PROVE usage'[d].calls <= model'.calls
      BY DEF StagesWithinRun
    <3>1. usage[d].calls \in Nat /\ usage[d].calls <= model.calls
      BY <1>1 DEF MeterInv, StagesWithinRun, Usage
    <3>2. usage'[d] = IF d = c THEN used ELSE usage[d]
      BY <1>1, <2>1
    <3> QED
      BY <1>1, <2>4, <3>1, <3>2
  <2> QED
    BY <2>1, <2>2, <2>3, <2>5, <2>6, CallKeepsMeters DEF MeterInv
<1> QED
  BY <1>2, <1>3

\* A turn is metered like a model call, on its own budget.
LEMMA TurnStepKeeps ==
    ASSUME MeterInv, RecordAgentTurn
    PROVE  MeterInv'
<1> DEFINE room == Headroom(turns, turns.calls + 1, goal.count,
                            TurnsPerExtension, MaxTurns)
<1>1. /\ turns \in Budget /\ goal.count \in Nat /\ book.turnBase \in Nat
      /\ Start \in Int /\ TypeOK
      /\ turns.calls \in Nat /\ turns.limit \in Nat /\ turns.spent \in Nat
  BY DEF MeterInv, TypeOK, Start, Budget
<1>2. /\ turns.calls <= turns.limit /\ turns.limit <= MaxTurns
      /\ Start <= turns.spent /\ turns.spent <= goal.count
      /\ turns.limit <= book.turnBase + (turns.spent - Start) * TurnStep
  BY DEF MeterInv, SoundBudget
<1>3. /\ room.limit \in Nat /\ room.spent \in Nat
      /\ turns.limit <= room.limit /\ room.limit <= MaxTurns
      /\ turns.spent <= room.spent /\ room.spent <= goal.count
      /\ room.granted => turns.calls + 1 <= room.limit
      /\ \/ room.limit = turns.limit /\ room.spent = turns.spent
         \/ turns.spent < room.spent /\ room.limit <= turns.limit + TurnStep
  BY <1>1, <1>2, HeadroomFacts, MeteringConstants DEF TurnStep
<1> HIDE DEF room
<1>4. room.limit <= book.turnBase + (room.spent - Start) * TurnStep
  BY <1>1, <1>2, <1>3, PaidGrowth, ConstantFacts
<1>5. /\ UNCHANGED <<phase, model, repairs, goal, active, usage, book>>
      /\ turns' \in Budget
      /\ turns'.limit = room.limit /\ turns'.spent = room.spent
      /\ turns'.calls <= turns'.limit
      /\ clock' \in [elapsed : Nat, quiet : Nat]
      /\ stopReason' \in StopReasons \cup {NoStop}
  <2>1. CASE room.granted
    <3>1. /\ turns' = [calls |-> turns.calls + 1, limit |-> room.limit,
                       spent |-> room.spent]
          /\ clock' = ProgressNow
          /\ UNCHANGED <<phase, stopReason, model, repairs, goal, active, usage,
                         book>>
      BY <2>1 DEF RecordAgentTurn, room
    <3>2. /\ turns' \in Budget
          /\ turns'.calls = turns.calls + 1
          /\ turns'.limit = room.limit /\ turns'.spent = room.spent
      BY <1>1, <1>3, <3>1 DEF Budget
    <3>3. clock' \in [elapsed : Nat, quiet : Nat]
      BY <1>1, <3>1 DEF TypeOK, ProgressNow
    <3>4. stopReason' \in StopReasons \cup {NoStop}
      BY <1>1, <3>1 DEF TypeOK
    <3> QED
      BY <1>3, <2>1, <3>1, <3>2, <3>3, <3>4
  <2>2. CASE ~room.granted
    <3>1. /\ turns' = [turns EXCEPT !.limit = room.limit, !.spent = room.spent]
          /\ stopReason' = "TurnBudgetExhausted"
          /\ UNCHANGED <<phase, clock, model, repairs, goal, active, usage, book>>
      BY <2>2 DEF RecordAgentTurn, room
    <3>2. /\ turns' \in Budget
          /\ turns'.calls = turns.calls
          /\ turns'.limit = room.limit /\ turns'.spent = room.spent
      BY <1>1, <1>3, <3>1 DEF Budget
    <3>3. clock' \in [elapsed : Nat, quiet : Nat]
      BY <1>1, <3>1 DEF TypeOK
    <3>4. stopReason' \in StopReasons \cup {NoStop}
      BY <3>1 DEF StopReasons
    <3> QED
      BY <1>1, <1>2, <1>3, <3>1, <3>2, <3>3, <3>4
  <2> QED
    BY <2>1, <2>2
<1>6. TypeOK'
  BY <1>1, <1>5 DEF TypeOK
<1>7. Start' = Start
  BY <1>5 DEF Start
<1>8. SoundBudget(turns, book.turnBase, TurnStep, MaxTurns)'
  <2>1. Start <= turns'.spent
    BY <1>1, <1>2, <1>3, <1>5
  <2> QED
    BY <1>3, <1>4, <1>5, <1>7, <2>1 DEF SoundBudget
<1> QED
  BY <1>5, <1>6, <1>7, <1>8
  DEF MeterInv, SoundBudget, ReserveKept, StagesWithinRun, ProgressIsCreditedOnce

\* New receipts make the set of receipts strictly larger.
LEMMA GoalDeltaStep ==
    ASSUME MeterInv, NEW receipts \in SUBSET Receipts \ {{}},
           RecordGoalDelta(receipts)
    PROVE  MeterInv'
<1>1. TypeOK
  BY DEF MeterInv
<1>2. /\ ~(receipts \subseteq goal.receipts)
      /\ goal' = [count |-> goal.count + 1,
                  receipts |-> goal.receipts \cup receipts]
      /\ book' = [book EXCEPT !.earned = @ + 1]
      /\ clock' = ProgressNow
      /\ UNCHANGED <<phase, stopReason, model, turns, repairs, active, usage>>
  BY DEF RecordGoalDelta
<1>3. /\ goal.count \in Nat /\ book.earned \in Nat
      /\ goal'.count = goal.count + 1
      /\ book'.earned = book.earned + 1
      /\ book'.staged = book.staged /\ book'.direct = book.direct
      /\ book'.modelBase = book.modelBase /\ book'.turnBase = book.turnBase
      /\ goal'.receipts = goal.receipts \cup receipts
      /\ goal.receipts \in SUBSET Receipts
  BY <1>1, <1>2 DEF TypeOK
<1>4. TypeOK'
  BY <1>1, <1>2 DEF TypeOK, ProgressNow
<1>5. Start' = Start
  BY <1>3 DEF Start
<1>6. /\ SoundBudget(model, book.modelBase, ModelStep, MaxModelCalls)'
      /\ SoundBudget(turns, book.turnBase, TurnStep, MaxTurns)'
  <2>1. model.spent \in Nat /\ turns.spent \in Nat
    BY <1>1 DEF TypeOK, Budget
  <2> QED
    BY <1>2, <1>3, <1>5, <2>1 DEF MeterInv, SoundBudget
<1>7. ProgressIsCreditedOnce'
  <2>1. IsFiniteSet(goal'.receipts)
    BY <1>3, FS_Subset, MeteringConstants
  <2>2. goal.receipts \subseteq goal'.receipts /\ goal.receipts # goal'.receipts
    BY <1>2, <1>3
  <2>3. IsFiniteSet(goal.receipts)
    BY <2>1, <2>2, FS_Subset
  <2>4. /\ Cardinality(goal.receipts) \in Nat
        /\ Cardinality(goal'.receipts) \in Nat
    BY <2>1, <2>3, FS_CardinalityType
  <2>5. Cardinality(goal.receipts) < Cardinality(goal'.receipts)
    BY <2>1, <2>2, <2>4, FS_Subset
  <2> QED
    BY <1>3, <2>4, <2>5 DEF MeterInv, ProgressIsCreditedOnce
<1> QED
  BY <1>2, <1>3, <1>4, <1>6, <1>7
  DEF MeterInv, ReserveKept, StagesWithinRun

\* A new objective starts its account at the limits it is given.
LEMMA ApplyStep ==
    ASSUME MeterInv, NEW objectiveApplied \in BOOLEAN,
           ApplySteers(objectiveApplied)
    PROVE  MeterInv'
<1>1. TypeOK
  BY DEF MeterInv
<1>2. CASE ~objectiveApplied
  <2>1. /\ phase' = "Active"
        /\ UNCHANGED <<stopReason, model, turns, repairs, goal, active, usage,
                       clock, book>>
    BY <1>2 DEF ApplySteers
  <2>2. TypeOK'
    BY <1>1, <2>1 DEF TypeOK
  <2> QED
    BY <2>1, <2>2, QuietStep
<1>3. CASE objectiveApplied
  <2>1. /\ phase' = "Active"
        /\ model' = OpenSegment(model, goal.count, InitialModelCalls,
                                MaxModelCalls)
        /\ turns' = OpenSegment(turns, goal.count, InitialTurns, MaxTurns)
        /\ clock' = ProgressNow
        /\ book' = [book EXCEPT !.earned = 0, !.modelBase = model'.limit,
                                !.turnBase = turns'.limit]
        /\ UNCHANGED <<stopReason, repairs, goal, active, usage>>
    BY <1>3 DEF ApplySteers
  <2>2. /\ model \in Budget /\ turns \in Budget /\ goal.count \in Nat
        /\ model.calls <= model.limit /\ model.limit <= MaxModelCalls
        /\ turns.calls <= turns.limit /\ turns.limit <= MaxTurns
    BY <1>1 DEF MeterInv, TypeOK, SoundBudget
  <2>3. /\ model' \in Budget /\ model'.calls = model.calls
        /\ model.limit <= model'.limit /\ model'.limit <= MaxModelCalls
        /\ model'.spent = goal.count
    <3>1. InitialModelCalls \in Nat /\ MaxModelCalls \in Nat
      BY MeteringConstants
    <3>2. LET seg == OpenSegment(model, goal.count, InitialModelCalls,
                                 MaxModelCalls)
          IN  /\ seg \in Budget /\ seg.calls = model.calls
              /\ model.limit <= seg.limit /\ seg.limit <= MaxModelCalls
              /\ seg.spent = goal.count
      BY <2>2, <3>1, SegmentFacts
    <3> QED
      BY <2>1, <3>2
  <2>4. /\ turns' \in Budget /\ turns'.calls = turns.calls
        /\ turns.limit <= turns'.limit /\ turns'.limit <= MaxTurns
        /\ turns'.spent = goal.count
    <3>1. InitialTurns \in Nat /\ MaxTurns \in Nat
      BY MeteringConstants
    <3>2. LET seg == OpenSegment(turns, goal.count, InitialTurns, MaxTurns)
          IN  /\ seg \in Budget /\ seg.calls = turns.calls
              /\ turns.limit <= seg.limit /\ seg.limit <= MaxTurns
              /\ seg.spent = goal.count
      BY <2>2, <3>1, SegmentFacts
    <3> QED
      BY <2>1, <3>2
  <2>5. /\ model.calls \in Nat /\ model.limit \in Nat /\ model'.limit \in Nat
        /\ turns.calls \in Nat /\ turns.limit \in Nat /\ turns'.limit \in Nat
    BY <2>2, <2>3, <2>4 DEF Budget
  <2>6. /\ book' \in [staged : Nat, direct : Nat, earned : Nat, modelBase : Nat,
                      turnBase : Nat]
        /\ book'.earned = 0 /\ book'.modelBase = model'.limit
        /\ book'.turnBase = turns'.limit
        /\ book'.staged = book.staged /\ book'.direct = book.direct
        /\ book.staged \in Nat /\ book.direct \in Nat
    BY <1>1, <2>1, <2>5 DEF TypeOK
  <2>7. TypeOK'
    BY <1>1, <2>1, <2>3, <2>4, <2>6 DEF TypeOK, ProgressNow
  <2>8. Start' = goal.count /\ goal' = goal
    BY <2>1, <2>2, <2>6 DEF Start
  <2>9. SoundBudget(model, book.modelBase, ModelStep, MaxModelCalls)'
    BY <2>2, <2>3, <2>5, <2>6, <2>8, ConstantFacts DEF SoundBudget
  <2>10. SoundBudget(turns, book.turnBase, TurnStep, MaxTurns)'
    BY <2>2, <2>4, <2>5, <2>6, <2>8, ConstantFacts DEF SoundBudget
  <2>11. ReserveKept'
    <3>1. FirstModel.limit \in Nat /\ FirstModel.limit <= model.limit
          /\ book.staged + TerminalModelCallReserve <= model.limit
          /\ book.staged + book.direct <= model.calls
      BY ConstantFacts DEF MeterInv, ReserveKept, Budget
    <3>2. FirstModel.limit <= model'.limit
      BY <2>3, <2>5, <3>1
    <3>3. book'.staged + TerminalModelCallReserve <= model'.limit
      BY <2>3, <2>5, <2>6, <3>1, MeteringConstants
    <3> QED
      BY <2>3, <2>6, <3>1, <3>2, <3>3 DEF ReserveKept, FirstModel
  <2>12. StagesWithinRun' /\ ProgressIsCreditedOnce'
    BY <2>1, <2>3 DEF MeterInv, StagesWithinRun, ProgressIsCreditedOnce
  <2> QED
    BY <2>2, <2>6, <2>7, <2>8, <2>9, <2>10, <2>11, <2>12 DEF MeterInv
<1> QED
  BY <1>2, <1>3

\* A retry starts from fresh budgets; progress that was spent stays spent.
LEMMA RetryStep ==
    ASSUME MeterInv, ContinueStoppedRun
    PROVE  MeterInv'
<1>1. TypeOK /\ goal.count \in Nat
  BY DEF MeterInv, TypeOK
<1>2. /\ stopReason' = NoStop
      /\ model' = [FirstModel EXCEPT !.spent = goal.count]
      /\ turns' = [FirstTurns EXCEPT !.spent = goal.count]
      /\ repairs' = 0
      /\ active' = [model |-> 0, tool |-> 0]
      /\ usage' = [c \in Classes |-> Unused]
      /\ clock' = [elapsed |-> 0, quiet |-> 0]
      /\ book' = FreshBook(FirstModel.limit, FirstTurns.limit)
      /\ UNCHANGED <<phase, goal>>
  BY DEF ContinueStoppedRun
<1>3. /\ model' \in Budget /\ model'.calls = 0
      /\ model'.limit = FirstModel.limit /\ model'.spent = goal.count
      /\ FirstModel.limit \in Nat
  BY <1>1, <1>2, ConstantFacts DEF Budget
<1>4. /\ turns' \in Budget /\ turns'.calls = 0
      /\ turns'.limit = FirstTurns.limit /\ turns'.spent = goal.count
      /\ FirstTurns.limit \in Nat
  BY <1>1, <1>2, ConstantFacts DEF Budget
<1>5. /\ book' \in [staged : Nat, direct : Nat, earned : Nat, modelBase : Nat,
                    turnBase : Nat]
      /\ book'.earned = 0 /\ book'.staged = 0 /\ book'.direct = 0
      /\ book'.modelBase = FirstModel.limit
      /\ book'.turnBase = FirstTurns.limit
  BY <1>2, <1>3, <1>4 DEF FreshBook
<1>6. TypeOK'
  BY <1>1, <1>2, <1>3, <1>4, <1>5, MeteringConstants
  DEF TypeOK, Usage, Unused
<1>7. Start' = goal.count
  BY <1>1, <1>2, <1>5 DEF Start
<1>8. SoundBudget(model, book.modelBase, ModelStep, MaxModelCalls)'
  BY <1>1, <1>2, <1>3, <1>5, <1>7, ConstantFacts DEF SoundBudget
<1>9. SoundBudget(turns, book.turnBase, TurnStep, MaxTurns)'
  BY <1>1, <1>2, <1>4, <1>5, <1>7, ConstantFacts DEF SoundBudget
<1>10. ReserveKept'
  BY <1>3, <1>5, ConstantFacts, MeteringConstants DEF ReserveKept, FirstModel
<1>11. StagesWithinRun'
  BY <1>2, <1>3 DEF StagesWithinRun, Unused
<1>12. ProgressIsCreditedOnce'
  BY <1>2 DEF MeterInv, ProgressIsCreditedOnce
<1> QED
  BY <1>1, <1>2, <1>5, <1>6, <1>8, <1>9, <1>10, <1>11, <1>12 DEF MeterInv

-----------------------------------------------------------------------------
\* The actions that only touch the stop reason, the phase, the clocks, the
\* calls in flight and the repair count.
LEMMA UnmeteredStep ==
    ASSUME MeterInv,
           \/ RefreshStopReason
           \/ \E reason \in RequestedReasons : RequestStop(reason)
           \/ Tick
           \/ \E gated \in BOOLEAN : FinishModelCall(gated)
           \/ BeginRepairAttempt
           \/ BeginToolCall
           \/ \E reason \in ToolReasons : RefuseToolCall(reason)
           \/ \E gated \in BOOLEAN : FinishToolCall(gated)
           \/ MarkProgress
           \/ AcceptSteer
           \/ CommitTerminalResult
           \/ ResumeSuspendedRun
    PROVE  MeterInv'
<1>1. TypeOK
  BY DEF MeterInv
<1>2. /\ active \in [model : Nat, tool : Nat]
      /\ clock \in [elapsed : Nat, quiet : Nat]
      /\ ProgressNow \in [elapsed : Nat, quiet : Nat]
  BY <1>1 DEF TypeOK, ProgressNow
<1>3. CASE RefreshStopReason
  BY <1>1, <1>3, QuietStep DEF RefreshStopReason, TypeOK, StopReasons
<1>4. CASE \E reason \in RequestedReasons : RequestStop(reason)
  BY <1>1, <1>4, QuietStep DEF RequestStop, TypeOK, StopReasons
<1>5. CASE Tick
  <2>1. clock' \in [elapsed : Nat, quiet : Nat]
    BY <1>2, <1>5, MeteringConstants DEF Tick, Longest, AtLeast, AtMost
  <2> QED
    BY <1>1, <1>5, <2>1, QuietStep DEF Tick, TypeOK
<1>6. CASE \E gated \in BOOLEAN : FinishModelCall(gated)
  <2>1. PICK gated \in BOOLEAN : FinishModelCall(gated)
    BY <1>6
  <2>2. active' \in [model : Nat, tool : Nat]
    BY <1>2, <2>1 DEF FinishModelCall
  <2>3. clock' \in [elapsed : Nat, quiet : Nat]
    BY <1>2, <2>1 DEF FinishModelCall
  <2> QED
    BY <1>1, <2>1, <2>2, <2>3, QuietStep DEF FinishModelCall, TypeOK
<1>7. CASE BeginRepairAttempt
  <2>1. repairs' \in 0 .. MaxRepairAttempts
    BY <1>1, <1>7, MeteringConstants DEF BeginRepairAttempt, TypeOK
  <2> QED
    BY <1>1, <1>2, <1>7, <2>1, QuietStep DEF BeginRepairAttempt, TypeOK
<1>8. CASE BeginToolCall
  BY <1>1, <1>2, <1>8, QuietStep DEF BeginToolCall, TypeOK
<1>9. CASE \E reason \in ToolReasons : RefuseToolCall(reason)
  BY <1>1, <1>9, QuietStep DEF RefuseToolCall, TypeOK, StopReasons
<1>10. CASE \E gated \in BOOLEAN : FinishToolCall(gated)
  <2>1. PICK gated \in BOOLEAN : FinishToolCall(gated)
    BY <1>10
  <2>2. active' \in [model : Nat, tool : Nat]
    BY <1>2, <2>1 DEF FinishToolCall
  <2>3. clock' \in [elapsed : Nat, quiet : Nat]
    BY <1>2, <2>1 DEF FinishToolCall
  <2> QED
    BY <1>1, <2>1, <2>2, <2>3, QuietStep DEF FinishToolCall, TypeOK
<1>11. CASE MarkProgress
  BY <1>1, <1>2, <1>11, QuietStep DEF MarkProgress, TypeOK
<1>12. CASE AcceptSteer
  BY <1>1, <1>2, <1>12, QuietStep DEF AcceptSteer, TypeOK
<1>13. CASE CommitTerminalResult
  BY <1>1, <1>13, QuietStep DEF CommitTerminalResult, TypeOK
<1>14. CASE ResumeSuspendedRun
  BY <1>1, <1>2, <1>14, QuietStep DEF ResumeSuspendedRun, TypeOK
<1> QED
  BY <1>3, <1>4, <1>5, <1>6, <1>7, <1>8, <1>9, <1>10, <1>11, <1>12, <1>13, <1>14

\* MeterInv is inductive.
LEMMA MeterStep == MeterInv /\ [Next]_meterVars => MeterInv'
<1> SUFFICES ASSUME MeterInv, [Next]_meterVars PROVE MeterInv'
  OBVIOUS
<1>1. CASE UNCHANGED meterVars
  <2>1. TypeOK'
    BY <1>1 DEF MeterInv, TypeOK, meterVars
  <2> QED
    BY <1>1, <2>1, QuietStep DEF meterVars
<1>2. CASE \E gated \in BOOLEAN : BeginModelCall(gated)
  BY <1>2, DirectCallStep
<1>3. CASE \E c \in Classes, gated \in BOOLEAN : BeginStageModelCall(c, gated)
  BY <1>3, StageCallStep
<1>4. CASE RecordAgentTurn
  BY <1>4, TurnStepKeeps
<1>5. CASE \E receipts \in SUBSET Receipts \ {{}} : RecordGoalDelta(receipts)
  BY <1>5, GoalDeltaStep
<1>6. CASE \E objectiveApplied \in BOOLEAN : ApplySteers(objectiveApplied)
  BY <1>6, ApplyStep
<1>7. CASE ContinueStoppedRun
  BY <1>7, RetryStep
<1> QED
  BY <1>1, <1>2, <1>3, <1>4, <1>5, <1>6, <1>7, UnmeteredStep DEF Next

\* MeterInv holds in every reachable state.
THEOREM MeterInvariant == Spec => []MeterInv
  BY InitEstablishes, MeterStep, PTL DEF Spec

\* The fields of the meters keep their types, and the repair allowance is
\* never exceeded (begin_repair_attempt_locked).
THEOREM MeterTypes == Spec => []TypeOK
<1>1. MeterInv => TypeOK
  BY DEF MeterInv
<1> QED
  BY <1>1, MeterInvariant, PTL

\* Whatever the stages ask for, the final answer keeps its model call, for
\* every budget and reserve (begin_stage_model_call_locked).
THEOREM FinalizerIsNeverStarvedAlways == Spec => []FinalizerIsNeverStarved
<1>1. MeterInv => FinalizerIsNeverStarved
  <2> SUFFICES ASSUME MeterInv PROVE FinalizerIsNeverStarved
    OBVIOUS
  <2>1. /\ book.staged \in Nat /\ book.direct \in Nat
        /\ model.calls \in Nat /\ model.limit \in Nat
    BY DEF MeterInv, TypeOK, Budget
  <2>2. book.staged + TerminalModelCallReserve <= model.limit
    BY DEF MeterInv, ReserveKept
  <2>3. FinalizerModelCallReserve = TerminalModelCallReserve
    BY MeteringConstants DEF FinalizerModelCallReserve, AtLeast
  <2> QED
    BY <2>1, <2>2, <2>3, MeteringConstants DEF FinalizerIsNeverStarved
<1> QED
  BY <1>1, MeterInvariant, PTL

\* No budget is exceeded, and limits grow only by progress of the current
\* objective, one extension per goal delta (extend_model_budget_if_progressed,
\* open_applied_objective_segment).
THEOREM HeadroomIsAlwaysEarned == Spec => []HeadroomIsEarned
<1>1. MeterInv => HeadroomIsEarned
  <2> SUFFICES ASSUME MeterInv PROVE HeadroomIsEarned
    OBVIOUS
  <2>1. /\ model.spent \in Nat /\ turns.spent \in Nat /\ goal.count \in Nat
        /\ model.limit \in Nat /\ turns.limit \in Nat
        /\ book.earned \in Nat /\ book.earned <= goal.count
        /\ book.modelBase \in Nat /\ book.turnBase \in Nat
        /\ Start \in Int
    BY DEF MeterInv, TypeOK, Budget, Start
  <2>2. /\ SoundBudget(model, book.modelBase, ModelStep, MaxModelCalls)
        /\ SoundBudget(turns, book.turnBase, TurnStep, MaxTurns)
    BY DEF MeterInv
  <2>3. /\ Start <= model.spent /\ model.spent - Start <= book.earned
        /\ Start <= turns.spent /\ turns.spent - Start <= book.earned
    BY <2>1, <2>2 DEF SoundBudget, Start
  <2>4. /\ (model.spent - Start) * ModelStep <= book.earned * ModelStep
        /\ (turns.spent - Start) * TurnStep <= book.earned * TurnStep
    BY <2>1, <2>3, ConstantFacts, OrderedProducts
  <2>5. /\ (model.spent - Start) * ModelStep \in Int
        /\ (turns.spent - Start) * TurnStep \in Int
        /\ book.earned * ModelStep \in Int /\ book.earned * TurnStep \in Int
    BY <2>1, ConstantFacts
  <2>6. model.limit <= book.modelBase + book.earned * ModelStep
    BY <2>1, <2>2, <2>4, <2>5 DEF SoundBudget
  <2>7. turns.limit <= book.turnBase + book.earned * TurnStep
    BY <2>1, <2>2, <2>4, <2>5 DEF SoundBudget
  <2> QED
    BY <2>2, <2>6, <2>7 DEF HeadroomIsEarned, SoundBudget, ModelStep, TurnStep
<1> QED
  BY <1>1, MeterInvariant, PTL

\* Progress is credited at most once per receipt (record_goal_delta_locked).
THEOREM ProgressIsAlwaysCreditedOnce == Spec => []ProgressIsCreditedOnce
<1>1. MeterInv => ProgressIsCreditedOnce
  BY DEF MeterInv
<1> QED
  BY <1>1, MeterInvariant, PTL

\* A Continue directive is honoured by the reserve, the stage, the model-call
\* budget and the turn budget alike (continuation_directive).
THEOREM ContinueIsAlwaysHonoured == Spec => []ContinueIsHonoured
<1>1. MeterInv => ContinueIsHonoured
  <2> SUFFICES ASSUME MeterInv, Directive = "Continue", "Actor" \in Classes
               PROVE  /\ ~ReserveReached("Actor")
                      /\ ~StageExhausted("Actor")
                      /\ Headroom(model, model.calls + 1, goal.count,
                                  ModelCallsPerExtension, MaxModelCalls).granted
                      /\ Headroom(turns, turns.calls + 1, goal.count,
                                  TurnsPerExtension, MaxTurns).granted
    BY DEF ContinueIsHonoured
  <2>1. /\ model.calls \in Nat /\ model.limit \in Nat
        /\ turns.calls \in Nat /\ turns.limit \in Nat /\ turns.spent \in Nat
        /\ goal.count \in Nat /\ clock.elapsed \in Nat
        /\ usage["Actor"] \in Usage
        /\ usage["Actor"].calls <= model.calls
        /\ model.limit <= MaxModelCalls /\ turns.limit <= MaxTurns
        /\ turns.calls <= turns.limit
    BY DEF MeterInv, TypeOK, Budget, StagesWithinRun, SoundBudget
  <2>2. /\ model.limit - model.calls > TerminalModelCallReserve
        /\ \/ turns.limit - turns.calls > 1
           \/ turns.limit < MaxTurns /\ goal.count > turns.spent
        /\ MaxDuration - clock.elapsed > TerminalTimeReserve
    BY <2>1, MeteringConstants DEF Directive, TurnExtensionAvailable
  <2>3. ~ReserveReached("Actor")
    BY <2>1, <2>2, MeteringConstants
    DEF ReserveReached, ProtectedTimeReserve, ProtectedModelCallReserve,
        IsTerminalClass, AtLeast
  <2>4. ~StageExhausted("Actor")
    <3>1. /\ UsageOf("Actor").calls \in Nat /\ UsageOf("Actor").since \in Nat
          /\ UsageOf("Actor").calls <= model.calls
      BY <2>1 DEF UsageOf, Usage
    <3>2. StageModelCalls("Actor") = MaxModelCalls
      BY MeteringConstants DEF StageModelCalls, AtLeast, AtMost
    <3>3. StageDuration("Actor") = MaxDuration
      BY DEF StageDuration
    <3> QED
      BY <2>1, <2>2, <3>1, <3>2, <3>3, MeteringConstants DEF StageExhausted
  <2>5. Headroom(model, model.calls + 1, goal.count, ModelCallsPerExtension,
                 MaxModelCalls).granted
    BY <2>1, <2>2, MeteringConstants DEF Headroom
  <2>6. Headroom(turns, turns.calls + 1, goal.count, TurnsPerExtension,
                 MaxTurns).granted
    <3>1. CASE turns.calls + 1 <= turns.limit
      BY <2>1, <3>1 DEF Headroom
    <3>2. CASE turns.calls + 1 > turns.limit
      <4> DEFINE larger == AtMost(turns.limit + AtLeast(TurnsPerExtension, 1),
                                  MaxTurns)
      <4>1. turns.calls = turns.limit /\ turns.limit < MaxTurns
            /\ goal.count > turns.spent
        BY <2>1, <2>2, <3>2
      <4>2. turns.calls + 1 <= larger
        BY <2>1, <4>1, MeteringConstants DEF AtLeast, AtMost
      <4>3. Headroom(turns, turns.calls + 1, goal.count, TurnsPerExtension,
                     MaxTurns)
              = [granted |-> turns.calls + 1 <= larger, limit |-> larger,
                 spent |-> goal.count]
        BY <2>1, <3>2, <4>1, MeteringConstants DEF Headroom, Extension
      <4>4. (turns.calls + 1 <= larger) = TRUE
        BY <4>2
      <4> HIDE DEF larger
      <4>5. Headroom(turns, turns.calls + 1, goal.count, TurnsPerExtension,
                     MaxTurns)
              = [granted |-> TRUE, limit |-> larger, spent |-> goal.count]
        BY <4>3, <4>4, Zenon
      <4> QED
        BY <4>5
    <3> QED
      BY <2>1, <3>1, <3>2
  <2> QED
    BY <2>3, <2>4, <2>5, <2>6
<1> QED
  BY <1>1, MeterInvariant, PTL
=============================================================================
