--------------------------- MODULE ToolBatchProofs ---------------------------
(***************************************************************************)
(* Proofs about ToolBatch, for every budget, window, set of actions and    *)
(* batch length.                                                           *)
(*                                                                         *)
(* Both loops of the code, over a batch and over single calls, are folds.  *)
(* The library has no theorem about FoldLeft that the provers can use, so  *)
(* a fold is first shown to be what it is meant to be: a sequence of       *)
(* intermediate values g[0], g[1], ... with one step of the loop between   *)
(* neighbours (ObserveFold, AdmitFold).  What holds of all of them is then *)
(* shown from the least index where it fails (CountingUp).                 *)
(*                                                                         *)
(*   BatchIsSerial  the two sequences side by side: as long as nothing is  *)
(*                  refused, the guard is the same in both, and the serial *)
(*                  budget after k calls is what asking for the k-th at    *)
(*                  once would give.                                       *)
(*   BatchInv       the invariant of the budget: each extension was paid   *)
(*                  for by progress that is not counted twice.             *)
(*   CycleInv       the invariant of the guard: its window holds the       *)
(*                  newest executed actions, so a cycle among them would   *)
(*                  have been seen in the window when its last action was  *)
(*                  asked for.                                             *)
(***************************************************************************)
EXTENDS ToolBatch, SequenceTheorems, WellFoundedInduction, TLAPS

-----------------------------------------------------------------------------
\* A set of numbers has a least one.
LEMMA LeastNumber ==
  ASSUME NEW S, S \subseteq Nat, S # {}
  PROVE  \E x \in S : \A y \in S : x <= y
<1>1. \E x \in S : \A y \in S : ~(<<y, x>> \in OpToRel(<, Nat))
  BY WFMin, NatLessThanWellFounded
<1>2. \A x, y \in Nat : ~(<<y, x>> \in OpToRel(<, Nat)) => x <= y
  BY DEF OpToRel
<1> QED
  BY <1>1, <1>2

\* Counting up to n stays in a set that holds 0 and each number after its own.
LEMMA CountingUp ==
  ASSUME NEW n \in Nat, NEW X, 0 \in X, \A k \in 1 .. n : k - 1 \in X => k \in X
  PROVE  \A k \in 0 .. n : k \in X
<1> DEFINE Bad == {k \in 0 .. n : k \notin X}
<1> SUFFICES ASSUME Bad # {} PROVE FALSE
  OBVIOUS
<1>0. Bad \subseteq Nat
  OBVIOUS
<1>1. PICK k \in Bad : \A m \in Bad : k <= m
  <2> HIDE DEF Bad
  <2> QED
    BY <1>0, LeastNumber
<1>2. k \in 1 .. n /\ k - 1 \in 0 .. n /\ ~(k <= k - 1)
  BY <1>1
<1>3. k - 1 \notin Bad
  <2> HIDE DEF Bad
  <2> QED
    BY <1>1, <1>2
<1> QED
  BY <1>1, <1>2, <1>3

\* The largest index of a part of 1 .. n.
LEMMA MaxFacts ==
  ASSUME NEW n \in Nat, NEW u \in SUBSET (1 .. n), u # {}
  PROVE  Max(u) \in u /\ \A x \in u : Max(u) >= x
<1> DEFINE D == {n - x : x \in u}
<1>0. \A x \in u : n - x \in Nat
  OBVIOUS
<1>1. D \subseteq Nat /\ D # {}
  BY <1>0
<1>2. PICK d \in D : \A y \in D : d <= y
  <2> HIDE DEF D
  <2> QED
    BY <1>1, LeastNumber
<1>3. PICK m \in u : d = n - m
  BY <1>2
<1>4. \A x \in u : m >= x
  <2> TAKE x \in u
  <2>1. n - x \in D
    OBVIOUS
  <2> HIDE DEF D
  <2> QED
    BY <1>2, <1>3, <2>1
<1> QED
  BY <1>3, <1>4 DEF Max

\* A fold over the first k elements takes the k-th last.
LEMMA MaxOfInterval ==
  ASSUME NEW k \in Nat \ {0}
  PROVE  Max(1 .. k) = k /\ (1 .. k) \ {k} = 1 .. (k - 1) /\ 1 .. k # {}
<1>1. k \in 1 .. k
  OBVIOUS
<1>2. Max(1 .. k) \in 1 .. k /\ Max(1 .. k) >= k
  BY <1>1, MaxFacts
<1> QED
  BY <1>1, <1>2

-----------------------------------------------------------------------------
\* f folds the elements of e at the indices in each set of D, lowest first, with
\* the steps of the function G.
FoldsTo(f, G, base, e, D) ==
  f = [u \in D |-> IF u = {} THEN base ELSE G[<<f[u \ {Max(u)}], e[Max(u)]>>]]

\* There is such a fold, and it keeps to the set that G does.
LEMMA FoldExists ==
  ASSUME NEW X, NEW Y, NEW base \in X, NEW e \in Seq(Y), NEW G \in [X \X Y -> X]
  PROVE  \E f \in [SUBSET (1 .. Len(e)) -> X] :
            FoldsTo(f, G, base, e, SUBSET (1 .. Len(e)))
<1> DEFINE n == Len(e)
           P == {k \in 0 .. n : \E f \in [SUBSET (1 .. k) -> X] :
                                   FoldsTo(f, G, base, e, SUBSET (1 .. k))}
<1>0. n \in Nat /\ \A i \in 1 .. n : e[i] \in Y
  OBVIOUS
<1>1. 0 \in P
  <2> DEFINE f == [u \in SUBSET (1 .. 0) |-> base]
  <2>1. \A u \in SUBSET (1 .. 0) : u = {}
    OBVIOUS
  <2>2. f \in [SUBSET (1 .. 0) -> X] /\ FoldsTo(f, G, base, e, SUBSET (1 .. 0))
    BY <2>1 DEF FoldsTo
  <2> QED
    BY <1>0, <2>2
<1>2. ASSUME NEW k \in 1 .. n, k - 1 \in P PROVE k \in P
  <2>1. PICK g \in [SUBSET (1 .. (k - 1)) -> X] :
           FoldsTo(g, G, base, e, SUBSET (1 .. (k - 1)))
    BY <1>2
  <2> DEFINE f == [u \in SUBSET (1 .. k) |->
                     IF u = {} THEN base ELSE G[<<g[u \ {Max(u)}], e[Max(u)]>>]]
  <2>2. \A u \in SUBSET (1 .. k) : u # {} => /\ Max(u) \in 1 .. k
                                             /\ u \ {Max(u)} \in SUBSET (1 .. (k - 1))
    <3> SUFFICES ASSUME NEW u \in SUBSET (1 .. k), u # {}
                 PROVE  Max(u) \in 1 .. k /\ u \ {Max(u)} \in SUBSET (1 .. (k - 1))
      OBVIOUS
    <3>1. k \in Nat
      BY <1>0
    <3>2. Max(u) \in u /\ \A x \in u : Max(u) >= x
      BY <3>1, MaxFacts
    <3>3. Max(u) \in 1 .. k
      BY <3>2
    <3>4. \A x \in u \ {Max(u)} : x \in 1 .. (k - 1)
      <4> TAKE x \in u \ {Max(u)}
      <4>1. x \in 1 .. k /\ x <= Max(u) /\ x # Max(u)
        BY <3>2
      <4> QED
        BY <3>1, <3>3, <4>1
    <3> QED
      BY <3>3, <3>4
  <2>3. f \in [SUBSET (1 .. k) -> X]
    <3> SUFFICES ASSUME NEW u \in SUBSET (1 .. k), u # {}
                 PROVE  G[<<g[u \ {Max(u)}], e[Max(u)]>>] \in X
      OBVIOUS
    <3>1. g[u \ {Max(u)}] \in X /\ e[Max(u)] \in Y
      BY <1>0, <2>2
    <3> QED
      BY <3>1
  <2>4. \A u \in SUBSET (1 .. (k - 1)) : u \in SUBSET (1 .. k) /\ f[u] = g[u]
    <3> TAKE u \in SUBSET (1 .. (k - 1))
    <3>1. u \in SUBSET (1 .. k)
      BY <1>0
    <3>2. g[u] = IF u = {} THEN base ELSE G[<<g[u \ {Max(u)}], e[Max(u)]>>]
      BY <2>1 DEF FoldsTo
    <3> QED
      BY <3>1, <3>2
  <2>5. \A u \in SUBSET (1 .. k) :
           f[u] = IF u = {} THEN base ELSE G[<<f[u \ {Max(u)}], e[Max(u)]>>]
    BY <2>2, <2>4
  <2>6. FoldsTo(f, G, base, e, SUBSET (1 .. k))
    BY <2>5 DEF FoldsTo
  <2>7. k \in 0 .. n
    BY <1>0
  <2> QED
    BY <2>3, <2>6, <2>7
<1>3. n \in P
  <2>1. \A k \in 1 .. n : k - 1 \in P => k \in P
    BY <1>2
  <2>2. n \in Nat /\ n \in 0 .. n
    BY <1>0
  <2> HIDE DEF P, n
  <2>3. \A k \in 0 .. n : k \in P
    BY <1>1, <2>1, <2>2, CountingUp
  <2> QED
    BY <2>2, <2>3
<1> QED
  BY <1>3
-----------------------------------------------------------------------------
\* What the loops of a batch and of the serial path carry from call to call.
Locals == [repeated : BOOLEAN, guard : ToolGuards]
Admissions == [outcome : {"Started"} \cup StopOutcomes, calls : Nat,
               limit : 1 .. MaxToolCalls, spent : Nat, guard : ToolGuards]

\* The window after one more action.
Pushed(r, sig) ==
  LET pushed == Append(r, sig)
  IN  SubSeq(pushed, AtLeast(Len(pushed) - RecentWindow, 0) + 1, Len(pushed))

\* The window keeps the newest actions, RecentWindow of them at most.
LEMMA PushedFacts ==
  ASSUME NEW r \in Seq(Signatures), NEW sig \in Signatures
  PROVE  /\ Pushed(r, sig) \in Seq(Signatures)
         /\ Len(Pushed(r, sig)) = AtMost(Len(r) + 1, RecentWindow)
         /\ \A i \in Nat : i < Len(Pushed(r, sig)) =>
              Pushed(r, sig)[Len(Pushed(r, sig)) - i]
                = IF i = 0 THEN sig ELSE r[Len(r) + 1 - i]
<1> DEFINE p == Append(r, sig)
           m == AtLeast(Len(p) - RecentWindow, 0) + 1
           q == SubSeq(p, m, Len(p))
<1>1. /\ p \in Seq(Signatures) /\ Len(p) = Len(r) + 1 /\ Len(r) \in Nat
      /\ \A i \in 1 .. Len(r) : p[i] = r[i]
      /\ p[Len(r) + 1] = sig
  OBVIOUS
<1>2. RecentWindow \in Nat \ {0}
  BY ToolConstants
<1>3. m \in 1 .. Len(p)
  BY <1>1, <1>2 DEF AtLeast
<1>4. \A i \in m .. Len(p) : p[i] \in Signatures
  BY <1>1, <1>3, ElementOfSeq
<1>5. /\ q \in Seq(Signatures) /\ Len(q) = Len(p) - m + 1
      /\ \A i \in 1 .. Len(p) - m + 1 : q[i] = p[m + i - 1]
  <2> HIDE DEF p, m, q
  <2>1. m \in Int /\ Len(p) \in Int /\ m <= Len(p)
    BY <1>1, <1>3
  <2> QED
    BY <1>4, <2>1, SubSeqProperties DEF q
<1>6. Len(q) = AtMost(Len(r) + 1, RecentWindow)
  <2>1. m = IF Len(p) - RecentWindow < 0 THEN 1 ELSE Len(p) - RecentWindow + 1
    BY <1>1, <1>2 DEF AtLeast
  <2>2. Len(p) = Len(r) + 1 /\ Len(r) \in Nat /\ Len(q) = Len(p) - m + 1
    BY <1>1, <1>5
  <2> HIDE DEF p, m, q
  <2>3. CASE Len(r) + 1 > RecentWindow
    BY <1>2, <2>1, <2>2, <2>3 DEF AtMost
  <2>4. CASE ~(Len(r) + 1 > RecentWindow)
    <3>1. m = 1
      BY <1>2, <2>1, <2>2, <2>4
    <3>2. AtMost(Len(r) + 1, RecentWindow) = Len(r) + 1
      BY <2>4 DEF AtMost
    <3> QED
      BY <2>2, <3>1, <3>2
  <2> QED
    BY <2>3, <2>4
<1>7. ASSUME NEW i \in Nat, i < Len(q)
      PROVE  q[Len(q) - i] = IF i = 0 THEN sig ELSE r[Len(r) + 1 - i]
  <2>0. m \in Nat /\ Len(p) \in Nat /\ m >= 1
    BY <1>1, <1>3
  <2> HIDE DEF m, q, p
  <2>1. Len(q) - i \in 1 .. Len(p) - m + 1 /\ m + (Len(q) - i) - 1 = Len(r) + 1 - i
    BY <1>1, <1>3, <1>5, <1>7, <2>0
  <2>2. q[Len(q) - i] = p[Len(r) + 1 - i]
    BY <1>5, <2>1
  <2>3. i # 0 => Len(r) + 1 - i \in 1 .. Len(r)
    BY <1>1, <1>5, <1>7, <2>0
  <2> QED
    BY <1>1, <2>2, <2>3
<1>8. q = Pushed(r, sig)
  BY DEF Pushed
<1> HIDE DEF q
<1> QED
  BY <1>5, <1>6, <1>7, <1>8

\* The guard after one action.
LEMMA ObserveFacts ==
  ASSUME NEW g \in ToolGuards, NEW sig \in Signatures
  PROVE  /\ Observe(g, sig) \in Locals
         /\ Observe(g, sig).guard.lease = g.lease
         /\ Observe(g, sig).guard.recent \in {g.recent, Pushed(g.recent, sig)}
         /\ ~Observe(g, sig).repeated =>
              /\ Observe(g, sig).guard.recent = Pushed(g.recent, sig)
              /\ ~RepeatedCycle(Pushed(g.recent, sig), MaxIdenticalActions + 1)
<1> DEFINE run == IF g.last = sig THEN g.run + 1 ELSE 1
           long == [g EXCEPT !.last = sig, !.run = run]
           next == [g EXCEPT !.last = sig, !.run = run, !.recent = Pushed(g.recent, sig)]
<1>1. Observe(g, sig) =
        IF run > MaxIdenticalActions
        THEN [repeated |-> TRUE, guard |-> long]
        ELSE [repeated |-> RepeatedCycle(Pushed(g.recent, sig), MaxIdenticalActions + 1),
              guard |-> next]
  BY DEF Observe, Pushed
<1>2. /\ g.recent \in Seq(Signatures) /\ g.run \in Nat
      /\ g.lease \in Signatures \cup {NoSignature}
  BY DEF ToolGuards
<1>3. run \in Nat /\ Pushed(g.recent, sig) \in Seq(Signatures)
  <2>1. run \in Nat
    BY <1>2
  <2>2. Pushed(g.recent, sig) \in Seq(Signatures)
    BY <1>2, PushedFacts
  <2> QED
    BY <2>1, <2>2
<1>4. long \in ToolGuards /\ long.lease = g.lease /\ long.recent = g.recent
  BY <1>2, <1>3 DEF ToolGuards
<1>5. /\ next \in ToolGuards /\ next.lease = g.lease
      /\ next.recent = Pushed(g.recent, sig)
  BY <1>2, <1>3 DEF ToolGuards
<1>6. RepeatedCycle(Pushed(g.recent, sig), MaxIdenticalActions + 1) \in BOOLEAN
  BY DEF RepeatedCycle
<1> HIDE DEF run, long, next
<1>7. CASE run > MaxIdenticalActions
  <2>1. Observe(g, sig) = [repeated |-> TRUE, guard |-> long]
    BY <1>1, <1>7
  <2> QED
    BY <1>4, <2>1 DEF Locals
<1>8. CASE ~(run > MaxIdenticalActions)
  <2> DEFINE c == RepeatedCycle(Pushed(g.recent, sig), MaxIdenticalActions + 1)
  <2>1. Observe(g, sig) = [repeated |-> c, guard |-> next]
    BY <1>1, <1>8
  <2>2. c \in BOOLEAN
    BY <1>6
  <2> HIDE DEF c
  <2>3. /\ Observe(g, sig) \in Locals
        /\ Observe(g, sig).guard = next
        /\ Observe(g, sig).repeated = c
    BY <1>5, <2>1, <2>2 DEF Locals
  <2> QED
    BY <1>5, <2>3 DEF c
<1> QED
  BY <1>7, <1>8

\* The guard with the lease dropped.
Unlease(g) == [g EXCEPT !.lease = NoSignature]

\* Dropping the lease leaves the window alone.
LEMMA UnleaseFacts ==
  ASSUME NEW g \in ToolGuards
  PROVE  /\ Unlease(g) \in ToolGuards
         /\ Unlease(g).lease = NoSignature
         /\ Unlease(g).recent = g.recent
  BY DEF Unlease, ToolGuards

\* One call of a batch: nothing after a repetition, nothing for a leased action.
LEMMA ObserveInBatchFacts ==
  ASSUME NEW l \in Locals, NEW sig \in Signatures
  PROVE  /\ ObserveInBatch(l, sig) \in Locals
         /\ l.repeated \/ l.guard.lease = sig => ObserveInBatch(l, sig) = l
         /\ ~(l.repeated \/ l.guard.lease = sig) =>
              ObserveInBatch(l, sig) = Observe(Unlease(l.guard), sig)
<1>1. l.guard \in ToolGuards /\ l.repeated \in BOOLEAN
  BY DEF Locals
<1>2. Observe(Unlease(l.guard), sig) \in Locals
  BY <1>1, UnleaseFacts, ObserveFacts
<1> QED
  BY <1>1, <1>2 DEF ObserveInBatch, Unlease

-----------------------------------------------------------------------------
\* The extension a request may buy, and when it is granted.
LEMMA HeadroomFacts ==
  ASSUME NEW s \in Admissions, NEW call \in Nat, NEW p \in Nat
  PROVE  LET b == ToolHeadroom(s, call, p) IN
         /\ b.limit \in 1 .. MaxToolCalls /\ b.spent \in Nat /\ b.granted \in BOOLEAN
         /\ s.limit <= b.limit
         /\ b.granted => call <= b.limit
         /\ \/ b.limit = s.limit /\ b.spent = s.spent
            \/ /\ s.spent < p /\ b.spent = p
               /\ b.limit <= s.limit + AtLeast(ToolCallsPerExtension, 1)
<1> DEFINE b == ToolHeadroom(s, call, p)
           longer == AtMost(s.limit + AtLeast(ToolCallsPerExtension, 1), MaxToolCalls)
<1>1. s.limit \in 1 .. MaxToolCalls /\ s.spent \in Nat
      /\ MaxToolCalls \in Nat \ {0} /\ ToolCallsPerExtension \in Nat
  BY ToolConstants DEF Admissions
<1>2. /\ longer \in 1 .. MaxToolCalls /\ s.limit <= longer
      /\ longer <= s.limit + AtLeast(ToolCallsPerExtension, 1)
  BY <1>1 DEF AtLeast, AtMost
<1>3. CASE call <= s.limit
  <2>1. b = [granted |-> TRUE, limit |-> s.limit, spent |-> s.spent]
    BY <1>1, <1>3 DEF ToolHeadroom, Headroom
  <2> QED
    BY <1>1, <1>3, <2>1
<1>4. CASE ~(call <= s.limit) /\ (call > MaxToolCalls \/ p <= s.spent)
  <2>1. b = [granted |-> FALSE, limit |-> s.limit, spent |-> s.spent]
    BY <1>1, <1>4 DEF ToolHeadroom, Headroom, Extension
  <2> QED
    BY <1>1, <2>1
<1>5. CASE ~(call <= s.limit) /\ ~(call > MaxToolCalls \/ p <= s.spent)
  <2>1. b = [granted |-> call <= longer, limit |-> longer, spent |-> p]
    BY <1>1, <1>5 DEF ToolHeadroom, Headroom, Extension
  <2> HIDE DEF longer
  <2>2. /\ b.limit = longer /\ b.spent = p /\ b.granted \in BOOLEAN
        /\ b.granted => call <= longer
    <3>1. CASE call <= longer
      <4>1. b = [granted |-> TRUE, limit |-> longer, spent |-> p]
        BY <2>1, <3>1
      <4> HIDE DEF b
      <4> QED
        BY <3>1, <4>1
    <3>2. CASE ~(call <= longer)
      <4>1. b = [granted |-> FALSE, limit |-> longer, spent |-> p]
        <5>1. (call <= longer) = FALSE
          BY <3>2
        <5> HIDE DEF b
        <5> QED
          BY <2>1, <5>1, Zenon
      <4> HIDE DEF b
      <4> QED
        BY <4>1
    <3> QED
      BY <3>1, <3>2
  <2>3. s.spent < p
    BY <1>1, <1>5
  <2> HIDE DEF b
  <2>4. b = ToolHeadroom(s, call, p)
    BY DEF b
  <2> QED
    BY <1>1, <1>2, <2>2, <2>3, <2>4
<1> QED
  BY <1>3, <1>4, <1>5

\* One call of the serial path, with the decisions laid side by side.
LEMMA AdmitCallFacts ==
  ASSUME NEW s \in Admissions, NEW sig \in Signatures, NEW p \in Nat
  PROVE  LET b == ToolHeadroom(s, s.calls + 1, p)
             leased == s.guard.lease = sig
             seen == Observe(Unlease(s.guard), sig)
             t == AdmitCall(s, sig, p)
         IN /\ t \in Admissions
            /\ t.outcome = "Started" <=> b.granted /\ (leased \/ ~seen.repeated)
            /\ t.outcome = "Started" =>
                 t = Admission("Started", s.calls + 1, b,
                               IF leased THEN s.guard ELSE seen.guard)
            /\ t.outcome # "Started" => t.calls = s.calls
            /\ t.limit = b.limit /\ t.spent = b.spent
            /\ t.guard.recent \in {s.guard.recent, Pushed(s.guard.recent, sig)}
<1> DEFINE b == ToolHeadroom(s, s.calls + 1, p)
           leased == s.guard.lease = sig
           seen == Observe(Unlease(s.guard), sig)
           guard == IF leased THEN s.guard ELSE Unlease(s.guard)
           t == AdmitCall(s, sig, p)
<1>1. s.guard \in ToolGuards /\ s.calls \in Nat
  BY DEF Admissions
<1>2. b.limit \in 1 .. MaxToolCalls /\ b.spent \in Nat /\ b.granted \in BOOLEAN
  BY <1>1, HeadroomFacts
<1>3. /\ Unlease(s.guard) \in ToolGuards /\ Unlease(s.guard).recent = s.guard.recent
  BY <1>1, UnleaseFacts
<1>4. /\ seen \in Locals
      /\ seen.guard.recent \in {s.guard.recent, Pushed(s.guard.recent, sig)}
  BY <1>3, ObserveFacts
<1>5. seen.guard \in ToolGuards /\ seen.repeated \in BOOLEAN
  BY <1>4 DEF Locals
<1>6. t = IF ~b.granted
          THEN Admission("ToolCallBudgetExceeded", s.calls, b, guard)
          ELSE IF leased
          THEN Admission("Started", s.calls + 1, b, s.guard)
          ELSE IF seen.repeated
          THEN Admission("RepeatedAction", s.calls, b, seen.guard)
          ELSE Admission("Started", s.calls + 1, b, seen.guard)
  BY DEF AdmitCall, Unlease
<1>7. guard \in ToolGuards /\ guard.recent = s.guard.recent
  BY <1>1, <1>3
<1> HIDE DEF b, leased, seen, guard, t
<1>8. CASE ~b.granted
  <2>1. t = Admission("ToolCallBudgetExceeded", s.calls, b, guard)
    BY <1>6, <1>8
  <2> QED
    BY <1>1, <1>2, <1>7, <1>8, <2>1 DEF Admission, Admissions, StopOutcomes, b, leased, seen, t
<1>9. CASE b.granted /\ leased
  <2>1. t = Admission("Started", s.calls + 1, b, s.guard)
    BY <1>6, <1>9
  <2> QED
    BY <1>1, <1>2, <1>9, <2>1 DEF Admission, Admissions, b, leased, seen, t
<1>10. CASE b.granted /\ ~leased /\ seen.repeated
  <2>1. t = Admission("RepeatedAction", s.calls, b, seen.guard)
    BY <1>6, <1>10
  <2> QED
    BY <1>1, <1>2, <1>4, <1>5, <1>10, <2>1 DEF Admission, Admissions, StopOutcomes, b, leased, seen, t
<1>11. CASE b.granted /\ ~leased /\ ~seen.repeated
  <2>1. t = Admission("Started", s.calls + 1, b, seen.guard)
    BY <1>6, <1>11
  <2> QED
    BY <1>1, <1>2, <1>4, <1>5, <1>11, <2>1 DEF Admission, Admissions, b, leased, seen, t
<1> QED
  BY <1>2, <1>5, <1>8, <1>9, <1>10, <1>11

-----------------------------------------------------------------------------
\* The fold of the guard over the calls of a batch.
Observing(f, base, calls) ==
  f = [u \in SUBSET (DOMAIN calls) |->
         IF u = {} THEN base ELSE ObserveInBatch(f[u \ {Max(u)}], calls[Max(u)])]

\* The guard's loop over a batch, call by call.
LEMMA ObserveFold ==
  ASSUME NEW base \in Locals, NEW calls \in Seq(Signatures)
  PROVE  \E g \in [0 .. Len(calls) -> Locals] :
           /\ g[0] = base
           /\ \A k \in 1 .. Len(calls) : g[k] = ObserveInBatch(g[k - 1], calls[k])
           /\ FoldLeft(ObserveInBatch, base, calls) = g[Len(calls)]
<1> DEFINE n == Len(calls)
           h == CHOOSE f : Observing(f, base, calls)
           G == [x \in Locals \X Signatures |-> ObserveInBatch(x[1], x[2])]
           g == [k \in 0 .. n |-> h[1 .. k]]
<1>0. n \in Nat /\ DOMAIN calls = 1 .. n /\ \A k \in 1 .. n : calls[k] \in Signatures
  OBVIOUS
<1>1. FoldLeft(ObserveInBatch, base, calls) = h[1 .. n]
  BY <1>0 DEF FoldLeft, MapThenFoldSet, Observing
<1>2. \A x \in Locals, sig \in Signatures : ObserveInBatch(x, sig) \in Locals
  BY ObserveInBatchFacts
<1>3. Observing(h, base, calls)
  <2>1. G \in [Locals \X Signatures -> Locals]
    BY <1>2
  <2>2. PICK f \in [SUBSET (1 .. n) -> Locals] :
           FoldsTo(f, G, base, calls, SUBSET (1 .. n))
    <3> HIDE DEF G
    <3> QED
      BY <2>1, FoldExists
  <2>3. ASSUME NEW u \in SUBSET (1 .. n)
        PROVE  f[u] = IF u = {} THEN base ELSE ObserveInBatch(f[u \ {Max(u)}], calls[Max(u)])
    <3>1. f[u] = IF u = {} THEN base ELSE G[<<f[u \ {Max(u)}], calls[Max(u)]>>]
      BY <2>2 DEF FoldsTo
    <3>2. ASSUME u # {}
          PROVE  f[u \ {Max(u)}] \in Locals /\ calls[Max(u)] \in Signatures
      <4>1. Max(u) \in u
        BY <1>0, <3>2, MaxFacts
      <4> QED
        BY <1>0, <2>2, <4>1
    <3>3. \A x \in Locals, sig \in Signatures : G[<<x, sig>>] = ObserveInBatch(x, sig)
      OBVIOUS
    <3> HIDE DEF G
    <3> QED
      BY <3>1, <3>2, <3>3
  <2>4. Observing(f, base, calls)
    BY <1>0, <2>2, <2>3 DEF Observing
  <2> QED
    BY <2>4
<1> HIDE DEF h
<1>4. \A u \in SUBSET (1 .. n) :
        h[u] = IF u = {} THEN base ELSE ObserveInBatch(h[u \ {Max(u)}], calls[Max(u)])
  BY <1>0, <1>3 DEF Observing
<1>5. g[0] = base
  <2>1. 1 .. 0 = {} /\ 1 .. 0 \in SUBSET (1 .. n) /\ 0 \in 0 .. n
    BY <1>0
  <2>2. h[1 .. 0] = base
    BY <1>4, <2>1
  <2> QED
    BY <2>1, <2>2
<1>6. ASSUME NEW k \in 1 .. n PROVE g[k] = ObserveInBatch(g[k - 1], calls[k])
  <2>1. /\ k \in Nat \ {0} /\ k \in 0 .. n /\ k - 1 \in 0 .. n
        /\ 1 .. k \in SUBSET (1 .. n)
    BY <1>0
  <2>2. Max(1 .. k) = k /\ (1 .. k) \ {k} = 1 .. (k - 1) /\ 1 .. k # {}
    BY <2>1, MaxOfInterval
  <2>3. h[1 .. k] = ObserveInBatch(h[1 .. (k - 1)], calls[k])
    BY <1>4, <2>1, <2>2
  <2>4. g[k] = h[1 .. k] /\ g[k - 1] = h[1 .. (k - 1)]
    BY <2>1
  <2> QED
    BY <2>3, <2>4
<1> HIDE DEF n
<1>7. \A k \in 0 .. n : g[k] \in Locals
  <2> DEFINE P == {k \in 0 .. n : g[k] \in Locals}
  <2>1. 0 \in P
    BY <1>0, <1>5
  <2>2. ASSUME NEW k \in 1 .. n, k - 1 \in P PROVE k \in P
    <3>1. k \in 0 .. n
      BY <1>0
    <3> HIDE DEF g
    <3> QED
      BY <1>0, <1>2, <1>6, <2>2, <3>1
  <2> HIDE DEF P
  <2>3. \A k \in 0 .. n : k \in P
    BY <1>0, <2>1, <2>2, CountingUp
  <2> QED
    BY <2>3 DEF P
<1>8. g[n] = h[1 .. n] /\ g \in [0 .. n -> Locals]
  BY <1>0, <1>7
<1> HIDE DEF g
<1> QED
  BY <1>1, <1>5, <1>6, <1>8 DEF n

\* One call of the serial path, which ends at the first refusal.
AdmitNext(now, sig, p) ==
  IF now.outcome = "Started" THEN AdmitCall(now, sig, p) ELSE now

\* It stays among the admissions.
LEMMA AdmitNextFacts ==
  ASSUME NEW s \in Admissions, NEW sig \in Signatures, NEW p \in Nat
  PROVE  AdmitNext(s, sig, p) \in Admissions
  BY AdmitCallFacts DEF AdmitNext

\* The fold of the serial path.
AdmittingInOrder(f, base, calls, p) ==
  f = [u \in SUBSET (DOMAIN calls) |->
         IF u = {} THEN base ELSE AdmitNext(f[u \ {Max(u)}], calls[Max(u)], p)]

\* The serial path over the same calls, call by call.
LEMMA AdmitFold ==
  ASSUME NEW base \in Admissions, NEW calls \in Seq(Signatures), NEW p \in Nat
  PROVE  \E g \in [0 .. Len(calls) -> Admissions] :
           /\ g[0] = base
           /\ \A k \in 1 .. Len(calls) : g[k] = AdmitNext(g[k - 1], calls[k], p)
           /\ AdmitInOrder(base, calls, p) = g[Len(calls)]
<1> DEFINE n == Len(calls)
           h == CHOOSE f : AdmittingInOrder(f, base, calls, p)
           G == [x \in Admissions \X Signatures |-> AdmitNext(x[1], x[2], p)]
           g == [k \in 0 .. n |-> h[1 .. k]]
<1>0. n \in Nat /\ DOMAIN calls = 1 .. n /\ \A k \in 1 .. n : calls[k] \in Signatures
  OBVIOUS
<1>1. AdmitInOrder(base, calls, p) = h[1 .. n]
  BY <1>0 DEF FoldLeft, MapThenFoldSet, AdmittingInOrder, AdmitInOrder, AdmitNext
<1>2. \A x \in Admissions, sig \in Signatures : AdmitNext(x, sig, p) \in Admissions
  BY AdmitNextFacts
<1>3. AdmittingInOrder(h, base, calls, p)
  <2>1. G \in [Admissions \X Signatures -> Admissions]
    BY <1>2
  <2>2. PICK f \in [SUBSET (1 .. n) -> Admissions] :
           FoldsTo(f, G, base, calls, SUBSET (1 .. n))
    <3> HIDE DEF G
    <3> QED
      BY <2>1, FoldExists
  <2>3. ASSUME NEW u \in SUBSET (1 .. n)
        PROVE  f[u] = IF u = {} THEN base ELSE AdmitNext(f[u \ {Max(u)}], calls[Max(u)], p)
    <3>1. f[u] = IF u = {} THEN base ELSE G[<<f[u \ {Max(u)}], calls[Max(u)]>>]
      BY <2>2 DEF FoldsTo
    <3>2. ASSUME u # {}
          PROVE  f[u \ {Max(u)}] \in Admissions /\ calls[Max(u)] \in Signatures
      <4>1. Max(u) \in u
        BY <1>0, <3>2, MaxFacts
      <4> QED
        BY <1>0, <2>2, <4>1
    <3>3. \A x \in Admissions, sig \in Signatures : G[<<x, sig>>] = AdmitNext(x, sig, p)
      OBVIOUS
    <3> HIDE DEF G
    <3> QED
      BY <3>1, <3>2, <3>3
  <2>4. AdmittingInOrder(f, base, calls, p)
    BY <1>0, <2>2, <2>3 DEF AdmittingInOrder
  <2> QED
    BY <2>4
<1> HIDE DEF h
<1>4. \A u \in SUBSET (1 .. n) :
        h[u] = IF u = {} THEN base ELSE AdmitNext(h[u \ {Max(u)}], calls[Max(u)], p)
  BY <1>0, <1>3 DEF AdmittingInOrder
<1>5. g[0] = base
  <2>1. 1 .. 0 = {} /\ 1 .. 0 \in SUBSET (1 .. n) /\ 0 \in 0 .. n
    BY <1>0
  <2>2. h[1 .. 0] = base
    BY <1>4, <2>1
  <2> QED
    BY <2>1, <2>2
<1>6. ASSUME NEW k \in 1 .. n PROVE g[k] = AdmitNext(g[k - 1], calls[k], p)
  <2>1. /\ k \in Nat \ {0} /\ k \in 0 .. n /\ k - 1 \in 0 .. n
        /\ 1 .. k \in SUBSET (1 .. n)
    BY <1>0
  <2>2. Max(1 .. k) = k /\ (1 .. k) \ {k} = 1 .. (k - 1) /\ 1 .. k # {}
    BY <2>1, MaxOfInterval
  <2>3. h[1 .. k] = AdmitNext(h[1 .. (k - 1)], calls[k], p)
    BY <1>4, <2>1, <2>2
  <2>4. g[k] = h[1 .. k] /\ g[k - 1] = h[1 .. (k - 1)]
    BY <2>1
  <2> QED
    BY <2>3, <2>4
<1> HIDE DEF n
<1>7. \A k \in 0 .. n : g[k] \in Admissions
  <2> DEFINE P == {k \in 0 .. n : g[k] \in Admissions}
  <2>1. 0 \in P
    BY <1>0, <1>5
  <2>2. ASSUME NEW k \in 1 .. n, k - 1 \in P PROVE k \in P
    <3>1. k \in 0 .. n
      BY <1>0
    <3> HIDE DEF g
    <3> QED
      BY <1>0, <1>2, <1>6, <2>2, <3>1
  <2> HIDE DEF P
  <2>3. \A k \in 0 .. n : k \in P
    BY <1>0, <2>1, <2>2, CountingUp
  <2> QED
    BY <2>3 DEF P
<1>8. g[n] = h[1 .. n] /\ g \in [0 .. n -> Admissions]
  BY <1>0, <1>7
<1> HIDE DEF g
<1> QED
  BY <1>1, <1>5, <1>6, <1>8 DEF n

-----------------------------------------------------------------------------
\* The limit after an extension.
Longer(s) == AtMost(s.limit + AtLeast(ToolCallsPerExtension, 1), MaxToolCalls)

\* What a call finds, in one formula for each field.
LEMMA HeadroomShape ==
  ASSUME NEW s \in Admissions, NEW call \in Nat, NEW p \in Nat
  PROVE  LET b == ToolHeadroom(s, call, p)
             buys == call > s.limit /\ call <= MaxToolCalls /\ s.spent < p
         IN  /\ s.limit <= Longer(s) /\ Longer(s) <= MaxToolCalls /\ Longer(s) \in Nat
             /\ b.granted <=> call <= s.limit \/ (buys /\ call <= Longer(s))
             /\ b.limit = IF buys THEN Longer(s) ELSE s.limit
             /\ b.spent = IF buys THEN p ELSE s.spent
<1> DEFINE b == ToolHeadroom(s, call, p)
           buys == call > s.limit /\ call <= MaxToolCalls /\ s.spent < p
<1>1. s.limit \in 1 .. MaxToolCalls /\ s.spent \in Nat
      /\ MaxToolCalls \in Nat \ {0} /\ ToolCallsPerExtension \in Nat
  BY ToolConstants DEF Admissions
<1>2. Longer(s) \in 1 .. MaxToolCalls /\ s.limit <= Longer(s)
  BY <1>1 DEF Longer, AtLeast, AtMost
<1>3. CASE call <= s.limit
  <2>1. b = [granted |-> TRUE, limit |-> s.limit, spent |-> s.spent]
    BY <1>1, <1>3 DEF ToolHeadroom, Headroom
  <2>2. ~buys
    BY <1>1, <1>3
  <2> HIDE DEF b, buys
  <2>3. b.granted /\ b.limit = s.limit /\ b.spent = s.spent
    BY <2>1
  <2> QED
    BY <1>1, <1>2, <1>3, <2>2, <2>3 DEF b, buys
<1>4. CASE ~(call <= s.limit) /\ (call > MaxToolCalls \/ p <= s.spent)
  <2>1. b = [granted |-> FALSE, limit |-> s.limit, spent |-> s.spent]
    BY <1>1, <1>4 DEF ToolHeadroom, Headroom, Extension
  <2>2. ~buys
    BY <1>1, <1>4
  <2> HIDE DEF b, buys
  <2>3. ~b.granted /\ b.limit = s.limit /\ b.spent = s.spent
    BY <2>1
  <2> QED
    BY <1>1, <1>2, <1>4, <2>2, <2>3 DEF b, buys
<1>5. CASE ~(call <= s.limit) /\ ~(call > MaxToolCalls \/ p <= s.spent)
  <2>1. b = [granted |-> call <= Longer(s), limit |-> Longer(s), spent |-> p]
    BY <1>1, <1>5 DEF ToolHeadroom, Headroom, Extension, Longer
  <2>2. buys
    BY <1>1, <1>5
  <2> HIDE DEF b, buys
  <2>3. b.limit = Longer(s) /\ b.spent = p
    BY <2>1
  <2>4. b.granted = (call <= Longer(s))
    BY <2>1, Zenon
  <2>5. b.granted <=> call <= Longer(s)
    BY <2>4
  <2> QED
    BY <1>1, <1>2, <1>5, <2>2, <2>3, <2>5 DEF b, buys
<1> QED
  BY <1>3, <1>4, <1>5

\* A call the budget grants to a batch is one it grants to each earlier call.
LEMMA EarlierIsGranted ==
  ASSUME NEW s \in Admissions, NEW c \in Nat, NEW p \in Nat,
         ToolHeadroom(s, c + 1, p).granted
  PROVE  ToolHeadroom(s, c, p).granted
<1>1. s.limit \in 1 .. MaxToolCalls /\ MaxToolCalls \in Nat \ {0} /\ c + 1 \in Nat
  BY ToolConstants DEF Admissions
<1> QED
  BY <1>1, HeadroomShape

\* The extension bought by an earlier call is the one that a later call would
\* have bought, if both are granted.
LEMMA HeadroomChain ==
  ASSUME NEW s \in Admissions, NEW c \in Nat, NEW p \in Nat,
         ToolHeadroom(s, c, p).granted,
         NEW t \in Admissions,
         t.limit = ToolHeadroom(s, c, p).limit, t.spent = ToolHeadroom(s, c, p).spent
  PROVE  /\ ToolHeadroom(t, c + 1, p).granted <=> ToolHeadroom(s, c + 1, p).granted
         /\ ToolHeadroom(s, c + 1, p).granted =>
              /\ ToolHeadroom(t, c + 1, p).limit = ToolHeadroom(s, c + 1, p).limit
              /\ ToolHeadroom(t, c + 1, p).spent = ToolHeadroom(s, c + 1, p).spent
<1>1. /\ s.limit \in 1 .. MaxToolCalls /\ MaxToolCalls \in Nat \ {0} /\ c + 1 \in Nat
      /\ s.spent \in Nat
  BY ToolConstants DEF Admissions
<1>2. CASE c <= s.limit
  <2>1. t.limit = s.limit /\ t.spent = s.spent
    BY <1>1, <1>2, HeadroomShape
  <2>2. Longer(t) = Longer(s)
    BY <2>1 DEF Longer
  <2> QED
    BY <1>1, <2>1, <2>2, HeadroomShape
<1>3. CASE ~(c <= s.limit)
  <2>1. /\ c <= MaxToolCalls /\ s.spent < p /\ c <= Longer(s)
        /\ t.limit = Longer(s) /\ t.spent = p
        /\ Longer(s) \in Nat /\ Longer(s) <= MaxToolCalls /\ s.limit <= Longer(s)
    BY <1>1, <1>3, HeadroomShape
  <2>2. CASE c + 1 <= Longer(s)
    BY <1>1, <1>3, <2>1, <2>2, HeadroomShape
  <2>3. CASE ~(c + 1 <= Longer(s))
    BY <1>1, <1>3, <2>1, <2>3, HeadroomShape
  <2> QED
    BY <2>2, <2>3
<1> QED
  BY <1>2, <1>3

\* One more call, by the batch's loop and by the serial path, from the same guard
\* and a budget that has grown alike.
LEMMA SameDecision ==
  ASSUME NEW s \in Admissions, NEW l \in Locals, NEW sig \in Signatures, NEW p \in Nat,
         ~l.repeated, l.guard = s.guard
  PROVE  LET b == ToolHeadroom(s, s.calls + 1, p)
             t == AdmitCall(s, sig, p)
             m == ObserveInBatch(l, sig)
         IN /\ t.outcome = "Started" <=> b.granted /\ ~m.repeated
            /\ t.outcome = "Started" => t = Admission("Started", s.calls + 1, b, m.guard)
<1>1. CASE s.guard.lease = sig
  <2>1. ObserveInBatch(l, sig) = l
    BY <1>1, ObserveInBatchFacts
  <2> QED
    BY <1>1, <2>1, AdmitCallFacts
<1>2. CASE s.guard.lease # sig
  <2>1. ObserveInBatch(l, sig) = Observe(Unlease(s.guard), sig)
    BY <1>2, ObserveInBatchFacts
  <2> QED
    BY <1>2, <2>1, AdmitCallFacts
<1> QED
  BY <1>1, <1>2

\* Reserving a batch in one step is the decision of the serial path.
LEMMA BatchIsSerial ==
  ASSUME NEW s \in Admissions, s.outcome = "Started",
         NEW calls \in Seq(Signatures), Len(calls) >= 1,
         NEW p \in Nat, NEW certified \in BOOLEAN
  PROVE  LET together == AdmitBatch(s, calls, p, certified)
             inOrder  == AdmitInOrder(s, calls, p)
         IN  /\ together.outcome = "Started" => together = inOrder
             /\ (certified /\ inOrder.outcome = "Started") => together = inOrder
<1> DEFINE n == Len(calls)
           base == [repeated |-> FALSE, guard |-> s.guard]
           H(k) == ToolHeadroom(s, s.calls + k, p)
<1>0. /\ n \in Nat /\ n >= 1 /\ \A k \in 1 .. n : calls[k] \in Signatures
      /\ s.guard \in ToolGuards /\ s.calls \in Nat
  BY DEF Admissions
<1>1. base \in Locals /\ ~base.repeated /\ base.guard = s.guard
  BY <1>0 DEF Locals
<1>2. PICK g \in [0 .. n -> Locals] :
        /\ g[0] = base
        /\ \A k \in 1 .. n : g[k] = ObserveInBatch(g[k - 1], calls[k])
        /\ FoldLeft(ObserveInBatch, base, calls) = g[n]
  <2> HIDE DEF base
  <2> QED
    BY <1>1, ObserveFold
<1>3. PICK h \in [0 .. n -> Admissions] :
        /\ h[0] = s
        /\ \A k \in 1 .. n : h[k] = AdmitNext(h[k - 1], calls[k], p)
        /\ AdmitInOrder(s, calls, p) = h[n]
  BY AdmitFold
<1> DEFINE Agree(k) ==
      /\ h[k].outcome = "Started" <=> H(k).granted /\ ~g[k].repeated
      /\ h[k].outcome = "Started" =>
           h[k] = Admission("Started", s.calls + k, H(k), g[k].guard)
<1>4. Agree(1)
  <2>1. 1 \in 1 .. n /\ 1 - 1 = 0 /\ calls[1] \in Signatures
    BY <1>0
  <2>2. h[1] = AdmitCall(s, calls[1], p) /\ g[1] = ObserveInBatch(base, calls[1])
    BY <1>2, <1>3, <2>1 DEF AdmitNext
  <2> HIDE DEF base, n
  <2> QED
    BY <1>1, <2>1, <2>2, SameDecision
<1>5. ASSUME NEW k \in 2 .. n, Agree(k - 1) PROVE Agree(k)
  <2>1. k \in 1 .. n /\ k \in 0 .. n /\ k - 1 \in 0 .. n /\ k - 1 \in Nat
    BY <1>0
  <2>2. /\ h[k] = AdmitNext(h[k - 1], calls[k], p)
        /\ g[k] = ObserveInBatch(g[k - 1], calls[k])
        /\ h[k - 1] \in Admissions /\ g[k - 1] \in Locals /\ calls[k] \in Signatures
    BY <1>0, <1>2, <1>3, <2>1
  <2>3. s.calls + (k - 1) \in Nat /\ s.calls + k = (s.calls + (k - 1)) + 1
    BY <1>0, <2>1
  <2> HIDE DEF n, base
  <2>4. CASE h[k - 1].outcome # "Started"
    <3>1. h[k] = h[k - 1]
      BY <2>2, <2>4 DEF AdmitNext
    <3>2. CASE g[k - 1].repeated
      <4>1. g[k] = g[k - 1]
        BY <2>2, <3>2, ObserveInBatchFacts
      <4> QED
        BY <2>4, <3>1, <3>2, <4>1
    <3>3. CASE ~H(k - 1).granted
      <4>1. ~H(k).granted
        BY <2>3, <3>3, EarlierIsGranted
      <4> QED
        BY <2>4, <3>1, <4>1
    <3> QED
      BY <1>5, <2>4, <3>2, <3>3
  <2>5. CASE h[k - 1].outcome = "Started"
    <3>1. /\ H(k - 1).granted /\ ~g[k - 1].repeated
          /\ h[k - 1] = Admission("Started", s.calls + (k - 1), H(k - 1), g[k - 1].guard)
      BY <1>5, <2>5
    <3>2. /\ h[k - 1].calls = s.calls + (k - 1) /\ h[k - 1].guard = g[k - 1].guard
          /\ h[k - 1].limit = H(k - 1).limit /\ h[k - 1].spent = H(k - 1).spent
      BY <3>1 DEF Admission
    <3> DEFINE b == ToolHeadroom(h[k - 1], s.calls + k, p)
    <3>3. /\ b.granted <=> H(k).granted
          /\ H(k).granted => b.limit = H(k).limit /\ b.spent = H(k).spent
      BY <2>2, <2>3, <3>1, <3>2, HeadroomChain
    <3>4. /\ h[k].outcome = "Started" <=> b.granted /\ ~g[k].repeated
          /\ h[k].outcome = "Started" =>
               h[k] = Admission("Started", s.calls + k, b, g[k].guard)
      <4>1. h[k] = AdmitCall(h[k - 1], calls[k], p)
        BY <2>2, <2>5 DEF AdmitNext
      <4> QED
        BY <2>2, <2>3, <3>1, <3>2, <4>1, SameDecision
    <3>5. H(k).granted => Admission("Started", s.calls + k, b, g[k].guard)
                            = Admission("Started", s.calls + k, H(k), g[k].guard)
      BY <3>3 DEF Admission
    <3> HIDE DEF b
    <3> QED
      BY <3>3, <3>4, <3>5
  <2> QED
    BY <2>4, <2>5
<1>6. Agree(n)
  <2> DEFINE P == {k \in 0 .. n : k >= 1 => Agree(k)}
  <2>1. 0 \in P
    BY <1>0
  <2>2. ASSUME NEW k \in 1 .. n, k - 1 \in P PROVE k \in P
    <3>1. k \in 0 .. n
      BY <1>0
    <3>2. Agree(k)
      <4>1. CASE k = 1
        BY <1>4, <4>1
      <4>2. CASE k # 1
        <5>1. k \in 2 .. n /\ k - 1 >= 1
          BY <1>0, <4>2
        <5>2. Agree(k - 1)
          <6> HIDE DEF Agree
          <6> QED
            BY <2>2, <5>1
        <5> HIDE DEF Agree
        <5> QED
          BY <1>5, <5>1, <5>2
      <4> QED
        BY <4>1, <4>2
    <3> HIDE DEF Agree
    <3> QED
      BY <3>1, <3>2
  <2> HIDE DEF P
  <2>3. \A k \in 0 .. n : k \in P
    <3> HIDE DEF n
    <3> QED
      BY <1>0, <2>1, <2>2, CountingUp
  <2>4. n \in 0 .. n /\ n >= 1
    BY <1>0
  <2> HIDE DEF Agree, n
  <2> QED
    BY <2>3, <2>4 DEF P
<1> DEFINE together == AdmitBatch(s, calls, p, certified)
           risky == s.guard.lease # NoSignature \/ s.calls + n > s.limit
<1>7. together = IF ~certified /\ (risky \/ g[n].repeated)
                 THEN [s EXCEPT !.outcome = "SerialRequired"]
                 ELSE IF ~H(n).granted
                 THEN RefuseBatch(s, H(n), "ToolCallBudgetExceeded")
                 ELSE IF g[n].repeated
                 THEN RefuseBatch(s, H(n), "RepeatedAction")
                 ELSE Admission("Started", s.calls + n, H(n), g[n].guard)
  BY <1>2 DEF AdmitBatch
<1>8. /\ [s EXCEPT !.outcome = "SerialRequired"].outcome # "Started"
      /\ RefuseBatch(s, H(n), "ToolCallBudgetExceeded").outcome # "Started"
      /\ RefuseBatch(s, H(n), "RepeatedAction").outcome # "Started"
  BY DEF RefuseBatch, Admission, Admissions
<1>9. AdmitInOrder(s, calls, p) = h[n]
  BY <1>3
<1> HIDE DEF together, risky, n, H
<1> QED
  BY <1>6, <1>7, <1>8, <1>9 DEF together

-----------------------------------------------------------------------------
\* How many copies of a block make a cycle.
Copies == AtLeast(MaxIdenticalActions + 1, 2)

\* The window is long enough to hold each cycle that the guard looks for: 24
\* actions for at most three times five.
WindowHoldsCycles == 3 * Copies <= RecentWindow

\* x begins a cycle of blocks of p actions after its first `from' actions.
CycleAt(x, p, from) ==
  \A k \in 1 .. Copies - 1 :
     SubSeq(x, from + 1, from + p) = SubSeq(x, from + k * p + 1, from + (k + 1) * p)

\* x holds no cycle of blocks of one, two or three actions.
Acyclic(x) ==
  \A p \in 1 .. 3 : ~\E from \in 0 .. Len(x) - p * Copies : CycleAt(x, p, from)

\* The window r holds the newest actions of x, all of them until it is full.
Trails(r, x) ==
  /\ Len(r) < Len(x) => Len(r) = RecentWindow
  /\ \A i \in Nat : i < Len(r) /\ i < Len(x) => r[Len(r) - i] = x[Len(x) - i]

\* A cycle has two copies of its block at least, however low the limit.
LEMMA CopiesFacts == Copies \in Nat /\ Copies >= 2 /\ MaxIdenticalActions + 1 \in Nat
  BY ToolConstants DEF Copies, AtLeast

\* A stretch of a sequence, element by element.
LEMMA Stretch ==
  ASSUME NEW x \in Seq(Signatures), NEW a \in Nat, NEW p \in Nat, a + p <= Len(x)
  PROVE  /\ SubSeq(x, a + 1, a + p) \in Seq(Signatures)
         /\ Len(SubSeq(x, a + 1, a + p)) = p
         /\ \A j \in 1 .. p : SubSeq(x, a + 1, a + p)[j] = x[a + j]
<1>0. Len(x) \in Nat /\ \A i \in 1 .. Len(x) : x[i] \in Signatures
  OBVIOUS
<1>1. \A i \in (a + 1) .. (a + p) : x[i] \in Signatures
  <2> TAKE i \in (a + 1) .. (a + p)
  <2>1. i \in 1 .. Len(x)
    BY <1>0
  <2> QED
    BY <1>0, <2>1
<1>2. a + 1 \in Int /\ a + p \in Int
  OBVIOUS
<1>3. /\ SubSeq(x, a + 1, a + p) \in Seq(Signatures)
      /\ Len(SubSeq(x, a + 1, a + p)) = IF a + 1 <= a + p THEN (a + p) - (a + 1) + 1 ELSE 0
      /\ \A i \in 1 .. (a + p) - (a + 1) + 1 :
           SubSeq(x, a + 1, a + p)[i] = x[(a + 1) + i - 1]
  BY <1>1, <1>2, SubSeqProperties
<1>4. \A j \in 1 .. p : j \in 1 .. (a + p) - (a + 1) + 1 /\ (a + 1) + j - 1 = a + j
  OBVIOUS
<1>5. (IF a + 1 <= a + p THEN (a + p) - (a + 1) + 1 ELSE 0) = p
  OBVIOUS
<1> QED
  BY <1>3, <1>4, <1>5

\* Equal blocks, element by element.
LEMMA CycleElements ==
  ASSUME NEW x \in Seq(Signatures), NEW p \in 1 .. 3,
         NEW from \in 0 .. Len(x) - p * Copies, CycleAt(x, p, from),
         NEW k \in 1 .. Copies - 1, NEW j \in 1 .. p
  PROVE  x[from + j] = x[from + k * p + j]
<1>0. Copies \in Nat /\ Copies >= 2 /\ Len(x) \in Nat
  BY CopiesFacts
<1>1. p \in Nat /\ from \in Nat /\ from + k * p \in Nat
  <2>1. CASE p = 1
    BY <1>0, <2>1
  <2>2. CASE p = 2
    BY <1>0, <2>2
  <2>3. CASE p = 3
    BY <1>0, <2>3
  <2> QED
    BY <2>1, <2>2, <2>3
<1>2. /\ from + p <= Len(x) /\ (from + k * p) + p <= Len(x)
      /\ from + (k + 1) * p = (from + k * p) + p
  <2>1. CASE p = 1
    BY <1>0, <2>1
  <2>2. CASE p = 2
    BY <1>0, <2>2
  <2>3. CASE p = 3
    BY <1>0, <2>3
  <2> QED
    BY <2>1, <2>2, <2>3
<1>3. SubSeq(x, from + 1, from + p)
        = SubSeq(x, (from + k * p) + 1, (from + k * p) + p)
  BY <1>2 DEF CycleAt
<1>4. SubSeq(x, from + 1, from + p)[j] = x[from + j]
  BY <1>1, <1>2, Stretch
<1>5. SubSeq(x, (from + k * p) + 1, (from + k * p) + p)[j] = x[(from + k * p) + j]
  <2> DEFINE a == from + k * p
  <2>1. a \in Nat /\ a + p <= Len(x)
    BY <1>1, <1>2
  <2> HIDE DEF a
  <2>2. SubSeq(x, a + 1, a + p)[j] = x[a + j]
    BY <1>1, <2>1, Stretch
  <2> QED
    BY <2>2 DEF a
<1> QED
  BY <1>3, <1>4, <1>5

\* An index of a cycle as a block and a place in it.
LEMMA BlockAndPlace ==
  ASSUME NEW p \in 1 .. 3, NEW o \in p .. p * Copies - 1
  PROVE  \E k \in 1 .. Copies - 1, j \in 1 .. p :
           o + 1 = k * p + j /\ j = (o % p) + 1
<1>0. Copies \in Nat /\ Copies >= 2
  BY CopiesFacts
<1> DEFINE k == o \div p
           j == (o % p) + 1
<1>1. CASE p = 1
  <2>1. k \in 1 .. Copies - 1 /\ j \in 1 .. p /\ o + 1 = k * p + j
    BY <1>0, <1>1
  <2> QED
    BY <2>1
<1>2. CASE p = 2
  <2>1. k \in 1 .. Copies - 1 /\ j \in 1 .. p /\ o + 1 = k * p + j
    BY <1>0, <1>2
  <2> QED
    BY <2>1
<1>3. CASE p = 3
  <2>1. k \in 1 .. Copies - 1 /\ j \in 1 .. p /\ o + 1 = k * p + j
    BY <1>0, <1>3
  <2> QED
    BY <2>1
<1> QED
  BY <1>1, <1>2, <1>3

\* A cycle at the end of x shows in a window that trails x.
LEMMA WindowShowsCycle ==
  ASSUME WindowHoldsCycles,
         NEW r \in Seq(Signatures), NEW x \in Seq(Signatures), Trails(r, x),
         NEW p \in 1 .. 3, NEW from \in 0 .. Len(x) - p * Copies,
         from + p * Copies = Len(x), CycleAt(x, p, from)
  PROVE  RepeatedCycle(r, MaxIdenticalActions + 1)
<1> DEFINE required == p * Copies
           start == Len(r) - required
<1>0. /\ Copies \in Nat /\ Copies >= 2 /\ Len(x) \in Nat /\ Len(r) \in Nat
      /\ RecentWindow \in Nat
  BY CopiesFacts, ToolConstants
<1>1. required \in Nat /\ required <= RecentWindow /\ required <= Len(x) /\ p <= required
  <2>1. CASE p = 1
    BY <1>0, <2>1 DEF WindowHoldsCycles
  <2>2. CASE p = 2
    BY <1>0, <2>2 DEF WindowHoldsCycles
  <2>3. CASE p = 3
    BY <1>0, <2>3 DEF WindowHoldsCycles
  <2> QED
    BY <2>1, <2>2, <2>3
<1>a. from + required = Len(x) /\ from \in Nat
  BY <1>0, <1>1
<1> HIDE DEF required
<1>2. Len(r) >= required
  BY <1>0, <1>1 DEF Trails
<1>3. ASSUME NEW i \in 1 .. required
      PROVE  r[start + i] = x[from + i]
  <2>1. /\ required - i \in Nat /\ required - i < Len(r) /\ required - i < Len(x)
        /\ Len(r) - (required - i) = start + i
        /\ Len(x) - (required - i) = from + i
    BY <1>0, <1>1, <1>a, <1>2
  <2>2. r[Len(r) - (required - i)] = x[Len(x) - (required - i)]
    BY <2>1 DEF Trails
  <2> QED
    BY <2>1, <2>2
<1>4. ASSUME NEW o \in p .. required - 1
      PROVE  r[start + o + 1] = r[start + (o % p) + 1]
  <2>1. PICK k \in 1 .. Copies - 1, j \in 1 .. p : o + 1 = k * p + j /\ j = (o % p) + 1
    BY BlockAndPlace DEF required
  <2>2. x[from + j] = x[from + k * p + j]
    BY CycleElements
  <2>3. o + 1 \in 1 .. required /\ j \in 1 .. required /\ j - 1 \in Nat
    BY <1>0, <1>1
  <2>4. r[start + (o + 1)] = x[from + (o + 1)] /\ r[start + j] = x[from + j]
    BY <1>3, <2>3
  <2>5. k * p \in Int /\ o % p = j - 1
    <3>1. k * p = o + 1 - j
      <4>1. CASE p = 1
        BY <2>1, <4>1
      <4>2. CASE p = 2
        BY <2>1, <4>2
      <4>3. CASE p = 3
        BY <2>1, <4>3
      <4> QED
        BY <4>1, <4>2, <4>3
    <3>2. o % p \in Int
      BY <1>0
    <3> QED
      BY <2>1, <3>1, <3>2
  <2>6. from + (o + 1) = from + k * p + j
    BY <1>a, <2>1, <2>5
  <2>7. start \in Int /\ start + o + 1 = start + (o + 1) /\ start + (o % p) + 1 = start + j
    BY <1>0, <1>1, <2>3, <2>5
  <2> QED
    BY <2>2, <2>4, <2>6, <2>7
<1>5. AtLeast(MaxIdenticalActions + 1, 2) = Copies
  BY DEF Copies
<1> QED
  BY <1>2, <1>4, <1>5 DEF RepeatedCycle, required

\* The window that trails x trails it after one more action, too.
LEMMA TrailsOn ==
  ASSUME NEW r \in Seq(Signatures), NEW x \in Seq(Signatures), Trails(r, x),
         NEW sig \in Signatures
  PROVE  Trails(Pushed(r, sig), Append(x, sig))
<1> DEFINE q == Pushed(r, sig)
           y == Append(x, sig)
<1>1. /\ Len(r) \in Nat /\ Len(x) \in Nat /\ Len(y) = Len(x) + 1
      /\ \A i \in 1 .. Len(x) : y[i] = x[i]
      /\ y[Len(x) + 1] = sig
      /\ RecentWindow \in Nat \ {0}
  BY ToolConstants
<1>2. /\ Len(q) = AtMost(Len(r) + 1, RecentWindow)
      /\ \A i \in Nat : i < Len(q) =>
           q[Len(q) - i] = IF i = 0 THEN sig ELSE r[Len(r) + 1 - i]
  BY PushedFacts
<1> HIDE DEF q, y
<1>3. Len(q) < Len(y) => Len(q) = RecentWindow
  <2>1. Len(q) = IF Len(r) + 1 > RecentWindow THEN RecentWindow ELSE Len(r) + 1
    BY <1>2 DEF AtMost
  <2> QED
    BY <1>1, <2>1 DEF Trails
<1>4. Len(q) <= Len(r) + 1 /\ Len(q) \in Nat
  BY <1>1, <1>2 DEF AtMost
<1>5. ASSUME NEW i \in Nat, i < Len(q), i < Len(y)
      PROVE  q[Len(q) - i] = y[Len(y) - i]
  <2>1. CASE i = 0
    BY <1>1, <1>2, <1>5, <2>1
  <2>2. CASE i # 0
    <3>1. /\ i - 1 \in Nat /\ i - 1 < Len(r) /\ i - 1 < Len(x)
          /\ Len(x) - (i - 1) \in 1 .. Len(x)
          /\ Len(r) - (i - 1) = Len(r) + 1 - i /\ Len(x) - (i - 1) = Len(y) - i
      BY <1>1, <1>4, <1>5, <2>2
    <3>2. r[Len(r) - (i - 1)] = x[Len(x) - (i - 1)]
      BY <3>1 DEF Trails
    <3>3. q[Len(q) - i] = r[Len(r) + 1 - i]
      BY <1>2, <1>5, <2>2
    <3>4. y[Len(y) - i] = x[Len(x) - (i - 1)]
      BY <1>1, <3>1
    <3> QED
      BY <3>1, <3>2, <3>3, <3>4
  <2> QED
    BY <2>1, <2>2
<1> QED
  BY <1>3, <1>5 DEF Trails, q, y

\* An action the guard lets through closes no cycle.
LEMMA AcyclicOn ==
  ASSUME WindowHoldsCycles,
         NEW r \in Seq(Signatures), NEW x \in Seq(Signatures), Trails(r, x), Acyclic(x),
         NEW sig \in Signatures,
         ~RepeatedCycle(Pushed(r, sig), MaxIdenticalActions + 1)
  PROVE  Acyclic(Append(x, sig))
<1> DEFINE y == Append(x, sig)
<1>1. /\ y \in Seq(Signatures) /\ Len(x) \in Nat /\ Len(y) = Len(x) + 1
      /\ \A i \in 1 .. Len(x) : y[i] = x[i]
      /\ Copies \in Nat /\ Copies >= 2
  BY CopiesFacts
<1>2. Pushed(r, sig) \in Seq(Signatures) /\ Trails(Pushed(r, sig), y)
  BY PushedFacts, TrailsOn
<1> HIDE DEF y
<1> SUFFICES ASSUME NEW p \in 1 .. 3, NEW from \in 0 .. Len(y) - p * Copies,
                    CycleAt(y, p, from)
             PROVE  FALSE
  BY DEF Acyclic, y
<1> DEFINE required == p * Copies
<1>3. required \in Nat
  BY <1>1
<1>4. from + required <= Len(y) /\ from \in Nat
  BY <1>1, <1>3
<1>5. CASE from + required = Len(y)
  BY <1>1, <1>2, <1>5, WindowShowsCycle
<1>6. CASE from + required <= Len(x)
  <2>1. from \in 0 .. Len(x) - p * Copies
    <3> HIDE DEF required
    <3>1. from \in 0 .. Len(x) - required
      BY <1>1, <1>3, <1>4, <1>6
    <3> QED
      BY <3>1 DEF required
  <2>2. ASSUME NEW a \in Nat, NEW b \in Nat, a <= b, b <= Len(x)
        PROVE  SubSeq(y, a + 1, b) = SubSeq(x, a + 1, b)
    <3> DEFINE m == b - a
    <3>1. m \in Nat /\ a + m = b /\ a + m <= Len(x) /\ a + m <= Len(y)
      BY <1>1, <2>2
    <3> HIDE DEF m
    <3>2. /\ SubSeq(x, a + 1, a + m) \in Seq(Signatures)
          /\ Len(SubSeq(x, a + 1, a + m)) = m
          /\ \A j \in 1 .. m : SubSeq(x, a + 1, a + m)[j] = x[a + j]
      BY <3>1, Stretch
    <3>3. /\ SubSeq(y, a + 1, a + m) \in Seq(Signatures)
          /\ Len(SubSeq(y, a + 1, a + m)) = m
          /\ \A j \in 1 .. m : SubSeq(y, a + 1, a + m)[j] = y[a + j]
      BY <1>1, <3>1, Stretch
    <3>4. \A j \in 1 .. m : x[a + j] = y[a + j]
      BY <1>1, <3>1
    <3>5. SubSeq(y, a + 1, a + m) = SubSeq(x, a + 1, a + m)
      BY <3>2, <3>3, <3>4, SeqEqual
    <3> QED
      BY <3>1, <3>5
  <2>3. ASSUME NEW k \in 1 .. Copies - 1
        PROVE  /\ from + p \in Nat /\ from + p <= Len(x)
               /\ from + k * p \in Nat /\ from + (k + 1) * p \in Nat
               /\ from + k * p <= from + (k + 1) * p /\ from + (k + 1) * p <= Len(x)
    <3>1. CASE p = 1
      BY <1>1, <1>4, <1>6, <3>1
    <3>2. CASE p = 2
      BY <1>1, <1>4, <1>6, <3>2
    <3>3. CASE p = 3
      BY <1>1, <1>4, <1>6, <3>3
    <3> QED
      BY <3>1, <3>2, <3>3
  <2>4. ASSUME NEW k \in 1 .. Copies - 1
        PROVE  SubSeq(x, from + 1, from + p) = SubSeq(x, from + k * p + 1, from + (k + 1) * p)
    <3>1. from <= from + p
      BY <1>4
    <3>2. SubSeq(y, from + 1, from + p) = SubSeq(x, from + 1, from + p)
      BY <1>4, <2>2, <2>3, <3>1
    <3>3. SubSeq(y, (from + k * p) + 1, from + (k + 1) * p)
            = SubSeq(x, (from + k * p) + 1, from + (k + 1) * p)
      <4> DEFINE a == from + k * p
                 b == from + (k + 1) * p
      <4>1. a \in Nat /\ b \in Nat /\ a <= b /\ b <= Len(x)
        BY <2>3
      <4> HIDE DEF a, b
      <4>2. SubSeq(y, a + 1, b) = SubSeq(x, a + 1, b)
        BY <2>2, <4>1
      <4> QED
        BY <4>2 DEF a, b
    <3>4. SubSeq(y, from + 1, from + p) = SubSeq(y, from + k * p + 1, from + (k + 1) * p)
      BY DEF CycleAt
    <3> QED
      BY <3>2, <3>3, <3>4
  <2>5. CycleAt(x, p, from)
    BY <2>4 DEF CycleAt
  <2> QED
    BY <2>1, <2>5 DEF Acyclic
<1> QED
  <2> HIDE DEF required
  <2> QED
    BY <1>1, <1>3, <1>4, <1>5, <1>6

\* The calls a lease exempts are the longest run of it at the front.
LEMMA ExemptFacts ==
  ASSUME NEW guard \in ToolGuards, NEW calls \in Seq(Signatures)
  PROVE  \E e \in 0 .. Len(calls) :
           /\ Unleased(guard, calls) = SubSeq(calls, e + 1, Len(calls))
           /\ \A j \in 1 .. e : calls[j] = guard.lease
           /\ e < Len(calls) => calls[e + 1] # guard.lease
<1> DEFINE n == Len(calls)
           matching == {i \in 0 .. n : \A j \in 1 .. i : calls[j] = guard.lease}
           longest == CHOOSE i \in matching : \A j \in matching : j <= i
<1>0. n \in Nat
  OBVIOUS
<1>1. 0 \in matching /\ matching \subseteq 0 .. n
  BY <1>0
<1>2. longest \in matching /\ \A j \in matching : j <= longest
  <2> DEFINE D == {n - i : i \in matching}
  <2> HIDE DEF matching
  <2>1. \A i \in matching : n - i \in Nat
    BY <1>0, <1>1
  <2>2. D \subseteq Nat /\ D # {}
    BY <1>1, <2>1
  <2>3. PICK d \in D : \A y \in D : d <= y
    <3> HIDE DEF D
    <3> QED
      BY <2>2, LeastNumber
  <2>4. PICK m \in matching : d = n - m
    BY <2>3
  <2>5. \A j \in matching : j <= m
    <3> TAKE j \in matching
    <3>1. n - j \in D /\ j \in 0 .. n /\ m \in 0 .. n
      BY <1>1
    <3>2. n - m <= n - j
      <4> HIDE DEF D
      <4> QED
        BY <2>3, <2>4, <3>1
    <3> QED
      BY <1>0, <3>1, <3>2
  <2> QED
    BY <2>4, <2>5
<1>3. Unleased(guard, calls) = SubSeq(calls, longest + 1, n)
  BY DEF Unleased
<1> HIDE DEF longest
<1>4. longest < n => calls[longest + 1] # guard.lease
  <2> SUFFICES ASSUME longest < n, calls[longest + 1] = guard.lease PROVE FALSE
    OBVIOUS
  <2>0. longest \in 0 .. n /\ \A j \in 1 .. longest : calls[j] = guard.lease
    BY <1>2
  <2>1. longest + 1 \in 0 .. n /\ \A j \in 1 .. longest + 1 : j \in 1 .. longest \/ j = longest + 1
    BY <1>0, <2>0
  <2>2. longest + 1 \in matching
    BY <2>0, <2>1
  <2>3. longest + 1 <= longest
    <3> HIDE DEF matching
    <3> QED
      BY <1>2, <2>2
  <2> QED
    BY <2>0, <2>3
<1> QED
  BY <1>2, <1>3, <1>4

\* The calls of a batch that were seen so far, added to what was executed.
LEMMA OneMoreSeen ==
  ASSUME NEW x \in Seq(Signatures), NEW calls \in Seq(Signatures),
         NEW e \in 0 .. Len(calls), NEW k \in 1 .. Len(calls)
  PROVE  /\ x \o SubSeq(calls, e + 1, k) \in Seq(Signatures)
         /\ k <= e => x \o SubSeq(calls, e + 1, k) = x
         /\ k > e => x \o SubSeq(calls, e + 1, k)
                       = Append(x \o SubSeq(calls, e + 1, k - 1), calls[k])
<1>0. Len(calls) \in Nat /\ \A i \in 1 .. Len(calls) : calls[i] \in Signatures
  OBVIOUS
<1>1. \A i \in (e + 1) .. k : calls[i] \in Signatures
  BY <1>0
<1>2. \A i \in (e + 1) .. (k - 1) : calls[i] \in Signatures
  BY <1>0
<1>a. e + 1 \in Int /\ k \in Int /\ k - 1 \in Int
  BY <1>0
<1>3. SubSeq(calls, e + 1, k) \in Seq(Signatures)
  BY <1>1, <1>a, SubSeqProperties
<1>4. SubSeq(calls, e + 1, k - 1) \in Seq(Signatures)
  BY <1>2, <1>a, SubSeqProperties
<1>5. x \o SubSeq(calls, e + 1, k) \in Seq(Signatures)
  BY <1>3, ConcatProperties
<1>6. ASSUME k <= e PROVE x \o SubSeq(calls, e + 1, k) = x
  <2>1. SubSeq(calls, e + 1, k) = << >>
    BY <1>a, <1>6, SubSeqEmpty
  <2> QED
    BY <2>1, ConcatEmptySeq
<1>7. ASSUME k > e PROVE x \o SubSeq(calls, e + 1, k)
                           = Append(x \o SubSeq(calls, e + 1, k - 1), calls[k])
  <2> DEFINE t == SubSeq(calls, e + 1, k - 1)
  <2>1. e + 1 \in 1 .. Len(calls) /\ k \in (e + 1) .. Len(calls)
    BY <1>0, <1>7
  <2>2. SubSeq(calls, e + 1, k) = t \o <<calls[k]>>
    BY <2>1, SubSeqRecursiveSecond
  <2> HIDE DEF t
  <2>3. t \in Seq(Signatures) /\ calls[k] \in Signatures /\ <<calls[k]>> \in Seq(Signatures)
    BY <1>0, <1>4 DEF t
  <2>4. x \o (t \o <<calls[k]>>) = (x \o t) \o <<calls[k]>>
    BY <2>3, ConcatAssociative
  <2>5. x \o t \in Seq(Signatures)
    BY <2>3, ConcatProperties
  <2>6. (x \o t) \o <<calls[k]>> = Append(x \o t, calls[k])
    <3> DEFINE y == x \o t
               c == calls[k]
    <3>1. y \in Seq(Signatures) /\ c \in Signatures
      BY <2>3, <2>5
    <3> HIDE DEF y, c
    <3>2. y \o <<c>> = Append(y, c)
      BY <3>1
    <3> QED
      BY <3>2 DEF y, c
  <2> QED
    BY <2>2, <2>4, <2>6 DEF t
<1> QED
  BY <1>5, <1>6, <1>7

\* The guard's loop over a batch: the window stays within its length.
LEMMA BatchKeepsWindow ==
  ASSUME NEW guard \in ToolGuards, NEW calls \in Seq(Signatures),
         Len(guard.recent) <= RecentWindow
  PROVE  LET seen == FoldLeft(ObserveInBatch, [repeated |-> FALSE, guard |-> guard], calls)
         IN  seen \in Locals /\ Len(seen.guard.recent) <= RecentWindow
<1> DEFINE n == Len(calls)
           base == [repeated |-> FALSE, guard |-> guard]
<1>0. n \in Nat /\ \A k \in 1 .. n : calls[k] \in Signatures
  OBVIOUS
<1>1. base \in Locals /\ base.guard = guard
  BY DEF Locals
<1>2. PICK g \in [0 .. n -> Locals] :
        /\ g[0] = base
        /\ \A k \in 1 .. n : g[k] = ObserveInBatch(g[k - 1], calls[k])
        /\ FoldLeft(ObserveInBatch, base, calls) = g[n]
  <2> HIDE DEF base
  <2> QED
    BY <1>1, ObserveFold
<1> DEFINE P == {k \in 0 .. n : Len(g[k].guard.recent) <= RecentWindow}
<1>3. 0 \in P
  BY <1>0, <1>1, <1>2
<1>4. ASSUME NEW k \in 1 .. n, k - 1 \in P PROVE k \in P
  <2>1. k \in 0 .. n /\ k - 1 \in 0 .. n
    BY <1>0
  <2>2. /\ g[k] = ObserveInBatch(g[k - 1], calls[k]) /\ g[k - 1] \in Locals
        /\ calls[k] \in Signatures
    BY <1>0, <1>2, <2>1
  <2>3. Len(g[k - 1].guard.recent) <= RecentWindow /\ g[k - 1].guard \in ToolGuards
    BY <1>4, <2>2 DEF Locals
  <2>4. CASE g[k] = g[k - 1]
    BY <2>1, <2>3, <2>4
  <2>5. CASE g[k] = Observe(Unlease(g[k - 1].guard), calls[k])
    <3>1. g[k].guard.recent \in {g[k - 1].guard.recent,
                                 Pushed(g[k - 1].guard.recent, calls[k])}
      BY <2>2, <2>3, <2>5, UnleaseFacts, ObserveFacts
    <3>2. g[k - 1].guard.recent \in Seq(Signatures)
      BY <2>3 DEF ToolGuards
    <3>3. Len(Pushed(g[k - 1].guard.recent, calls[k]))
            = AtMost(Len(g[k - 1].guard.recent) + 1, RecentWindow)
      BY <2>2, <3>2, PushedFacts
    <3>4. AtMost(Len(g[k - 1].guard.recent) + 1, RecentWindow) <= RecentWindow
      <4>1. Len(g[k - 1].guard.recent) \in Nat /\ RecentWindow \in Nat
        BY <3>2, ToolConstants
      <4> QED
        BY <4>1 DEF AtMost
    <3>5. Len(g[k].guard.recent) <= RecentWindow
      BY <2>3, <3>1, <3>3, <3>4
    <3> QED
      BY <2>1, <3>5
  <2> QED
    BY <2>2, <2>4, <2>5, ObserveInBatchFacts
<1> HIDE DEF P
<1>5. \A k \in 0 .. n : k \in P
  <2> HIDE DEF n
  <2> QED
    BY <1>0, <1>3, <1>4, CountingUp
<1>6. g[n] \in Locals /\ Len(g[n].guard.recent) <= RecentWindow
  BY <1>0, <1>2, <1>5 DEF P
<1> QED
  BY <1>2, <1>6

\* A batch in which the guard sees no repetition adds no cycle to what was executed.
LEMMA BatchKeepsTrail ==
  ASSUME WindowHoldsCycles,
         NEW guard \in ToolGuards, NEW calls \in Seq(Signatures), NEW x \in Seq(Signatures),
         Trails(guard.recent, x), Acyclic(x),
         ~FoldLeft(ObserveInBatch, [repeated |-> FALSE, guard |-> guard], calls).repeated
  PROVE  LET seen == FoldLeft(ObserveInBatch, [repeated |-> FALSE, guard |-> guard], calls)
             y == x \o Unleased(guard, calls)
         IN  y \in Seq(Signatures) /\ Trails(seen.guard.recent, y) /\ Acyclic(y)
<1> DEFINE n == Len(calls)
           base == [repeated |-> FALSE, guard |-> guard]
<1>0. n \in Nat /\ \A k \in 1 .. n : calls[k] \in Signatures
  OBVIOUS
<1>1. base \in Locals /\ base.guard = guard /\ ~base.repeated
  BY DEF Locals
<1>2. PICK g \in [0 .. n -> Locals] :
        /\ g[0] = base
        /\ \A k \in 1 .. n : g[k] = ObserveInBatch(g[k - 1], calls[k])
        /\ FoldLeft(ObserveInBatch, base, calls) = g[n]
  <2> HIDE DEF base
  <2> QED
    BY <1>1, ObserveFold
<1>3. PICK e \in 0 .. n :
        /\ Unleased(guard, calls) = SubSeq(calls, e + 1, n)
        /\ \A j \in 1 .. e : calls[j] = guard.lease
        /\ e < n => calls[e + 1] # guard.lease
  BY ExemptFacts
<1> DEFINE Y(k) == x \o SubSeq(calls, e + 1, k)
           Sound(k) == ~g[k].repeated =>
                         /\ Y(k) \in Seq(Signatures)
                         /\ Trails(g[k].guard.recent, Y(k)) /\ Acyclic(Y(k))
                         /\ k <= e => g[k] = base
                         /\ k > e => g[k].guard.lease = NoSignature
           P == {k \in 0 .. n : Sound(k)}
<1>4. Sound(0)
  <2>1. SubSeq(calls, e + 1, 0) = << >>
    BY <1>0, SubSeqEmpty
  <2>2. Y(0) = x
    BY <2>1, ConcatEmptySeq
  <2>3. ~(0 > e)
    BY <1>0
  <2>4. g[0] = base
    BY <1>2
  <2> HIDE DEF Y, base
  <2> QED
    BY <1>1, <2>2, <2>3, <2>4
<1>5. ASSUME NEW k \in 1 .. n, Sound(k - 1) PROVE Sound(k)
  <2>1. k \in 0 .. n /\ k - 1 \in 0 .. n /\ e \in Nat /\ k \in Nat
    BY <1>0
  <2>2. /\ g[k] = ObserveInBatch(g[k - 1], calls[k]) /\ g[k - 1] \in Locals
        /\ calls[k] \in Signatures
    BY <1>0, <1>2, <2>1
  <2>3. /\ Y(k) \in Seq(Signatures)
        /\ k <= e => Y(k) = x
        /\ k > e => Y(k) = Append(Y(k - 1), calls[k])
    BY OneMoreSeen
  <2>b. g[k - 1].guard \in ToolGuards
    BY <2>2 DEF Locals
  <2>c. g[k - 1].guard.recent \in Seq(Signatures)
    BY <2>b DEF ToolGuards
  <2> HIDE DEF Y
  <2> SUFFICES ASSUME ~g[k].repeated
               PROVE  /\ Trails(g[k].guard.recent, Y(k)) /\ Acyclic(Y(k))
                      /\ k <= e => g[k] = base
                      /\ k > e => g[k].guard.lease = NoSignature
    BY <2>3
  <2>4. ~g[k - 1].repeated
    BY <2>2, ObserveInBatchFacts
  <2>5. /\ Y(k - 1) \in Seq(Signatures)
        /\ Trails(g[k - 1].guard.recent, Y(k - 1)) /\ Acyclic(Y(k - 1))
        /\ k - 1 <= e => g[k - 1] = base
        /\ k - 1 > e => g[k - 1].guard.lease = NoSignature
    BY <1>5, <2>4
  <2>6. CASE k <= e
    <3>1. g[k - 1] = base /\ calls[k] = guard.lease
      BY <1>3, <2>1, <2>5, <2>6
    <3>2. g[k] = base
      BY <1>1, <2>2, <3>1, ObserveInBatchFacts
    <3> HIDE DEF base
    <3> QED
      BY <1>1, <2>1, <2>3, <2>6, <3>2
  <2>7. CASE k > e
    <3>1. g[k - 1].guard.lease # calls[k]
      <4>1. CASE k = e + 1
        <5>1. g[k - 1] = base /\ calls[k] # guard.lease
          BY <1>0, <1>3, <2>1, <2>5, <4>1
        <5> QED
          BY <1>1, <5>1
      <4>2. CASE k # e + 1
        <5>1. k - 1 > e
          BY <2>1, <2>7, <4>2
        <5> QED
          BY <2>2, <2>5, <5>1, ToolConstants
      <4> QED
        BY <4>1, <4>2
    <3>2. g[k] = Observe(Unlease(g[k - 1].guard), calls[k])
      BY <2>2, <2>4, <3>1, ObserveInBatchFacts
    <3>3. /\ g[k].guard.lease = NoSignature
          /\ g[k].guard.recent = Pushed(g[k - 1].guard.recent, calls[k])
          /\ ~RepeatedCycle(Pushed(g[k - 1].guard.recent, calls[k]), MaxIdenticalActions + 1)
      BY <2>2, <2>b, <3>2, UnleaseFacts, ObserveFacts
    <3>4. Trails(g[k].guard.recent, Y(k)) /\ Acyclic(Y(k))
      BY <2>2, <2>3, <2>c, <2>5, <2>7, <3>3, TrailsOn, AcyclicOn
    <3> QED
      BY <2>1, <2>7, <3>3, <3>4
  <2> QED
    BY <2>1, <2>6, <2>7
<1>6. Sound(n)
  <2>1. 0 \in P
    BY <1>0, <1>4
  <2>2. ASSUME NEW k \in 1 .. n, k - 1 \in P PROVE k \in P
    <3>1. k \in 0 .. n
      BY <1>0
    <3> HIDE DEF Sound
    <3> QED
      BY <1>5, <2>2, <3>1
  <2> HIDE DEF P
  <2>3. \A k \in 0 .. n : k \in P
    <3> HIDE DEF n
    <3> QED
      BY <1>0, <2>1, <2>2, CountingUp
  <2>4. n \in 0 .. n
    BY <1>0
  <2> HIDE DEF Sound, n
  <2> QED
    BY <2>3, <2>4 DEF P
<1> QED
  BY <1>2, <1>3, <1>6

-----------------------------------------------------------------------------
\* The calls that one unit of progress buys.
Step == AtLeast(ToolCallsPerExtension, 1)

\* The limit has grown by what the progress of the segment paid for, and no
\* progress paid twice: what is spent lies between the segment's start and now.
PaidFor ==
  /\ admission.calls <= admission.limit + external
  /\ segment.progress <= admission.spent
  /\ admission.limit
       <= segment.limit + (admission.spent - segment.progress) * Step

\* The invariant of the budget, with the types of the history beside it.
BatchInv ==
  /\ TypeOK
  /\ progress \in Nat /\ external \in Nat /\ executed \in Seq(Signatures)
  /\ segment \in [opened : Nat, limit : Nat, progress : Nat]
  /\ PaidFor

\* What was executed has no cycle, and until the run stops the window holds its
\* newest actions.
CycleInv ==
  /\ Acyclic(executed)
  /\ Admitting => Trails(admission.guard.recent, executed)

\* What the budget and the window become by an admission, started or refused.
LEMMA AdmissionStep ==
  ASSUME BatchInv, NEW call \in Nat,
         admission' \in Admissions,
         admission'.limit = ToolHeadroom(admission, call, progress).limit,
         admission'.spent = ToolHeadroom(admission, call, progress).spent,
         admission'.calls <= admission'.limit \/ admission'.calls = admission.calls,
         Len(admission'.guard.recent) <= RecentWindow,
         executed' \in Seq(Signatures),
         UNCHANGED <<progress, external, segment>>
  PROVE  BatchInv'
<1> DEFINE b == ToolHeadroom(admission, call, progress)
<1>1. /\ admission \in Admissions /\ admission.spent <= progress
      /\ progress \in Nat /\ external \in Nat
      /\ segment \in [opened : Nat, limit : Nat, progress : Nat]
  BY DEF BatchInv, TypeOK, Admissions
<1>2. /\ b.limit \in 1 .. MaxToolCalls /\ b.spent \in Nat /\ admission.limit <= b.limit
      /\ \/ b.limit = admission.limit /\ b.spent = admission.spent
         \/ /\ admission.spent < progress /\ b.spent = progress
            /\ b.limit <= admission.limit + Step
  BY <1>1, HeadroomFacts DEF Step
<1> HIDE DEF b
<1>3. admission'.limit = b.limit /\ admission'.spent = b.spent
  BY DEF b
<1>4. Step \in Nat
  BY ToolConstants DEF Step, AtLeast
<1>5. /\ admission.limit \in Nat /\ admission.spent \in Nat /\ admission.calls \in Nat
      /\ admission'.calls \in Nat /\ segment.limit \in Nat /\ segment.progress \in Nat
      /\ MaxToolCalls \in Nat
  BY <1>1, ToolConstants DEF Admissions
<1>6. admission'.calls <= admission'.limit + external
  <2>1. admission.calls <= admission.limit + external
    BY DEF BatchInv, PaidFor
  <2>2. b.limit \in Nat
    BY <1>2, <1>5
  <2> QED
    BY <1>1, <1>2, <1>3, <1>5, <2>1, <2>2
<1>7. /\ segment.progress <= b.spent
      /\ b.limit <= segment.limit + (b.spent - segment.progress) * Step
  <2>0. /\ segment.progress <= admission.spent
        /\ admission.limit <= segment.limit + (admission.spent - segment.progress) * Step
    BY DEF BatchInv, PaidFor
  <2>1. CASE b.limit = admission.limit /\ b.spent = admission.spent
    BY <2>0, <2>1
  <2>2. CASE /\ admission.spent < progress /\ b.spent = progress
             /\ b.limit <= admission.limit + Step
    <3> DEFINE i == admission.spent - segment.progress
               j == progress - segment.progress
    <3>1. i \in Nat /\ j \in Nat /\ i + 1 <= j
      BY <1>1, <1>5, <2>0, <2>2
    <3>2. i * Step + Step <= j * Step
      <4> HIDE DEF i, j
      <4>1. (i + 1) * Step <= j * Step
        BY <1>4, <3>1, Z3
      <4>2. (i + 1) * Step = i * Step + Step
        BY <1>4, <3>1, Z3
      <4> QED
        BY <4>1, <4>2
    <3>3. i * Step \in Nat /\ j * Step \in Nat
      <4> HIDE DEF i, j
      <4> QED
        BY <1>4, <3>1
    <3>4. segment.progress <= b.spent /\ b.spent - segment.progress = j
      BY <1>1, <1>5, <2>0, <2>2
    <3>5. admission.limit <= segment.limit + i * Step
      BY <2>0
    <3> HIDE DEF i, j
    <3>6. b.limit <= segment.limit + j * Step
      <4> DEFINE u == i * Step
                 v == j * Step
      <4>1. b.limit \in Nat
        BY <1>2, <1>5
      <4>2. u \in Nat /\ v \in Nat /\ u + Step <= v /\ admission.limit <= segment.limit + u
        BY <3>2, <3>3, <3>5
      <4> HIDE DEF u, v
      <4>3. b.limit <= segment.limit + v
        BY <1>4, <1>5, <2>2, <4>1, <4>2
      <4> QED
        BY <4>3 DEF v
    <3> QED
      BY <3>4, <3>6
  <2> QED
    BY <1>2, <2>1, <2>2
<1>8. TypeOK'
  <2>1. admission'.spent <= progress
    BY <1>1, <1>2, <1>3, <1>5
  <2> QED
    BY <2>1 DEF TypeOK, Admissions
<1> QED
  BY <1>1, <1>3, <1>6, <1>7, <1>8 DEF BatchInv, PaidFor

\* The window of a refused or admitted single call.
LEMMA PushedWindow ==
  ASSUME NEW r \in Seq(Signatures), NEW sig \in Signatures, Len(r) <= RecentWindow,
         NEW q \in {r, Pushed(r, sig)}
  PROVE  Len(q) <= RecentWindow
<1>1. Len(r) \in Nat /\ RecentWindow \in Nat
  BY ToolConstants
<1>2. AtMost(Len(r) + 1, RecentWindow) <= RecentWindow
  BY <1>1 DEF AtMost
<1> QED
  BY <1>2, PushedFacts

\* What a batch leaves, admitted or refused.
LEMMA AdmitBatchFacts ==
  ASSUME NEW s \in Admissions, NEW calls \in Seq(Signatures),
         Len(s.guard.recent) <= RecentWindow,
         NEW p \in Nat, NEW certified \in BOOLEAN,
         AdmitBatch(s, calls, p, certified).outcome # "SerialRequired"
  PROVE  LET b == ToolHeadroom(s, s.calls + Len(calls), p)
             seen == FoldLeft(ObserveInBatch, [repeated |-> FALSE, guard |-> s.guard], calls)
             t == AdmitBatch(s, calls, p, certified)
         IN /\ t \in Admissions
            /\ t.limit = b.limit /\ t.spent = b.spent
            /\ t.calls <= t.limit \/ t.calls = s.calls
            /\ Len(t.guard.recent) <= RecentWindow
            /\ t.outcome = "Started" => ~seen.repeated /\ t.guard = seen.guard
<1> DEFINE b == ToolHeadroom(s, s.calls + Len(calls), p)
           seen == FoldLeft(ObserveInBatch, [repeated |-> FALSE, guard |-> s.guard], calls)
           t == AdmitBatch(s, calls, p, certified)
           risky == s.guard.lease # NoSignature \/ s.calls + Len(calls) > s.limit
<1>1. s.guard \in ToolGuards /\ s.calls \in Nat /\ s.calls + Len(calls) \in Nat
  BY DEF Admissions
<1>2. /\ b.limit \in 1 .. MaxToolCalls /\ b.spent \in Nat /\ b.granted \in BOOLEAN
      /\ b.granted => s.calls + Len(calls) <= b.limit
  BY <1>1, HeadroomFacts
<1>3. seen \in Locals /\ Len(seen.guard.recent) <= RecentWindow
  BY <1>1, BatchKeepsWindow
<1>4. seen.guard \in ToolGuards /\ seen.repeated \in BOOLEAN
  BY <1>3 DEF Locals
<1>5. t = IF ~certified /\ (risky \/ seen.repeated)
          THEN [s EXCEPT !.outcome = "SerialRequired"]
          ELSE IF ~b.granted
          THEN RefuseBatch(s, b, "ToolCallBudgetExceeded")
          ELSE IF seen.repeated
          THEN RefuseBatch(s, b, "RepeatedAction")
          ELSE Admission("Started", s.calls + Len(calls), b, seen.guard)
  BY DEF AdmitBatch
<1>6. [s EXCEPT !.outcome = "SerialRequired"].outcome = "SerialRequired"
  BY DEF Admissions
<1>7. t.outcome # "SerialRequired"
  OBVIOUS
<1> HIDE DEF b, seen, t, risky
<1>8. CASE t = RefuseBatch(s, b, "ToolCallBudgetExceeded")
  BY <1>1, <1>2, <1>8 DEF RefuseBatch, Admission, Admissions, StopOutcomes, b, seen, t
<1>9. CASE t = RefuseBatch(s, b, "RepeatedAction")
  BY <1>1, <1>2, <1>9 DEF RefuseBatch, Admission, Admissions, StopOutcomes, b, seen, t
<1>10. CASE /\ t = Admission("Started", s.calls + Len(calls), b, seen.guard)
            /\ b.granted /\ ~seen.repeated
  BY <1>1, <1>2, <1>3, <1>4, <1>10 DEF Admission, Admissions, b, seen, t
<1> QED
  BY <1>2, <1>4, <1>5, <1>6, <1>7, <1>8, <1>9, <1>10

\* A batch is a sequence of calls.
LEMMA BatchesAreSequences ==
  ASSUME NEW batch \in Batches
  PROVE  batch \in Seq(Signatures) /\ Len(batch) >= 1
<1>1. PICK n \in 2 .. MaxBatch : batch \in [1 .. n -> Signatures]
  BY DEF Batches
<1>2. n \in Nat /\ n >= 1
  BY <1>1, BatchConstants
<1> QED
  BY <1>1, <1>2

\* A new run has its first limit and an empty window.
LEMMA BatchInit == Init => BatchInv
<1> SUFFICES ASSUME Init PROVE BatchInv
  OBVIOUS
<1>1. FirstLimit \in 1 .. MaxToolCalls
  BY ToolConstants, BatchConstants DEF FirstLimit, StartLimit, AtLeast, AtMost
<1>2. EmptyGuard \in ToolGuards /\ Len(EmptyGuard.recent) = 0
  BY DEF EmptyGuard, ToolGuards
<1>3. MaxToolCalls \in Nat /\ RecentWindow \in Nat
  BY ToolConstants
<1>4. /\ admission \in Admissions /\ admission.limit = FirstLimit /\ admission.calls = 0
      /\ admission.spent = 0 /\ admission.guard = EmptyGuard
  BY <1>1, <1>2 DEF Init, Admissions
<1>5. TypeOK
  BY <1>2, <1>3, <1>4 DEF Init, TypeOK, Admissions
<1>6. /\ segment \in [opened : Nat, limit : Nat, progress : Nat]
      /\ segment.limit = FirstLimit /\ segment.progress = 0
  BY <1>1, <1>3 DEF Init
<1>7. Step \in Nat
  BY ToolConstants DEF Step, AtLeast
<1>8. PaidFor
  BY <1>1, <1>3, <1>4, <1>6, <1>7 DEF Init, PaidFor
<1> QED
  BY <1>5, <1>6, <1>8 DEF Init, BatchInv

\* It has executed nothing.
LEMMA CycleInit == Init => CycleInv
<1> SUFFICES ASSUME Init PROVE CycleInv
  OBVIOUS
<1>1. executed = << >> /\ admission.guard.recent = << >>
  BY DEF Init, EmptyGuard
<1>2. Len(<< >>) = 0
  OBVIOUS
<1>3. Copies \in Nat /\ Copies >= 2
  BY CopiesFacts
<1>4. \A p \in 1 .. 3 : 0 .. 0 - p * Copies = {}
  BY <1>3
<1>5. Acyclic(<< >>)
  BY <1>2, <1>4 DEF Acyclic
<1>6. Trails(<< >>, << >>)
  BY <1>2 DEF Trails
<1> QED
  BY <1>1, <1>5, <1>6 DEF CycleInv

-----------------------------------------------------------------------------
\* The calls that go through the guard, and the executed ones with them.
LEMMA UnleasedType ==
  ASSUME NEW guard \in ToolGuards, NEW calls \in Seq(Signatures), NEW x \in Seq(Signatures)
  PROVE  x \o Unleased(guard, calls) \in Seq(Signatures)
<1>0. Len(calls) \in Nat /\ \A i \in 1 .. Len(calls) : calls[i] \in Signatures
  OBVIOUS
<1>1. PICK e \in 0 .. Len(calls) : Unleased(guard, calls) = SubSeq(calls, e + 1, Len(calls))
  BY ExemptFacts
<1>2. /\ \A i \in (e + 1) .. Len(calls) : calls[i] \in Signatures
      /\ e + 1 \in Int /\ Len(calls) \in Int
  BY <1>0
<1>3. SubSeq(calls, e + 1, Len(calls)) \in Seq(Signatures)
  BY <1>2, SubSeqProperties
<1> QED
  BY <1>1, <1>3, ConcatProperties

\* The budget and the window after a single call (begin_tool_call_locked).
LEMMA CallKeepsBudget ==
  ASSUME BatchInv, NEW sig \in Signatures, BeginToolCall(sig)
  PROVE  BatchInv'
<1>1. /\ admission \in Admissions /\ progress \in Nat /\ executed \in Seq(Signatures)
      /\ admission.calls + 1 \in Nat /\ admission.guard \in ToolGuards
      /\ admission.guard.recent \in Seq(Signatures)
      /\ Len(admission.guard.recent) <= RecentWindow
  BY DEF BatchInv, TypeOK, Admissions, ToolGuards
<1> DEFINE b == ToolHeadroom(admission, admission.calls + 1, progress)
           t == AdmitCall(admission, sig, progress)
<1>2. /\ t \in Admissions /\ t.limit = b.limit /\ t.spent = b.spent
      /\ t.outcome = "Started" => b.granted /\ t.calls = admission.calls + 1
      /\ t.outcome # "Started" => t.calls = admission.calls
      /\ t.guard.recent \in {admission.guard.recent, Pushed(admission.guard.recent, sig)}
  BY <1>1, AdmitCallFacts DEF Admission
<1>3. b.granted => admission.calls + 1 <= b.limit
  BY <1>1, HeadroomFacts
<1>4. Len(t.guard.recent) <= RecentWindow
  <2> HIDE DEF t
  <2> QED
    BY <1>1, <1>2, PushedWindow
<1>5. admission' = t
  BY DEF BeginToolCall
<1>6. executed' \in Seq(Signatures)
  <2>1. <<sig>> \in Seq(Signatures)
    OBVIOUS
  <2> QED
    BY <1>1, <2>1, UnleasedType DEF BeginToolCall
<1>7. UNCHANGED <<progress, external, segment>>
  BY DEF BeginToolCall
<1>8. /\ admission' \in Admissions
      /\ admission'.limit = ToolHeadroom(admission, admission.calls + 1, progress).limit
      /\ admission'.spent = ToolHeadroom(admission, admission.calls + 1, progress).spent
      /\ admission'.calls <= admission'.limit \/ admission'.calls = admission.calls
      /\ Len(admission'.guard.recent) <= RecentWindow
  <2>1. /\ admission' \in Admissions /\ admission'.limit = b.limit /\ admission'.spent = b.spent
        /\ admission'.calls <= admission'.limit \/ admission'.calls = admission.calls
        /\ Len(admission'.guard.recent) <= RecentWindow
    <3> HIDE DEF t, b
    <3> QED
      BY <1>2, <1>3, <1>4, <1>5
  <2> QED
    BY <2>1
<1> QED
  BY <1>1, <1>6, <1>7, <1>8, AdmissionStep

\* The same after a batch (begin_tool_call_batch_with_epoch).
LEMMA BatchKeepsBudget ==
  ASSUME BatchInv, NEW batch \in Batches, NEW certified \in BOOLEAN,
         BeginToolCallBatch(batch, certified)
  PROVE  BatchInv'
<1>1. /\ admission \in Admissions /\ progress \in Nat /\ executed \in Seq(Signatures)
      /\ admission.calls \in Nat /\ admission.guard \in ToolGuards
      /\ Len(admission.guard.recent) <= RecentWindow
  BY DEF BatchInv, TypeOK, Admissions
<1>2. batch \in Seq(Signatures) /\ admission.calls + Len(batch) \in Nat
  BY <1>1, BatchesAreSequences
<1> DEFINE t == AdmitBatch(admission, batch, progress, certified)
<1>3. t.outcome # "SerialRequired" /\ admission' = t
  BY DEF BeginToolCallBatch
<1>4. /\ admission' \in Admissions
      /\ admission'.limit = ToolHeadroom(admission, admission.calls + Len(batch), progress).limit
      /\ admission'.spent = ToolHeadroom(admission, admission.calls + Len(batch), progress).spent
      /\ admission'.calls <= admission'.limit \/ admission'.calls = admission.calls
      /\ Len(admission'.guard.recent) <= RecentWindow
  BY <1>1, <1>2, <1>3, AdmitBatchFacts
<1>5. executed' \in Seq(Signatures)
  BY <1>1, <1>2, UnleasedType DEF BeginToolCallBatch
<1>6. UNCHANGED <<progress, external, segment>>
  BY DEF BeginToolCallBatch
<1> QED
  BY <1>2, <1>4, <1>5, <1>6, AdmissionStep

\* A guard with another lease.
LEMMA LeaseFacts ==
  ASSUME NEW s \in Admissions, NEW lease \in Signatures \cup {NoSignature}
  PROVE  LET t == [s EXCEPT !.guard.lease = lease]
         IN  /\ t \in Admissions /\ t.guard.recent = s.guard.recent
             /\ t.outcome = s.outcome
             /\ t.calls = s.calls /\ t.limit = s.limit /\ t.spent = s.spent
<1> DEFINE g == [s.guard EXCEPT !.lease = lease]
<1>1. g \in ToolGuards /\ g.recent = s.guard.recent
  BY DEF Admissions, ToolGuards
<1>2. [s EXCEPT !.guard.lease = lease] = [s EXCEPT !.guard = g]
  BY DEF Admissions
<1> HIDE DEF g
<1> QED
  BY <1>1, <1>2 DEF Admissions

\* Every step keeps the budget sound.
LEMMA BatchStep ==
  BatchInv /\ [Next]_batchVars => BatchInv'
<1> SUFFICES ASSUME BatchInv, [Next]_batchVars PROVE BatchInv'
  OBVIOUS
<1>0. /\ admission \in Admissions /\ admission.spent <= progress
      /\ Len(admission.guard.recent) <= RecentWindow
      /\ progress \in Nat /\ external \in Nat /\ executed \in Seq(Signatures)
      /\ segment \in [opened : Nat, limit : Nat, progress : Nat]
      /\ PaidFor
  BY DEF BatchInv, TypeOK, Admissions
<1>a. /\ admission.limit \in 1 .. MaxToolCalls /\ admission.limit \in Nat
      /\ admission.spent \in Nat /\ admission.calls \in Nat
      /\ segment.limit \in Nat /\ segment.progress \in Nat /\ segment.opened \in Nat
      /\ MaxToolCalls \in Nat \ {0}
  BY <1>0, ToolConstants DEF Admissions
<1>b. Step \in Nat
  BY ToolConstants DEF Step, AtLeast
<1>c. FirstLimit \in 1 .. MaxToolCalls /\ FirstLimit \in Nat
  BY ToolConstants, BatchConstants DEF FirstLimit, StartLimit, AtLeast, AtMost
<1>d. ASSUME admission' \in Admissions, admission'.spent <= progress',
             Len(admission'.guard.recent) <= RecentWindow,
             progress' \in Nat, external' \in Nat, executed' \in Seq(Signatures),
             segment' \in [opened : Nat, limit : Nat, progress : Nat], PaidFor'
      PROVE  BatchInv'
  BY <1>d DEF BatchInv, TypeOK, Admissions
<1>1. ASSUME NEW sig \in Signatures, BeginToolCall(sig) PROVE BatchInv'
  BY <1>1, CallKeepsBudget
<1>2. ASSUME NEW batch \in Batches, NEW certified \in BOOLEAN,
             BeginToolCallBatch(batch, certified)
      PROVE  BatchInv'
  BY <1>2, BatchKeepsBudget
<1>3. ASSUME NEW sig \in Signatures, NEW safe \in BOOLEAN, RecordToolContinuation(sig, safe)
      PROVE  BatchInv'
  <2> DEFINE lease == IF safe THEN sig ELSE NoSignature
  <2>1. lease \in Signatures \cup {NoSignature}
    OBVIOUS
  <2>2. admission' = [admission EXCEPT !.guard.lease = lease]
    BY <1>3 DEF RecordToolContinuation
  <2>3. UNCHANGED <<progress, external, executed, segment>>
    BY <1>3 DEF RecordToolContinuation
  <2> HIDE DEF lease
  <2>4. /\ admission' \in Admissions /\ admission'.guard.recent = admission.guard.recent
        /\ admission'.calls = admission.calls /\ admission'.limit = admission.limit
        /\ admission'.spent = admission.spent
    BY <1>0, <2>1, <2>2, LeaseFacts
  <2>5. PaidFor'
    BY <1>0, <2>3, <2>4 DEF PaidFor
  <2> QED
    BY <1>0, <1>d, <2>3, <2>4, <2>5
<1>4. ASSUME RecordExternalToolCall PROVE BatchInv'
  <2>1. /\ admission' = [admission EXCEPT !.calls = @ + 1] /\ external' = external + 1
        /\ UNCHANGED <<progress, executed, segment>>
    BY <1>4 DEF RecordExternalToolCall
  <2>2. /\ admission' \in Admissions /\ admission'.guard = admission.guard
        /\ admission'.calls = admission.calls + 1 /\ admission'.limit = admission.limit
        /\ admission'.spent = admission.spent
    BY <1>0, <1>a, <2>1 DEF Admissions
  <2>3. PaidFor'
    BY <1>0, <1>a, <2>1, <2>2 DEF PaidFor
  <2> QED
    BY <1>0, <1>d, <2>1, <2>2, <2>3
<1>5. ASSUME RecordGoalDelta PROVE BatchInv'
  <2>1. progress' = progress + 1 /\ UNCHANGED <<admission, external, executed, segment>>
    BY <1>5 DEF RecordGoalDelta
  <2>2. PaidFor'
    BY <1>0, <2>1 DEF PaidFor
  <2>3. admission.spent <= progress + 1
    BY <1>0, <1>a
  <2> QED
    BY <1>0, <1>d, <2>1, <2>2, <2>3
<1>6. ASSUME ContinueStoppedRun PROVE BatchInv'
  <2>1. /\ admission' = [admission EXCEPT !.outcome = "Started", !.calls = 0,
                                          !.limit = FirstLimit, !.spent = progress]
        /\ external' = 0 /\ executed' = << >> /\ progress' = progress
        /\ segment' = [opened |-> segment.opened + 1, limit |-> FirstLimit,
                       progress |-> progress]
    BY <1>6 DEF ContinueStoppedRun
  <2>2. /\ admission' \in Admissions /\ admission'.guard = admission.guard
        /\ admission'.calls = 0 /\ admission'.limit = FirstLimit
        /\ admission'.spent = progress
    BY <1>0, <1>c, <2>1 DEF Admissions
  <2>3. /\ segment' \in [opened : Nat, limit : Nat, progress : Nat]
        /\ segment'.limit = FirstLimit /\ segment'.progress = progress
    BY <1>0, <1>a, <1>c, <2>1
  <2>4. PaidFor'
    BY <1>0, <1>b, <1>c, <2>1, <2>2, <2>3 DEF PaidFor
  <2>5. << >> \in Seq(Signatures) /\ progress <= progress
    BY <1>0
  <2> QED
    BY <1>0, <1>d, <2>1, <2>2, <2>3, <2>4, <2>5
<1>7. ASSUME OpenAppliedObjectiveSegment PROVE BatchInv'
  <2> DEFINE limit == AtMost(AtLeast(admission.limit,
                                     admission.calls + AtLeast(InitialToolCalls, 1)),
                             MaxToolCalls)
             opened == OpenSegment(admission, progress, InitialToolCalls, MaxToolCalls)
  <2>1. opened = [admission EXCEPT !.limit = limit, !.spent = progress]
    BY DEF OpenSegment
  <2>2. limit \in 1 .. MaxToolCalls /\ admission.limit <= limit /\ limit \in Nat
    BY <1>a, BatchConstants DEF AtMost, AtLeast
  <2> HIDE DEF limit
  <2>3. /\ opened \in Admissions /\ opened.limit = limit /\ opened.spent = progress
        /\ opened.calls = admission.calls /\ opened.guard = admission.guard
    BY <1>0, <2>1, <2>2 DEF Admissions
  <2>4. /\ admission' = [opened EXCEPT !.guard.lease = NoSignature]
        /\ segment' = [opened |-> segment.opened + 1, limit |-> admission'.limit,
                       progress |-> progress]
        /\ UNCHANGED <<progress, external, executed>>
    BY <1>7 DEF OpenAppliedObjectiveSegment
  <2> HIDE DEF opened
  <2>5. /\ admission' \in Admissions /\ admission'.guard.recent = admission.guard.recent
        /\ admission'.calls = admission.calls /\ admission'.limit = limit
        /\ admission'.spent = progress
    BY <2>3, <2>4, LeaseFacts
  <2>6. /\ segment' \in [opened : Nat, limit : Nat, progress : Nat]
        /\ segment'.limit = limit /\ segment'.progress = progress
    BY <1>0, <1>a, <2>2, <2>4, <2>5
  <2>7. PaidFor'
    <3>1. admission.calls <= admission.limit + external
      BY <1>0 DEF PaidFor
    <3>2. admission.calls <= limit + external
      BY <1>0, <1>a, <2>2, <3>1
    <3>3. progress <= progress /\ limit <= limit + (progress - progress) * Step
      BY <1>0, <1>b, <2>2
    <3> QED
      BY <2>4, <2>5, <2>6, <3>2, <3>3 DEF PaidFor
  <2> QED
    BY <1>0, <1>d, <2>4, <2>5, <2>6, <2>7
<1>8. CASE UNCHANGED batchVars
  BY <1>8 DEF batchVars, BatchInv, TypeOK, PaidFor
<1> QED
  BY <1>1, <1>2, <1>3, <1>4, <1>5, <1>6, <1>7, <1>8 DEF Next

-----------------------------------------------------------------------------
\* A single call is a batch of one.
LEMMA OneCallBatch ==
  ASSUME NEW guard \in ToolGuards, NEW sig \in Signatures
  PROVE  FoldLeft(ObserveInBatch, [repeated |-> FALSE, guard |-> guard], <<sig>>)
           = ObserveInBatch([repeated |-> FALSE, guard |-> guard], sig)
<1> DEFINE base == [repeated |-> FALSE, guard |-> guard]
           calls == <<sig>>
<1>1. base \in Locals
  BY DEF Locals
<1>2. calls \in Seq(Signatures) /\ Len(calls) = 1 /\ calls[1] = sig
  OBVIOUS
<1> HIDE DEF base, calls
<1>3. PICK g \in [0 .. Len(calls) -> Locals] :
        /\ g[0] = base
        /\ \A k \in 1 .. Len(calls) : g[k] = ObserveInBatch(g[k - 1], calls[k])
        /\ FoldLeft(ObserveInBatch, base, calls) = g[Len(calls)]
  BY <1>1, <1>2, ObserveFold
<1>4. 1 \in 1 .. Len(calls) /\ 1 - 1 = 0
  BY <1>2
<1>5. FoldLeft(ObserveInBatch, base, calls) = ObserveInBatch(base, sig)
  BY <1>2, <1>3, <1>4
<1> QED
  BY <1>5 DEF base, calls

\* Every step keeps what was executed free of cycles.
LEMMA CycleStep ==
  ASSUME WindowHoldsCycles
  PROVE  BatchInv /\ CycleInv /\ [Next]_batchVars => CycleInv'
<1> SUFFICES ASSUME BatchInv, CycleInv, [Next]_batchVars PROVE CycleInv'
  OBVIOUS
<1>0. /\ admission \in Admissions /\ progress \in Nat /\ executed \in Seq(Signatures)
      /\ admission.guard \in ToolGuards /\ Acyclic(executed)
      /\ Len(admission.guard.recent) <= RecentWindow
  BY DEF BatchInv, TypeOK, Admissions, CycleInv
<1>a. Admitting => Trails(admission.guard.recent, executed)
  BY DEF CycleInv
<1>b. ASSUME executed' = executed, Admitting' => Admitting,
             admission'.guard.recent = admission.guard.recent
      PROVE  CycleInv'
  BY <1>0, <1>a, <1>b DEF CycleInv
<1>c. ASSUME executed' = executed, ~Admitting'
      PROVE  CycleInv'
  BY <1>0, <1>c DEF CycleInv
<1>1. ASSUME NEW sig \in Signatures, BeginToolCall(sig) PROVE CycleInv'
  <2> DEFINE t == AdmitCall(admission, sig, progress)
             base == [repeated |-> FALSE, guard |-> admission.guard]
             seen == FoldLeft(ObserveInBatch, base, <<sig>>)
  <2>1. admission' = t /\ Admitting
    BY <1>1 DEF BeginToolCall
  <2>2. CASE t.outcome # "Started"
    <3>1. executed' = executed /\ ~Admitting'
      BY <1>1, <2>1, <2>2 DEF BeginToolCall, Admitting
    <3> QED
      BY <1>c, <3>1
  <2>3. CASE t.outcome = "Started"
    <3>1. executed' = executed \o Unleased(admission.guard, <<sig>>)
      BY <1>1, <2>1, <2>3 DEF BeginToolCall
    <3>2. base \in Locals /\ ~base.repeated /\ base.guard = admission.guard
      BY <1>0 DEF Locals
    <3>3. seen = ObserveInBatch(base, sig)
      BY <1>0, OneCallBatch
    <3>4. ~ObserveInBatch(base, sig).repeated /\ t.guard = ObserveInBatch(base, sig).guard
      <4> HIDE DEF base
      <4> QED
        BY <1>0, <2>3, <3>2, SameDecision DEF Admission
    <3>5. <<sig>> \in Seq(Signatures)
      OBVIOUS
    <3>6. Trails(seen.guard.recent, executed') /\ Acyclic(executed')
      BY <1>0, <1>a, <2>1, <3>1, <3>3, <3>4, <3>5, BatchKeepsTrail
    <3>7. admission'.guard = seen.guard
      BY <2>1, <3>3, <3>4
    <3> QED
      BY <3>6, <3>7 DEF CycleInv
  <2> QED
    BY <2>2, <2>3
<1>2. ASSUME NEW batch \in Batches, NEW certified \in BOOLEAN,
             BeginToolCallBatch(batch, certified)
      PROVE  CycleInv'
  <2> DEFINE t == AdmitBatch(admission, batch, progress, certified)
             base == [repeated |-> FALSE, guard |-> admission.guard]
             seen == FoldLeft(ObserveInBatch, base, batch)
  <2>1. admission' = t /\ Admitting /\ t.outcome # "SerialRequired"
    BY <1>2 DEF BeginToolCallBatch
  <2>2. CASE t.outcome # "Started"
    <3>1. executed' = executed /\ ~Admitting'
      BY <1>2, <2>1, <2>2 DEF BeginToolCallBatch, Admitting
    <3> QED
      BY <1>c, <3>1
  <2>3. CASE t.outcome = "Started"
    <3>1. executed' = executed \o Unleased(admission.guard, batch)
      BY <1>2, <2>1, <2>3 DEF BeginToolCallBatch
    <3>2. batch \in Seq(Signatures)
      BY BatchesAreSequences
    <3>3. ~seen.repeated /\ t.guard = seen.guard
      BY <1>0, <2>1, <2>3, <3>2, AdmitBatchFacts
    <3>4. Trails(seen.guard.recent, executed') /\ Acyclic(executed')
      BY <1>0, <1>a, <2>1, <3>1, <3>2, <3>3, BatchKeepsTrail
    <3> QED
      BY <2>1, <3>3, <3>4 DEF CycleInv
  <2> QED
    BY <2>2, <2>3
<1>3. ASSUME NEW sig \in Signatures, NEW safe \in BOOLEAN, RecordToolContinuation(sig, safe)
      PROVE  CycleInv'
  <2> DEFINE lease == IF safe THEN sig ELSE NoSignature
  <2>1. lease \in Signatures \cup {NoSignature}
    OBVIOUS
  <2>2. admission' = [admission EXCEPT !.guard.lease = lease] /\ executed' = executed
    BY <1>3 DEF RecordToolContinuation
  <2> HIDE DEF lease
  <2>3. admission'.guard.recent = admission.guard.recent /\ admission'.outcome = admission.outcome
    BY <1>0, <2>1, <2>2, LeaseFacts
  <2> QED
    BY <1>b, <2>2, <2>3 DEF Admitting
<1>4. ASSUME RecordExternalToolCall PROVE CycleInv'
  <2>1. /\ admission'.guard = admission.guard /\ admission'.outcome = admission.outcome
        /\ executed' = executed
    BY <1>0, <1>4 DEF RecordExternalToolCall, Admissions
  <2> QED
    BY <1>b, <2>1 DEF Admitting
<1>5. ASSUME RecordGoalDelta PROVE CycleInv'
  BY <1>b, <1>5 DEF RecordGoalDelta, Admitting
<1>6. ASSUME ContinueStoppedRun PROVE CycleInv'
  <2>1. executed' = << >>
    BY <1>6 DEF ContinueStoppedRun
  <2>2. Len(<< >>) = 0 /\ Copies \in Nat /\ Copies >= 2
    BY CopiesFacts
  <2>3. \A p \in 1 .. 3 : 0 .. 0 - p * Copies = {}
    BY <2>2
  <2>4. Acyclic(<< >>)
    BY <2>2, <2>3 DEF Acyclic
  <2>5. admission'.guard = admission.guard /\ admission.guard.recent \in Seq(Signatures)
    BY <1>0, <1>6 DEF ContinueStoppedRun, Admissions, ToolGuards
  <2>6. Trails(admission.guard.recent, << >>)
    <3>1. Len(admission.guard.recent) \in Nat
      BY <2>5
    <3> QED
      BY <2>2, <3>1 DEF Trails
  <2> QED
    BY <2>1, <2>4, <2>5, <2>6 DEF CycleInv
<1>7. ASSUME OpenAppliedObjectiveSegment PROVE CycleInv'
  <2> DEFINE opened == OpenSegment(admission, progress, InitialToolCalls, MaxToolCalls)
             g == [admission.guard EXCEPT !.lease = NoSignature]
  <2>1. opened.guard = admission.guard /\ opened.outcome = admission.outcome
    BY <1>0 DEF OpenSegment, Admissions
  <2>2. admission' = [opened EXCEPT !.guard.lease = NoSignature] /\ executed' = executed
    BY <1>7 DEF OpenAppliedObjectiveSegment
  <2>3. g.recent = admission.guard.recent
    BY <1>0 DEF ToolGuards
  <2>4. admission'.guard = g /\ admission'.outcome = admission.outcome
    BY <1>0, <2>2 DEF OpenSegment, Admissions
  <2> QED
    BY <1>b, <2>2, <2>3, <2>4 DEF Admitting
<1>8. CASE UNCHANGED batchVars
  BY <1>b, <1>8 DEF batchVars, Admitting
<1> QED
  BY <1>1, <1>2, <1>3, <1>4, <1>5, <1>6, <1>7, <1>8 DEF Next

-----------------------------------------------------------------------------
\* The state of tool admission keeps its type, and the limit is always covered
\* by the progress spent on it, whatever extend_tool_budget_if_progressed grants
\* to single calls and batches, and whatever record_external_tool_call adds.
THEOREM BatchInvariant == Spec => []BatchInv
  BY BatchInit, BatchStep, PTL DEF Spec

\* In every reachable state of every run, a batch that
\* begin_tool_call_batch_with_epoch starts leaves the count, the limit, the spent
\* progress and the guard exactly as begin_tool_call_locked would, call by call;
\* and a certified batch whose calls the serial path would all start is started.
THEOREM BatchAlwaysAgreesWithSerial == Spec => []BatchAgreesWithSerial
<1>1. BatchInv => BatchAgreesWithSerial
  <2> SUFFICES ASSUME BatchInv, Admitting, NEW batch \in Batches, NEW certified \in BOOLEAN
               PROVE  LET together == AdmitBatch(admission, batch, progress, certified)
                          inOrder  == AdmitInOrder(admission, batch, progress)
                      IN  /\ together.outcome = "Started" => together = inOrder
                          /\ (certified /\ inOrder.outcome = "Started") => together = inOrder
    BY DEF BatchAgreesWithSerial
  <2>1. admission \in Admissions /\ progress \in Nat /\ admission.outcome = "Started"
    BY DEF BatchInv, TypeOK, Admissions, Admitting
  <2>2. batch \in Seq(Signatures) /\ Len(batch) >= 1
    BY BatchesAreSequences
  <2> QED
    BY <2>1, <2>2, BatchIsSerial
<1> QED
  BY <1>1, BatchInvariant, PTL

\* Within a segment of a run, extend_tool_budget_if_progressed never raises the
\* limit by more than the progress of that segment pays for, and the calls never
\* pass the limit by more than the external ones record_external_tool_call
\* counts without asking.
THEOREM ToolHeadroomIsAlwaysEarned == Spec => []ToolHeadroomIsEarned
<1>1. BatchInv => ToolHeadroomIsEarned
  <2> SUFFICES ASSUME BatchInv PROVE ToolHeadroomIsEarned
    OBVIOUS
  <2>1. /\ TypeOK /\ admission.calls <= admission.limit + external
        /\ segment.progress <= admission.spent /\ admission.spent <= progress
        /\ admission.limit <= segment.limit + (admission.spent - segment.progress) * Step
    BY DEF BatchInv, PaidFor, TypeOK
  <2>2. /\ admission.spent \in Nat /\ progress \in Nat /\ segment.progress \in Nat
        /\ segment.limit \in Nat /\ admission.limit \in Nat /\ Step \in Nat
    <3>1. Step \in Nat /\ MaxToolCalls \in Nat
      BY ToolConstants DEF Step, AtLeast
    <3> QED
      BY <3>1 DEF BatchInv, TypeOK
  <2> DEFINE i == admission.spent - segment.progress
             j == progress - segment.progress
  <2>3. i \in Nat /\ j \in Nat /\ i <= j
    BY <2>1, <2>2
  <2>4. i * Step <= j * Step /\ i * Step \in Nat /\ j * Step \in Nat
    <3> HIDE DEF i, j
    <3>1. i * Step \in Nat /\ j * Step \in Nat
      BY <2>2, <2>3
    <3>2. i * Step <= j * Step
      BY <2>2, <2>3, Z3
    <3> QED
      BY <3>1, <3>2
  <2>5. admission.limit <= segment.limit + j * Step
    <3> DEFINE u == i * Step
               v == j * Step
    <3>1. u \in Nat /\ v \in Nat /\ u <= v /\ admission.limit <= segment.limit + u
      BY <2>1, <2>4
    <3> HIDE DEF u, v
    <3>2. admission.limit <= segment.limit + v
      BY <2>2, <3>1
    <3> QED
      BY <3>2 DEF v
  <2> QED
    BY <2>1, <2>5 DEF ToolHeadroomIsEarned, Step
<1> QED
  BY <1>1, BatchInvariant, PTL

\* Where the window holds three times the copies that make a cycle, as it does
\* with every effort profile of the code, has_repeated_action_cycle lets no cycle
\* of one, two or three actions through, alone or across batches: the calls that
\* were started without a lease hold none.
THEOREM CycleIsNeverExecuted ==
  ASSUME WindowHoldsCycles
  PROVE  Spec => []NoCycleIsExecuted
<1>1. CycleInv => NoCycleIsExecuted
  BY DEF CycleInv, Acyclic, CycleAt, NoCycleIsExecuted, Copies
<1>2. BatchInv /\ CycleInv /\ [Next]_batchVars => CycleInv'
  BY CycleStep
<1> QED
  BY <1>1, <1>2, CycleInit, BatchInvariant, PTL DEF Spec

=============================================================================
