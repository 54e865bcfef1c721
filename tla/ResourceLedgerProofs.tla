------------------------ MODULE ResourceLedgerProofs ------------------------
(***************************************************************************)
(* Proofs about ResourceLedger, for every budget, every set of callers and *)
(* every number of runs and steers.                                        *)
(*                                                                         *)
(* LedgerInv adds to the properties what makes them true:                  *)
(*                                                                         *)
(*   Ledgers           every ledger, in memory, in a caller's hands or on  *)
(*                     disk, is balanced, and its lineage has one attempt  *)
(*                     for each number given;                              *)
(*   HandsAgree        each attempt in flight has one caller;              *)
(*   CopiesAreOrdered  of two copies of this run's ledger the one with the *)
(*                     later revision numbers no fewer attempts, and a     *)
(*                     copy that could hold an attempt in flight does; so  *)
(*                     keeping the later one loses nothing;                *)
(*   SentAreNumbered   counted up to any number the disk has reached, what *)
(*                     was sent and what waits to be sent are different    *)
(*                     attempts of this run;                               *)
(*   SpendingIsWithin  not only the ledger but each copy a restart may     *)
(*                     start from is within the budget.                    *)
(***************************************************************************)
EXTENDS ResourceLedger, FiniteSetTheorems, TLAPS

\* Ledgers: what is reserved is what is in flight, every attempt is in flight or
\* settled, the lineage covers the segment and numbers its attempts.
Pendings == UNION {[D -> Sizes] : D \in SUBSET Nat}
LedgerShapes == [rev : Nat, next : Nat \ {0}, segment : UsageType, lineage : UsageType,
                 pending : Pendings]
Balanced(usage, pending) ==
  /\ usage.reserved = SumOf(pending)
  /\ usage.attempts = usage.settled + Cardinality(DOMAIN pending)
Ledgers ==
  {l \in LedgerShapes :
     /\ DOMAIN l.pending \subseteq 1..(l.next - 1)
     /\ Balanced(l.segment, l.pending) /\ Balanced(l.lineage, l.pending)
     /\ l.segment.attempts <= l.lineage.attempts
     /\ l.segment.total <= l.lineage.total
     /\ l.lineage.attempts = l.next - 1}

Copies == [run : 0..MaxRuns, ledger : Ledgers]
Attempts == [at : {"idle", "ready", "reserved", "recording", "calling", "settled", "closing"},
             epoch : 0..MaxSteers, id : Nat, copy : Ledgers]

LedgerTypes ==
  /\ ledger \in Ledgers /\ checkpoint \in Copies
  /\ envelope \in [reason : {"none", "paused", "blocked", "restarted"}, copy : Copies]
  /\ caller \in [Callers -> Attempts]
  /\ run \in [id : 1..MaxRuns, stop : {"no", "other", "resources"},
              epoch : 0..MaxSteers, applied : 0..MaxSteers]
  /\ phase \in {"running", "waiting", "paused", "down", "ended"}
  /\ suspended \in BOOLEAN /\ finals \in BOOLEAN
  /\ base \in Nat /\ sent \in Nat /\ overrun \in Nat

\* The ledger in memory is that of the run: it runs, or waits with its control.
Live == phase = "running" \/ suspended
Copying(c) == caller[c].at \in {"recording", "closing"}

\* What is on disk and in the callers' hands in each phase.
PhasesAgree ==
  /\ phase # "running" => \A c \in Callers : caller[c].at = "idle"
  /\ suspended => phase \in {"paused", "waiting"}
  /\ checkpoint = NoCopy \/ checkpoint.run = run.id
  /\ phase = "paused" \/ (phase = "waiting" /\ ~suspended) => checkpoint = NoCopy
  /\ phase \in {"running", "down"} => envelope.reason \in {"none", "blocked"}
  /\ phase = "waiting" => /\ envelope.reason = "blocked"
                          /\ DOMAIN envelope.copy.ledger.pending = {}
                          /\ base + 1 <= envelope.copy.ledger.next
                          /\ suspended => ledger = envelope.copy.ledger
  /\ envelope.reason = "none" => envelope.copy = NoCopy

\* Only a caller that is about to write holds a copy; a child never writes.
CallersAgree ==
  /\ \A c \in Callers : ~Copying(c) => caller[c].copy = NewLedger
  /\ \A c \in Children : caller[c].at \in {"idle", "ready", "calling"}

\* Each attempt in flight belongs to one caller.
Holders == {c \in Callers : Holds(c)}
HandsAgree ==
  /\ IsFiniteSet(Holders)
  /\ DOMAIN ledger.pending = {caller[c].id : c \in Holders}
  /\ \A c, d \in Holders : caller[c].id = caller[d].id => c = d

\* The copies of this run's ledger that are under way or on disk, in the order
\* of their revisions: a later one numbers no fewer attempts, and one that could
\* hold an attempt still in flight does.
Taken == {caller[c].copy : c \in {d \in Callers : Copying(d)}}
           \cup (IF checkpoint.run = run.id THEN {checkpoint.ledger} ELSE {})
CopiesAreOrdered ==
  /\ \A k \in Taken :
       /\ k.rev <= ledger.rev /\ k.next <= ledger.next
       /\ k.rev = ledger.rev => k.next = ledger.next
       /\ \A m \in Taken : k.rev <= m.rev => k.next <= m.next
       /\ \A c \in Holders : caller[c].id < k.next => caller[c].id \in DOMAIN k.pending
  /\ \A c \in Callers :
       /\ Copying(c) => caller[c].copy.next >= envelope.copy.ledger.next
       /\ caller[c].at = "recording" => caller[c].id < caller[c].copy.next
  /\ ledger.next >= envelope.copy.ledger.next

\* What a restart would find of this run.
Durable == IF checkpoint.run = run.id THEN checkpoint.ledger ELSE envelope.copy.ledger

\* Callers that have reserved an attempt before the n-th and not sent it.
Unsent(n) ==
  {c \in Recorders : caller[c].at \in {"reserved", "recording"} /\ caller[c].id < n}

\* Of the attempts numbered since the run began, those that were sent and those
\* that wait to be are different ones.
SentAreNumbered ==
  /\ base + 1 <= ledger.next
  /\ \A n \in (base + 1)..ledger.next :
       (sent > 0 => Durable.next <= n) => base + sent + Cardinality(Unsent(n)) <= n - 1
SentAreDurable ==
  (phase \in {"running", "waiting", "down"} \/ envelope.reason = "restarted") /\ sent > 0
    => base + sent + 1 <= Durable.next

\* What a ledger of a segment may have spent, with o tokens of overrun; f says
\* that the finalizer has begun.
Within(l, o, f) ==
  /\ Charged(l.segment) <= MaxTokens + o
  /\ l.segment.attempts <= MaxAttempts
  /\ ~f => /\ l.segment.attempts + AttemptReserve <= MaxAttempts
           /\ Charged(l.segment) + TokenReserve <= MaxTokens + o
SpendingIsWithin ==
  /\ Within(ledger, overrun, finals) /\ Within(checkpoint.ledger, overrun, finals)
  /\ \A c \in Callers : Within(caller[c].copy, overrun, finals)
  /\ envelope.reason # "paused" => Within(envelope.copy.ledger, overrun, finals)

LedgerInv ==
  /\ LedgerTypes /\ PhasesAgree /\ CallersAgree /\ HandsAgree
  /\ Live => CopiesAreOrdered /\ SentAreNumbered
  /\ DispatchIsRecorded /\ SentAreDurable
  /\ SpendingIsWithin
-----------------------------------------------------------------------------
(* Sums.  The fold of FoldFunction is a recursive function over the parts   *)
(* of the domain; what it computes is shown by looking for a smallest part  *)
(* where it fails.                                                          *)

\* A set of numbers has a least one.
LEMMA LeastNumber ==
  ASSUME NEW S, S \subseteq Nat, S # {}
  PROVE  \E x \in S : \A y \in S : x <= y
<1>1. \E x \in S : \A y \in S : ~(<<y, x>> \in OpToRel(<, Nat))
  BY WFMin, NatLessThanWellFounded
<1>2. \A x, y \in Nat : ~(<<y, x>> \in OpToRel(<, Nat)) => x <= y
  BY DEF OpToRel
<1> QED
  BY <1>1, <1>2

\* The element that a fold over a set takes first.
Any(u) == CHOOSE x \in u : TRUE

\* f gives the sum of p over each of the sets of D, by the equation of the fold.
Sums(f, p, D) == f = [u \in D |-> IF u = {} THEN 0 ELSE p[Any(u)] + f[u \ {Any(u)}]]

\* The same over all parts of a set; values that are numbers; functions that agree.
SumsTo(f, p, S) == Sums(f, p, SUBSET S)
Numbers(p, S) == \A x \in S : p[x] \in Nat
Same(p, q, T) == \A x \in T : p[x] = q[x]

\* The fold, unfolded.
LEMMA SumUnfolds ==
  ASSUME NEW p
  PROVE  SumOf(p) = (CHOOSE f : SumsTo(f, p, DOMAIN p))[DOMAIN p]
  BY DEF SumOf, SumsTo, FoldFunction, FoldFunctionOnSet, MapThenFoldSet, Sums, Any

\* A finite set without one of its elements.
LEMMA SmallerPart ==
  ASSUME NEW u, IsFiniteSet(u), NEW x \in u
  PROVE  /\ IsFiniteSet(u \ {x}) /\ Cardinality(u) \in Nat /\ Cardinality(u \ {x}) \in Nat
         /\ Cardinality(u \ {x}) = Cardinality(u) - 1
  BY FS_RemoveElement, FS_CardinalityType

\* There is such an f.
LEMMA SumsExist ==
  ASSUME NEW p, NEW S, IsFiniteSet(S)
  PROVE  \E f : SumsTo(f, p, S)
<1> DEFINE Part(n) == {u \in SUBSET S : Cardinality(u) <= n}
           Bad == {n \in Nat : ~\E f : Sums(f, p, Part(n))}
<1>0. \A u \in SUBSET S : IsFiniteSet(u) /\ Cardinality(u) \in Nat
      /\ Cardinality(u) <= Cardinality(S)
  BY FS_Subset, FS_CardinalityType
<1>1. \A u : u # {} => Any(u) \in u
  BY DEF Any
<1>2. Bad = {}
  <2> SUFFICES ASSUME Bad # {} PROVE FALSE
    OBVIOUS
  <2>1. PICK n \in Bad : \A m \in Bad : n <= m
    BY LeastNumber
  <2>2. CASE n = 0
    <3>1. \A u \in Part(0) : u = {}
      BY <1>0, FS_EmptySet
    <3> DEFINE f == [u \in Part(0) |-> 0]
    <3>2. Sums(f, p, Part(0))
      BY <3>1 DEF SumsTo, Sums
    <3> QED
      BY <2>2, <3>2
  <2>3. CASE n # 0
    <3>0. n \in Nat /\ n - 1 \in Nat /\ ~(n <= n - 1)
      BY <2>3
    <3>1. n - 1 \in Nat /\ n - 1 \notin Bad
      <4> HIDE DEF Bad
      <4> QED
        BY <2>1, <3>0
    <3>2. PICK g : Sums(g, p, Part(n - 1))
      BY <3>1
    <3> DEFINE f == [u \in Part(n) |-> IF u = {} THEN 0 ELSE p[Any(u)] + g[u \ {Any(u)}]]
    <3>3. \A u \in Part(n - 1) : u \in Part(n) /\ f[u] = g[u]
      <4> TAKE u \in Part(n - 1)
      <4>1. u \in Part(n)
        BY <1>0, <2>1
      <4>2. g[u] = IF u = {} THEN 0 ELSE p[Any(u)] + g[u \ {Any(u)}]
        BY <3>2 DEF SumsTo, Sums
      <4> QED
        BY <4>1, <4>2
    <3>4. \A u \in Part(n) : u # {} => u \ {Any(u)} \in Part(n - 1)
      <4> SUFFICES ASSUME NEW u \in Part(n), u # {} PROVE u \ {Any(u)} \in Part(n - 1)
        OBVIOUS
      <4>1. Any(u) \in u /\ IsFiniteSet(u)
        BY <1>0, <1>1
      <4>2. Cardinality(u \ {Any(u)}) = Cardinality(u) - 1 /\ Cardinality(u) \in Nat
        BY <4>1, SmallerPart
      <4> QED
        BY <2>1, <4>2
    <3>5. \A u \in Part(n) : f[u] = IF u = {} THEN 0 ELSE p[Any(u)] + f[u \ {Any(u)}]
      BY <3>3, <3>4
    <3>6. Sums(f, p, Part(n))
      BY <3>5 DEF SumsTo, Sums
    <3> QED
      BY <2>1, <3>6
  <2> QED
    BY <2>2, <2>3
<1>3. Cardinality(S) \in Nat
  BY FS_CardinalityType
<1>4. Part(Cardinality(S)) = SUBSET S
  BY <1>0
<1> QED
  BY <1>2, <1>3, <1>4 DEF SumsTo

\* It does not matter which element is taken first.
LEMMA SumOfPart ==
  ASSUME NEW p, NEW S, IsFiniteSet(S), Numbers(p, S),
         NEW f, SumsTo(f, p, S)
  PROVE  \A u \in SUBSET S : f[u] \in Nat /\ \A x \in u : f[u] = p[x] + f[u \ {x}]
<1> DEFINE Good(u) == f[u] \in Nat /\ \A x \in u : f[u] = p[x] + f[u \ {x}]
           Bad == {Cardinality(u) : u \in {v \in SUBSET S : ~Good(v)}}
<1>0. \A u \in SUBSET S : IsFiniteSet(u) /\ Cardinality(u) \in Nat
  BY FS_Subset, FS_CardinalityType
<1>1. \A u \in SUBSET S : f[u] = IF u = {} THEN 0 ELSE p[Any(u)] + f[u \ {Any(u)}]
  BY DEF SumsTo, Sums
<1>2. SUFFICES ASSUME Bad # {} PROVE FALSE
  OBVIOUS
<1>b. Bad \subseteq Nat
  BY <1>0
<1>3. PICK n \in Bad : \A m \in Bad : n <= m
  <2> HIDE DEF Bad
  <2> QED
    BY <1>b, <1>2, LeastNumber
<1>4. PICK u \in SUBSET S : ~Good(u) /\ n = Cardinality(u)
  BY <1>3
<1>5. \A v \in SUBSET S : Cardinality(v) < Cardinality(u) => Good(v)
  BY <1>0, <1>3, <1>4
<1>6. u # {}
  <2>1. f[{}] = 0
    BY <1>1
  <2>2. Good({})
    BY <2>1
  <2> HIDE DEF Good
  <2> QED
    BY <1>4, <2>2
<1> DEFINE y == Any(u)
<1>7. y \in u /\ u \ {y} \in SUBSET S
  BY <1>6 DEF Any
<1>8. f[u] = p[y] + f[u \ {y}]
  BY <1>1, <1>6
<1> HIDE DEF y
<1>9. \A x \in u : u \ {x} \in SUBSET S /\ Good(u \ {x})
  <2> TAKE x \in u
  <2>1. Cardinality(u \ {x}) = Cardinality(u) - 1 /\ Cardinality(u) \in Nat
    BY <1>0, SmallerPart
  <2>2. u \ {x} \in SUBSET S
    OBVIOUS
  <2>3. Cardinality(u \ {x}) < Cardinality(u)
    BY <2>1
  <2> HIDE DEF Good
  <2> QED
    BY <1>5, <2>2, <2>3
<1>10. f[u \ {y}] \in Nat /\ f[u] \in Nat /\ p[y] \in Nat
  <2>1. Good(u \ {y}) /\ p[y] \in Nat
    <3> HIDE DEF Good
    <3> QED
      BY <1>7, <1>9 DEF Numbers
  <2> QED
    BY <1>8, <2>1
<1>11. ASSUME NEW x \in u PROVE f[u] = p[x] + f[u \ {x}]
  <2>1. CASE x = y
    BY <1>8, <2>1
  <2>2. CASE x # y
    <3> DEFINE w == (u \ {x}) \ {y}
    <3>1. x \in u \ {y} /\ y \in u \ {x} /\ (u \ {y}) \ {x} = w
      BY <1>7, <2>2
    <3>2. f[u \ {y}] = p[x] + f[w]
      BY <1>7, <1>9, <3>1
    <3>3. f[u \ {x}] = p[y] + f[w] /\ f[u \ {x}] \in Nat
      BY <1>9, <3>1
    <3>4. f[w] \in Nat
      <4>1. w \in SUBSET S /\ IsFiniteSet(u) /\ IsFiniteSet(u \ {x})
        BY <1>0
      <4>a. Cardinality(w) = Cardinality(u \ {x}) - 1 /\ Cardinality(u \ {x}) \in Nat
        BY <3>1, <4>1, SmallerPart
      <4>b. Cardinality(u \ {x}) = Cardinality(u) - 1 /\ Cardinality(u) \in Nat
        BY <4>1, SmallerPart
      <4>2. Cardinality(w) < Cardinality(u)
        BY <4>a, <4>b
      <4> QED
        BY <1>5, <4>1, <4>2
    <3> HIDE DEF w
    <3>5. p[x] \in Nat
      BY DEF Numbers
    <3> QED
      BY <1>8, <1>10, <3>2, <3>3, <3>4, <3>5
  <2> QED
    BY <2>1, <2>2
<1> QED
  BY <1>4, <1>10, <1>11

\* Sums agree where the values do.
LEMMA SumsAgree ==
  ASSUME NEW p, NEW q, NEW S, NEW T, IsFiniteSet(S), T \subseteq S,
         Same(p, q, T),
         NEW f, SumsTo(f, p, S), NEW g, SumsTo(g, q, T)
  PROVE  \A u \in SUBSET T : f[u] = g[u]
<1> DEFINE Bad == {Cardinality(u) : u \in {v \in SUBSET T : f[v] # g[v]}}
<1>0. \A u \in SUBSET T : u \in SUBSET S /\ IsFiniteSet(u) /\ Cardinality(u) \in Nat
  BY FS_Subset, FS_CardinalityType
<1>1. \A u \in SUBSET T : /\ f[u] = IF u = {} THEN 0 ELSE p[Any(u)] + f[u \ {Any(u)}]
                          /\ g[u] = IF u = {} THEN 0 ELSE q[Any(u)] + g[u \ {Any(u)}]
  BY <1>0 DEF SumsTo, Sums
<1>2. SUFFICES ASSUME Bad # {} PROVE FALSE
  OBVIOUS
<1>b. Bad \subseteq Nat
  BY <1>0
<1>3. PICK n \in Bad : \A m \in Bad : n <= m
  <2> HIDE DEF Bad
  <2> QED
    BY <1>b, <1>2, LeastNumber
<1>4. PICK u \in SUBSET T : f[u] # g[u] /\ n = Cardinality(u)
  BY <1>3
<1>5. u # {}
  BY <1>1, <1>4
<1> DEFINE y == Any(u)
<1>6. y \in u /\ u \ {y} \in SUBSET T
  BY <1>5 DEF Any
<1>7. f[u] = p[y] + f[u \ {y}] /\ g[u] = q[y] + g[u \ {y}] /\ p[y] = q[y]
  BY <1>1, <1>5, <1>6 DEF Same
<1> HIDE DEF y
<1>8. Cardinality(u \ {y}) = Cardinality(u) - 1 /\ Cardinality(u) \in Nat
  BY <1>0, <1>6, SmallerPart
<1>9. f[u \ {y}] = g[u \ {y}]
  BY <1>3, <1>4, <1>6, <1>8
<1> QED
  BY <1>4, <1>7, <1>9

\* SumOf is the value of such an f.
LEMMA SumIs ==
  ASSUME NEW p, IsFiniteSet(DOMAIN p)
  PROVE  \E f : SumsTo(f, p, DOMAIN p) /\ SumOf(p) = f[DOMAIN p]
<1> DEFINE f == CHOOSE h : SumsTo(h, p, DOMAIN p)
<1>1. SumsTo(f, p, DOMAIN p)
  BY SumsExist
<1>2. SumOf(p) = f[DOMAIN p]
  BY SumUnfolds
<1> QED
  BY <1>1, <1>2

\* The sum of a function with finitely many numbers, and without one of them.
LEMMA SumFacts ==
  ASSUME NEW p, IsFiniteSet(DOMAIN p), \A x \in DOMAIN p : p[x] \in Nat
  PROVE  /\ SumOf(p) \in Nat
         /\ DOMAIN p = {} => SumOf(p) = 0
         /\ \A q, x : /\ x \in DOMAIN p /\ DOMAIN q = DOMAIN p \ {x}
                      /\ \A y \in DOMAIN q : q[y] = p[y]
                      => SumOf(p) = p[x] + SumOf(q)
<1>1. PICK f : SumsTo(f, p, DOMAIN p) /\ SumOf(p) = f[DOMAIN p]
  BY SumIs
<1>2. SumOf(p) = f[DOMAIN p]
  BY <1>1
<1>3. \A u \in SUBSET DOMAIN p : f[u] \in Nat /\ \A x \in u : f[u] = p[x] + f[u \ {x}]
  <2>1. IsFiniteSet(DOMAIN p) /\ SumsTo(f, p, DOMAIN p)
    BY <1>1
  <2>2. PICK S : S = DOMAIN p
    OBVIOUS
  <2>3. IsFiniteSet(S) /\ Numbers(p, S) /\ SumsTo(f, p, S)
    BY <2>1, <2>2 DEF Numbers
  <2>4. \A u \in SUBSET S : f[u] \in Nat /\ \A x \in u : f[u] = p[x] + f[u \ {x}]
    BY <2>3, SumOfPart
  <2> QED
    BY <2>2, <2>4
<1>4. DOMAIN p = {} => f[DOMAIN p] = 0
  BY <1>1 DEF SumsTo, Sums
<1>5. ASSUME NEW q, NEW x, x \in DOMAIN p, DOMAIN q = DOMAIN p \ {x},
             \A y \in DOMAIN q : q[y] = p[y]
      PROVE  SumOf(p) = p[x] + SumOf(q)
  <2>1. IsFiniteSet(DOMAIN q) /\ DOMAIN q \subseteq DOMAIN p
    BY <1>5, FS_Subset
  <2>2. PICK g : SumsTo(g, q, DOMAIN q) /\ SumOf(q) = g[DOMAIN q]
    BY <2>1, SumIs
  <2>3. SumOf(q) = g[DOMAIN q]
    BY <2>2
  <2>4. Same(p, q, DOMAIN q)
    BY <1>5 DEF Same
  <2>5. f[DOMAIN q] = g[DOMAIN q]
    <3>1. IsFiniteSet(DOMAIN p) /\ DOMAIN q \subseteq DOMAIN p
          /\ Same(p, q, DOMAIN q)
          /\ SumsTo(f, p, DOMAIN p) /\ SumsTo(g, q, DOMAIN q)
      BY <1>1, <2>1, <2>2, <2>4
    <3>2. PICK S, T : S = DOMAIN p /\ T = DOMAIN q
      OBVIOUS
    <3>3. IsFiniteSet(S) /\ T \subseteq S /\ Same(p, q, T)
          /\ SumsTo(f, p, S) /\ SumsTo(g, q, T)
      BY <3>1, <3>2
    <3>4. \A u \in SUBSET T : f[u] = g[u]
      BY <3>3, SumsAgree
    <3> QED
      BY <3>2, <3>4
  <2>6. f[DOMAIN p] = p[x] + f[DOMAIN p \ {x}]
    BY <1>3, <1>5
  <2> QED
    BY <1>2, <1>5, <2>3, <2>5, <2>6
<1> QED
  BY <1>2, <1>3, <1>4, <1>5
-----------------------------------------------------------------------------
(* What the operations of RunResourceLedger do to a ledger.                *)

\* The parts of a ledger.
LEMMA LedgerParts ==
  ASSUME NEW l \in Ledgers
  PROVE  /\ l.rev \in Nat /\ l.next \in Nat \ {0}
         /\ l.segment \in UsageType /\ l.lineage \in UsageType
         /\ l.pending \in [DOMAIN l.pending -> Sizes]
         /\ IsFiniteSet(DOMAIN l.pending) /\ Cardinality(DOMAIN l.pending) \in Nat
         /\ DOMAIN l.pending \subseteq 1..(l.next - 1) /\ l.next \notin DOMAIN l.pending
         /\ \A id \in DOMAIN l.pending : l.pending[id] \in Nat
         /\ SumOf(l.pending) \in Nat
         /\ Balanced(l.segment, l.pending) /\ Balanced(l.lineage, l.pending)
         /\ l.segment.attempts <= l.lineage.attempts /\ l.segment.total <= l.lineage.total
         /\ l.lineage.attempts = l.next - 1
<1>1. /\ l.rev \in Nat /\ l.next \in Nat \ {0}
      /\ l.segment \in UsageType /\ l.lineage \in UsageType
      /\ DOMAIN l.pending \subseteq 1..(l.next - 1)
      /\ Balanced(l.segment, l.pending) /\ Balanced(l.lineage, l.pending)
      /\ l.segment.attempts <= l.lineage.attempts /\ l.segment.total <= l.lineage.total
      /\ l.lineage.attempts = l.next - 1
  BY DEF Ledgers, LedgerShapes
<1>2. l.pending \in [DOMAIN l.pending -> Sizes]
  BY DEF Ledgers, LedgerShapes, Pendings
<1>3. IsFiniteSet(1..(l.next - 1))
  BY <1>1, FS_Interval
<1>4. IsFiniteSet(DOMAIN l.pending) /\ Cardinality(DOMAIN l.pending) \in Nat
  BY <1>1, <1>3, FS_Subset, FS_CardinalityType
<1>5. \A id \in DOMAIN l.pending : l.pending[id] \in Nat
  BY <1>2, InputAssumption
<1>6. SumOf(l.pending) \in Nat
  BY <1>4, <1>5, SumFacts
<1>7. l.next \notin DOMAIN l.pending
  BY <1>1
<1> QED
  BY <1>1, <1>2, <1>4, <1>5, <1>6, <1>7

\* A usage of natural numbers, from its parts.
LEMMA UsageParts ==
  ASSUME NEW u \in UsageType
  PROVE  /\ u = [attempts |-> u.attempts, total |-> u.total,
                 reserved |-> u.reserved, settled |-> u.settled]
         /\ u.attempts \in Nat /\ u.total \in Nat /\ u.reserved \in Nat /\ u.settled \in Nat
         /\ Charged(u) \in Nat
  BY DEF UsageType, Charged

\* A ledger from its parts.
LEMMA MakeLedger ==
  ASSUME NEW r \in Nat, NEW n \in Nat \ {0}, NEW s \in UsageType, NEW g \in UsageType,
         NEW p, p \in [DOMAIN p -> Sizes], DOMAIN p \subseteq 1..(n - 1),
         Balanced(s, p), Balanced(g, p), s.attempts <= g.attempts, s.total <= g.total,
         g.attempts = n - 1
  PROVE  [rev |-> r, next |-> n, segment |-> s, lineage |-> g, pending |-> p] \in Ledgers
<1> DEFINE l == [rev |-> r, next |-> n, segment |-> s, lineage |-> g, pending |-> p]
<1>1. DOMAIN p \in SUBSET Nat
  OBVIOUS
<1>2. p \in Pendings
  BY <1>1 DEF Pendings
<1>3. l \in LedgerShapes
  BY <1>2 DEF LedgerShapes
<1>4. l.next = n /\ l.segment = s /\ l.lineage = g /\ l.pending = p
  OBVIOUS
<1> HIDE DEF l
<1> QED
  BY <1>3, <1>4 DEF Ledgers, l

\* Nothing in flight.
LEMMA NothingPending ==
  ASSUME NEW p, DOMAIN p = {}
  PROVE  SumOf(p) = 0 /\ Cardinality(DOMAIN p) = 0
<1>1. IsFiniteSet(DOMAIN p) /\ \A x \in DOMAIN p : p[x] \in Nat
  BY FS_EmptySet
<1> QED
  BY <1>1, SumFacts, FS_EmptySet

\* RunResourceLedger::new: a ledger with nothing in it.
LEMMA NewLedgerFacts ==
  /\ NewLedger \in Ledgers /\ NewLedger.next = 1 /\ NewLedger.rev = 0
  /\ DOMAIN NewLedger.pending = {} /\ NewLedger.segment = NoUsage
  /\ NoUsage.attempts = 0 /\ Charged(NoUsage) = 0 /\ NoUsage \in UsageType
<1>1. NoUsage \in UsageType /\ NoUsage.attempts = 0 /\ Charged(NoUsage) = 0
      /\ NoUsage.reserved = 0 /\ NoUsage.settled = 0 /\ NoUsage.total = 0
  BY DEF NoUsage, UsageType, Charged
<1>2. DOMAIN NoPending = {} /\ NoPending \in [DOMAIN NoPending -> Sizes]
  BY DEF NoPending
<1>3. Balanced(NoUsage, NoPending)
  BY <1>1, <1>2, NothingPending DEF Balanced
<1>4. NewLedger \in Ledgers
  <2>1. /\ 0 \in Nat /\ 1 \in Nat \ {0} /\ DOMAIN NoPending \subseteq 1..(1 - 1)
        /\ NoUsage.attempts <= NoUsage.attempts /\ NoUsage.total <= NoUsage.total
        /\ NoUsage.attempts = 1 - 1
    BY <1>1, <1>2
  <2>2. [rev |-> 0, next |-> 1, segment |-> NoUsage, lineage |-> NoUsage,
         pending |-> NoPending] \in Ledgers
    BY <1>1, <1>2, <1>3, <2>1, MakeLedger
  <2> QED
    BY <2>2 DEF NewLedger
<1> QED
  BY <1>1, <1>2, <1>4 DEF NewLedger

\* What a reservation changes of a usage.
LEMMA ReserveUsageFacts ==
  ASSUME NEW u \in UsageType, NEW size \in Nat
  PROVE  /\ ReserveUsage(u, size) \in UsageType
         /\ ReserveUsage(u, size).attempts = u.attempts + 1
         /\ ReserveUsage(u, size).reserved = u.reserved + size
         /\ ReserveUsage(u, size).total = u.total
         /\ ReserveUsage(u, size).settled = u.settled
         /\ Charged(ReserveUsage(u, size)) = Charged(u) + size
<1>1. /\ u.attempts \in Nat /\ u.total \in Nat /\ u.reserved \in Nat /\ u.settled \in Nat
  BY UsageParts
<1>2. /\ ReserveUsage(u, size).attempts = u.attempts + 1
      /\ ReserveUsage(u, size).reserved = u.reserved + size
      /\ ReserveUsage(u, size).total = u.total
      /\ ReserveUsage(u, size).settled = u.settled
  BY DEF ReserveUsage, UsageType
<1>3. ReserveUsage(u, size) \in UsageType
  <2>1. PICK a, r : a = u.attempts + 1 /\ r = u.reserved + size /\ a \in Nat /\ r \in Nat
    BY <1>1
  <2>2. ReserveUsage(u, size) = [u EXCEPT !.attempts = a, !.reserved = r]
    BY <2>1 DEF ReserveUsage, UsageType
  <2> QED
    BY <2>1, <2>2 DEF UsageType
<1> QED
  BY <1>1, <1>2, <1>3 DEF Charged

\* What a settlement changes of a usage.
LEMMA SettleUsageFacts ==
  ASSUME NEW u \in UsageType, NEW size \in Nat, NEW total \in Nat, size <= u.reserved
  PROVE  /\ SettleUsage(u, size, total) \in UsageType
         /\ SettleUsage(u, size, total).attempts = u.attempts
         /\ SettleUsage(u, size, total).reserved = u.reserved - size
         /\ SettleUsage(u, size, total).total = u.total + total
         /\ SettleUsage(u, size, total).settled = u.settled + 1
         /\ Charged(SettleUsage(u, size, total)) = (Charged(u) + total) - size
<1>1. /\ u.attempts \in Nat /\ u.total \in Nat /\ u.reserved \in Nat /\ u.settled \in Nat
  BY UsageParts
<1>2. /\ SettleUsage(u, size, total).attempts = u.attempts
      /\ SettleUsage(u, size, total).reserved = u.reserved - size
      /\ SettleUsage(u, size, total).total = u.total + total
      /\ SettleUsage(u, size, total).settled = u.settled + 1
  BY DEF SettleUsage, UsageType
<1>3. SettleUsage(u, size, total) \in UsageType
  <2>1. PICK r, t, d : /\ r = u.reserved - size /\ t = u.total + total /\ d = u.settled + 1
                       /\ r \in Nat /\ t \in Nat /\ d \in Nat
    BY <1>1
  <2>2. SettleUsage(u, size, total) = [u EXCEPT !.reserved = r, !.total = t, !.settled = d]
    BY <2>1 DEF SettleUsage, UsageType
  <2> QED
    BY <2>1, <2>2 DEF UsageType
<1> QED
  BY <1>1, <1>2, <1>3 DEF Charged

\* reserve: one more attempt, in flight, with the next number.
LEMMA ReserveFacts ==
  ASSUME NEW l \in Ledgers, NEW size \in Sizes
  PROVE  /\ Reserve(l, size) \in Ledgers
         /\ Reserve(l, size).rev = l.rev + 1 /\ Reserve(l, size).next = l.next + 1
         /\ DOMAIN Reserve(l, size).pending = DOMAIN l.pending \cup {l.next}
         /\ Reserve(l, size).segment.attempts = l.segment.attempts + 1
         /\ Charged(Reserve(l, size).segment) = Charged(l.segment) + size
<1> DEFINE p == [id \in DOMAIN l.pending \cup {l.next} |->
                   IF id = l.next THEN size ELSE l.pending[id]]
           s == ReserveUsage(l.segment, size)
           g == ReserveUsage(l.lineage, size)
<1>1. /\ l.rev \in Nat /\ l.next \in Nat \ {0}
      /\ l.segment \in UsageType /\ l.lineage \in UsageType
      /\ l.pending \in [DOMAIN l.pending -> Sizes]
      /\ IsFiniteSet(DOMAIN l.pending) /\ Cardinality(DOMAIN l.pending) \in Nat
      /\ DOMAIN l.pending \subseteq 1..(l.next - 1) /\ l.next \notin DOMAIN l.pending
      /\ \A id \in DOMAIN l.pending : l.pending[id] \in Nat
      /\ SumOf(l.pending) \in Nat
      /\ Balanced(l.segment, l.pending) /\ Balanced(l.lineage, l.pending)
      /\ l.segment.attempts <= l.lineage.attempts /\ l.segment.total <= l.lineage.total
      /\ l.lineage.attempts = l.next - 1
  BY LedgerParts
<1>2. size \in Nat
  BY InputAssumption
<1>3. \A u \in UsageType :
        /\ ReserveUsage(u, size) \in UsageType
        /\ ReserveUsage(u, size).attempts = u.attempts + 1
        /\ ReserveUsage(u, size).reserved = u.reserved + size
        /\ ReserveUsage(u, size).total = u.total
        /\ ReserveUsage(u, size).settled = u.settled
        /\ Charged(ReserveUsage(u, size)) = Charged(u) + size
  BY <1>2, ReserveUsageFacts
<1>4. DOMAIN p = DOMAIN l.pending \cup {l.next} /\ p \in [DOMAIN p -> Sizes]
      /\ p[l.next] = size /\ \A id \in DOMAIN l.pending : l.pending[id] = p[id]
  BY <1>1
<1> HIDE DEF p
<1>5. IsFiniteSet(DOMAIN p) /\ Cardinality(DOMAIN p) = Cardinality(DOMAIN l.pending) + 1
  BY <1>1, <1>4, FS_AddElement
<1>6. SumOf(p) = size + SumOf(l.pending)
  <2>1. l.next \in DOMAIN p /\ DOMAIN l.pending = DOMAIN p \ {l.next}
    BY <1>1, <1>4
  <2>2. \A x \in DOMAIN p : p[x] \in Nat
    BY <1>4, InputAssumption
  <2>3. SumOf(p) = p[l.next] + SumOf(l.pending)
    <3>1. PICK q : q = l.pending
      OBVIOUS
    <3>2. l.next \in DOMAIN p /\ DOMAIN q = DOMAIN p \ {l.next}
          /\ \A y \in DOMAIN q : q[y] = p[y]
      BY <1>4, <2>1, <3>1
    <3>3. SumOf(p) = p[l.next] + SumOf(q)
      BY <1>5, <2>2, <3>2, SumFacts
    <3> QED
      BY <3>1, <3>3
  <2> QED
    BY <1>4, <2>3
<1>7. \A u \in UsageType : Balanced(u, l.pending) => Balanced(ReserveUsage(u, size), p)
  <2> SUFFICES ASSUME NEW u \in UsageType, Balanced(u, l.pending)
               PROVE  Balanced(ReserveUsage(u, size), p)
    OBVIOUS
  <2>1. u.reserved = SumOf(l.pending) /\ u.attempts = u.settled + Cardinality(DOMAIN l.pending)
    BY DEF Balanced
  <2>2. u.settled \in Nat
    BY UsageParts
  <2>3. /\ ReserveUsage(u, size).reserved = u.reserved + size
        /\ ReserveUsage(u, size).attempts = u.attempts + 1
        /\ ReserveUsage(u, size).settled = u.settled
    BY <1>3
  <2>4. u.reserved + size = size + SumOf(l.pending)
    BY <1>1, <1>2, <2>1
  <2>5. u.attempts + 1 = u.settled + (Cardinality(DOMAIN l.pending) + 1)
    BY <1>1, <2>1, <2>2
  <2> QED
    BY <1>5, <1>6, <2>3, <2>4, <2>5 DEF Balanced
<1>8. s \in UsageType /\ g \in UsageType /\ Balanced(s, p) /\ Balanced(g, p)
      /\ s.attempts <= g.attempts /\ s.total <= g.total /\ g.attempts = (l.next + 1) - 1
  <2>1. l.segment.attempts \in Nat /\ l.lineage.attempts \in Nat
    BY <1>1, UsageParts
  <2> QED
    BY <1>1, <1>3, <1>7, <2>1
<1>9. l.rev + 1 \in Nat /\ l.next + 1 \in Nat \ {0} /\ DOMAIN p \subseteq 1..((l.next + 1) - 1)
  BY <1>1, <1>4
<1>10. Reserve(l, size) = [rev |-> l.rev + 1, next |-> l.next + 1, segment |-> s,
                           lineage |-> g, pending |-> p]
  BY DEF Reserve, p
<1> HIDE DEF s, g
<1>11. [rev |-> l.rev + 1, next |-> l.next + 1, segment |-> s,
        lineage |-> g, pending |-> p] \in Ledgers
  BY <1>4, <1>8, <1>9, MakeLedger
<1>12. s.attempts = l.segment.attempts + 1 /\ Charged(s) = Charged(l.segment) + size
  BY <1>1, <1>3 DEF s
<1> QED
  BY <1>4, <1>10, <1>11, <1>12

\* What a settlement charges.
Used(l, id, usage) == IF usage = Unknown THEN l.pending[id] ELSE usage

\* settle: the attempt is no longer in flight; its reservation is replaced by what
\* the provider used.
LEMMA SettleFacts ==
  ASSUME NEW l \in Ledgers, NEW id \in DOMAIN l.pending, NEW usage \in Usages \cup {Unknown}
  PROVE  /\ Settle(l, id, usage) \in Ledgers
         /\ Settle(l, id, usage).rev = l.rev + 1 /\ Settle(l, id, usage).next = l.next
         /\ DOMAIN Settle(l, id, usage).pending = DOMAIN l.pending \ {id}
         /\ Settle(l, id, usage).segment.attempts = l.segment.attempts
         /\ Charged(Settle(l, id, usage).segment)
              = (Charged(l.segment) + Used(l, id, usage)) - l.pending[id]
         /\ Used(l, id, usage) \in Nat /\ l.pending[id] \in Nat
<1>1. PICK p, size, total : p = Restrict(l.pending, DOMAIN l.pending \ {id})
                            /\ size = l.pending[id] /\ total = Used(l, id, usage)
  OBVIOUS
<1>2. /\ l.rev \in Nat /\ l.next \in Nat \ {0}
      /\ l.segment \in UsageType /\ l.lineage \in UsageType
      /\ l.pending \in [DOMAIN l.pending -> Sizes]
      /\ IsFiniteSet(DOMAIN l.pending) /\ Cardinality(DOMAIN l.pending) \in Nat
      /\ DOMAIN l.pending \subseteq 1..(l.next - 1)
      /\ \A x \in DOMAIN l.pending : l.pending[x] \in Nat
      /\ Balanced(l.segment, l.pending) /\ Balanced(l.lineage, l.pending)
      /\ l.segment.attempts <= l.lineage.attempts /\ l.segment.total <= l.lineage.total
      /\ l.lineage.attempts = l.next - 1
  BY LedgerParts
<1>3. size \in Nat /\ total \in Nat
  BY <1>1, <1>2, InputAssumption DEF Used
<1>4. DOMAIN p = DOMAIN l.pending \ {id} /\ (\A x \in DOMAIN p : p[x] = l.pending[x])
      /\ p \in [DOMAIN p -> Sizes]
  BY <1>1, <1>2 DEF Restrict
<1>5. Cardinality(DOMAIN p) = Cardinality(DOMAIN l.pending) - 1 /\ IsFiniteSet(DOMAIN p)
      /\ Cardinality(DOMAIN p) \in Nat
  BY <1>2, <1>4, SmallerPart
<1>6. SumOf(l.pending) = size + SumOf(p) /\ SumOf(p) \in Nat
  <2>1. PICK q : q = l.pending
    OBVIOUS
  <2>2. IsFiniteSet(DOMAIN q) /\ (\A x \in DOMAIN q : q[x] \in Nat)
        /\ id \in DOMAIN q /\ DOMAIN p = DOMAIN q \ {id} /\ \A y \in DOMAIN p : p[y] = q[y]
    BY <1>2, <1>4, <2>1
  <2>3. SumOf(q) = q[id] + SumOf(p)
    BY <2>2, SumFacts
  <2>4. \A x \in DOMAIN p : p[x] \in Nat
    BY <1>4, <1>2
  <2>5. SumOf(p) \in Nat
    BY <1>5, <2>4, SumFacts
  <2> QED
    BY <1>1, <2>1, <2>3, <2>5
<1>7. ASSUME NEW u \in UsageType, Balanced(u, l.pending)
      PROVE  size <= u.reserved /\ Balanced(SettleUsage(u, size, total), p)
  <2>1. u.reserved = size + SumOf(p) /\ u.attempts = u.settled + Cardinality(DOMAIN l.pending)
    BY <1>6, <1>7 DEF Balanced
  <2>2. size <= u.reserved /\ u.settled \in Nat
    BY <1>3, <1>6, <2>1, UsageParts
  <2>3. /\ SettleUsage(u, size, total).attempts = u.attempts
        /\ SettleUsage(u, size, total).reserved = u.reserved - size
        /\ SettleUsage(u, size, total).settled = u.settled + 1
    BY <1>3, <2>2, SettleUsageFacts
  <2>4. u.reserved - size = SumOf(p)
    BY <1>3, <1>6, <2>1
  <2>5. u.attempts = (u.settled + 1) + Cardinality(DOMAIN p)
    BY <1>2, <1>5, <2>1, <2>2
  <2> QED
    BY <2>2, <2>3, <2>4, <2>5 DEF Balanced
<1>8. PICK s, g : s = SettleUsage(l.segment, size, total) /\ g = SettleUsage(l.lineage, size, total)
  OBVIOUS
<1>9. /\ s \in UsageType /\ g \in UsageType /\ Balanced(s, p) /\ Balanced(g, p)
      /\ s.attempts = l.segment.attempts /\ g.attempts = l.lineage.attempts
      /\ s.total = l.segment.total + total /\ g.total = l.lineage.total + total
      /\ Charged(s) = (Charged(l.segment) + total) - size
  BY <1>2, <1>3, <1>7, <1>8, SettleUsageFacts
<1>10. s.attempts <= g.attempts /\ s.total <= g.total /\ g.attempts = l.next - 1
       /\ l.rev + 1 \in Nat /\ DOMAIN p \subseteq 1..(l.next - 1)
  <2>1. l.segment.total \in Nat /\ l.lineage.total \in Nat
    BY <1>2, UsageParts
  <2> QED
    BY <1>2, <1>3, <1>4, <1>9, <2>1
<1>11. Settle(l, id, usage) = [rev |-> l.rev + 1, next |-> l.next, segment |-> s,
                               lineage |-> g, pending |-> p]
  BY <1>1, <1>8 DEF Settle, Used
<1>12. [rev |-> l.rev + 1, next |-> l.next, segment |-> s, lineage |-> g, pending |-> p]
         \in Ledgers
  BY <1>2, <1>4, <1>9, <1>10, MakeLedger
<1> QED
  BY <1>1, <1>3, <1>4, <1>9, <1>11, <1>12

\* settle_all_pending_as_unknown: nothing is in flight and nothing is forgotten.
LEMMA SettleAllFacts ==
  ASSUME NEW l \in Ledgers
  PROVE  /\ SettleAllPendingAsUnknown(l) \in Ledgers
         /\ SettleAllPendingAsUnknown(l).next = l.next
         /\ DOMAIN SettleAllPendingAsUnknown(l).pending = {}
         /\ SettleAllPendingAsUnknown(l).segment.attempts = l.segment.attempts
         /\ Charged(SettleAllPendingAsUnknown(l).segment) = Charged(l.segment)
         /\ DOMAIN l.pending = {} => SettleAllPendingAsUnknown(l) = l
<1>1. CASE DOMAIN l.pending = {}
  BY <1>1 DEF SettleAllPendingAsUnknown
<1>2. CASE DOMAIN l.pending # {}
  <2>1. /\ l.rev \in Nat /\ l.next \in Nat \ {0}
        /\ l.segment \in UsageType /\ l.lineage \in UsageType
        /\ Cardinality(DOMAIN l.pending) \in Nat /\ SumOf(l.pending) \in Nat
        /\ Balanced(l.segment, l.pending) /\ Balanced(l.lineage, l.pending)
        /\ l.segment.attempts <= l.lineage.attempts /\ l.segment.total <= l.lineage.total
        /\ l.lineage.attempts = l.next - 1
    BY LedgerParts
  <2>2. DOMAIN NoPending = {} /\ NoPending \in [DOMAIN NoPending -> Sizes]
    BY DEF NoPending
  <2>3. SumOf(NoPending) = 0 /\ Cardinality(DOMAIN NoPending) = 0
    BY <2>2, NothingPending
  <2>4. ASSUME NEW u \in UsageType, Balanced(u, l.pending)
        PROVE  /\ SettleAllUsage(u, l.pending) \in UsageType
               /\ Balanced(SettleAllUsage(u, l.pending), NoPending)
               /\ SettleAllUsage(u, l.pending).attempts = u.attempts
               /\ SettleAllUsage(u, l.pending).total = u.total + SumOf(l.pending)
               /\ Charged(SettleAllUsage(u, l.pending)) = Charged(u)
    <3>1. PICK a, b : a = SumOf(l.pending) /\ b = Cardinality(DOMAIN l.pending)
      OBVIOUS
    <3>2. u.reserved = a /\ u.attempts = u.settled + b /\ a \in Nat /\ b \in Nat
      BY <2>1, <2>4, <3>1 DEF Balanced
    <3>3. u.attempts \in Nat /\ u.total \in Nat /\ u.settled \in Nat
      BY UsageParts
    <3>4. /\ SettleAllUsage(u, l.pending).attempts = u.attempts
          /\ SettleAllUsage(u, l.pending).total = u.total + a
          /\ SettleAllUsage(u, l.pending).reserved = u.reserved - a
          /\ SettleAllUsage(u, l.pending).settled = u.settled + b
      BY <3>1 DEF SettleAllUsage, UsageType
    <3>5. SettleAllUsage(u, l.pending) \in UsageType
      <4>1. PICK r, t, d : /\ r = u.reserved - a /\ t = u.total + a /\ d = u.settled + b
                           /\ r \in Nat /\ t \in Nat /\ d \in Nat
        BY <3>2, <3>3
      <4>2. SettleAllUsage(u, l.pending)
              = [u EXCEPT !.reserved = r, !.total = t, !.settled = d]
        BY <3>1, <4>1 DEF SettleAllUsage, UsageType
      <4> QED
        BY <4>1, <4>2 DEF UsageType
    <3> QED
      BY <2>3, <3>1, <3>2, <3>3, <3>4, <3>5 DEF Balanced, Charged
  <2>5. PICK s, g : s = SettleAllUsage(l.segment, l.pending)
                    /\ g = SettleAllUsage(l.lineage, l.pending)
    OBVIOUS
  <2>6. /\ s \in UsageType /\ g \in UsageType /\ Balanced(s, NoPending) /\ Balanced(g, NoPending)
        /\ s.attempts = l.segment.attempts /\ g.attempts = l.lineage.attempts
        /\ s.total = l.segment.total + SumOf(l.pending)
        /\ g.total = l.lineage.total + SumOf(l.pending)
        /\ Charged(s) = Charged(l.segment)
    BY <2>1, <2>4, <2>5
  <2>7. s.attempts <= g.attempts /\ s.total <= g.total /\ g.attempts = l.next - 1
        /\ l.rev + 1 \in Nat /\ DOMAIN NoPending \subseteq 1..(l.next - 1)
    <3>1. l.segment.total \in Nat /\ l.lineage.total \in Nat
      BY <2>1, UsageParts
    <3> QED
      BY <2>1, <2>2, <2>6, <3>1
  <2>8. SettleAllPendingAsUnknown(l)
          = [rev |-> l.rev + 1, next |-> l.next, segment |-> s, lineage |-> g,
             pending |-> NoPending]
    BY <1>2, <2>5 DEF SettleAllPendingAsUnknown
  <2>9. [rev |-> l.rev + 1, next |-> l.next, segment |-> s, lineage |-> g,
         pending |-> NoPending] \in Ledgers
    BY <2>1, <2>2, <2>6, <2>7, MakeLedger
  <2> QED
    BY <1>2, <2>2, <2>6, <2>8, <2>9
<1> QED
  BY <1>1, <1>2

\* start_new_segment: the segment begins at nothing, the lineage goes on.
LEMMA NewSegmentFacts ==
  ASSUME NEW l \in Ledgers
  PROVE  /\ StartNewSegment(l) \in Ledgers
         /\ StartNewSegment(l).next = l.next
         /\ DOMAIN StartNewSegment(l).pending = {}
         /\ StartNewSegment(l).segment = NoUsage
<1>1. PICK k : k = SettleAllPendingAsUnknown(l)
  OBVIOUS
<1>2. k \in Ledgers /\ k.next = l.next /\ DOMAIN k.pending = {}
  BY <1>1, SettleAllFacts
<1>3. /\ k.rev \in Nat /\ k.next \in Nat \ {0} /\ k.lineage \in UsageType
      /\ k.pending \in [DOMAIN k.pending -> Sizes] /\ Balanced(k.lineage, k.pending)
      /\ DOMAIN k.pending \subseteq 1..(k.next - 1) /\ k.lineage.attempts = k.next - 1
  BY <1>2, LedgerParts
<1>4. StartNewSegment(l) = [k EXCEPT !.segment = NoUsage, !.rev = @ + 1]
  BY <1>1 DEF StartNewSegment
<1>5. PICK m : m = [rev |-> k.rev + 1, next |-> k.next, segment |-> NoUsage,
                    lineage |-> k.lineage, pending |-> k.pending]
  OBVIOUS
<1>6. StartNewSegment(l) = m
  BY <1>2, <1>4, <1>5 DEF Ledgers, LedgerShapes
<1>7. Balanced(NoUsage, k.pending) /\ NoUsage \in UsageType
      /\ NoUsage.attempts = 0 /\ NoUsage.total = 0
  <2>1. SumOf(k.pending) = 0 /\ Cardinality(DOMAIN k.pending) = 0
    BY <1>2, NothingPending
  <2> QED
    BY <2>1 DEF Balanced, NoUsage, UsageType
<1>8. NoUsage.attempts <= k.lineage.attempts /\ NoUsage.total <= k.lineage.total
      /\ k.rev + 1 \in Nat
  BY <1>3, <1>7, UsageParts
<1>9. m \in Ledgers
  BY <1>3, <1>5, <1>7, <1>8, MakeLedger
<1>10. m.next = k.next /\ m.pending = k.pending /\ m.segment = NoUsage
  BY <1>5
<1> QED
  BY <1>2, <1>6, <1>9, <1>10

\* Ledgers are what the type invariant asks of them.
LEMMA LedgersAreLedgers ==
  ASSUME NEW l \in Ledgers PROVE IsLedger(l)
  BY LedgerParts DEF IsLedger
-----------------------------------------------------------------------------
(* Frames: what is left of the invariant when little changes.              *)

\* Spending allowed in a segment is allowed when more has overrun or the
\* finalizer has begun; an empty segment has room for the reserve.
LEMMA WithinFacts ==
  /\ \A l \in Ledgers, o \in Nat, x \in Nat, f \in BOOLEAN, g \in BOOLEAN :
       Within(l, o, f) /\ (f => g) => Within(l, o + x, g)
  /\ \A l \in Ledgers, o \in Nat, f \in BOOLEAN : l.segment = NoUsage => Within(l, o, f)
<1>1. ASSUME NEW l \in Ledgers, NEW o \in Nat, NEW x \in Nat, NEW f \in BOOLEAN,
             NEW g \in BOOLEAN, Within(l, o, f), f => g
      PROVE  Within(l, o + x, g)
  <2>1. Charged(l.segment) \in Nat /\ l.segment.attempts \in Nat
    BY LedgerParts, UsageParts
  <2> QED
    BY <1>1, <2>1, BudgetAssumption DEF Within
<1>2. ASSUME NEW l \in Ledgers, NEW o \in Nat, NEW f \in BOOLEAN, l.segment = NoUsage
      PROVE  Within(l, o, f)
  BY <1>2, NewLedgerFacts, BudgetAssumption DEF Within
<1> QED
  BY <1>1, <1>2

\* The copies in the callers' hands and on disk are ledgers.
LEMMA TakenFacts ==
  ASSUME LedgerTypes
  PROVE  /\ \A k \in Taken : k \in Ledgers /\ k.rev \in Nat /\ k.next \in Nat
         /\ ledger \in Ledgers /\ ledger.rev \in Nat /\ ledger.next \in Nat
         /\ Durable \in Ledgers /\ Durable.next \in Nat
         /\ envelope.copy.ledger \in Ledgers /\ envelope.copy.ledger.next \in Nat
<1>1. \A k \in Taken : k \in Ledgers
  BY DEF LedgerTypes, Taken, Copies, Attempts
<1>2. ledger \in Ledgers /\ Durable \in Ledgers /\ envelope.copy.ledger \in Ledgers
  BY DEF LedgerTypes, Durable, Copies
<1> QED
  BY <1>1, <1>2, LedgerParts

\* No new copy is taken, and a new holder has the number the next attempt had.
LEMMA OrderKept ==
  ASSUME LedgerTypes, LedgerTypes', CopiesAreOrdered, Taken' \subseteq Taken,
         ledger' = ledger \/ (ledger'.rev > ledger.rev /\ ledger'.next >= ledger.next),
         \A c \in Holders' : \/ c \in Holders /\ caller'[c].id = caller[c].id
                             \/ caller'[c].id >= ledger.next,
         \A c \in Callers : Copying(c)' => caller'[c] = caller[c],
         envelope' = envelope
  PROVE  CopiesAreOrdered'
<1>0. /\ \A k \in Taken : k \in Ledgers /\ k.rev \in Nat /\ k.next \in Nat
      /\ ledger.rev \in Nat /\ ledger.next \in Nat /\ envelope.copy.ledger.next \in Nat
      /\ ledger'.rev \in Nat /\ ledger'.next \in Nat
  <2>1. ledger' \in Ledgers
    BY DEF LedgerTypes
  <2> QED
    BY <2>1, TakenFacts, LedgerParts
<1>1. \A c \in Holders' : caller'[c].id \in Nat
  BY DEF LedgerTypes, Attempts, Holders
<1>2. ledger'.rev >= ledger.rev /\ ledger'.next >= ledger.next
  BY <1>0
<1>3. ASSUME NEW k \in Taken'
      PROVE  /\ k.rev <= ledger'.rev /\ k.next <= ledger'.next
             /\ k.rev = ledger'.rev => k.next = ledger'.next
             /\ \A m \in Taken' : k.rev <= m.rev => k.next <= m.next
             /\ \A c \in Holders' : caller'[c].id < k.next => caller'[c].id \in DOMAIN k.pending
  <2>1. /\ k \in Taken /\ k.rev <= ledger.rev /\ k.next <= ledger.next
        /\ k.rev = ledger.rev => k.next = ledger.next
        /\ \A m \in Taken : k.rev <= m.rev => k.next <= m.next
        /\ \A c \in Holders : caller[c].id < k.next => caller[c].id \in DOMAIN k.pending
    BY <1>3 DEF CopiesAreOrdered
  <2>2. k.rev \in Nat /\ k.next \in Nat
    BY <1>0, <2>1
  <2>3. k.rev <= ledger'.rev /\ k.next <= ledger'.next
    BY <1>0, <1>2, <2>1, <2>2
  <2>4. k.rev = ledger'.rev => k.next = ledger'.next
    BY <1>0, <2>1, <2>2
  <2>5. ASSUME NEW c \in Holders', caller'[c].id < k.next PROVE caller'[c].id \in DOMAIN k.pending
    <3>1. ~(caller'[c].id >= ledger.next)
      BY <1>0, <1>1, <2>1, <2>2, <2>5
    <3> QED
      BY <2>1, <2>5, <3>1
  <2> QED
    BY <2>1, <2>3, <2>4, <2>5
<1>4. ASSUME NEW c \in Callers
      PROVE  /\ Copying(c)' => caller'[c].copy.next >= envelope'.copy.ledger.next
             /\ caller'[c].at = "recording" => caller'[c].id < caller'[c].copy.next
  <2>1. caller'[c].at = "recording" => Copying(c)'
    BY DEF Copying
  <2>2. Copying(c)' => caller'[c] = caller[c] /\ Copying(c)
    BY DEF Copying
  <2> QED
    BY <2>1, <2>2 DEF CopiesAreOrdered
<1>5. ledger'.next >= envelope'.copy.ledger.next
  BY <1>0, <1>2 DEF CopiesAreOrdered
<1> QED
  BY <1>3, <1>4, <1>5 DEF CopiesAreOrdered

\* The callers that have not sent their attempt are among the holders.
LEMMA UnsentFacts ==
  ASSUME HandsAgree, CallersAgree, NEW n
  PROVE  IsFiniteSet(Unsent(n)) /\ Cardinality(Unsent(n)) \in Nat
<1>1. Unsent(n) \subseteq Holders
  BY DEF Unsent, Holders, Holds, Callers
<1> QED
  BY <1>1, FS_Subset, FS_CardinalityType DEF HandsAgree

\* Nothing is sent, and nobody begins to wait.
LEMMA NumbersKept ==
  ASSUME LedgerTypes, LedgerTypes', HandsAgree, CallersAgree, SentAreNumbered,
         ledger'.next = ledger.next, base' = base, sent' = sent,
         Durable'.next >= Durable.next,
         \A n \in Nat : Unsent(n)' \subseteq Unsent(n)
  PROVE  SentAreNumbered'
<1>0. Durable.next \in Nat /\ Durable'.next \in Nat /\ ledger.next \in Nat
      /\ base \in Nat /\ sent \in Nat
  <2>1. Durable.next \in Nat /\ ledger.next \in Nat
    BY TakenFacts
  <2>2. Durable' \in Ledgers
    BY DEF LedgerTypes, Durable, Copies
  <2> QED
    BY <2>1, <2>2, LedgerParts DEF LedgerTypes
<1>1. ASSUME NEW n \in (base' + 1)..ledger'.next, sent' > 0 => Durable'.next <= n
      PROVE  base' + sent' + Cardinality(Unsent(n)') <= n - 1
  <2>1. n \in Nat /\ n \in (base + 1)..ledger.next
    BY <1>0
  <2>2. sent > 0 => Durable.next <= n
    BY <1>0, <1>1, <2>1
  <2>3. base + sent + Cardinality(Unsent(n)) <= n - 1
    BY <2>1, <2>2 DEF SentAreNumbered
  <2>4. IsFiniteSet(Unsent(n)) /\ Cardinality(Unsent(n)) \in Nat
    BY UnsentFacts
  <2>5. Cardinality(Unsent(n)') \in Nat /\ Cardinality(Unsent(n)') <= Cardinality(Unsent(n))
    BY <2>1, <2>4, FS_Subset, FS_CardinalityType
  <2> QED
    BY <1>0, <2>1, <2>3, <2>4, <2>5
<1>2. base' + 1 <= ledger'.next
  BY DEF SentAreNumbered
<1> QED
  BY <1>1, <1>2 DEF SentAreNumbered
-----------------------------------------------------------------------------
(* One lemma per action, or per group that changes the state alike.        *)

\* Callers come and go without an attempt, and the run is steered or stopped.
LEMMA QuietStep ==
  ASSUME LedgerInv,
         run' \in [id : 1..MaxRuns, stop : {"no", "other", "resources"},
                   epoch : 0..MaxSteers, applied : 0..MaxSteers], run'.id = run.id,
         caller' \in [Callers -> Attempts],
         \A c \in Callers :
           \/ caller'[c] = caller[c]
           \/ /\ phase = "running" /\ caller[c].at \in {"idle", "ready"}
              /\ caller'[c].at \in {"idle", "ready"} /\ caller'[c].copy = NewLedger,
         UNCHANGED <<ledger, phase, suspended, durableVars, historyVars>>
  PROVE  LedgerInv'
<1> USE DEF durableVars, historyVars
<1>1. LedgerTypes /\ LedgerTypes'
  BY DEF LedgerInv, LedgerTypes
<1>2. \A c \in Callers : /\ Holds(c)' <=> Holds(c)
                         /\ Copying(c)' <=> Copying(c)
                         /\ Holds(c) \/ Copying(c) => caller'[c] = caller[c]
  BY DEF Holds, Copying
<1>3. Holders' = Holders
  BY <1>2 DEF Holders
<1>4. Taken' = Taken
  BY <1>2 DEF Taken
<1>5. \A n \in Nat : Unsent(n)' = Unsent(n)
  <2> SUFFICES ASSUME NEW n \in Nat PROVE Unsent(n)' = Unsent(n)
    OBVIOUS
  <2>1. \A c \in Recorders : c \in Unsent(n)' <=> c \in Unsent(n)
    <3> TAKE c \in Recorders
    <3>1. c \in Callers
      BY DEF Callers
    <3> QED
      BY <3>1 DEF Unsent
  <2> QED
    BY <2>1 DEF Unsent
<1>6. Durable' = Durable
  BY DEF Durable
<1>7. PhasesAgree'
  BY DEF LedgerInv, PhasesAgree
<1>8. CallersAgree'
  <2>1. \A c \in Callers : ~Copying(c)' => caller'[c].copy = NewLedger
    BY <1>2 DEF LedgerInv, CallersAgree
  <2>2. \A c \in Children : caller'[c].at \in {"idle", "ready", "calling"}
    BY DEF LedgerInv, CallersAgree, Callers
  <2> QED
    BY <2>1, <2>2 DEF CallersAgree
<1>9. HandsAgree'
  <2>1. \A c \in Holders : caller'[c] = caller[c]
    BY <1>2 DEF Holders
  <2> QED
    BY <1>3, <2>1 DEF LedgerInv, HandsAgree
<1>10. Live' => CopiesAreOrdered' /\ SentAreNumbered'
  <2> SUFFICES ASSUME Live' PROVE CopiesAreOrdered' /\ SentAreNumbered'
    OBVIOUS
  <2>1. CopiesAreOrdered /\ SentAreNumbered /\ HandsAgree /\ CallersAgree
    BY DEF LedgerInv, Live
  <2>2. \A c \in Holders' : c \in Holders /\ caller'[c].id = caller[c].id
    BY <1>2, <1>3 DEF Holders
  <2>3. CopiesAreOrdered'
    BY <1>1, <1>2, <1>4, <2>1, <2>2, OrderKept
  <2>4. Durable.next \in Nat
    BY <1>1, TakenFacts
  <2>5. Durable'.next >= Durable.next /\ \A n \in Nat : Unsent(n)' \subseteq Unsent(n)
    BY <1>5, <1>6, <2>4
  <2>6. SentAreNumbered'
    BY <1>1, <2>1, <2>5, NumbersKept
  <2> QED
    BY <2>3, <2>6
<1>11. DispatchIsRecorded'
  <2>1. \A c \in Recorders : caller'[c].at = "calling" => caller'[c] = caller[c]
    BY DEF Callers
  <2> QED
    BY <2>1 DEF LedgerInv, DispatchIsRecorded
<1>12. SentAreDurable'
  BY <1>6 DEF LedgerInv, SentAreDurable
<1>13. SpendingIsWithin'
  <2>1. \A c \in Callers : caller'[c].copy = caller[c].copy
    BY DEF LedgerInv, CallersAgree, Copying
  <2> QED
    BY <2>1 DEF LedgerInv, SpendingIsWithin
<1> QED
  BY <1>1, <1>7, <1>8, <1>9, <1>10, <1>11, <1>12, <1>13 DEF LedgerInv

\* Steers and stops.
LEMMA RunQuiet ==
  ASSUME LedgerInv, RequestSteer \/ ApplySteer \/ OtherStop
  PROVE  LedgerInv'
<1>1. run \in [id : 1..MaxRuns, stop : {"no", "other", "resources"},
               epoch : 0..MaxSteers, applied : 0..MaxSteers] /\ caller \in [Callers -> Attempts]
  BY DEF LedgerInv, LedgerTypes
<1>2. run' \in [id : 1..MaxRuns, stop : {"no", "other", "resources"},
                epoch : 0..MaxSteers, applied : 0..MaxSteers] /\ run'.id = run.id
  BY <1>1, InputAssumption DEF RequestSteer, ApplySteer, OtherStop
<1>3. UNCHANGED <<ledger, caller, phase, suspended, durableVars, historyVars>>
  BY DEF RequestSteer, ApplySteer, OtherStop
<1> QED
  BY <1>1, <1>2, <1>3, QuietStep

\* Calls that begin and calls that are refused.
LEMMA CallerQuiet ==
  ASSUME LedgerInv, NEW c \in Callers,
         \/ BeginCall(c) \/ RefuseStopped(c) \/ RefuseSuperseded(c)
         \/ \E class \in Classes(c), size \in Sizes : RefuseReserve(c, class, size)
  PROVE  LedgerInv'
<1>1. run \in [id : 1..MaxRuns, stop : {"no", "other", "resources"},
               epoch : 0..MaxSteers, applied : 0..MaxSteers] /\ caller \in [Callers -> Attempts]
  BY DEF LedgerInv, LedgerTypes
<1>2. NoAttempt \in Attempts /\ NoAttempt.at = "idle" /\ NoAttempt.copy = NewLedger
  BY NewLedgerFacts, InputAssumption DEF NoAttempt, Attempts
<1>3. PICK a \in Attempts : /\ a.at \in {"idle", "ready"} /\ a.copy = NewLedger
                            /\ caller' = [caller EXCEPT ![c] = a]
  <2>1. CASE BeginCall(c)
    <3>1. PICK e : e = run.epoch /\ e \in 0..MaxSteers
      BY <1>1
    <3>2. PICK a : a = [NoAttempt EXCEPT !.at = "ready", !.epoch = e]
      OBVIOUS
    <3>3. a \in Attempts /\ a.at = "ready" /\ a.copy = NewLedger
      BY <1>2, <3>1, <3>2 DEF Attempts
    <3>4. caller' = [caller EXCEPT ![c] = a]
      BY <2>1, <3>1, <3>2 DEF BeginCall
    <3> QED
      BY <3>3, <3>4
  <2>2. CASE ~BeginCall(c)
    BY <1>2, <2>2 DEF RefuseStopped, RefuseSuperseded, RefuseReserve
  <2> QED
    BY <2>1, <2>2
<1>4. caller' \in [Callers -> Attempts]
  BY <1>1, <1>3
<1>5. caller[c].at \in {"idle", "ready"} /\ phase = "running"
  BY DEF LedgerInv, PhasesAgree, BeginCall, RefuseStopped, RefuseSuperseded, RefuseReserve
<1>6. \A d \in Callers :
        \/ caller'[d] = caller[d]
        \/ /\ phase = "running" /\ caller[d].at \in {"idle", "ready"}
           /\ caller'[d].at \in {"idle", "ready"} /\ caller'[d].copy = NewLedger
  BY <1>1, <1>3, <1>5
<1>7. run' \in [id : 1..MaxRuns, stop : {"no", "other", "resources"},
                epoch : 0..MaxSteers, applied : 0..MaxSteers] /\ run'.id = run.id
  BY <1>1 DEF BeginCall, RefuseStopped, RefuseSuperseded, RefuseReserve
<1>8. UNCHANGED <<ledger, phase, suspended, durableVars, historyVars>>
  BY DEF BeginCall, RefuseStopped, RefuseSuperseded, RefuseReserve
<1> QED
  BY <1>4, <1>6, <1>7, <1>8, QuietStep

\* A caller takes a copy of the ledger under the control lock.
LEMMA ReadStep ==
  ASSUME LedgerInv, NEW c \in Callers, ReadUsage(c)
  PROVE  LedgerInv'
<1> USE DEF durableVars, historyVars
<1>1. /\ caller[c].at \in {"reserved", "settled"} /\ caller \in [Callers -> Attempts]
      /\ ledger \in Ledgers /\ phase = "running" /\ c \notin Children
      /\ UNCHANGED <<ledger, run, phase, suspended, checkpoint, envelope, base, sent, overrun,
                     finals>>
  BY DEF LedgerInv, LedgerTypes, PhasesAgree, CallersAgree, ReadUsage
<1>2. /\ caller'[c].at = IF caller[c].at = "reserved" THEN "recording" ELSE "closing"
      /\ caller'[c].copy = ledger /\ caller'[c].id = caller[c].id
      /\ \A d \in Callers : d # c => caller'[d] = caller[d]
  BY <1>1 DEF ReadUsage, Attempts
<1>3. caller' \in [Callers -> Attempts]
  <2>1. PICK a : a = [caller[c] EXCEPT
                        !.at = IF caller[c].at = "reserved" THEN "recording" ELSE "closing",
                        !.copy = ledger]
    OBVIOUS
  <2>2. a \in Attempts
    BY <1>1, <2>1 DEF Attempts
  <2>3. caller' = [caller EXCEPT ![c] = a]
    BY <1>1, <2>1 DEF ReadUsage
  <2> QED
    BY <1>1, <2>2, <2>3
<1>4. LedgerTypes /\ LedgerTypes'
  BY <1>1, <1>3 DEF LedgerInv, LedgerTypes
<1>5. \A d \in Callers : /\ Holds(d)' <=> Holds(d)
                         /\ caller'[d].id = caller[d].id
                         /\ Copying(d)' <=> (Copying(d) \/ d = c)
  BY <1>1, <1>2 DEF Holds, Copying
<1>6. Holders' = Holders
  BY <1>5 DEF Holders
<1>7. Taken' = Taken \cup {ledger}
  <2>1. ~Copying(c)
    BY <1>1 DEF Copying
  <2> QED
    BY <1>1, <1>2, <1>5, <2>1 DEF Taken
<1>8. \A n \in Nat : Unsent(n)' \subseteq Unsent(n)
  BY <1>1, <1>2 DEF Unsent, Callers
<1>9. Durable' = Durable
  BY <1>1 DEF Durable
<1>10. PhasesAgree'
  BY <1>1 DEF LedgerInv, PhasesAgree
<1>11. CallersAgree'
  <2>1. \A d \in Callers : ~Copying(d)' => caller'[d].copy = NewLedger
    BY <1>2, <1>5 DEF LedgerInv, CallersAgree
  <2>2. \A d \in Children : d \in Callers /\ d # c
    BY <1>1 DEF Callers
  <2>3. \A d \in Children : caller'[d].at \in {"idle", "ready", "calling"}
    BY <1>2, <2>2 DEF LedgerInv, CallersAgree
  <2> QED
    BY <2>1, <2>3 DEF CallersAgree
<1>12. HandsAgree'
  <2>1. \A d \in Holders : caller'[d].id = caller[d].id
    BY <1>5 DEF Holders
  <2> QED
    BY <1>1, <1>6, <2>1 DEF LedgerInv, HandsAgree
<1>13. CopiesAreOrdered /\ SentAreNumbered /\ HandsAgree /\ CallersAgree
  BY <1>1 DEF LedgerInv, Live
<1>14. CopiesAreOrdered'
  <2>1. /\ \A k \in Taken : k.rev \in Nat /\ k.next \in Nat
        /\ ledger.rev \in Nat /\ ledger.next \in Nat
    BY <1>4, TakenFacts
  <2>2. \A d \in Holders : caller[d].id \in DOMAIN ledger.pending
    BY <1>13 DEF HandsAgree
  <2>3. \A k \in Taken : /\ k.rev <= ledger.rev /\ k.next <= ledger.next
                         /\ k.rev = ledger.rev => k.next = ledger.next
    BY <1>13 DEF CopiesAreOrdered
  <2>4. \A k, m \in Taken : k.rev <= m.rev => k.next <= m.next
    BY <1>13 DEF CopiesAreOrdered
  <2>5. \A k \in Taken, d \in Holders : caller[d].id < k.next => caller[d].id \in DOMAIN k.pending
    BY <1>13 DEF CopiesAreOrdered
  <2>6. \A k \in Taken' : /\ k.rev <= ledger.rev /\ k.next <= ledger.next
                          /\ k.rev = ledger.rev => k.next = ledger.next
    BY <1>7, <2>1, <2>3
  <2>7. \A k, m \in Taken' : k.rev <= m.rev => k.next <= m.next
    <3> SUFFICES ASSUME NEW k \in Taken', NEW m \in Taken', k.rev <= m.rev PROVE k.next <= m.next
      OBVIOUS
    <3>1. CASE k = ledger
      <4>1. m.rev \in Nat /\ m.next \in Nat /\ m.rev <= ledger.rev
        BY <1>7, <2>1, <2>3
      <4>2. m.rev = ledger.rev
        BY <2>1, <3>1, <4>1
      <4> QED
        BY <2>1, <2>6, <3>1, <4>2
    <3>2. CASE k # ledger
      BY <1>7, <2>3, <2>4, <3>2
    <3> QED
      BY <3>1, <3>2
  <2>8. \A k \in Taken', d \in Holders' :
          caller'[d].id < k.next => caller'[d].id \in DOMAIN k.pending
    <3> SUFFICES ASSUME NEW k \in Taken', NEW d \in Holders', caller'[d].id < k.next
                 PROVE  caller'[d].id \in DOMAIN k.pending
      OBVIOUS
    <3>1. d \in Holders /\ caller'[d].id = caller[d].id
      BY <1>5, <1>6 DEF Holders
    <3> QED
      BY <1>7, <2>2, <2>5, <3>1
  <2>9. ASSUME NEW d \in Callers
        PROVE  /\ Copying(d)' => caller'[d].copy.next >= envelope.copy.ledger.next
               /\ caller'[d].at = "recording" => caller'[d].id < caller'[d].copy.next
    <3>1. CASE d = c
      <4>1. caller'[c].at = "recording" => caller'[c].id < ledger.next
        <5> SUFFICES ASSUME caller'[c].at = "recording" PROVE caller'[c].id < ledger.next
          OBVIOUS
        <5>1. c \in Holders
          BY <1>1, <1>2 DEF Holders, Holds
        <5>2. caller[c].id \in 1..(ledger.next - 1)
          BY <1>1, <2>2, <5>1, LedgerParts
        <5> QED
          BY <1>2, <2>1, <5>2
      <4> QED
        BY <1>2, <1>13, <3>1, <4>1 DEF CopiesAreOrdered
    <3>2. CASE d # c
      BY <1>2, <1>5, <1>13, <3>2 DEF CopiesAreOrdered
    <3> QED
      BY <3>1, <3>2
  <2> QED
    BY <1>1, <1>13, <2>6, <2>7, <2>8, <2>9 DEF CopiesAreOrdered
<1>15. SentAreNumbered'
  <2>1. Durable.next \in Nat
    BY <1>4, TakenFacts
  <2>2. Durable'.next >= Durable.next /\ ledger'.next = ledger.next
    BY <1>1, <1>9, <2>1
  <2> QED
    BY <1>1, <1>4, <1>8, <1>13, <2>2, NumbersKept
<1>16. DispatchIsRecorded'
  <2>1. \A d \in Recorders : caller'[d].at = "calling" => caller'[d] = caller[d]
    BY <1>2 DEF Callers
  <2> QED
    BY <1>1, <2>1 DEF LedgerInv, DispatchIsRecorded
<1>17. SentAreDurable'
  BY <1>1, <1>9 DEF LedgerInv, SentAreDurable
<1>18. SpendingIsWithin'
  <2>1. \A d \in Callers : caller'[d].copy \in {ledger, caller[d].copy}
    BY <1>2
  <2> QED
    BY <1>1, <2>1 DEF LedgerInv, SpendingIsWithin
<1> QED
  BY <1>4, <1>10, <1>11, <1>12, <1>14, <1>15, <1>16, <1>17, <1>18 DEF LedgerInv

\* A caller's attempt is admitted: it gets the next number and is in flight.
LEMMA ReserveStep ==
  ASSUME LedgerInv, NEW c \in Callers, NEW class \in Classes(c), NEW size \in Sizes,
         BeginPhysicalModelAttempt(c, class, size)
  PROVE  LedgerInv'
<1> USE DEF durableVars, historyVars
<1>1. /\ caller[c].at = "ready" /\ caller \in [Callers -> Attempts]
      /\ ledger \in Ledgers /\ phase = "running" /\ finals \in BOOLEAN /\ overrun \in Nat
      /\ ledger' = Reserve(ledger, size) /\ finals' = (finals \/ class = "finalizer")
      /\ UNCHANGED <<run, phase, suspended, checkpoint, envelope, base, sent, overrun>>
  BY DEF LedgerInv, LedgerTypes, PhasesAgree, BeginPhysicalModelAttempt
<1>2. PICK a \in Attempts :
        /\ a.at = IF c \in Children THEN "calling" ELSE "reserved"
        /\ a.id = ledger.next /\ a.copy = NewLedger
        /\ caller' = [caller EXCEPT ![c] = a]
  <2>1. PICK a : a = [NoAttempt EXCEPT !.at = IF c \in Children THEN "calling" ELSE "reserved",
                                       !.id = ledger.next]
    OBVIOUS
  <2>2. NoAttempt \in Attempts /\ NoAttempt.copy = NewLedger
    BY NewLedgerFacts, InputAssumption DEF NoAttempt, Attempts
  <2>3. ledger.next \in Nat
    BY <1>1, LedgerParts
  <2>4. a \in Attempts /\ a.copy = NewLedger /\ a.id = ledger.next
        /\ a.at = IF c \in Children THEN "calling" ELSE "reserved"
    BY <2>1, <2>2, <2>3 DEF Attempts
  <2>5. caller' = [caller EXCEPT ![c] = a]
    BY <2>1 DEF BeginPhysicalModelAttempt
  <2> QED
    BY <2>4, <2>5
<1>3. /\ ledger' \in Ledgers /\ ledger'.rev = ledger.rev + 1 /\ ledger'.next = ledger.next + 1
      /\ DOMAIN ledger'.pending = DOMAIN ledger.pending \cup {ledger.next}
      /\ ledger'.segment.attempts = ledger.segment.attempts + 1
      /\ Charged(ledger'.segment) = Charged(ledger.segment) + size
  BY <1>1, ReserveFacts
<1>4. /\ ledger.rev \in Nat /\ ledger.next \in Nat /\ ledger.next \notin DOMAIN ledger.pending
      /\ DOMAIN ledger.pending \subseteq 1..(ledger.next - 1)
  BY <1>1, LedgerParts
<1>5. /\ caller'[c] = a /\ \A d \in Callers : d # c => caller'[d] = caller[d]
      /\ caller' \in [Callers -> Attempts]
  BY <1>1, <1>2
<1>6. LedgerTypes /\ LedgerTypes'
  BY <1>1, <1>3, <1>5 DEF LedgerInv, LedgerTypes
<1>7. CopiesAreOrdered /\ SentAreNumbered /\ HandsAgree /\ CallersAgree
  BY <1>1 DEF LedgerInv, Live
<1>8. Holders' = Holders \cup {c} /\ c \notin Holders
  BY <1>1, <1>2, <1>5 DEF Holders, Holds
<1>9. \A d \in Callers : /\ Copying(d)' <=> Copying(d)
                         /\ Copying(d) => d # c
  BY <1>1, <1>2, <1>5 DEF Copying
<1>10. Taken' \subseteq Taken
  BY <1>1, <1>5, <1>9 DEF Taken
<1>11. Durable' = Durable
  BY <1>1 DEF Durable
<1>12. \A d \in Holders : caller[d].id \in DOMAIN ledger.pending /\ caller[d].id < ledger.next
  <2>1. \A d \in Holders : caller[d].id \in DOMAIN ledger.pending
    BY <1>7 DEF HandsAgree
  <2> QED
    BY <1>4, <2>1
<1>13. PhasesAgree'
  BY <1>1 DEF LedgerInv, PhasesAgree
<1>14. CallersAgree'
  <2>1. \A d \in Callers : ~Copying(d)' => caller'[d].copy = NewLedger
    BY <1>2, <1>5, <1>7, <1>9 DEF CallersAgree
  <2>2. \A d \in Children : caller'[d].at \in {"idle", "ready", "calling"}
    BY <1>2, <1>5, <1>7 DEF CallersAgree, Callers
  <2> QED
    BY <2>1, <2>2 DEF CallersAgree
<1>15. HandsAgree'
  <2>1. IsFiniteSet(Holders')
    BY <1>7, <1>8, FS_AddElement DEF HandsAgree
  <2>2. \A d \in Holders : d # c /\ caller'[d] = caller[d]
    BY <1>5, <1>8 DEF Holders
  <2>3. caller'[c].id = ledger.next
    BY <1>2, <1>5
  <2>4. DOMAIN ledger'.pending = {caller'[d].id : d \in Holders'}
    BY <1>3, <1>7, <1>8, <2>2, <2>3 DEF HandsAgree
  <2>5. \A d, e \in Holders' : caller'[d].id = caller'[e].id => d = e
    BY <1>4, <1>7, <1>8, <1>12, <2>2, <2>3 DEF HandsAgree
  <2> QED
    BY <2>1, <2>4, <2>5 DEF HandsAgree
<1>16. CopiesAreOrdered'
  <2>1. ledger'.rev > ledger.rev /\ ledger'.next >= ledger.next
    BY <1>3, <1>4
  <2>2. \A d \in Holders' : \/ d \in Holders /\ caller'[d].id = caller[d].id
                            \/ caller'[d].id >= ledger.next
    BY <1>2, <1>4, <1>5, <1>8 DEF Holders
  <2>3. \A d \in Callers : Copying(d)' => caller'[d] = caller[d]
    BY <1>5, <1>9
  <2> QED
    BY <1>1, <1>6, <1>7, <1>10, <2>1, <2>2, <2>3, OrderKept
<1>17. SentAreNumbered'
  <2>0. base \in Nat /\ sent \in Nat /\ Durable.next \in Nat
    BY <1>6, TakenFacts DEF LedgerTypes
  <2>1. Durable.next <= ledger.next
    <3>1. CASE checkpoint.run = run.id
      BY <1>7, <3>1 DEF CopiesAreOrdered, Taken, Durable
    <3>2. CASE checkpoint.run # run.id
      BY <1>4, <1>6, <1>7, <3>2, TakenFacts DEF CopiesAreOrdered, Durable
    <3> QED
      BY <3>1, <3>2
  <2>2. base + 1 <= ledger.next
    BY <1>7 DEF SentAreNumbered
  <2>3. ASSUME NEW n \in (base' + 1)..ledger'.next, sent' > 0 => Durable'.next <= n
        PROVE  base' + sent' + Cardinality(Unsent(n)') <= n - 1
    <3>1. CASE n <= ledger.next
      <4>1. n \in Nat /\ n \in (base + 1)..ledger.next
        BY <1>1, <1>3, <1>4, <2>0, <3>1
      <4>2. base + sent + Cardinality(Unsent(n)) <= n - 1
        BY <1>1, <1>7, <1>11, <2>3, <4>1 DEF SentAreNumbered
      <4>3. ~(ledger.next < n)
        BY <1>4, <3>1, <4>1
      <4>4. Unsent(n)' = Unsent(n)
        <5>1. c \notin Unsent(n)' /\ c \notin Unsent(n)
          BY <1>1, <1>2, <1>5, <4>3 DEF Unsent
        <5>2. \A d \in Recorders : d # c => (d \in Unsent(n)' <=> d \in Unsent(n))
          BY <1>5 DEF Unsent, Callers
        <5> QED
          BY <5>1, <5>2 DEF Unsent
      <4> QED
        BY <1>1, <4>2, <4>4
    <3>2. CASE ~(n <= ledger.next)
      <4>1. n = ledger.next + 1
        BY <1>1, <1>3, <1>4, <2>0, <3>2
      <4> DEFINE m == ledger.next
      <4>2. m \in (base + 1)..ledger.next
        BY <1>4, <2>0, <2>2
      <4>3. base + sent + Cardinality(Unsent(m)) <= m - 1
        BY <1>7, <2>1, <4>2 DEF SentAreNumbered
      <4>4. IsFiniteSet(Unsent(m)) /\ Cardinality(Unsent(m)) \in Nat
        BY <1>7, UnsentFacts
      <4>5. Unsent(n)' \subseteq Unsent(m) \cup {c}
        <5> SUFFICES ASSUME NEW d \in Unsent(n)', d # c PROVE d \in Unsent(m)
          OBVIOUS
        <5>1. d \in Recorders /\ d \in Callers /\ caller[d].at \in {"reserved", "recording"}
          BY <1>5 DEF Unsent, Callers
        <5>2. d \in Holders
          BY <5>1 DEF Holders, Holds
        <5> QED
          BY <1>12, <5>1, <5>2 DEF Unsent
      <4>6. IsFiniteSet(Unsent(m) \cup {c})
            /\ Cardinality(Unsent(m) \cup {c}) <= Cardinality(Unsent(m)) + 1
            /\ Cardinality(Unsent(m) \cup {c}) \in Nat
        <5>1. CASE c \in Unsent(m)
          <6>1. Unsent(m) \cup {c} = Unsent(m)
            BY <5>1
          <6>2. PICK y : y = Cardinality(Unsent(m)) /\ y \in Nat
            BY <4>4
          <6>3. IsFiniteSet(Unsent(m) \cup {c}) /\ Cardinality(Unsent(m) \cup {c}) = y
            BY <4>4, <6>1, <6>2, Zenon
          <6> HIDE <6>1
          <6> QED
            BY <6>2, <6>3
        <5>2. CASE c \notin Unsent(m)
          BY <4>4, <5>2, FS_AddElement
        <5> QED
          BY <5>1, <5>2
      <4>7. Cardinality(Unsent(n)') \in Nat
            /\ Cardinality(Unsent(n)') <= Cardinality(Unsent(m) \cup {c})
        BY <4>5, <4>6, FS_Subset, FS_CardinalityType
      <4> HIDE DEF m
      <4>8. base + sent + Cardinality(Unsent(n)') <= (m + 1) - 1
        <5>1. m \in Nat
          BY <1>4 DEF m
        <5>2. PICK x, y, z : x = Cardinality(Unsent(n)') /\ y = Cardinality(Unsent(m))
                             /\ z = Cardinality(Unsent(m) \cup {c})
          OBVIOUS
        <5> QED
          BY <2>0, <4>3, <4>4, <4>6, <4>7, <5>1, <5>2
      <4> QED
        BY <1>1, <4>1, <4>8 DEF m
    <3> QED
      BY <3>1, <3>2
  <2>4. base' + 1 <= ledger'.next
    BY <1>1, <1>3, <1>4, <2>0, <2>2
  <2> QED
    BY <2>3, <2>4 DEF SentAreNumbered
<1>18. DispatchIsRecorded'
  <2>1. \A d \in Recorders : caller'[d].at = "calling" => caller'[d] = caller[d]
    BY <1>2, <1>5, InputAssumption DEF Callers
  <2> QED
    BY <1>1, <2>1 DEF LedgerInv, DispatchIsRecorded
<1>19. SentAreDurable'
  BY <1>1, <1>11 DEF LedgerInv, SentAreDurable
<1>20. SpendingIsWithin'
  <2>1. /\ checkpoint.ledger \in Ledgers /\ envelope.copy.ledger \in Ledgers
        /\ \A d \in Callers : caller[d].copy \in Ledgers
    BY <1>6 DEF LedgerTypes, Copies, Attempts
  <2>2. \A l \in Ledgers : Within(l, overrun, finals) => Within(l, overrun, finals')
    <3> SUFFICES ASSUME NEW l \in Ledgers, Within(l, overrun, finals)
                 PROVE  Within(l, overrun, finals')
      OBVIOUS
    <3>1. Within(l, overrun + 0, finals')
      BY <1>1, WithinFacts
    <3>2. overrun + 0 = overrun
      BY <1>1
    <3> QED
      BY <3>1, <3>2
  <2>3. Within(ledger', overrun, finals')
    <3>1. Admission(ledger, class, size) = "admitted"
      BY DEF BeginPhysicalModelAttempt
    <3>2. /\ ledger.segment.attempts + 1 <= MaxAttempts
          /\ Charged(ledger.segment) + size <= MaxTokens
          /\ class # "finalizer" =>
               /\ ledger.segment.attempts + 1 <= MaxAttempts - AttemptReserve
               /\ Charged(ledger.segment) + size <= MaxTokens - TokenReserve
      <4>1. Charged(ledger.segment) \in Nat /\ ledger.segment.attempts \in Nat /\ size \in Nat
        BY <1>1, LedgerParts, UsageParts, InputAssumption
      <4> QED
        BY <3>1, <4>1, BudgetAssumption DEF Admission
    <3>3. Charged(ledger.segment) \in Nat /\ ledger.segment.attempts \in Nat /\ size \in Nat
      BY <1>1, LedgerParts, UsageParts, InputAssumption
    <3>4. PICK x, y : x = ledger.segment.attempts /\ y = Charged(ledger.segment)
      OBVIOUS
    <3>5. /\ x + 1 <= MaxAttempts /\ y + size <= MaxTokens + overrun
          /\ class # "finalizer" => /\ (x + 1) + AttemptReserve <= MaxAttempts
                                    /\ (y + size) + TokenReserve <= MaxTokens + overrun
      BY <1>1, <3>2, <3>3, <3>4, BudgetAssumption
    <3> QED
      BY <1>1, <1>3, <3>4, <3>5 DEF Within
  <2>4. \A d \in Callers : caller'[d].copy = caller[d].copy
    <3>1. caller[c].copy = NewLedger
      BY <1>1, <1>7 DEF CallersAgree, Copying
    <3> QED
      BY <1>2, <1>5, <3>1
  <2>5. /\ Within(checkpoint.ledger, overrun, finals)
        /\ \A d \in Callers : Within(caller[d].copy, overrun, finals)
        /\ envelope.reason # "paused" => Within(envelope.copy.ledger, overrun, finals)
    BY DEF LedgerInv, SpendingIsWithin
  <2> QED
    BY <1>1, <2>1, <2>2, <2>3, <2>4, <2>5 DEF SpendingIsWithin
<1> QED
  BY <1>6, <1>13, <1>14, <1>15, <1>16, <1>17, <1>18, <1>19, <1>20 DEF LedgerInv

\* A caller's attempt is settled: by an answer, by a failure, by unwinding.
LEMMA SettleStep ==
  ASSUME LedgerInv, NEW c \in Callers, Holds(c), NEW usage \in Usages \cup {Unknown},
         NEW a \in Attempts, a.at \in {"idle", "settled"}, c \in Children => a.at = "idle",
         a.copy = NewLedger, FinishAttempt(c, usage, a)
  PROVE  LedgerInv'
<1> USE DEF durableVars, historyVars
<1>1. /\ caller \in [Callers -> Attempts] /\ ledger \in Ledgers /\ phase = "running"
      /\ finals \in BOOLEAN /\ overrun \in Nat
      /\ UNCHANGED <<phase, suspended, checkpoint, envelope, base, sent, finals>>
      /\ ledger' = Settle(ledger, caller[c].id, usage)
      /\ overrun' = overrun + Excess(caller[c].id, usage)
      /\ caller' = [caller EXCEPT ![c] = a]
  BY DEF LedgerInv, LedgerTypes, PhasesAgree, Holds, FinishAttempt
<1>2. CopiesAreOrdered /\ SentAreNumbered /\ HandsAgree /\ CallersAgree
  BY <1>1 DEF LedgerInv, Live
<1>3. c \in Holders /\ caller[c].id \in DOMAIN ledger.pending
  BY <1>2 DEF Holders, HandsAgree
<1>4. PICK id : id = caller[c].id
  OBVIOUS
<1>5. /\ ledger' \in Ledgers /\ ledger'.rev = ledger.rev + 1 /\ ledger'.next = ledger.next
      /\ DOMAIN ledger'.pending = DOMAIN ledger.pending \ {id}
      /\ ledger'.segment.attempts = ledger.segment.attempts
      /\ Charged(ledger'.segment)
           = (Charged(ledger.segment) + Used(ledger, id, usage)) - ledger.pending[id]
      /\ Used(ledger, id, usage) \in Nat /\ ledger.pending[id] \in Nat
  BY <1>1, <1>3, <1>4, SettleFacts
<1>6. ledger.rev \in Nat /\ ledger.next \in Nat
  BY <1>1, LedgerParts
<1>7. PICK x \in Nat : /\ overrun' = overrun + x
                       /\ Used(ledger, id, usage) <= ledger.pending[id] + x
  <2>1. PICK u, q : u = Used(ledger, id, usage) /\ q = ledger.pending[id]
    OBVIOUS
  <2>2. PICK x : x = Excess(id, usage)
    OBVIOUS
  <2>3. x = IF u > q THEN u - q ELSE 0
    BY <1>3, <1>4, <1>5, <2>1, <2>2, InputAssumption DEF Excess, Used
  <2>4. x \in Nat /\ u <= q + x
    BY <1>5, <2>1, <2>3
  <2> QED
    BY <1>1, <1>4, <2>1, <2>2, <2>4
<1>8. /\ caller'[c] = a /\ \A d \in Callers : d # c => caller'[d] = caller[d]
      /\ caller' \in [Callers -> Attempts]
  BY <1>1
<1>9. LedgerTypes /\ LedgerTypes'
  <2>1. run' \in [id : 1..MaxRuns, stop : {"no", "other", "resources"},
                  epoch : 0..MaxSteers, applied : 0..MaxSteers]
    BY DEF LedgerInv, LedgerTypes, FinishAttempt
  <2>2. overrun' \in Nat
    BY <1>1, <1>7
  <2> QED
    BY <1>1, <1>5, <1>8, <2>1, <2>2 DEF LedgerInv, LedgerTypes
<1>10. run'.id = run.id
  BY DEF FinishAttempt, LedgerInv, LedgerTypes
<1>11. Holders' = Holders \ {c}
  BY <1>8 DEF Holders, Holds
<1>12. \A d \in Callers : Copying(d)' <=> (Copying(d) /\ d # c)
  BY <1>8 DEF Copying
<1>13. Taken' \subseteq Taken
  BY <1>1, <1>8, <1>10, <1>12 DEF Taken
<1>14. Durable' = Durable
  BY <1>1, <1>10 DEF Durable
<1>15. \A n \in Nat : Unsent(n)' \subseteq Unsent(n)
  BY <1>8 DEF Unsent, Callers
<1>16. PhasesAgree'
  BY <1>1, <1>10 DEF LedgerInv, PhasesAgree
<1>17. CallersAgree'
  <2>1. \A d \in Callers : ~Copying(d)' => caller'[d].copy = NewLedger
    BY <1>2, <1>8, <1>12 DEF CallersAgree
  <2>2. \A d \in Children : caller'[d].at \in {"idle", "ready", "calling"}
    BY <1>2, <1>8 DEF CallersAgree, Callers
  <2> QED
    BY <2>1, <2>2 DEF CallersAgree
<1>18. HandsAgree'
  <2>1. IsFiniteSet(Holders')
    BY <1>2, <1>11, FS_Subset DEF HandsAgree
  <2>2. \A d \in Holders' : d \in Holders /\ d # c /\ caller'[d] = caller[d]
    BY <1>8, <1>11 DEF Holders
  <2>3. DOMAIN ledger.pending = {caller[d].id : d \in Holders}
        /\ \A d, e \in Holders : caller[d].id = caller[e].id => d = e
    BY <1>2 DEF HandsAgree
  <2>4. DOMAIN ledger'.pending = {caller'[d].id : d \in Holders'}
    <3>1. ASSUME NEW y \in DOMAIN ledger'.pending PROVE y \in {caller'[d].id : d \in Holders'}
      <4>1. PICK d \in Holders : y = caller[d].id
        BY <1>5, <2>3
      <4>2. d # c
        BY <1>4, <1>5, <4>1
      <4> QED
        BY <1>11, <2>2, <4>1, <4>2
    <3>2. ASSUME NEW d \in Holders' PROVE caller'[d].id \in DOMAIN ledger'.pending
      <4>1. caller[d].id \in DOMAIN ledger.pending /\ caller[d].id # id
        BY <1>3, <1>4, <2>2, <2>3
      <4> QED
        BY <1>5, <2>2, <4>1
    <3> QED
      BY <3>1, <3>2
  <2>5. \A d, e \in Holders' : caller'[d].id = caller'[e].id => d = e
    BY <2>2, <2>3
  <2> QED
    BY <2>1, <2>4, <2>5 DEF HandsAgree
<1>19. CopiesAreOrdered'
  <2>1. ledger'.rev > ledger.rev /\ ledger'.next >= ledger.next
    BY <1>5, <1>6
  <2>2. \A d \in Holders' : d \in Holders /\ caller'[d].id = caller[d].id
    BY <1>8, <1>11 DEF Holders
  <2>3. \A d \in Callers : Copying(d)' => caller'[d] = caller[d]
    BY <1>8, <1>12
  <2> QED
    BY <1>1, <1>2, <1>9, <1>13, <2>1, <2>2, <2>3, OrderKept
<1>20. SentAreNumbered'
  <2>1. Durable.next \in Nat
    BY <1>9, TakenFacts
  <2>2. Durable'.next >= Durable.next
    BY <1>14, <2>1
  <2> QED
    BY <1>1, <1>2, <1>5, <1>9, <1>15, <2>2, NumbersKept
<1>21. DispatchIsRecorded'
  <2>1. \A d \in Recorders : caller'[d].at = "calling" => caller'[d] = caller[d]
    BY <1>8 DEF Callers
  <2> QED
    BY <1>1, <1>10, <2>1 DEF LedgerInv, DispatchIsRecorded
<1>22. SentAreDurable'
  BY <1>1, <1>14 DEF LedgerInv, SentAreDurable
<1>23. SpendingIsWithin'
  <2>1. /\ checkpoint.ledger \in Ledgers /\ envelope.copy.ledger \in Ledgers
        /\ \A d \in Callers : caller[d].copy \in Ledgers
    BY <1>9 DEF LedgerTypes, Copies, Attempts
  <2>2. \A l \in Ledgers : Within(l, overrun, finals) => Within(l, overrun', finals)
    BY <1>1, <1>7, WithinFacts
  <2>3. Within(ledger', overrun', finals)
    <3>1. PICK u, q, y : u = Used(ledger, id, usage) /\ q = ledger.pending[id]
                         /\ y = Charged(ledger.segment)
      OBVIOUS
    <3>2. y \in Nat /\ u \in Nat /\ q \in Nat /\ u <= q + x /\ Charged(ledger'.segment) = (y + u) - q
      BY <1>1, <1>5, <1>7, <3>1, LedgerParts, UsageParts
    <3>3. /\ y <= MaxTokens + overrun /\ ledger.segment.attempts <= MaxAttempts
          /\ ~finals => /\ ledger.segment.attempts + AttemptReserve <= MaxAttempts
                        /\ y + TokenReserve <= MaxTokens + overrun
      BY <3>1 DEF LedgerInv, SpendingIsWithin, Within
    <3>4. /\ (y + u) - q <= MaxTokens + (overrun + x)
          /\ ~finals => ((y + u) - q) + TokenReserve <= MaxTokens + (overrun + x)
      BY <1>1, <3>2, <3>3, BudgetAssumption
    <3> QED
      BY <1>5, <1>7, <3>2, <3>3, <3>4 DEF Within
  <2>4. \A d \in Callers : Within(caller'[d].copy, overrun', finals)
    <3>1. Within(NewLedger, overrun', finals)
      <4>1. overrun' \in Nat
        BY <1>1, <1>7
      <4> QED
        BY <1>1, <4>1, NewLedgerFacts, WithinFacts
    <3>2. \A d \in Callers : Within(caller[d].copy, overrun, finals)
      BY DEF LedgerInv, SpendingIsWithin
    <3> QED
      BY <1>8, <2>1, <2>2, <3>1, <3>2
  <2>5. /\ Within(checkpoint.ledger, overrun, finals)
        /\ envelope.reason # "paused" => Within(envelope.copy.ledger, overrun, finals)
    BY DEF LedgerInv, SpendingIsWithin
  <2> QED
    BY <1>1, <2>1, <2>2, <2>3, <2>4, <2>5 DEF SpendingIsWithin
<1> QED
  BY <1>9, <1>16, <1>17, <1>18, <1>19, <1>20, <1>21, <1>22, <1>23 DEF LedgerInv

\* The actions that settle.
LEMMA SettlingActions ==
  ASSUME LedgerInv, NEW c \in Callers,
         \/ CheckpointFails(c) \/ Unwind(c)
         \/ \E usage \in Usages \cup {Unknown} : ProviderAnswers(c, usage)
  PROVE  LedgerInv'
<1>1. NoAttempt \in Attempts /\ NoAttempt.at = "idle" /\ NoAttempt.copy = NewLedger
  BY NewLedgerFacts, InputAssumption DEF NoAttempt, Attempts
<1>2. CASE CheckpointFails(c) \/ Unwind(c)
  <2>1. Holds(c) /\ FinishAttempt(c, Unknown, NoAttempt)
    BY <1>2 DEF CheckpointFails, Unwind, Holds
  <2> QED
    BY <1>1, <2>1, SettleStep
<1>3. ASSUME NEW usage \in Usages \cup {Unknown}, ProviderAnswers(c, usage) PROVE LedgerInv'
  <2>1. Holds(c)
    BY <1>3 DEF ProviderAnswers, Holds
  <2>2. CASE c \in Children
    BY <1>1, <1>3, <2>1, <2>2, SettleStep DEF ProviderAnswers
  <2>3. CASE c \notin Children
    <3>1. PICK a : a = [NoAttempt EXCEPT !.at = "settled"]
      OBVIOUS
    <3>2. a \in Attempts /\ a.at = "settled" /\ a.copy = NewLedger
      BY <1>1, <3>1 DEF Attempts
    <3>3. FinishAttempt(c, usage, a)
      BY <1>3, <2>3, <3>1 DEF ProviderAnswers
    <3> QED
      BY <2>1, <2>3, <3>2, <3>3, SettleStep
  <2> QED
    BY <2>2, <2>3
<1> QED
  BY <1>2, <1>3

\* persist_agent_resource_snapshot: what it leaves on disk is a copy of this run
\* that numbers no fewer attempts than the caller's copy and than what was there,
\* and holds each attempt that those held and that is still in flight.
LEMMA PersistFacts ==
  ASSUME LedgerInv, NEW c \in Callers, Copying(c), NEW new, new = Persist(caller[c].copy)
  PROVE  /\ new \in Copies /\ new.run = run.id /\ new.ledger \in Taken
         /\ caller[c].copy.next <= new.ledger.next /\ Durable.next <= new.ledger.next
         /\ new.ledger.next <= ledger.next
         /\ \A d \in Holders : caller[d].id < new.ledger.next
                               => caller[d].id \in DOMAIN new.ledger.pending
         /\ Within(new.ledger, overrun, finals)
         /\ \A id \in DOMAIN checkpoint.ledger.pending :
              checkpoint.run = run.id => id < new.ledger.next
<1>1. PICK k : k = caller[c].copy
  OBVIOUS
<1>2. /\ caller \in [Callers -> Attempts] /\ checkpoint \in Copies /\ run.id \in 1..MaxRuns
      /\ run.id \in 0..MaxRuns /\ LedgerTypes /\ phase = "running"
  BY DEF LedgerInv, LedgerTypes, PhasesAgree, Copying
<1>3. CopiesAreOrdered
  BY <1>2 DEF LedgerInv, Live
<1>4. k \in Taken /\ k \in Ledgers /\ k.rev \in Nat /\ k.next \in Nat
  <2>1. k \in Taken
    BY <1>1 DEF Taken
  <2> QED
    BY <1>2, <2>1, TakenFacts
<1>5. new = IF checkpoint.run = run.id /\ checkpoint.ledger.rev > k.rev
            THEN checkpoint ELSE [run |-> run.id, ledger |-> k]
  BY <1>1 DEF Persist
<1>6. [run |-> run.id, ledger |-> k] \in Copies
  BY <1>2, <1>4 DEF Copies
<1>7. new \in Copies /\ new.run = run.id
  BY <1>2, <1>5, <1>6 DEF Copies
<1>8. checkpoint.run = run.id => /\ checkpoint.ledger \in Taken
                                 /\ checkpoint.ledger.rev \in Nat /\ checkpoint.ledger.next \in Nat
  <2>1. checkpoint.run = run.id => checkpoint.ledger \in Taken
    BY DEF Taken
  <2> QED
    BY <1>2, <2>1, TakenFacts
<1>9. new.ledger \in Taken
  BY <1>4, <1>5, <1>8
<1>10. new.ledger.next \in Nat
  BY <1>2, <1>9, TakenFacts
<1>11. k.next <= new.ledger.next
  <2>1. CASE checkpoint.run = run.id /\ checkpoint.ledger.rev > k.rev
    <3>1. k.rev <= checkpoint.ledger.rev
      BY <1>4, <1>8, <2>1
    <3> QED
      BY <1>3, <1>4, <1>5, <1>8, <2>1, <3>1 DEF CopiesAreOrdered
  <2>2. CASE ~(checkpoint.run = run.id /\ checkpoint.ledger.rev > k.rev)
    BY <1>4, <1>5, <2>2
  <2> QED
    BY <2>1, <2>2
<1>12. Durable.next <= new.ledger.next
  <2>1. CASE checkpoint.run = run.id /\ checkpoint.ledger.rev > k.rev
    BY <1>5, <1>8, <2>1 DEF Durable
  <2>2. CASE checkpoint.run = run.id /\ ~(checkpoint.ledger.rev > k.rev)
    <3>1. checkpoint.ledger.rev <= k.rev
      BY <1>4, <1>8, <2>2
    <3>2. checkpoint.ledger.next <= k.next
      BY <1>3, <1>4, <1>8, <2>2, <3>1 DEF CopiesAreOrdered
    <3> QED
      BY <1>5, <2>2, <3>2 DEF Durable
  <2>3. CASE checkpoint.run # run.id
    <3>1. k.next >= envelope.copy.ledger.next
      BY <1>1, <1>3 DEF CopiesAreOrdered
    <3>2. envelope.copy.ledger.next \in Nat
      BY <1>2, TakenFacts
    <3>3. Durable.next = envelope.copy.ledger.next /\ new.ledger = k
      BY <1>5, <2>3 DEF Durable
    <3> QED
      BY <1>4, <3>1, <3>2, <3>3
  <2> QED
    BY <2>1, <2>2, <2>3
<1>13. /\ new.ledger.next <= ledger.next
       /\ \A d \in Holders : caller[d].id < new.ledger.next
                             => caller[d].id \in DOMAIN new.ledger.pending
  BY <1>3, <1>9 DEF CopiesAreOrdered
<1>14. Within(new.ledger, overrun, finals)
  BY <1>1, <1>5 DEF LedgerInv, SpendingIsWithin
<1>15. ASSUME checkpoint.run = run.id, NEW id \in DOMAIN checkpoint.ledger.pending
       PROVE  id < new.ledger.next
  <2>1. checkpoint.ledger \in Ledgers
    BY <1>2 DEF Copies
  <2>2. id \in 1..(checkpoint.ledger.next - 1) /\ checkpoint.ledger.next \in Nat
    BY <2>1, LedgerParts
  <2>3. checkpoint.ledger.next <= new.ledger.next
    BY <1>12, <1>15 DEF Durable
  <2> QED
    BY <1>10, <2>2, <2>3
<1> QED
  BY <1>1, <1>7, <1>9, <1>11, <1>12, <1>13, <1>14, <1>15

\* The checkpoint is written and the request goes out.
LEMMA DispatchStep ==
  ASSUME LedgerInv, NEW c \in Callers, RecordAndDispatch(c)
  PROVE  LedgerInv'
<1> USE DEF durableVars, historyVars
<1>1. /\ caller[c].at = "recording" /\ caller \in [Callers -> Attempts] /\ phase = "running"
      /\ c \in Recorders /\ sent' = sent + 1 /\ checkpoint' = Persist(caller[c].copy)
      /\ UNCHANGED <<ledger, run, phase, suspended, envelope, base, overrun, finals>>
      /\ base \in Nat /\ sent \in Nat
  BY DEF LedgerInv, LedgerTypes, PhasesAgree, CallersAgree, RecordAndDispatch, Callers
<1>2. CopiesAreOrdered /\ SentAreNumbered /\ HandsAgree /\ CallersAgree
  BY <1>1 DEF LedgerInv, Live
<1>3. Copying(c) /\ Holds(c) /\ c \in Holders
  BY <1>1 DEF Copying, Holds, Holders
<1>4. PICK new : new = Persist(caller[c].copy)
  OBVIOUS
<1>5. /\ new \in Copies /\ new.run = run.id /\ new.ledger \in Taken
      /\ caller[c].copy.next <= new.ledger.next /\ Durable.next <= new.ledger.next
      /\ new.ledger.next <= ledger.next
      /\ \A d \in Holders : caller[d].id < new.ledger.next
                            => caller[d].id \in DOMAIN new.ledger.pending
      /\ Within(new.ledger, overrun, finals)
      /\ \A id \in DOMAIN checkpoint.ledger.pending :
           checkpoint.run = run.id => id < new.ledger.next
  BY <1>3, <1>4, PersistFacts
<1>6. checkpoint' = new
  BY <1>1, <1>4
<1>7. PICK a \in Attempts : /\ a.at = "calling" /\ a.copy = NewLedger /\ a.id = caller[c].id
                            /\ caller' = [caller EXCEPT ![c] = a]
  <2>1. PICK a : a = [caller[c] EXCEPT !.at = "calling", !.copy = NewLedger]
    OBVIOUS
  <2>2. a \in Attempts /\ a.at = "calling" /\ a.copy = NewLedger /\ a.id = caller[c].id
    BY <1>1, <2>1, NewLedgerFacts DEF Attempts
  <2>3. caller' = [caller EXCEPT ![c] = a]
    BY <1>1, <2>1 DEF RecordAndDispatch
  <2> QED
    BY <2>2, <2>3
<1>8. /\ caller'[c] = a /\ \A d \in Callers : d # c => caller'[d] = caller[d]
      /\ caller' \in [Callers -> Attempts]
  BY <1>1, <1>7
<1>9. LedgerTypes /\ LedgerTypes'
  BY <1>1, <1>5, <1>6, <1>8 DEF LedgerInv, LedgerTypes
<1>10. \A d \in Callers : /\ Holds(d)' <=> Holds(d)
                          /\ caller'[d].id = caller[d].id
                          /\ Copying(d)' <=> (Copying(d) /\ d # c)
  BY <1>1, <1>7, <1>8 DEF Holds, Copying
<1>11. Holders' = Holders
  BY <1>10 DEF Holders
<1>12. Taken' \subseteq Taken
  BY <1>1, <1>5, <1>6, <1>8, <1>10 DEF Taken
<1>13. Durable' = new.ledger
  BY <1>1, <1>5, <1>6 DEF Durable
<1>14. PhasesAgree'
  BY <1>1, <1>5, <1>6 DEF LedgerInv, PhasesAgree
<1>15. CallersAgree'
  <2>1. \A d \in Callers : ~Copying(d)' => caller'[d].copy = NewLedger
    BY <1>2, <1>7, <1>8, <1>10 DEF CallersAgree
  <2>2. \A d \in Children : caller'[d].at \in {"idle", "ready", "calling"}
    BY <1>2, <1>7, <1>8 DEF CallersAgree, Callers
  <2> QED
    BY <2>1, <2>2 DEF CallersAgree
<1>16. HandsAgree'
  <2>1. \A d \in Holders : caller'[d].id = caller[d].id
    BY <1>10 DEF Holders
  <2> QED
    BY <1>1, <1>2, <1>11, <2>1 DEF HandsAgree
<1>17. CopiesAreOrdered'
  <2>1. \A d \in Holders' : d \in Holders /\ caller'[d].id = caller[d].id
    BY <1>10, <1>11 DEF Holders
  <2>2. \A d \in Callers : Copying(d)' => caller'[d] = caller[d]
    BY <1>8, <1>10
  <2> QED
    BY <1>1, <1>2, <1>9, <1>12, <2>1, <2>2, OrderKept
<1>18. /\ Durable.next \in Nat /\ new.ledger.next \in Nat /\ ledger.next \in Nat
       /\ caller[c].id \in Nat /\ caller[c].id < new.ledger.next
  <2>1. Durable.next \in Nat /\ new.ledger.next \in Nat /\ ledger.next \in Nat
    BY <1>5, <1>9, TakenFacts
  <2>2. caller[c].id < caller[c].copy.next
    BY <1>1, <1>2 DEF CopiesAreOrdered
  <2>3. caller[c].id \in Nat /\ caller[c].copy.next \in Nat
    BY <1>1, LedgerParts DEF Attempts
  <2> QED
    BY <1>5, <2>1, <2>2, <2>3
<1>19. SentAreNumbered'
  <2>1. ASSUME NEW n \in (base' + 1)..ledger'.next, sent' > 0 => Durable'.next <= n
        PROVE  base' + sent' + Cardinality(Unsent(n)') <= n - 1
    <3>1. n \in Nat /\ n \in (base + 1)..ledger.next /\ new.ledger.next <= n
      BY <1>1, <1>13, <1>18, <2>1
    <3>2. Durable.next <= n /\ caller[c].id < n
      BY <1>5, <1>18, <3>1
    <3>3. base + sent + Cardinality(Unsent(n)) <= n - 1
      BY <1>2, <3>1, <3>2 DEF SentAreNumbered
    <3>4. IsFiniteSet(Unsent(n)) /\ Cardinality(Unsent(n)) \in Nat
      BY <1>2, UnsentFacts
    <3>5. c \in Unsent(n) /\ Unsent(n)' = Unsent(n) \ {c}
      <4>1. c \in Unsent(n) /\ c \notin Unsent(n)'
        BY <1>1, <1>7, <1>8, <3>2 DEF Unsent
      <4>2. \A d \in Recorders : d # c => (d \in Unsent(n)' <=> d \in Unsent(n))
        BY <1>8 DEF Unsent, Callers
      <4> QED
        BY <4>1, <4>2 DEF Unsent
    <3>6. Cardinality(Unsent(n)') = Cardinality(Unsent(n)) - 1
      BY <3>4, <3>5, SmallerPart
    <3>7. PICK x, y : x = Cardinality(Unsent(n)) /\ y = Cardinality(Unsent(n)')
      OBVIOUS
    <3>8. base + (sent + 1) + y <= n - 1
      BY <1>1, <3>1, <3>3, <3>4, <3>6, <3>7
    <3> QED
      BY <1>1, <3>7, <3>8
  <2>2. base' + 1 <= ledger'.next
    BY <1>1, <1>2 DEF SentAreNumbered
  <2> QED
    BY <2>1, <2>2 DEF SentAreNumbered
<1>20. SentAreDurable'
  <2>1. \A n \in (base + 1)..ledger.next :
          new.ledger.next <= n => base + (sent + 1) + Cardinality(Unsent(n)') <= n - 1
    BY <1>1, <1>13, <1>19 DEF SentAreNumbered
  <2>2. \A n \in Nat : Cardinality(Unsent(n)') \in Nat
    <3> TAKE n \in Nat
    <3>1. Unsent(n)' \subseteq Holders'
      BY DEF Unsent, Holders, Holds, Callers
    <3> QED
      BY <1>16, <3>1, FS_Subset, FS_CardinalityType DEF HandsAgree
  <2>3. base + 1 <= new.ledger.next
    <3> SUFFICES ASSUME ~(base + 1 <= new.ledger.next) PROVE FALSE
      OBVIOUS
    <3>1. PICK n \in Nat : n = base + 1
      BY <1>1
    <3>2. n \in (base + 1)..ledger.next /\ new.ledger.next <= n
      BY <1>1, <1>2, <1>18, <3>1 DEF SentAreNumbered
    <3>3. base + (sent + 1) + Cardinality(Unsent(n)') <= n - 1 /\ Cardinality(Unsent(n)') \in Nat
      BY <2>1, <2>2, <3>2
    <3> QED
      BY <1>1, <3>1, <3>3
  <2>4. PICK n \in Nat : n = new.ledger.next
    BY <1>18
  <2>5. n \in (base + 1)..ledger.next /\ new.ledger.next <= n
    BY <1>1, <1>5, <1>18, <2>3, <2>4
  <2>6. base + (sent + 1) + Cardinality(Unsent(n)') <= n - 1 /\ Cardinality(Unsent(n)') \in Nat
    BY <2>1, <2>2, <2>5
  <2>7. base + (sent + 1) + 1 <= new.ledger.next
    BY <1>1, <2>4, <2>6
  <2> QED
    BY <1>1, <1>13, <2>7 DEF SentAreDurable
<1>21. DispatchIsRecorded'
  <2> SUFFICES ASSUME NEW d \in Recorders, caller'[d].at = "calling"
               PROVE  checkpoint'.run = run'.id /\ caller'[d].id \in DOMAIN checkpoint'.ledger.pending
    BY DEF DispatchIsRecorded
  <2>1. d \in Callers /\ d \in Holders /\ caller'[d].id = caller[d].id
    BY <1>10, <1>11 DEF Callers, Holders, Holds
  <2>2. caller[d].id < new.ledger.next
    <3>1. CASE d = c
      BY <1>18, <3>1
    <3>2. CASE d # c
      <4>1. caller[d].at = "calling"
        BY <1>8, <2>1, <3>2
      <4>2. checkpoint.run = run.id /\ caller[d].id \in DOMAIN checkpoint.ledger.pending
        BY <1>1, <4>1 DEF LedgerInv, DispatchIsRecorded
      <4> QED
        BY <1>5, <4>2
    <3> QED
      BY <3>1, <3>2
  <2> QED
    BY <1>1, <1>5, <1>6, <2>1, <2>2
<1>22. SpendingIsWithin'
  <2>1. Within(NewLedger, overrun, finals)
    BY <1>9, NewLedgerFacts, WithinFacts DEF LedgerTypes
  <2>2. \A d \in Callers : Within(caller'[d].copy, overrun, finals)
    BY <1>7, <1>8, <2>1 DEF LedgerInv, SpendingIsWithin
  <2> QED
    BY <1>1, <1>5, <1>6, <2>2 DEF LedgerInv, SpendingIsWithin
<1> QED
  BY <1>9, <1>14, <1>15, <1>16, <1>17, <1>19, <1>20, <1>21, <1>22 DEF LedgerInv

\* The settlement is written, or its write fails.
LEMMA ClosingStep ==
  ASSUME LedgerInv, NEW c \in Callers, RecordSettlement(c)
  PROVE  LedgerInv'
<1> USE DEF durableVars, historyVars
<1>1. /\ caller[c].at = "closing" /\ caller \in [Callers -> Attempts] /\ phase = "running"
      /\ checkpoint' \in {Persist(caller[c].copy), checkpoint} /\ checkpoint \in Copies
      /\ caller' = [caller EXCEPT ![c] = NoAttempt]
      /\ UNCHANGED <<ledger, run, phase, suspended, envelope, base, sent, overrun, finals>>
  BY DEF LedgerInv, LedgerTypes, PhasesAgree, RecordSettlement
<1>2. CopiesAreOrdered /\ SentAreNumbered /\ HandsAgree /\ CallersAgree
  BY <1>1 DEF LedgerInv, Live
<1>3. Copying(c) /\ ~Holds(c)
  BY <1>1 DEF Copying, Holds
<1>4. PICK new : new = Persist(caller[c].copy)
  OBVIOUS
<1>5. /\ new \in Copies /\ new.run = run.id /\ new.ledger \in Taken
      /\ Durable.next <= new.ledger.next
      /\ \A d \in Holders : caller[d].id < new.ledger.next
                            => caller[d].id \in DOMAIN new.ledger.pending
      /\ Within(new.ledger, overrun, finals)
      /\ \A id \in DOMAIN checkpoint.ledger.pending :
           checkpoint.run = run.id => id < new.ledger.next
  BY <1>3, <1>4, PersistFacts
<1>6. checkpoint' = new \/ checkpoint' = checkpoint
  BY <1>1, <1>4
<1>7. NoAttempt \in Attempts /\ NoAttempt.at = "idle" /\ NoAttempt.copy = NewLedger
  BY NewLedgerFacts, InputAssumption DEF NoAttempt, Attempts
<1>8. /\ caller'[c] = NoAttempt /\ \A d \in Callers : d # c => caller'[d] = caller[d]
      /\ caller' \in [Callers -> Attempts]
  BY <1>1, <1>7
<1>9. LedgerTypes /\ LedgerTypes'
  BY <1>1, <1>5, <1>6, <1>8 DEF LedgerInv, LedgerTypes
<1>10. \A d \in Callers : /\ Holds(d)' <=> Holds(d)
                          /\ Holds(d) => caller'[d] = caller[d]
                          /\ Copying(d)' <=> (Copying(d) /\ d # c)
  BY <1>3, <1>7, <1>8 DEF Holds, Copying
<1>11. Holders' = Holders
  BY <1>10 DEF Holders
<1>12. Taken' \subseteq Taken
  BY <1>1, <1>5, <1>6, <1>8, <1>10 DEF Taken
<1>13. Durable.next \in Nat /\ Durable'.next >= Durable.next /\ Durable'.next \in Nat
  <2>1. Durable.next \in Nat /\ new.ledger.next \in Nat
    BY <1>5, <1>9, TakenFacts
  <2>2. CASE checkpoint' = new
    <3>1. Durable' = new.ledger
      BY <1>1, <1>5, <2>2 DEF Durable
    <3> QED
      BY <1>5, <2>1, <3>1
  <2>3. CASE checkpoint' = checkpoint
    <3>1. Durable' = Durable
      BY <1>1, <2>3 DEF Durable
    <3> QED
      BY <2>1, <3>1
  <2> QED
    BY <1>6, <2>2, <2>3
<1>14. PhasesAgree'
  BY <1>1, <1>5, <1>6 DEF LedgerInv, PhasesAgree
<1>15. CallersAgree'
  <2>1. \A d \in Callers : ~Copying(d)' => caller'[d].copy = NewLedger
    BY <1>2, <1>7, <1>8, <1>10 DEF CallersAgree
  <2>2. \A d \in Children : caller'[d].at \in {"idle", "ready", "calling"}
    BY <1>2, <1>7, <1>8 DEF CallersAgree, Callers
  <2> QED
    BY <2>1, <2>2 DEF CallersAgree
<1>16. HandsAgree'
  <2>1. \A d \in Holders : caller'[d] = caller[d]
    BY <1>10 DEF Holders
  <2> QED
    BY <1>1, <1>2, <1>11, <2>1 DEF HandsAgree
<1>17. CopiesAreOrdered'
  <2>1. \A d \in Holders' : d \in Holders /\ caller'[d].id = caller[d].id
    BY <1>10, <1>11 DEF Holders
  <2>2. \A d \in Callers : Copying(d)' => caller'[d] = caller[d]
    BY <1>8, <1>10
  <2> QED
    BY <1>1, <1>2, <1>9, <1>12, <2>1, <2>2, OrderKept
<1>18. SentAreNumbered'
  <2>1. \A n \in Nat : Unsent(n)' \subseteq Unsent(n)
    BY <1>7, <1>8 DEF Unsent, Callers
  <2> QED
    BY <1>1, <1>2, <1>9, <1>13, <2>1, NumbersKept
<1>19. SentAreDurable'
  <2>1. base \in Nat /\ sent \in Nat
    BY <1>9 DEF LedgerTypes
  <2>2. sent > 0 => base + sent + 1 <= Durable.next
    BY <1>1 DEF LedgerInv, SentAreDurable
  <2>3. sent > 0 => base + sent + 1 <= Durable'.next
    BY <1>13, <2>1, <2>2
  <2> QED
    BY <1>1, <2>3 DEF SentAreDurable
<1>20. DispatchIsRecorded'
  <2> SUFFICES ASSUME NEW d \in Recorders, caller'[d].at = "calling"
               PROVE  checkpoint'.run = run'.id /\ caller'[d].id \in DOMAIN checkpoint'.ledger.pending
    BY DEF DispatchIsRecorded
  <2>1. d \in Callers /\ d # c /\ caller'[d] = caller[d]
    BY <1>7, <1>8 DEF Callers
  <2>2. checkpoint.run = run.id /\ caller[d].id \in DOMAIN checkpoint.ledger.pending
    BY <1>1, <2>1 DEF LedgerInv, DispatchIsRecorded
  <2>3. d \in Holders
    BY <2>1 DEF Holders, Holds
  <2>4. caller[d].id \in DOMAIN new.ledger.pending
    BY <1>5, <2>2, <2>3
  <2> QED
    BY <1>1, <1>5, <1>6, <2>1, <2>2, <2>4
<1>21. SpendingIsWithin'
  <2>1. Within(NewLedger, overrun, finals)
    BY <1>9, NewLedgerFacts, WithinFacts DEF LedgerTypes
  <2>2. \A d \in Callers : Within(caller'[d].copy, overrun, finals)
    BY <1>7, <1>8, <2>1 DEF LedgerInv, SpendingIsWithin
  <2> QED
    BY <1>1, <1>5, <1>6, <2>2 DEF LedgerInv, SpendingIsWithin
<1> QED
  BY <1>9, <1>14, <1>15, <1>16, <1>17, <1>18, <1>19, <1>20, <1>21 DEF LedgerInv

\* Nobody is at work in the next state: what is left to show is about the ledger
\* and its copies on disk.
LEMMA IdleStep ==
  ASSUME LedgerTypes', PhasesAgree',
         \A c \in Callers : caller'[c].at = "idle" /\ caller'[c].copy = NewLedger,
         DOMAIN ledger'.pending = {},
         Live' => /\ ledger'.next >= envelope'.copy.ledger.next
                  /\ base' + 1 <= ledger'.next
                  /\ checkpoint'.run = run'.id =>
                       /\ checkpoint'.ledger.rev <= ledger'.rev
                       /\ checkpoint'.ledger.next <= ledger'.next
                       /\ checkpoint'.ledger.rev = ledger'.rev
                            => checkpoint'.ledger.next = ledger'.next,
         (Live' \/ phase' \in {"waiting", "down"} \/ envelope'.reason = "restarted") /\ sent' > 0
           => base' + sent' + 1 <= Durable'.next,
         Within(ledger', overrun', finals'), Within(checkpoint'.ledger, overrun', finals'),
         envelope'.reason # "paused" => Within(envelope'.copy.ledger, overrun', finals')
  PROVE  LedgerInv'
<1>1. /\ Holders' = {}
      /\ Taken' = IF checkpoint'.run = run'.id THEN {checkpoint'.ledger} ELSE {}
      /\ \A c \in Callers : ~Copying(c)'
  BY DEF Holders, Holds, Taken, Copying
<1>2. \A n \in Nat : Unsent(n)' = {}
  BY DEF Unsent, Callers
<1>3. CallersAgree'
  BY <1>1 DEF CallersAgree, Callers
<1>4. HandsAgree'
  BY <1>1, FS_EmptySet DEF HandsAgree
<1>5. /\ ledger'.next \in Nat /\ ledger'.rev \in Nat /\ Durable'.next \in Nat
      /\ checkpoint'.ledger.next \in Nat /\ base' \in Nat /\ sent' \in Nat
  <2>1. ledger' \in Ledgers /\ checkpoint'.ledger \in Ledgers /\ Durable' \in Ledgers
    BY DEF LedgerTypes, Durable, Copies
  <2> QED
    BY <2>1, LedgerParts DEF LedgerTypes
<1>6. ASSUME Live' PROVE CopiesAreOrdered'
  <2>1. ASSUME NEW k \in Taken'
        PROVE  /\ k.rev <= ledger'.rev /\ k.next <= ledger'.next
               /\ k.rev = ledger'.rev => k.next = ledger'.next
               /\ \A m \in Taken' : k.rev <= m.rev => k.next <= m.next
    <3>1. k = checkpoint'.ledger /\ checkpoint'.run = run'.id
      BY <1>1
    <3>2. \A m \in Taken' : m = k
      BY <1>1, <3>1
    <3> QED
      BY <1>5, <1>6, <3>1, <3>2
  <2>2. \A c \in Callers : caller'[c].at # "recording"
    OBVIOUS
  <2> QED
    BY <1>1, <1>6, <2>1, <2>2 DEF CopiesAreOrdered
<1>7. ASSUME Live' PROVE SentAreNumbered'
  <2>1. ASSUME NEW n \in (base' + 1)..ledger'.next, sent' > 0 => Durable'.next <= n
        PROVE  base' + sent' + Cardinality(Unsent(n)') <= n - 1
    <3>1. n \in Nat /\ base' + 1 <= n
      <4>1. \A b, e \in Nat : n \in (b + 1)..e => n \in Nat /\ b + 1 <= n
        OBVIOUS
      <4> QED
        BY <1>5, <2>1, <4>1
    <3>2. Cardinality(Unsent(n)') = 0
      BY <1>2, <3>1, FS_EmptySet
    <3>3. base' + sent' + 0 <= n - 1
      BY <1>5, <1>7, <2>1, <3>1
    <3> QED
      BY <3>2, <3>3
  <2> QED
    BY <1>7, <2>1 DEF SentAreNumbered
<1>8. SentAreDurable'
  BY DEF SentAreDurable, Live
<1>9. DispatchIsRecorded'
  BY DEF DispatchIsRecorded, Callers
<1>10. SpendingIsWithin'
  <2>1. Within(NewLedger, overrun', finals')
    BY NewLedgerFacts, WithinFacts DEF LedgerTypes
  <2> QED
    BY <2>1 DEF SpendingIsWithin
<1> QED
  BY <1>3, <1>4, <1>6, <1>7, <1>8, <1>9, <1>10 DEF LedgerInv

\* What is known when nobody is at work.
LEMMA IdleFacts ==
  ASSUME LedgerInv, \A c \in Callers : caller[c].at = "idle"
  PROVE  /\ DOMAIN ledger.pending = {} /\ \A c \in Callers : caller[c].copy = NewLedger
         /\ ledger \in Ledgers /\ ledger.next \in Nat /\ ledger.rev \in Nat
         /\ Durable.next \in Nat /\ base \in Nat /\ sent \in Nat
         /\ envelope.copy.ledger \in Ledgers /\ envelope.copy.ledger.next \in Nat
         /\ Live => /\ Durable.next <= ledger.next
                    /\ ledger.next >= envelope.copy.ledger.next
                    /\ base + 1 <= ledger.next
                    /\ checkpoint.run = run.id =>
                         /\ checkpoint.ledger.rev <= ledger.rev
                         /\ checkpoint.ledger.next <= ledger.next
                         /\ checkpoint.ledger.rev = ledger.rev
                              => checkpoint.ledger.next = ledger.next
<1>1. LedgerTypes /\ HandsAgree /\ CallersAgree
  BY DEF LedgerInv
<1>2. Holders = {}
  BY DEF Holders, Holds
<1>3. DOMAIN ledger.pending = {}
  BY <1>1, <1>2 DEF HandsAgree
<1>4. \A c \in Callers : caller[c].copy = NewLedger
  BY <1>1 DEF CallersAgree, Copying
<1>5. /\ ledger \in Ledgers /\ ledger.next \in Nat /\ ledger.rev \in Nat
      /\ Durable.next \in Nat /\ base \in Nat /\ sent \in Nat
      /\ envelope.copy.ledger \in Ledgers /\ envelope.copy.ledger.next \in Nat
  BY <1>1, TakenFacts DEF LedgerTypes
<1>6. ASSUME Live
      PROVE  /\ Durable.next <= ledger.next
             /\ ledger.next >= envelope.copy.ledger.next
             /\ base + 1 <= ledger.next
             /\ checkpoint.run = run.id =>
                  /\ checkpoint.ledger.rev <= ledger.rev
                  /\ checkpoint.ledger.next <= ledger.next
                  /\ checkpoint.ledger.rev = ledger.rev
                       => checkpoint.ledger.next = ledger.next
  <2>1. CopiesAreOrdered /\ SentAreNumbered
    BY <1>6 DEF LedgerInv
  <2>2. checkpoint.run = run.id => checkpoint.ledger \in Taken
    BY DEF Taken
  <2>3. /\ ledger.next >= envelope.copy.ledger.next
        /\ base + 1 <= ledger.next
        /\ checkpoint.run = run.id =>
             /\ checkpoint.ledger.rev <= ledger.rev
             /\ checkpoint.ledger.next <= ledger.next
             /\ checkpoint.ledger.rev = ledger.rev => checkpoint.ledger.next = ledger.next
    BY <2>1, <2>2 DEF CopiesAreOrdered, SentAreNumbered
  <2>4. Durable.next <= ledger.next
    BY <1>5, <2>3 DEF Durable
  <2> QED
    BY <2>3, <2>4
<1> QED
  BY <1>3, <1>4, <1>5, <1>6
\* The copies with nothing in them.
LEMMA NoCopyFacts ==
  /\ NoCopy \in Copies /\ NoCopy.run = 0 /\ NoCopy.ledger = NewLedger
  /\ NoEnvelope.reason = "none" /\ NoEnvelope.copy = NoCopy
  /\ NoEnvelope \in [reason : {"none", "paused", "blocked", "restarted"}, copy : Copies]
  /\ NoAttempt \in Attempts /\ NoAttempt.at = "idle" /\ NoAttempt.copy = NewLedger
<1>1. NoCopy \in Copies /\ NoCopy.run = 0 /\ NoCopy.ledger = NewLedger
  BY NewLedgerFacts, InputAssumption DEF NoCopy, Copies
<1>2. NoAttempt \in Attempts /\ NoAttempt.at = "idle" /\ NoAttempt.copy = NewLedger
  BY NewLedgerFacts, InputAssumption DEF NoAttempt, Attempts
<1> QED
  BY <1>1, <1>2 DEF NoEnvelope

\* What was sent in a state where the run goes on, or a restart could make it.
LEMMA SentFacts ==
  ASSUME LedgerInv, phase \in {"running", "waiting", "down"} \/ envelope.reason = "restarted",
         sent > 0
  PROVE  base + sent + 1 <= Durable.next
  BY DEF LedgerInv, SentAreDurable

\* The run pauses.
LEMMA PauseStep ==
  ASSUME LedgerInv, PauseRun
  PROVE  LedgerInv'
<1> USE DEF historyVars
<1>1. /\ phase = "running" /\ \A c \in Callers : caller[c].at = "idle"
      /\ phase' = "paused" /\ suspended' = TRUE /\ checkpoint' = NoCopy
      /\ envelope' = [reason |-> "paused", copy |-> [run |-> run.id, ledger |-> ledger]]
      /\ UNCHANGED <<ledger, run, caller, base, sent, overrun, finals>>
      /\ run.id \in 1..MaxRuns /\ overrun \in Nat /\ finals \in BOOLEAN
  BY DEF PauseRun, AllIdle, LedgerInv, LedgerTypes
<1>2. Live
  BY <1>1 DEF Live
<1>3. /\ DOMAIN ledger.pending = {} /\ \A c \in Callers : caller[c].copy = NewLedger
      /\ ledger \in Ledgers /\ ledger.next \in Nat /\ ledger.rev \in Nat
      /\ Durable.next \in Nat /\ base \in Nat /\ sent \in Nat
      /\ Durable.next <= ledger.next /\ base + 1 <= ledger.next
  BY <1>1, <1>2, IdleFacts
<1>4. /\ envelope'.reason = "paused" /\ envelope'.copy.ledger = ledger
      /\ envelope' \in [reason : {"none", "paused", "blocked", "restarted"}, copy : Copies]
  BY <1>1, <1>3 DEF Copies
<1>5. LedgerTypes'
  BY <1>1, <1>4, NoCopyFacts DEF LedgerInv, LedgerTypes
<1>6. PhasesAgree'
  BY <1>1, <1>4 DEF PhasesAgree
<1>7. checkpoint'.run # run'.id /\ Durable' = ledger
  BY <1>1, <1>4, NoCopyFacts DEF Durable
<1>8. sent > 0 => base + sent + 1 <= ledger.next
  BY <1>1, <1>3, SentFacts
<1>9. Within(checkpoint'.ledger, overrun', finals') /\ Within(ledger', overrun', finals')
  BY <1>1, NoCopyFacts, NewLedgerFacts, WithinFacts DEF LedgerInv, SpendingIsWithin
<1>10. ledger'.next >= envelope'.copy.ledger.next /\ base' + 1 <= ledger'.next
  BY <1>1, <1>3, <1>4
<1> QED
  BY <1>1, <1>3, <1>4, <1>5, <1>6, <1>7, <1>8, <1>9, <1>10, IdleStep

\* The run waits for a permission.
LEMMA WaitStep ==
  ASSUME LedgerInv, WaitForPermission
  PROVE  LedgerInv'
<1> USE DEF historyVars
<1>1. /\ phase = "running" /\ \A c \in Callers : caller[c].at = "idle"
      /\ phase' = "waiting" /\ suspended' = TRUE
      /\ envelope' = [reason |-> "blocked", copy |-> [run |-> run.id, ledger |-> ledger]]
      /\ UNCHANGED <<ledger, run, caller, checkpoint, base, sent, overrun, finals>>
      /\ run.id \in 1..MaxRuns
  BY DEF WaitForPermission, AllIdle, LedgerInv, LedgerTypes
<1>2. Live
  BY <1>1 DEF Live
<1>3. /\ DOMAIN ledger.pending = {} /\ \A c \in Callers : caller[c].copy = NewLedger
      /\ ledger \in Ledgers /\ ledger.next \in Nat /\ ledger.rev \in Nat
      /\ Durable.next \in Nat /\ base \in Nat /\ sent \in Nat
      /\ Durable.next <= ledger.next /\ base + 1 <= ledger.next
      /\ checkpoint.run = run.id =>
           /\ checkpoint.ledger.rev <= ledger.rev
           /\ checkpoint.ledger.next <= ledger.next
           /\ checkpoint.ledger.rev = ledger.rev => checkpoint.ledger.next = ledger.next
  BY <1>1, <1>2, IdleFacts
<1>4. /\ envelope'.reason = "blocked" /\ envelope'.copy.ledger = ledger
      /\ envelope' \in [reason : {"none", "paused", "blocked", "restarted"}, copy : Copies]
  BY <1>1, <1>3 DEF Copies
<1>5. LedgerTypes'
  BY <1>1, <1>4 DEF LedgerInv, LedgerTypes
<1>6. PhasesAgree'
  BY <1>1, <1>3, <1>4 DEF LedgerInv, PhasesAgree
<1>7. Durable'.next >= Durable.next /\ Durable'.next \in Nat
  <2>1. CASE checkpoint.run = run.id
    BY <1>1, <1>3, <2>1 DEF Durable
  <2>2. CASE checkpoint.run # run.id
    <3>1. Durable' = ledger
      BY <1>1, <1>4, <2>2 DEF Durable
    <3> QED
      BY <1>3, <3>1
  <2> QED
    BY <2>1, <2>2
<1>8. sent > 0 => base + sent + 1 <= Durable'.next
  BY <1>1, <1>3, <1>7, SentFacts
<1>9. /\ Within(checkpoint'.ledger, overrun', finals') /\ Within(ledger', overrun', finals')
      /\ Within(envelope'.copy.ledger, overrun', finals')
  BY <1>1, <1>4 DEF LedgerInv, SpendingIsWithin
<1>10. ledger'.next >= envelope'.copy.ledger.next /\ base' + 1 <= ledger'.next
  BY <1>1, <1>3, <1>4
<1>11. checkpoint'.run = run'.id =>
         /\ checkpoint'.ledger.rev <= ledger'.rev
         /\ checkpoint'.ledger.next <= ledger'.next
         /\ checkpoint'.ledger.rev = ledger'.rev => checkpoint'.ledger.next = ledger'.next
  BY <1>1, <1>3
<1>12. sent' > 0 => base' + sent' + 1 <= Durable'.next
  BY <1>1, <1>8
<1>13. /\ \A c \in Callers : caller'[c].at = "idle" /\ caller'[c].copy = NewLedger
       /\ DOMAIN ledger'.pending = {}
  BY <1>1, <1>3
<1> QED
  BY <1>5, <1>6, <1>9, <1>10, <1>11, <1>12, <1>13, IdleStep

\* The run completes.
LEMMA CompleteStep ==
  ASSUME LedgerInv, CompleteRun
  PROVE  LedgerInv'
<1> USE DEF historyVars
<1>1. /\ phase = "running" /\ \A c \in Callers : caller[c].at = "idle"
      /\ phase' = "ended" /\ checkpoint' = NoCopy
      /\ UNCHANGED <<ledger, run, caller, suspended, envelope, base, sent, overrun, finals>>
      /\ overrun \in Nat /\ finals \in BOOLEAN
  BY DEF CompleteRun, AllIdle, LedgerInv, LedgerTypes
<1>2. ~suspended /\ envelope.reason \in {"none", "blocked"}
      /\ (envelope.reason = "none" => envelope.copy = NoCopy)
  BY <1>1 DEF LedgerInv, PhasesAgree
<1>3. DOMAIN ledger.pending = {} /\ \A c \in Callers : caller[c].copy = NewLedger
  BY <1>1, IdleFacts
<1>4. LedgerTypes'
  BY <1>1, NoCopyFacts DEF LedgerInv, LedgerTypes
<1>5. PhasesAgree'
  BY <1>1, <1>2 DEF PhasesAgree
<1>6. ~Live' /\ phase' \notin {"waiting", "down"} /\ envelope'.reason # "restarted"
  BY <1>1, <1>2 DEF Live
<1>7. Within(checkpoint'.ledger, overrun', finals')
  BY <1>1, NoCopyFacts, NewLedgerFacts, WithinFacts
<1>8. Within(ledger', overrun', finals') /\ Within(envelope'.copy.ledger, overrun', finals')
  BY <1>1, <1>2 DEF LedgerInv, SpendingIsWithin
<1> QED
  BY <1>1, <1>3, <1>4, <1>5, <1>6, <1>7, <1>8, IdleStep

\* The permission is resolved.
LEMMA ResumeStep ==
  ASSUME LedgerInv, ResumeWaiting
  PROVE  LedgerInv'
<1> USE DEF durableVars, historyVars
<1>1. /\ phase = "waiting" /\ phase' = "running" /\ suspended' = FALSE
      /\ ledger' = IF suspended THEN ledger ELSE SettleAllPendingAsUnknown(envelope.copy.ledger)
      /\ UNCHANGED <<run, caller, checkpoint, envelope, base, sent, overrun, finals>>
  BY DEF ResumeWaiting, FromPersistedSnapshot
<1>2. /\ \A c \in Callers : caller[c].at = "idle"
      /\ envelope.reason = "blocked" /\ DOMAIN envelope.copy.ledger.pending = {}
      /\ base + 1 <= envelope.copy.ledger.next
      /\ suspended => ledger = envelope.copy.ledger
      /\ ~suspended => checkpoint = NoCopy
      /\ run.id \in 1..MaxRuns
  BY <1>1 DEF LedgerInv, PhasesAgree, LedgerTypes
<1>3. /\ \A c \in Callers : caller[c].copy = NewLedger
      /\ ledger.next \in Nat /\ ledger.rev \in Nat
      /\ envelope.copy.ledger \in Ledgers /\ envelope.copy.ledger.next \in Nat
      /\ Live => (checkpoint.run = run.id =>
                    /\ checkpoint.ledger.rev <= ledger.rev
                    /\ checkpoint.ledger.next <= ledger.next
                    /\ checkpoint.ledger.rev = ledger.rev
                         => checkpoint.ledger.next = ledger.next)
  BY <1>2, IdleFacts
<1>4. ledger' = envelope.copy.ledger
  <2>1. SettleAllPendingAsUnknown(envelope.copy.ledger) = envelope.copy.ledger
    BY <1>2, <1>3, SettleAllFacts
  <2> QED
    BY <1>1, <1>2, <2>1
<1>5. LedgerTypes'
  BY <1>1, <1>3, <1>4 DEF LedgerInv, LedgerTypes
<1>6. PhasesAgree'
  BY <1>1, <1>2 DEF LedgerInv, PhasesAgree
<1>7. checkpoint'.run = run'.id =>
        /\ checkpoint'.ledger.rev <= ledger'.rev
        /\ checkpoint'.ledger.next <= ledger'.next
        /\ checkpoint'.ledger.rev = ledger'.rev => checkpoint'.ledger.next = ledger'.next
  <2>1. CASE suspended
    BY <1>1, <1>3, <2>1 DEF Live
  <2>2. CASE ~suspended
    <3>1. checkpoint'.run = 0 /\ run'.id # 0
      BY <1>1, <1>2, <2>2, NoCopyFacts
    <3> QED
      BY <3>1
  <2> QED
    BY <2>1, <2>2
<1>8. sent' > 0 => base' + sent' + 1 <= Durable'.next
  <2>1. Durable' = Durable
    BY <1>1 DEF Durable
  <2> QED
    BY <1>1, <2>1, SentFacts
<1>9. /\ Within(checkpoint'.ledger, overrun', finals') /\ Within(ledger', overrun', finals')
      /\ Within(envelope'.copy.ledger, overrun', finals')
  BY <1>1, <1>2, <1>4 DEF LedgerInv, SpendingIsWithin
<1>10. /\ ledger'.next >= envelope'.copy.ledger.next /\ base' + 1 <= ledger'.next
       /\ DOMAIN ledger'.pending = {}
       /\ \A c \in Callers : caller'[c].at = "idle" /\ caller'[c].copy = NewLedger
  BY <1>1, <1>2, <1>3, <1>4
<1> QED
  BY <1>5, <1>6, <1>7, <1>8, <1>9, <1>10, IdleStep

\* A retry, with or without the control in memory.
LEMMA RetryStep ==
  ASSUME LedgerInv, ContinueStoppedRun \/ RetryFromEnvelope
  PROVE  LedgerInv'
<1>1. /\ phase = "paused" /\ phase' = "running" /\ suspended' = FALSE
      /\ envelope' = NoEnvelope /\ caller' = caller /\ checkpoint' = checkpoint
      /\ base' = ledger'.lineage.attempts /\ sent' = 0
      /\ suspended \in BOOLEAN
  BY DEF ContinueStoppedRun, RetryFromEnvelope, NewHistory, LedgerInv, LedgerTypes
<1>2. /\ \A c \in Callers : caller[c].at = "idle"
      /\ checkpoint = NoCopy
  BY <1>1 DEF LedgerInv, PhasesAgree
<1>3. /\ \A c \in Callers : caller[c].copy = NewLedger
      /\ ledger \in Ledgers /\ envelope.copy.ledger \in Ledgers
  BY <1>2, IdleFacts
<1>4. /\ run' \in [id : 1..MaxRuns, stop : {"no", "other", "resources"},
                   epoch : 0..MaxSteers, applied : 0..MaxSteers]
      /\ run'.id \in 1..MaxRuns
  <2>1. run \in [id : 1..MaxRuns, stop : {"no", "other", "resources"},
                 epoch : 0..MaxSteers, applied : 0..MaxSteers]
    BY DEF LedgerInv, LedgerTypes
  <2>2. run.id + 1 \in 1..MaxRuns
    BY <2>1, InputAssumption DEF ContinueStoppedRun, RetryFromEnvelope
  <2>3. PICK i : i = run.id + 1
    OBVIOUS
  <2>4. \/ run' = [run EXCEPT !.id = i, !.stop = "no"]
        \/ run' = [run EXCEPT !.id = i, !.stop = "no", !.epoch = run.applied]
    BY <2>1, <2>3 DEF ContinueStoppedRun, RetryFromEnvelope
  <2> QED
    BY <2>1, <2>2, <2>3, <2>4
<1>5. /\ ledger' \in Ledgers /\ DOMAIN ledger'.pending = {}
      /\ overrun' \in Nat /\ finals' \in BOOLEAN /\ Within(ledger', overrun', finals')
  <2>0. overrun \in Nat /\ finals \in BOOLEAN
    BY DEF LedgerInv, LedgerTypes
  <2>1. CASE ContinueStoppedRun
    <3>1. ledger' = StartNewSegment(ledger) /\ overrun' = 0 /\ finals' = FALSE
      BY <2>1 DEF ContinueStoppedRun, NewHistory
    <3> QED
      BY <1>3, <3>1, NewSegmentFacts, WithinFacts
  <2>2. CASE RetryFromEnvelope /\ envelope.copy = NoCopy
    <3>1. ledger' = NewLedger /\ overrun' = 0 /\ finals' = FALSE
      BY <2>2 DEF RetryFromEnvelope, RestoredLedger
    <3> QED
      BY <3>1, NewLedgerFacts, WithinFacts
  <2>3. CASE RetryFromEnvelope /\ envelope.copy # NoCopy /\ envelope.reason = "paused"
    <3>1. PICK l : l = SettleAllPendingAsUnknown(envelope.copy.ledger)
      OBVIOUS
    <3>2. l \in Ledgers
      BY <1>3, <3>1, SettleAllFacts
    <3>3. ledger' = StartNewSegment(l) /\ overrun' = 0 /\ finals' = FALSE
      BY <2>3, <3>1 DEF RetryFromEnvelope, RestoredLedger, FromPersistedSnapshot
    <3> QED
      BY <3>2, <3>3, NewSegmentFacts, WithinFacts
  <2>4. CASE RetryFromEnvelope /\ envelope.copy # NoCopy /\ envelope.reason # "paused"
    <3>1. ledger' = SettleAllPendingAsUnknown(envelope.copy.ledger)
          /\ overrun' = overrun /\ finals' = finals
      BY <2>4 DEF RetryFromEnvelope, RestoredLedger, FromPersistedSnapshot
    <3>2. Within(envelope.copy.ledger, overrun, finals)
      BY <2>4 DEF LedgerInv, SpendingIsWithin
    <3>3. /\ ledger' \in Ledgers /\ DOMAIN ledger'.pending = {}
          /\ ledger'.segment.attempts = envelope.copy.ledger.segment.attempts
          /\ Charged(ledger'.segment) = Charged(envelope.copy.ledger.segment)
      BY <1>3, <3>1, SettleAllFacts
    <3>4. Within(ledger', overrun, finals)
      BY <3>2, <3>3 DEF Within
    <3> QED
      BY <2>0, <3>1, <3>3, <3>4
  <2> QED
    BY <2>1, <2>2, <2>3, <2>4
<1>6. base' = ledger'.next - 1 /\ ledger'.next \in Nat \ {0} /\ base' \in Nat
  BY <1>1, <1>5, LedgerParts
<1>7. LedgerTypes'
  BY <1>1, <1>4, <1>5, <1>6, NoCopyFacts DEF LedgerInv, LedgerTypes
<1>8. /\ checkpoint' = NoCopy /\ checkpoint'.ledger = NewLedger /\ checkpoint'.run # run'.id
      /\ envelope'.reason = "none" /\ envelope'.copy = NoCopy
      /\ envelope'.copy.ledger = NewLedger
  BY <1>1, <1>2, <1>4, NoCopyFacts
<1>9. PhasesAgree'
  BY <1>1, <1>8 DEF PhasesAgree
<1>10. /\ ledger'.next >= envelope'.copy.ledger.next /\ base' + 1 <= ledger'.next
       /\ ~(sent' > 0)
  BY <1>1, <1>6, <1>8, NewLedgerFacts
<1>11. /\ Within(checkpoint'.ledger, overrun', finals')
       /\ Within(envelope'.copy.ledger, overrun', finals')
  BY <1>5, <1>8, NewLedgerFacts, WithinFacts
<1> QED
  BY <1>1, <1>2, <1>3, <1>5, <1>7, <1>8, <1>9, <1>10, <1>11, IdleStep

\* The application goes down.
LEMMA CrashStep ==
  ASSUME LedgerInv, Crash
  PROVE  LedgerInv'
<1> USE DEF historyVars
<1>1. /\ phase \in {"running", "paused", "waiting"}
      /\ caller' = [c \in Callers |-> NoAttempt] /\ suspended' = FALSE /\ ledger' = NewLedger
      /\ phase' = IF phase = "running" THEN "down" ELSE phase
      /\ checkpoint' = IF phase = "waiting" THEN NoCopy ELSE checkpoint
      /\ UNCHANGED <<run, envelope, base, sent, overrun, finals>>
      /\ overrun \in Nat /\ finals \in BOOLEAN /\ run.id \in 1..MaxRuns
  BY DEF Crash, LedgerInv, LedgerTypes
<1>2. LedgerTypes'
  BY <1>1, NoCopyFacts, NewLedgerFacts DEF LedgerInv, LedgerTypes
<1>3. \A c \in Callers : caller'[c].at = "idle" /\ caller'[c].copy = NewLedger
  BY <1>1, NoCopyFacts
<1>4. PhasesAgree'
  BY <1>1, <1>3 DEF LedgerInv, PhasesAgree
<1>5. ~Live'
  BY <1>1 DEF Live
<1>6. Within(ledger', overrun', finals') /\ Within(NewLedger, overrun', finals')
  BY <1>1, NewLedgerFacts, WithinFacts
<1>7. Within(checkpoint'.ledger, overrun', finals')
      /\ (envelope'.reason # "paused" => Within(envelope'.copy.ledger, overrun', finals'))
  BY <1>1, <1>6, NoCopyFacts DEF LedgerInv, SpendingIsWithin
<1>8. ASSUME phase' \in {"waiting", "down"} \/ envelope'.reason = "restarted", sent' > 0
      PROVE  base' + sent' + 1 <= Durable'.next
  <2>1. phase \in {"running", "waiting", "down"} \/ envelope.reason = "restarted"
    BY <1>1, <1>8
  <2>2. base + sent + 1 <= Durable.next
    BY <1>1, <1>8, <2>1, SentFacts
  <2>3. CASE phase # "waiting"
    <3>1. Durable' = Durable
      BY <1>1, <2>3 DEF Durable
    <3> QED
      BY <1>1, <2>2, <3>1
  <2>4. CASE phase = "waiting"
    <3>1. Durable' = envelope.copy.ledger
      BY <1>1, <2>4, NoCopyFacts DEF Durable
    <3>2. \A c \in Callers : caller[c].at = "idle"
      BY <2>4 DEF LedgerInv, PhasesAgree
    <3>3. /\ Durable.next \in Nat /\ base \in Nat /\ sent \in Nat
          /\ envelope.copy.ledger.next \in Nat
          /\ Live => Durable.next <= ledger.next
      BY <3>2, IdleFacts
    <3>4. CASE suspended
      <4>1. ledger = envelope.copy.ledger /\ Live
        BY <2>4, <3>4 DEF LedgerInv, PhasesAgree, Live
      <4> QED
        BY <1>1, <2>2, <3>1, <3>3, <4>1
    <3>5. CASE ~suspended
      <4>1. Durable = envelope.copy.ledger
        BY <1>1, <2>4, <3>5, NoCopyFacts DEF LedgerInv, PhasesAgree, Durable
      <4> QED
        BY <1>1, <2>2, <3>1, <4>1
    <3> QED
      BY <3>4, <3>5
  <2> QED
    BY <2>3, <2>4
<1>9. DOMAIN ledger'.pending = {}
  BY <1>1, NewLedgerFacts
<1> QED
  BY <1>2, <1>3, <1>4, <1>5, <1>6, <1>7, <1>8, <1>9, IdleStep

\* Start-up makes an envelope of what an interrupted run left on disk.
LEMMA RecoverStep ==
  ASSUME LedgerInv, RecoverInterruptedRun
  PROVE  LedgerInv'
<1> USE DEF historyVars
<1>1. /\ phase = "down" /\ phase' = "paused" /\ checkpoint' = NoCopy
      /\ envelope' = [reason |-> "restarted",
                      copy |-> IF checkpoint.run = run.id THEN checkpoint ELSE envelope.copy]
      /\ UNCHANGED <<ledger, run, caller, suspended, base, sent, overrun, finals>>
      /\ overrun \in Nat /\ finals \in BOOLEAN /\ run.id \in 1..MaxRuns
      /\ checkpoint \in Copies /\ envelope.copy \in Copies
  BY DEF RecoverInterruptedRun, LedgerInv, LedgerTypes
<1>2. /\ \A c \in Callers : caller[c].at = "idle"
      /\ ~suspended /\ envelope.reason \in {"none", "blocked"}
  BY <1>1 DEF LedgerInv, PhasesAgree
<1>3. DOMAIN ledger.pending = {} /\ \A c \in Callers : caller[c].copy = NewLedger
  BY <1>2, IdleFacts
<1>4. /\ envelope'.reason = "restarted" /\ envelope'.copy.ledger = Durable
      /\ envelope' \in [reason : {"none", "paused", "blocked", "restarted"}, copy : Copies]
  BY <1>1 DEF Durable
<1>5. LedgerTypes'
  BY <1>1, <1>4, NoCopyFacts DEF LedgerInv, LedgerTypes
<1>6. ~suspended'
  BY <1>1, <1>2
<1>7. PhasesAgree'
  BY <1>1, <1>2, <1>4, <1>6 DEF PhasesAgree
<1>8. ~Live'
  BY <1>1, <1>6 DEF Live
<1>9. Durable' = Durable
  BY <1>1, <1>4, NoCopyFacts DEF Durable
<1>10. sent' > 0 => base' + sent' + 1 <= Durable'.next
  BY <1>1, <1>9, SentFacts
<1>11. Within(checkpoint'.ledger, overrun', finals')
  BY <1>1, NoCopyFacts, NewLedgerFacts, WithinFacts
<1>12. envelope.reason # "paused"
  BY <1>2
<1>13. Within(ledger', overrun', finals') /\ Within(envelope'.copy.ledger, overrun', finals')
  BY <1>1, <1>4, <1>12 DEF LedgerInv, SpendingIsWithin, Durable
<1> QED
  BY <1>1, <1>2, <1>3, <1>5, <1>7, <1>8, <1>10, <1>11, <1>13, IdleStep
-----------------------------------------------------------------------------
(* The theorems.                                                           *)

\* A new run's ledger, callers and disk agree.
LEMMA LedgerInit == Init => LedgerInv
<1> SUFFICES ASSUME Init PROVE LedgerInv
  OBVIOUS
<1>1. /\ ledger = NewLedger /\ caller = [c \in Callers |-> NoAttempt] /\ phase = "running"
      /\ run = [id |-> 1, stop |-> "no", epoch |-> 0, applied |-> 0]
      /\ suspended = FALSE /\ checkpoint = NoCopy /\ envelope = NoEnvelope
      /\ base = 0 /\ sent = 0 /\ overrun = 0 /\ finals = FALSE
  BY DEF Init
<1>2. LedgerTypes
  <2>1. run \in [id : 1..MaxRuns, stop : {"no", "other", "resources"},
                 epoch : 0..MaxSteers, applied : 0..MaxSteers]
    BY <1>1, InputAssumption
  <2>2. caller \in [Callers -> Attempts]
    BY <1>1, NoCopyFacts
  <2>3. ledger \in Ledgers /\ checkpoint \in Copies
        /\ envelope \in [reason : {"none", "paused", "blocked", "restarted"}, copy : Copies]
    BY <1>1, NewLedgerFacts, NoCopyFacts
  <2>4. /\ phase \in {"running", "waiting", "paused", "down", "ended"}
        /\ suspended \in BOOLEAN /\ finals \in BOOLEAN
        /\ base \in Nat /\ sent \in Nat /\ overrun \in Nat
    BY <1>1
  <2> QED
    BY <2>1, <2>2, <2>3, <2>4 DEF LedgerTypes
<1>3. \A c \in Callers : caller[c].at = "idle" /\ caller[c].copy = NewLedger
  BY <1>1, NoCopyFacts
<1>4. PhasesAgree
  BY <1>1, NoCopyFacts DEF PhasesAgree
<1>5. Holders = {} /\ \A c \in Callers : ~Copying(c)
  BY <1>3 DEF Holders, Holds, Copying
<1>6. CallersAgree /\ HandsAgree
  <2>1. CallersAgree
    BY <1>3 DEF CallersAgree, Callers
  <2>2. HandsAgree
    BY <1>1, <1>5, NewLedgerFacts, FS_EmptySet DEF HandsAgree
  <2> QED
    BY <2>1, <2>2
<1>7. CopiesAreOrdered
  <2>1. checkpoint.run # run.id
    BY <1>1, NoCopyFacts
  <2>2. Taken = {}
    BY <1>5, <2>1 DEF Taken
  <2>3. ledger.next >= envelope.copy.ledger.next
    BY <1>1, NoCopyFacts, NewLedgerFacts
  <2> QED
    BY <1>3, <1>5, <2>2, <2>3 DEF CopiesAreOrdered
<1>8. SentAreNumbered
  <2>1. ledger.next = 1 /\ base + 1 <= ledger.next
    BY <1>1, NewLedgerFacts
  <2>2. ASSUME NEW n \in (base + 1)..ledger.next
        PROVE  base + sent + Cardinality(Unsent(n)) <= n - 1
    <3>1. Unsent(n) = {}
      BY <1>3 DEF Unsent, Callers
    <3>2. Cardinality(Unsent(n)) = 0
      BY <3>1, FS_EmptySet
    <3>3. n = 1
      BY <1>1, <2>1
    <3> QED
      BY <1>1, <3>2, <3>3
  <2> QED
    BY <2>1, <2>2 DEF SentAreNumbered
<1>9. DispatchIsRecorded /\ SentAreDurable
  <2>1. DispatchIsRecorded
    BY <1>3 DEF DispatchIsRecorded, Callers
  <2>2. SentAreDurable
    BY <1>1 DEF SentAreDurable
  <2> QED
    BY <2>1, <2>2
<1>10. SpendingIsWithin
  <2>1. Within(NewLedger, overrun, finals)
    BY <1>1, NewLedgerFacts, WithinFacts
  <2> QED
    BY <1>1, <1>3, <2>1, NoCopyFacts DEF SpendingIsWithin
<1> QED
  BY <1>2, <1>4, <1>6, <1>7, <1>8, <1>9, <1>10 DEF LedgerInv

\* Every step keeps the invariant.
LEMMA LedgerStep == LedgerInv /\ [Next]_vars => LedgerInv'
<1> SUFFICES ASSUME LedgerInv, [Next]_vars PROVE LedgerInv'
  OBVIOUS
<1>1. CASE RunStep
  BY <1>1, RunQuiet, PauseStep, WaitStep, CompleteStep, ResumeStep, RetryStep, CrashStep,
     RecoverStep DEF RunStep
<1>2. ASSUME NEW c \in Callers, CallerStep(c) PROVE LedgerInv'
  <2>1. ASSUME NEW class \in Classes(c), NEW size \in Sizes,
               BeginPhysicalModelAttempt(c, class, size)
        PROVE  LedgerInv'
    BY <2>1, ReserveStep
  <2>2. CASE \/ BeginCall(c) \/ RefuseStopped(c) \/ RefuseSuperseded(c)
             \/ \E class \in Classes(c), size \in Sizes : RefuseReserve(c, class, size)
    BY <2>2, CallerQuiet
  <2>3. CASE \/ CheckpointFails(c) \/ Unwind(c)
             \/ \E usage \in Usages \cup {Unknown} : ProviderAnswers(c, usage)
    BY <2>3, SettlingActions
  <2>4. CASE ReadUsage(c) \/ RecordAndDispatch(c) \/ RecordSettlement(c)
    BY <2>4, ReadStep, DispatchStep, ClosingStep
  <2> QED
    BY <1>2, <2>1, <2>2, <2>3, <2>4 DEF CallerStep
<1>3. CASE UNCHANGED vars
  <2>1. UNCHANGED <<ledger, run, caller, phase, suspended, durableVars, historyVars>>
    BY <1>3 DEF vars
  <2>2. run \in [id : 1..MaxRuns, stop : {"no", "other", "resources"},
                 epoch : 0..MaxSteers, applied : 0..MaxSteers] /\ caller \in [Callers -> Attempts]
    BY DEF LedgerInv, LedgerTypes
  <2> QED
    BY <2>1, <2>2, QuietStep
<1> QED
  BY <1>1, <1>2, <1>3 DEF Next

\* The ledger, its copies and its callers agree in every reachable state, however
\* many callers, steers, stops, failed writes and restarts there are.
THEOREM LedgerInvariant == Spec => []LedgerInv
  BY LedgerInit, LedgerStep, PTL DEF Spec

\* The ledger balances: what is reserved is what the attempts in flight reserved,
\* each attempt is in flight or settled once, and each attempt in flight has one
\* caller (reserve, settle, settle_all_pending_as_unknown).
THEOREM LedgerAlwaysBalances == Spec => []LedgerBalances
<1>1. LedgerInv => LedgerBalances
  <2> SUFFICES ASSUME LedgerInv PROVE LedgerBalances
    OBVIOUS
  <2>1. LedgerTypes /\ HandsAgree
    BY DEF LedgerInv
  <2>2. TypeOK
    <3>1. IsLedger(ledger) /\ IsLedger(checkpoint.ledger) /\ IsLedger(envelope.copy.ledger)
      BY <2>1, LedgersAreLedgers DEF LedgerTypes, Copies
    <3>2. \A c \in Callers :
            /\ caller[c].at \in {"idle", "ready", "reserved", "recording", "calling",
                                 "settled", "closing"}
            /\ caller[c].copy \in Ledgers
      BY <2>1 DEF LedgerTypes, Attempts
    <3>3. \A c \in Callers : IsLedger(caller[c].copy)
      BY <3>2, LedgersAreLedgers
    <3>4. checkpoint.run \in 0..MaxRuns
          /\ envelope.reason \in {"none", "paused", "blocked", "restarted"}
      BY <2>1 DEF LedgerTypes, Copies
    <3> QED
      BY <2>1, <3>1, <3>2, <3>3, <3>4 DEF TypeOK, LedgerTypes
  <2>3. /\ Balanced(ledger.segment, ledger.pending) /\ Balanced(ledger.lineage, ledger.pending)
        /\ ledger.segment.attempts <= ledger.lineage.attempts
        /\ ledger.segment.total <= ledger.lineage.total
    BY <2>1, LedgerParts DEF LedgerTypes
  <2>4. DOMAIN ledger.pending = {caller[c].id : c \in Holders}
    BY <2>1 DEF HandsAgree
  <2>5. Cardinality(DOMAIN ledger.pending) = Cardinality(Holders)
    <3> DEFINE f == [c \in Holders |-> caller[c].id]
    <3>1. f \in Bijection(Holders, DOMAIN ledger.pending)
      BY <2>1, <2>4 DEF HandsAgree, Bijection, Injection, Surjection, IsInjective
    <3> QED
      BY <2>1, <3>1, FS_Bijection DEF HandsAgree, ExistsBijection
  <2> QED
    BY <2>2, <2>3, <2>4, <2>5 DEF LedgerBalances, Balanced, Holders
<1> QED
  BY <1>1, LedgerInvariant, PTL

\* A segment never goes beyond its budget but by what providers used beyond their
\* reservations, restarts into the same segment included.
THEOREM CeilingAlwaysHolds == Spec => []CeilingHolds
<1>1. LedgerInv => CeilingHolds
  BY DEF LedgerInv, SpendingIsWithin, Within, CeilingHolds
<1> QED
  BY <1>1, LedgerInvariant, PTL

\* With no more callers than MAX_PENDING_RESOURCE_ATTEMPTS, the reserve for the
\* final answer is there until the finalizer has spent it.
THEOREM ReserveAlwaysHolds ==
  ASSUME IsFiniteSet(Callers), Cardinality(Callers) <= PendingLimit
  PROVE  Spec => []CeilingAndReserveHold
<1>1. LedgerInv => CeilingAndReserveHold
  <2> SUFFICES ASSUME LedgerInv PROVE CeilingAndReserveHold
    OBVIOUS
  <2>1. CeilingHolds
    BY DEF LedgerInv, SpendingIsWithin, Within, CeilingHolds
  <2>2. ASSUME ~finals, overrun = 0, NEW c \in Recorders, ~Holds(c),
               NEW size \in Sizes, size <= TokenReserve
        PROVE  Admission(ledger, "finalizer", size) = "admitted"
    <3>1. LedgerTypes /\ HandsAgree /\ Within(ledger, overrun, finals)
      BY DEF LedgerInv, SpendingIsWithin
    <3>2. /\ ledger.segment.attempts + AttemptReserve <= MaxAttempts
          /\ Charged(ledger.segment) + TokenReserve <= MaxTokens
      BY <2>2, <3>1, BudgetAssumption DEF Within
    <3>3. /\ ledger.next \notin DOMAIN ledger.pending
          /\ Charged(ledger.segment) \in Nat /\ ledger.segment.attempts \in Nat
          /\ size \in Nat
      BY <3>1, LedgerParts, UsageParts, InputAssumption DEF LedgerTypes
    <3>4. Cardinality(DOMAIN ledger.pending) < PendingLimit
      <4> DEFINE f == [d \in Holders |-> caller[d].id]
      <4>1. f \in Bijection(Holders, DOMAIN ledger.pending)
        BY <3>1 DEF HandsAgree, Bijection, Injection, Surjection, IsInjective
      <4>2. Cardinality(DOMAIN ledger.pending) = Cardinality(Holders)
        BY <3>1, <4>1, FS_Bijection DEF HandsAgree, ExistsBijection
      <4>3. c \in Callers /\ Holders \subseteq Callers \ {c}
        BY <2>2 DEF Callers, Holders
      <4>4. IsFiniteSet(Callers \ {c}) /\ Cardinality(Callers \ {c}) = Cardinality(Callers) - 1
            /\ Cardinality(Callers) \in Nat /\ Cardinality(Callers \ {c}) \in Nat
        BY <4>3, SmallerPart
      <4>5. Cardinality(Holders) \in Nat /\ Cardinality(Holders) <= Cardinality(Callers \ {c})
        BY <4>3, <4>4, FS_Subset, FS_CardinalityType
      <4> QED
        BY <4>2, <4>4, <4>5, BudgetAssumption
    <3>5. Cardinality(DOMAIN ledger.pending) \in Nat
      BY <3>1, LedgerParts DEF LedgerTypes
    <3>6. /\ ~(ledger.segment.attempts + 1 > MaxAttempts)
          /\ ~(Charged(ledger.segment) + size > MaxTokens)
          /\ ~(Cardinality(DOMAIN ledger.pending) >= PendingLimit)
      BY <2>2, <3>2, <3>3, <3>4, <3>5, BudgetAssumption
    <3> QED
      BY <3>3, <3>6 DEF Admission
  <2> QED
    BY <2>1, <2>2 DEF CeilingAndReserveHold, FinalAnswerIsAffordable
<1> QED
  BY <1>1, LedgerInvariant, PTL

\* An attempt is on disk before it is sent, and after a restart the lineage is
\* charged every attempt that was (persist_agent_resource_snapshot and the
\* recovery of an interrupted run), although two callers may write their copies
\* in the wrong order.
THEOREM AttemptsAlwaysSurviveRestart == Spec => []AttemptsSurviveRestart
<1>1. LedgerInv => AttemptsSurviveRestart
  <2> SUFFICES ASSUME LedgerInv PROVE AttemptsSurviveRestart
    OBVIOUS
  <2>1. ASSUME phase = "paused", envelope.reason = "restarted", sent > 0
        PROVE  envelope.copy.ledger.lineage.attempts >= base + sent
    <3>1. checkpoint = NoCopy /\ run.id \in 1..MaxRuns /\ base \in Nat /\ sent \in Nat
          /\ envelope.copy.ledger \in Ledgers
      BY <2>1 DEF LedgerInv, PhasesAgree, LedgerTypes, Copies
    <3>2. Durable = envelope.copy.ledger
      BY <3>1, NoCopyFacts DEF Durable
    <3>3. base + sent + 1 <= envelope.copy.ledger.next
      BY <2>1, <3>2, SentFacts
    <3>4. /\ envelope.copy.ledger.lineage.attempts = envelope.copy.ledger.next - 1
          /\ envelope.copy.ledger.next \in Nat
      BY <3>1, LedgerParts
    <3> QED
      BY <3>1, <3>3, <3>4
  <2>2. AttemptsSurviveCrash
    BY <2>1 DEF AttemptsSurviveCrash
  <2> QED
    BY <2>2 DEF LedgerInv, AttemptsSurviveRestart
<1> QED
  BY <1>1, LedgerInvariant, PTL
=============================================================================
