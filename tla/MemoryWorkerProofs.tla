-------------------------- MODULE MemoryWorkerProofs --------------------------
(***************************************************************************)
(* Proofs about MemoryWorker, for every number of completed runs, worker   *)
(* threads and attempts, every capacity and every backoff.                 *)
(*                                                                         *)
(* The inductive invariant MemoryInv says that worker_started is a token   *)
(* with one owner; that the identities the queue knows are those of the    *)
(* waiting sequence, which are distinct, and of the worker's hands; that   *)
(* waiting, claimed, owed a projection and settled exclude each other; and *)
(* that a run that scheduled its memory is in one of these places.  A      *)
(* failed start drains the queue beside a worker that a later run started, *)
(* so that what two schedulers drained must be kept apart, too.            *)
(***************************************************************************)
EXTENDS MemoryWorker, SequenceTheorems, FiniteSetTheorems, TLAPS

Waiting == [req : Requests, attempts : Nat, delay : Nat]

HoldingPlaces == {"idle", "attempt", "preempted"}

\* What a worker has in its hands: a job where it waits or asks the model,
\* projections only where it projects.
WorkerIsSound ==
  \A w \in Workers :
    /\ worker[w].at \in HoldingPlaces => worker[w].job \in Job
    /\ worker[w].at # "project" => worker[w].owed = {}

\* worker_started is a token: whoever took it spawns or is the worker.
TokenIsUnique ==
  /\ \A w, v \in Workers : worker[w].at # "off" /\ worker[v].at # "off" => w = v
  /\ \A r, s \in Requests : scheduler[r] = "spawning" /\ scheduler[s] = "spawning" => r = s
  /\ \A w \in Workers, r \in Requests : ~(worker[w].at # "off" /\ scheduler[r] = "spawning")
  /\ \A w \in Workers : worker[w].at # "off" => started
  /\ \A r \in Requests : scheduler[r] = "spawning" => started

\* Every waiting job has an identity of its own.
Distinct == \A i, j \in DOMAIN pending : pending[i].req = pending[j].req => i = j

\* Somebody owes the projection of a memory.
Owed(r) ==
  \/ \E w \in Workers : r \in worker[w].owed
  \/ \E s \in Requests : r \in drained[s]

\* Waiting, claimed, owed and settled exclude each other.
PlacesAreApart ==
  /\ Distinct
  /\ known = PendingRequests \cup InFlight
  /\ PendingRequests \cap InFlight = {}
  /\ \A r \in Requests : Owed(r) => r \notin known /\ fate[r] = "none"
  /\ \A r \in Requests : fate[r] # "none" => r \notin known
  /\ \A w \in Workers, s \in Requests : worker[w].owed \cap drained[s] = {}
  /\ \A s, t \in Requests : s # t => drained[s] \cap drained[t] = {}
  /\ \A s \in Requests : drained[s] # {} => scheduler[s] = "projecting"

\* A run that has not scheduled is nowhere, and one that has is somewhere.
EveryMemoryIsSomewhere ==
  \A r \in Requests :
    IF scheduler[r] = "running" THEN r \notin known /\ ~Owed(r) /\ fate[r] = "none"
    ELSE r \in known \/ Owed(r) \/ fate[r] # "none"

\* The identities are counted by the sequence and the worker's hands.
Counted ==
  /\ IsFiniteSet(known)
  /\ Cardinality(known) = Len(pending) + (IF InFlight = {} THEN 0 ELSE 1)
  /\ Cardinality(known) <= Capacity
  /\ metrics["accepted"] = metrics["completed"] + metrics["exhausted"]
                           + metrics["abandoned"] + Cardinality(known)

MemoryInv ==
  /\ TypeOK /\ WorkerIsSound /\ TokenIsUnique /\ PlacesAreApart
  /\ EveryMemoryIsSomewhere /\ Counted

-----------------------------------------------------------------------------
(* The queue as a sequence.                                                *)

\* A set of numbers has a least one.
LEMMA LeastOfNaturals ==
  ASSUME NEW S, S \subseteq Nat, S # {}
  PROVE  \E x \in S : \A y \in S : x <= y
<1>1. \E x \in S : \A y \in S : ~(<<y, x>> \in OpToRel(<, Nat))
  BY WFMin, NatLessThanWellFounded
<1>2. \A x, y \in Nat : ~(<<y, x>> \in OpToRel(<, Nat)) => x <= y
  BY DEF OpToRel
<1> QED
  BY <1>1, <1>2

\* The job that claim_ready takes is ready.
LEMMA FirstIsReady ==
  ASSUME pending \in Seq(Waiting), Ready # {}
  PROVE  FirstReady \in Ready /\ FirstReady \in 1..Len(pending)
<1>1. Ready \subseteq 1..Len(pending) /\ Ready \subseteq Nat
  BY DEF Ready
<1>2. \E i \in Ready : \A k \in Ready : i <= k
  BY <1>1, LeastOfNaturals
<1>3. FirstReady \in Ready
  BY <1>2 DEF FirstReady
<1> QED
  BY <1>1, <1>3

\* A job at the back.
LEMMA AppendFacts ==
  ASSUME pending \in Seq(Waiting), NEW e \in Waiting, pending' = Append(pending, e),
         Distinct, e.req \notin PendingRequests
  PROVE  /\ pending' \in Seq(Waiting) /\ Len(pending') = Len(pending) + 1
         /\ PendingRequests' = PendingRequests \cup {e.req}
         /\ Distinct'
<1>1. /\ pending' \in Seq(Waiting) /\ Len(pending') = Len(pending) + 1
      /\ DOMAIN pending' = 1..(Len(pending) + 1) /\ DOMAIN pending = 1..Len(pending)
      /\ Len(pending) \in Nat
      /\ \A i \in 1..Len(pending) : pending'[i] = pending[i]
      /\ pending'[Len(pending) + 1] = e
  BY AppendProperties
<1>2. PendingRequests' = PendingRequests \cup {e.req}
  BY <1>1 DEF PendingRequests
<1>3. Distinct'
  BY <1>1 DEF Distinct, PendingRequests
<1> QED
  BY <1>1, <1>2, <1>3

\* A job taken out.
LEMMA RemoveFacts ==
  ASSUME pending \in Seq(Waiting), NEW n \in 1..Len(pending), pending' = RemoveAt(pending, n),
         Distinct
  PROVE  /\ pending' \in Seq(Waiting) /\ Len(pending') = Len(pending) - 1
         /\ PendingRequests' = PendingRequests \ {pending[n].req}
         /\ pending[n] \in Waiting /\ pending[n].req \in PendingRequests
         /\ Distinct'
<1>0. /\ Len(pending) \in Nat /\ DOMAIN pending = 1..Len(pending)
      /\ n \in Nat /\ n >= 1 /\ n <= Len(pending)
  OBVIOUS
<1>1. /\ SubSeq(pending, 1, n - 1) \in Seq(Waiting) /\ Len(SubSeq(pending, 1, n - 1)) = n - 1
      /\ \A i \in 1..(n - 1) : SubSeq(pending, 1, n - 1)[i] = pending[i]
  BY <1>0, SubSeqProperties
<1>2. /\ SubSeq(pending, n + 1, Len(pending)) \in Seq(Waiting)
      /\ Len(SubSeq(pending, n + 1, Len(pending))) = Len(pending) - n
      /\ \A i \in 1..(Len(pending) - n) :
           SubSeq(pending, n + 1, Len(pending))[i] = pending[n + i]
  <2>1. /\ n + 1 \in Int /\ Len(pending) \in Int
        /\ \A i \in (n + 1)..Len(pending) : pending[i] \in Waiting
    BY <1>0
  <2>2. SubSeq(pending, n + 1, Len(pending)) \in Seq(Waiting)
    BY <2>1, SubSeqProperties
  <2>3. ASSUME NEW i \in 1..(Len(pending) - n)
        PROVE  SubSeq(pending, n + 1, Len(pending))[i] = pending[n + i]
    <3>1. SubSeq(pending, n + 1, Len(pending))[i] = pending[(n + 1) + i - 1]
      BY <1>0, <2>1, SubSeqProperties
    <3>2. (n + 1) + i - 1 = n + i
      BY <1>0
    <3> QED
      BY <3>1, <3>2
  <2>5. Len(SubSeq(pending, n + 1, Len(pending))) = Len(pending) - n
    <3>1. CASE n + 1 <= Len(pending)
      <4>1. Len(SubSeq(pending, n + 1, Len(pending))) = Len(pending) - (n + 1) + 1
        BY <2>1, <3>1, SubSeqProperties
      <4>2. Len(pending) - (n + 1) + 1 = Len(pending) - n
        BY <1>0
      <4> QED
        BY <4>1, <4>2
    <3>2. CASE ~(n + 1 <= Len(pending))
      <4>1. Len(SubSeq(pending, n + 1, Len(pending))) = 0
        BY <2>1, <3>2, SubSeqProperties
      <4>2. \A k \in Nat : n <= k /\ ~(n + 1 <= k) => k - n = 0
        BY <1>0
      <4>3. Len(pending) - n = 0
        BY <1>0, <3>2, <4>2
      <4> QED
        BY <4>1, <4>3
    <3> QED
      BY <3>1, <3>2
  <2> QED
    BY <2>2, <2>3, <2>5
<1>3. /\ pending' \in Seq(Waiting) /\ Len(pending') = Len(pending) - 1
      /\ DOMAIN pending' = 1..(Len(pending) - 1)
      /\ \A i \in 1..(Len(pending) - 1) :
           pending'[i] = IF i < n THEN pending[i] ELSE pending[i + 1]
  <2> DEFINE front == SubSeq(pending, 1, n - 1)
             back == SubSeq(pending, n + 1, Len(pending))
  <2>1. /\ front \in Seq(Waiting) /\ Len(front) = n - 1
        /\ \A i \in 1..(n - 1) : front[i] = pending[i]
        /\ back \in Seq(Waiting) /\ Len(back) = Len(pending) - n
        /\ \A i \in 1..(Len(pending) - n) : back[i] = pending[n + i]
    BY <1>1, <1>2
  <2>2. pending' = front \o back
    BY DEF RemoveAt
  <2> HIDE DEF front, back
  <2>3. /\ pending' \in Seq(Waiting) /\ Len(pending') = Len(front) + Len(back)
        /\ \A i \in 1..(Len(front) + Len(back)) :
             pending'[i] = IF i <= Len(front) THEN front[i] ELSE back[i - Len(front)]
    <3>1. /\ front \o back \in Seq(Waiting) /\ Len(front \o back) = Len(front) + Len(back)
          /\ \A i \in 1..(Len(front) + Len(back)) :
               (front \o back)[i] = IF i <= Len(front) THEN front[i] ELSE back[i - Len(front)]
      BY <2>1, ConcatProperties
    <3> QED
      BY <2>2, <3>1, Zenon
  <2>4. Len(pending') = Len(pending) - 1
    BY <1>0, <2>1, <2>3
  <2>5. ASSUME NEW i \in 1..(Len(pending) - 1)
        PROVE  pending'[i] = IF i < n THEN pending[i] ELSE pending[i + 1]
    <3>1. CASE i < n
      <4>1. i \in 1..(Len(front) + Len(back)) /\ i <= Len(front) /\ i \in 1..(n - 1)
        BY <1>0, <2>1, <3>1
      <4>2. pending'[i] = front[i] /\ front[i] = pending[i]
        BY <2>1, <2>3, <4>1
      <4> QED
        BY <3>1, <4>2
    <3>2. CASE ~(i < n)
      <4>1. /\ i \in 1..(Len(front) + Len(back)) /\ ~(i <= Len(front))
            /\ i - (n - 1) \in 1..(Len(pending) - n)
        BY <1>0, <2>1, <3>2
      <4>2. pending'[i] = back[i - (n - 1)] /\ back[i - (n - 1)] = pending[n + (i - (n - 1))]
        BY <2>1, <2>3, <4>1
      <4>3. n + (i - (n - 1)) = i + 1
        BY <1>0
      <4> QED
        BY <3>2, <4>2, <4>3
    <3> QED
      BY <3>1, <3>2
  <2>6. DOMAIN pending' = 1..Len(pending')
    BY <2>3
  <2> QED
    BY <2>3, <2>4, <2>5, <2>6, Zenon
<1>4. PendingRequests' = PendingRequests \ {pending[n].req}
  <2>1. ASSUME NEW x \in PendingRequests, x # pending[n].req PROVE x \in PendingRequests'
    <3>1. PICK i \in 1..Len(pending) : pending[i].req = x
      BY <1>0 DEF PendingRequests
    <3>2. CASE i < n
      <4>1. i \in DOMAIN pending' /\ pending'[i] = pending[i]
        BY <1>0, <1>3, <3>2
      <4> QED
        BY <3>1, <4>1 DEF PendingRequests
    <3>3. CASE i > n
      <4>1. i - 1 \in DOMAIN pending' /\ ~(i - 1 < n) /\ (i - 1) + 1 = i
        BY <1>0, <1>3, <3>3
      <4>2. pending'[i - 1] = pending[i]
        BY <1>3, <4>1
      <4> QED
        BY <3>1, <4>1, <4>2 DEF PendingRequests
    <3>4. i # n
      BY <2>1, <3>1
    <3> QED
      BY <3>2, <3>3, <3>4
  <2>2. ASSUME NEW x \in PendingRequests' PROVE x \in PendingRequests /\ x # pending[n].req
    <3>1. PICK i \in 1..(Len(pending) - 1) : pending'[i].req = x
      BY <1>3 DEF PendingRequests
    <3>2. PICK k \in DOMAIN pending : k # n /\ pending[k].req = x
      <4>1. CASE i < n
        <5>1. i \in DOMAIN pending /\ i # n
          BY <1>0, <4>1
        <5> QED
          BY <1>3, <3>1, <4>1, <5>1
      <4>2. CASE ~(i < n)
        <5>1. i + 1 \in DOMAIN pending /\ i + 1 # n
          BY <1>0, <4>2
        <5> QED
          BY <1>3, <3>1, <4>2, <5>1
      <4> QED
        BY <4>1, <4>2
    <3> QED
      BY <1>0, <3>2 DEF PendingRequests, Distinct
  <2> QED
    BY <2>1, <2>2
<1>5. Distinct'
  <2> SUFFICES ASSUME NEW i \in 1..(Len(pending) - 1), NEW j \in 1..(Len(pending) - 1),
                      pending'[i].req = pending'[j].req
               PROVE  i = j
    BY <1>3 DEF Distinct
  <2> DEFINE src(k) == IF k < n THEN k ELSE k + 1
  <2>1. /\ src(i) \in DOMAIN pending /\ pending'[i] = pending[src(i)]
        /\ src(j) \in DOMAIN pending /\ pending'[j] = pending[src(j)]
    BY <1>0, <1>3
  <2>2. src(i) = src(j)
    <3> HIDE DEF src
    <3> QED
      BY <2>1 DEF Distinct
  <2> QED
    BY <1>0, <2>2
<1>6. pending[n] \in Waiting /\ pending[n].req \in PendingRequests
  BY <1>0, ElementOfSeq DEF PendingRequests
<1> QED
  BY <1>3, <1>4, <1>5, <1>6
-----------------------------------------------------------------------------
(* The worker's record.                                                    *)

WorkerRecords ==
  [at : Places, job : Job \cup {NoJob}, quiet : {NotIdle} \cup 0..IdleGrace,
   waited : 0..IdleTimeout, owed : SUBSET Requests, next : {"top", "drain", "finish"}]

\* The worker that a step of w leaves behind: nobody else's record changes.
OnlyWorker(w) ==
  /\ worker' \in [Workers -> WorkerRecords]
  /\ \A v \in Workers \ {w} : worker'[v] = worker[v]

\* The fields of a worker.
LEMMA WorkerFields ==
  ASSUME TypeOK, NEW w \in Workers
  PROVE  /\ worker \in [Workers -> WorkerRecords] /\ worker[w] \in WorkerRecords
         /\ worker[w].at \in Places /\ worker[w].owed \subseteq Requests
         /\ worker[w].next \in {"top", "drain", "finish"}
         /\ worker[w].quiet \in {NotIdle} \cup 0..IdleGrace /\ worker[w].waited \in 0..IdleTimeout
  BY DEF TypeOK, WorkerRecords

\* Off and the records made from it.
LEMMA OffFacts ==
  /\ Off \in WorkerRecords /\ Off.at = "off" /\ Off.owed = {}
  /\ \A at \in Places :
       /\ [Off EXCEPT !.at = at] \in WorkerRecords
       /\ [Off EXCEPT !.at = at].at = at /\ [Off EXCEPT !.at = at].owed = {}
  /\ \A j \in Job :
       /\ [Off EXCEPT !.at = "idle", !.job = j] \in WorkerRecords
       /\ [Off EXCEPT !.at = "idle", !.job = j].at = "idle"
       /\ [Off EXCEPT !.at = "idle", !.job = j].job = j
       /\ [Off EXCEPT !.at = "idle", !.job = j].owed = {}
<1>1. 0 \in 0..IdleTimeout
  BY IdleAssumption
<1> QED
  BY <1>1 DEF Off, WorkerRecords, Places, NotIdle, NoJob

\* A worker that moves keeps what it has in its hands.
LEMMA GotoFacts ==
  ASSUME TypeOK, NEW w \in Workers, NEW place \in Places, Goto(w, place)
  PROVE  /\ OnlyWorker(w) /\ worker'[w].at = place
         /\ worker'[w].job = worker[w].job /\ worker'[w].owed = worker[w].owed
  BY WorkerFields DEF Goto, OnlyWorker, WorkerRecords

\* A worker that starts over.
LEMMA RestartFacts ==
  ASSUME TypeOK, NEW w \in Workers, NEW place \in Places,
         worker' = [worker EXCEPT ![w] = [Off EXCEPT !.at = place]]
  PROVE  OnlyWorker(w) /\ worker'[w].at = place /\ worker'[w].owed = {}
<1> DEFINE rec == [Off EXCEPT !.at = place]
<1>1. rec \in WorkerRecords /\ rec.at = place /\ rec.owed = {}
  BY OffFacts
<1>2. worker' = [worker EXCEPT ![w] = rec]
  OBVIOUS
<1> HIDE DEF rec
<1> QED
  BY <1>1, <1>2, WorkerFields DEF OnlyWorker

\* A worker that owes projections.
LEMMA OweFacts ==
  ASSUME TypeOK, NEW w \in Workers, NEW jobs \in SUBSET Requests,
         NEW next \in {"top", "drain", "finish"}, Owe(w, jobs, next)
  PROVE  OnlyWorker(w) /\ worker'[w].at = "project" /\ worker'[w].owed = jobs
<1> DEFINE rec == [Off EXCEPT !.at = "project", !.owed = jobs, !.next = next]
<1>1. rec \in WorkerRecords /\ rec.at = "project" /\ rec.owed = jobs
  <2>1. 0 \in 0..IdleTimeout
    BY IdleAssumption
  <2> QED
    BY <2>1 DEF Off, WorkerRecords, Places, NotIdle, NoJob
<1>2. worker' = [worker EXCEPT ![w] = rec]
  BY DEF Owe
<1> HIDE DEF rec
<1> QED
  BY <1>1, <1>2, WorkerFields DEF OnlyWorker

\* Time does not move a worker.
LEMMA AgedFacts ==
  ASSUME TypeOK, NEW w \in Workers
  PROVE  /\ Aged(w) \in WorkerRecords /\ Aged(w).at = worker[w].at
         /\ Aged(w).job = worker[w].job /\ Aged(w).owed = worker[w].owed
<1>1. CASE worker[w].at # "idle"
  BY <1>1, WorkerFields DEF Aged
<1>2. CASE worker[w].at = "idle"
  <2> DEFINE q == IF worker[w].quiet = NotIdle THEN worker[w].quiet
                  ELSE Least(worker[w].quiet + 1, IdleGrace)
             d == Least(worker[w].waited + 1, IdleTimeout)
  <2>1. Aged(w) = [worker[w] EXCEPT !.waited = d, !.quiet = q]
    BY <1>2 DEF Aged
  <2>2. q \in {NotIdle} \cup 0..IdleGrace
    BY WorkerFields, IdleAssumption DEF Least, NotIdle
  <2>3. d \in 0..IdleTimeout
    BY WorkerFields, IdleAssumption DEF Least
  <2> HIDE DEF q, d
  <2> QED
    BY <2>1, <2>2, <2>3, WorkerFields DEF WorkerRecords
<1> QED
  BY <1>1, <1>2

-----------------------------------------------------------------------------
(* One worker.                                                             *)

\* Beside a worker that is up, nobody works and nobody spawns.
LEMMA UpFacts ==
  ASSUME TypeOK, WorkerIsSound, TokenIsUnique, NEW w \in Workers, worker[w].at # "off"
  PROVE  /\ \A v \in Workers \ {w} : worker[v].at = "off" /\ worker[v].owed = {}
         /\ \A r \in Requests : scheduler[r] # "spawning"
         /\ started
         /\ InFlight = IF worker[w].at \in HoldingPlaces THEN {worker[w].job.req} ELSE {}
         /\ \A r : Owed(r) <=> r \in worker[w].owed \/ \E s \in Requests : r \in drained[s]
<1>1. /\ \A v \in Workers \ {w} : worker[v].at = "off" /\ worker[v].owed = {}
      /\ \A r \in Requests : scheduler[r] # "spawning"
      /\ started
  BY DEF WorkerIsSound, TokenIsUnique
<1>2. InFlight = IF worker[w].at \in HoldingPlaces THEN {worker[w].job.req} ELSE {}
  BY <1>1 DEF InFlight, Holding, HoldingPlaces
<1>3. \A r : Owed(r) <=> r \in worker[w].owed \/ \E s \in Requests : r \in drained[s]
  BY <1>1 DEF Owed
<1> QED
  BY <1>1, <1>2, <1>3

\* The same after a step of that worker.
LEMMA UpAfter ==
  ASSUME TypeOK, WorkerIsSound, TokenIsUnique, NEW w \in Workers, worker[w].at # "off",
         OnlyWorker(w)
  PROVE  /\ InFlight' = IF worker'[w].at \in HoldingPlaces THEN {worker'[w].job.req} ELSE {}
         /\ \A r : Owed(r)' <=> r \in worker'[w].owed \/ \E s \in Requests : r \in drained'[s]
         /\ (worker'[w].at \in HoldingPlaces => worker'[w].job \in Job)
            /\ (worker'[w].at # "project" => worker'[w].owed = {}) => WorkerIsSound'
         /\ scheduler' = scheduler /\ started' = started => TokenIsUnique'
<1>1. \A v \in Workers \ {w} : worker'[v] = worker[v] /\ worker[v].at = "off" /\ worker[v].owed = {}
  BY UpFacts DEF OnlyWorker
<1>2. InFlight' = IF worker'[w].at \in HoldingPlaces THEN {worker'[w].job.req} ELSE {}
  BY <1>1 DEF InFlight, Holding, HoldingPlaces
<1>3. \A r : Owed(r)' <=> r \in worker'[w].owed \/ \E s \in Requests : r \in drained'[s]
  BY <1>1 DEF Owed
<1>4. (worker'[w].at \in HoldingPlaces => worker'[w].job \in Job)
      /\ (worker'[w].at # "project" => worker'[w].owed = {}) => WorkerIsSound'
  BY <1>1 DEF WorkerIsSound, HoldingPlaces
<1>5. scheduler' = scheduler /\ started' = started => TokenIsUnique'
  BY <1>1, UpFacts DEF TokenIsUnique
<1> QED
  BY <1>2, <1>3, <1>4, <1>5

\* A job in a worker's hands.
LEMMA HeldFacts ==
  ASSUME TypeOK, WorkerIsSound, TokenIsUnique, PlacesAreApart, NEW w \in Workers,
         worker[w].at \in HoldingPlaces
  PROVE  /\ worker[w].job \in Job /\ worker[w].job.req \in Requests
         /\ worker[w].job.attempts \in Nat
         /\ InFlight = {worker[w].job.req} /\ worker[w].job.req \in known
         /\ worker[w].job.req \notin PendingRequests
         /\ worker[w].owed = {} /\ worker[w].at # "off"
<1>1. worker[w].at # "off" /\ worker[w].at # "project"
  BY DEF HoldingPlaces
<1>2. InFlight = {worker[w].job.req}
  BY <1>1, UpFacts
<1>3. worker[w].job \in Job /\ worker[w].owed = {}
  BY <1>1 DEF WorkerIsSound
<1> QED
  BY <1>1, <1>2, <1>3 DEF PlacesAreApart, Job

-----------------------------------------------------------------------------
(* The counters.                                                           *)

Counters == {"accepted", "completed", "exhausted", "abandoned"}

\* Every accepted job was disposed of or is known.
Balanced(card) ==
  metrics["accepted"] = metrics["completed"] + metrics["exhausted"] + metrics["abandoned"] + card

\* One counter moves.
LEMMA CountFacts ==
  ASSUME TypeOK, NEW counter \in Counters, NEW n \in Nat, Count(counter, n)
  PROVE  /\ metrics' \in [Counters -> Nat]
         /\ metrics'[counter] = metrics[counter] + n
         /\ \A c \in Counters \ {counter} : metrics'[c] = metrics[c]
         /\ \A c \in Counters : metrics[c] \in Nat
  BY DEF TypeOK, Count, Counters

\* A job that is accepted.
LEMMA PushFacts ==
  ASSUME TypeOK, Counted, PlacesAreApart, NEW r \in Requests, r \notin known, ~Full, PushPending(r)
  PROVE  /\ pending' \in Seq(Waiting) /\ Len(pending') = Len(pending) + 1
         /\ PendingRequests' = PendingRequests \cup {r} /\ Distinct'
         /\ known' = known \cup {r} /\ IsFiniteSet(known')
         /\ Cardinality(known') = Cardinality(known) + 1 /\ Cardinality(known) \in Nat
         /\ Cardinality(known') <= Capacity
         /\ metrics' \in [Counters -> Nat] /\ Balanced(Cardinality(known))'
<1>1. /\ pending' \in Seq(Waiting) /\ Len(pending') = Len(pending) + 1
      /\ PendingRequests' = PendingRequests \cup {r} /\ Distinct'
  <2> DEFINE e == [req |-> r, attempts |-> 0, delay |-> 0]
  <2>1. e \in Waiting /\ e.req = r
    BY DEF Waiting
  <2>2. pending' = Append(pending, e) /\ pending \in Seq(Waiting)
    BY DEF PushPending, TypeOK, Waiting
  <2>3. r \notin PendingRequests /\ Distinct
    BY DEF PlacesAreApart
  <2> HIDE DEF e
  <2> QED
    BY <2>1, <2>2, <2>3, AppendFacts
<1>2. /\ known' = known \cup {r} /\ IsFiniteSet(known')
      /\ Cardinality(known') = Cardinality(known) + 1 /\ Cardinality(known) \in Nat
  BY FS_AddElement, FS_CardinalityType DEF PushPending, Counted
<1>3. Cardinality(known') <= Capacity
  BY <1>2, PolicyAssumption DEF Full
<1>4. /\ metrics' \in [Counters -> Nat] /\ metrics'["accepted"] = metrics["accepted"] + 1
      /\ metrics'["completed"] = metrics["completed"] /\ metrics'["exhausted"] = metrics["exhausted"]
      /\ metrics'["abandoned"] = metrics["abandoned"]
      /\ metrics["accepted"] \in Nat /\ metrics["completed"] \in Nat
      /\ metrics["exhausted"] \in Nat /\ metrics["abandoned"] \in Nat
  BY CountFacts DEF PushPending, Counters
<1>5. Balanced(Cardinality(known))'
  <2>1. metrics["accepted"] = metrics["completed"] + metrics["exhausted"]
                              + metrics["abandoned"] + Cardinality(known)
    BY DEF Counted
  <2> QED
    BY <1>2, <1>4, <2>1 DEF Balanced
<1> QED
  BY <1>1, <1>2, <1>3, <1>4, <1>5

\* A job that is disposed of.
LEMMA DisposeFacts ==
  ASSUME TypeOK, Counted, NEW r \in known,
         NEW counter \in {"completed", "exhausted", "abandoned"}, Dispose(r, counter)
  PROVE  /\ pending' = pending /\ known' = known \ {r} /\ IsFiniteSet(known')
         /\ Cardinality(known') = Cardinality(known) - 1 /\ Cardinality(known) \in Nat
         /\ metrics' \in [Counters -> Nat] /\ Balanced(Cardinality(known))'
<1>1. /\ known' = known \ {r} /\ IsFiniteSet(known')
      /\ Cardinality(known') = Cardinality(known) - 1 /\ Cardinality(known) \in Nat
  BY FS_RemoveElement, FS_CardinalityType DEF Dispose, Counted
<1>2. /\ metrics' \in [Counters -> Nat] /\ metrics'[counter] = metrics[counter] + 1
      /\ \A c \in Counters \ {counter} : metrics'[c] = metrics[c]
      /\ metrics["accepted"] \in Nat /\ metrics["completed"] \in Nat
      /\ metrics["exhausted"] \in Nat /\ metrics["abandoned"] \in Nat
  BY CountFacts DEF Dispose, Counters
<1>3. Balanced(Cardinality(known))'
  <2>1. metrics["accepted"] = metrics["completed"] + metrics["exhausted"]
                              + metrics["abandoned"] + Cardinality(known)
    BY DEF Counted
  <2>2. metrics'["accepted"] = metrics["accepted"]
    BY <1>2 DEF Counters
  <2>3. metrics'["completed"] + metrics'["exhausted"] + metrics'["abandoned"]
        = metrics["completed"] + metrics["exhausted"] + metrics["abandoned"] + 1
    <3>1. CASE counter = "completed"
      BY <1>2, <3>1 DEF Counters
    <3>2. CASE counter = "exhausted"
      BY <1>2, <3>2 DEF Counters
    <3>3. CASE counter = "abandoned"
      BY <1>2, <3>3 DEF Counters
    <3> QED
      BY <3>1, <3>2, <3>3
  <2> QED
    BY <1>1, <1>2, <2>1, <2>2, <2>3 DEF Balanced
<1> QED
  BY <1>1, <1>2, <1>3 DEF Dispose

\* The waiting jobs are drained; the claimed one stays known.
LEMMA DrainFacts ==
  ASSUME TypeOK, Counted, PlacesAreApart, DrainPending,
         InFlight = {} \/ \E r \in Requests : InFlight = {r}
  PROVE  /\ pending' = <<>> /\ known' = InFlight /\ IsFiniteSet(known')
         /\ Cardinality(known') = IF InFlight = {} THEN 0 ELSE 1
         /\ Cardinality(known') <= Capacity
         /\ metrics' \in [Counters -> Nat] /\ Balanced(Cardinality(known))'
<1>1. pending' = <<>> /\ known' = InFlight
  BY DEF DrainPending, PlacesAreApart
<1>2. IsFiniteSet(known') /\ Cardinality(known') = IF InFlight = {} THEN 0 ELSE 1
  BY <1>1, FS_EmptySet, FS_Singleton
<1>3. Len(pending) \in Nat
  BY DEF TypeOK
<1>4. /\ metrics' \in [Counters -> Nat]
      /\ metrics'["abandoned"] = metrics["abandoned"] + Len(pending)
      /\ metrics'["completed"] = metrics["completed"] /\ metrics'["exhausted"] = metrics["exhausted"]
      /\ metrics'["accepted"] = metrics["accepted"]
      /\ metrics["accepted"] \in Nat /\ metrics["completed"] \in Nat
      /\ metrics["exhausted"] \in Nat /\ metrics["abandoned"] \in Nat
  BY <1>3, CountFacts DEF DrainPending, Counters
<1>5. Balanced(Cardinality(known))'
  <2>1. metrics["accepted"] = metrics["completed"] + metrics["exhausted"]
                              + metrics["abandoned"] + Cardinality(known)
    BY DEF Counted
  <2>2. Cardinality(known') \in Nat /\ Cardinality(known) = Len(pending) + Cardinality(known')
    BY <1>2 DEF Counted
  <2> QED
    BY <1>3, <1>4, <2>1, <2>2 DEF Balanced
<1>6. Cardinality(known') <= Capacity
  BY <1>2, PolicyAssumption
<1> QED
  BY <1>1, <1>2, <1>4, <1>5, <1>6

-----------------------------------------------------------------------------
(* The worker's steps.                                                     *)

\* The places of the memories when the queue and the debts stay.
LEMMA PlacesKept ==
  ASSUME PlacesAreApart, EveryMemoryIsSomewhere, Counted,
         UNCHANGED <<queue, scheduler, drained, fate>>, InFlight' = InFlight,
         \A w \in Workers : worker'[w].owed = worker[w].owed
  PROVE  PlacesAreApart' /\ EveryMemoryIsSomewhere' /\ Counted'
<1>1. /\ PendingRequests' = PendingRequests /\ Distinct' = Distinct
      /\ \A r \in Requests : Owed(r)' <=> Owed(r)
  BY DEF PendingRequests, Distinct, Owed, queue
<1> QED
  BY <1>1 DEF PlacesAreApart, EveryMemoryIsSomewhere, Counted, queue

\* A worker that moves with what it has.
LEMMA StaysPut ==
  ASSUME MemoryInv, NEW w \in Workers, worker[w].at # "off", OnlyWorker(w),
         UNCHANGED <<queue, started, scheduler, drained, fate, active, exiting>>,
         worker'[w].job = worker[w].job, worker'[w].owed = worker[w].owed,
         worker'[w].at \in HoldingPlaces <=> worker[w].at \in HoldingPlaces,
         worker[w].at # "project"
  PROVE  MemoryInv'
<1>0. TypeOK /\ WorkerIsSound /\ TokenIsUnique /\ PlacesAreApart /\ EveryMemoryIsSomewhere /\ Counted
  BY DEF MemoryInv
<1>1. TypeOK'
  BY <1>0 DEF TypeOK, OnlyWorker, WorkerRecords, queue
<1>2. InFlight' = InFlight
  BY <1>0, UpFacts, UpAfter
<1>3. WorkerIsSound' /\ TokenIsUnique'
  BY <1>0, UpAfter DEF WorkerIsSound
<1>4. \A v \in Workers : worker'[v].owed = worker[v].owed
  BY DEF OnlyWorker
<1> QED
  BY <1>0, <1>1, <1>2, <1>3, <1>4, PlacesKept DEF MemoryInv

\* LoopHead, WaitTimesOut, PollForeground and AttemptPreempted.
LEMMA QuietWork ==
  ASSUME MemoryInv, NEW w \in Workers,
         LoopHead(w) \/ WaitTimesOut(w) \/ PollForeground(w) \/ AttemptPreempted(w)
  PROVE  MemoryInv'
<1>0. TypeOK
  BY DEF MemoryInv
<1>1. CASE LoopHead(w)
  <2>1. \E place \in {"drain", "next"} : Goto(w, place)
    BY <1>1 DEF LoopHead
  <2>2. PICK place \in {"drain", "next"} : Goto(w, place)
    BY <2>1
  <2>3. /\ OnlyWorker(w) /\ worker'[w].at = place
        /\ worker'[w].job = worker[w].job /\ worker'[w].owed = worker[w].owed
    BY <1>0, <2>2, GotoFacts DEF Places
  <2> QED
    BY <1>1, <2>3, StaysPut DEF LoopHead, HoldingPlaces
<1>2. CASE WaitTimesOut(w)
  <2>1. /\ OnlyWorker(w) /\ worker'[w].at = "top"
        /\ worker'[w].job = worker[w].job /\ worker'[w].owed = worker[w].owed
    BY <1>0, <1>2, GotoFacts DEF WaitTimesOut, Places
  <2> QED
    BY <1>2, <2>1, StaysPut DEF WaitTimesOut, HoldingPlaces
<1>3. CASE PollForeground(w)
  <2>1. /\ OnlyWorker(w) /\ worker'[w].at \in {"idle", "attempt"}
        /\ worker'[w].job = worker[w].job /\ worker'[w].owed = worker[w].owed
    <3>1. CASE Goto(w, "attempt")
      BY <1>0, <3>1, GotoFacts DEF Places
    <3>2. CASE \E q \in {NotIdle, 0} : worker' = [worker EXCEPT ![w].quiet = q]
      <4>1. PICK q \in {NotIdle, 0} : worker' = [worker EXCEPT ![w].quiet = q]
        BY <3>2
      <4>2. q \in {NotIdle} \cup 0..IdleGrace
        BY IdleAssumption
      <4>3. worker[w].at = "idle"
        BY <1>3 DEF PollForeground
      <4> QED
        BY <1>0, <4>1, <4>2, <4>3, WorkerFields DEF OnlyWorker, WorkerRecords
    <3> QED
      BY <1>3, <3>1, <3>2 DEF PollForeground
  <2> QED
    BY <1>3, <2>1, StaysPut DEF PollForeground, HoldingPlaces
<1>4. CASE AttemptPreempted(w)
  <2>1. /\ OnlyWorker(w) /\ worker'[w].at = "preempted"
        /\ worker'[w].job = worker[w].job /\ worker'[w].owed = worker[w].owed
    BY <1>0, <1>4, GotoFacts DEF AttemptPreempted, Places
  <2> QED
    BY <1>4, <2>1, StaysPut DEF AttemptPreempted, HoldingPlaces
<1> QED
  BY <1>1, <1>2, <1>3, <1>4

\* Tick.
LEMMA TickKeeps ==
  ASSUME MemoryInv, Tick
  PROVE  MemoryInv'
<1>0. /\ TypeOK /\ WorkerIsSound /\ TokenIsUnique /\ PlacesAreApart
      /\ EveryMemoryIsSomewhere /\ Counted
      /\ UNCHANGED <<known, metrics, started, scheduler, drained, fate, active, exiting>>
  BY DEF MemoryInv, Tick
<1>1. /\ worker' \in [Workers -> WorkerRecords]
      /\ \A w \in Workers : /\ worker'[w].at = worker[w].at /\ worker'[w].job = worker[w].job
                            /\ worker'[w].owed = worker[w].owed
  BY <1>0, AgedFacts DEF Tick
<1>2. /\ pending' \in Seq(Waiting) /\ Len(pending') = Len(pending)
      /\ DOMAIN pending' = DOMAIN pending
      /\ \A i \in DOMAIN pending : pending'[i].req = pending[i].req
  <2>1. /\ pending \in Seq(Waiting) /\ DOMAIN pending = 1..Len(pending) /\ Len(pending) \in Nat
        /\ \A i \in DOMAIN pending : pending[i] \in Waiting
    <3>1. pending \in Seq(Waiting)
      BY <1>0 DEF TypeOK, Waiting
    <3> QED
      BY <3>1, ElementOfSeq, LenProperties
  <2> DEFINE later(i) == [pending[i] EXCEPT !.delay = IF @ = 0 THEN 0 ELSE @ - 1]
  <2>2. \A i \in DOMAIN pending : later(i) \in Waiting /\ later(i).req = pending[i].req
    BY <2>1 DEF Waiting
  <2>3. pending' = [i \in DOMAIN pending |-> later(i)]
    BY DEF Tick
  <2> HIDE DEF later
  <2>4. /\ pending' \in [1..Len(pending) -> Waiting] /\ DOMAIN pending' = DOMAIN pending
        /\ \A i \in DOMAIN pending : pending'[i].req = pending[i].req
    BY <2>1, <2>2, <2>3
  <2> QED
    BY <2>1, <2>4, IsASeq, LenProperties
<1>3. TypeOK'
  BY <1>0, <1>1, <1>2 DEF TypeOK, WorkerRecords, Waiting
<1>4. WorkerIsSound' /\ TokenIsUnique'
  BY <1>0, <1>1 DEF WorkerIsSound, TokenIsUnique
<1>5. InFlight' = InFlight /\ PendingRequests' = PendingRequests /\ Distinct'
  BY <1>0, <1>1, <1>2 DEF InFlight, Holding, PendingRequests, PlacesAreApart, Distinct
<1>6. \A r \in Requests : Owed(r)' <=> Owed(r)
  BY <1>0, <1>1 DEF Owed
<1>7. PlacesAreApart' /\ EveryMemoryIsSomewhere' /\ Counted'
  BY <1>0, <1>1, <1>2, <1>5, <1>6 DEF PlacesAreApart, EveryMemoryIsSomewhere, Counted
<1> QED
  BY <1>3, <1>4, <1>7 DEF MemoryInv

\* Claim: from the queue to the worker's hands.
LEMMA ClaimKeeps ==
  ASSUME MemoryInv, NEW w \in Workers, Claim(w)
  PROVE  MemoryInv'
<1> DEFINE first == pending[FirstReady]
           job == [req |-> first.req, attempts |-> first.attempts + 1]
<1>0. /\ TypeOK /\ WorkerIsSound /\ TokenIsUnique /\ PlacesAreApart
      /\ EveryMemoryIsSomewhere /\ Counted
      /\ UNCHANGED <<known, metrics, started, scheduler, drained, fate, active, exiting>>
      /\ worker[w].at = "next" /\ pending \in Seq(Waiting)
  BY DEF MemoryInv, Claim, TypeOK, Waiting
<1>1. /\ pending' \in Seq(Waiting) /\ Len(pending') = Len(pending) - 1 /\ Len(pending) \in Nat
      /\ PendingRequests' = PendingRequests \ {first.req}
      /\ first \in Waiting /\ first.req \in PendingRequests /\ Distinct'
  BY <1>0, FirstIsReady, RemoveFacts DEF Claim, PlacesAreApart
<1>2. job \in Job /\ job.req = first.req
  BY <1>1 DEF Waiting, Job
<1>3. worker' = [worker EXCEPT ![w] = [Off EXCEPT !.at = "idle", !.job = job]]
  BY DEF Claim
<1> HIDE DEF first, job
<1>4. OnlyWorker(w) /\ worker'[w].at = "idle" /\ worker'[w].job = job /\ worker'[w].owed = {}
  <2> DEFINE rec == [Off EXCEPT !.at = "idle", !.job = job]
  <2>1. rec \in WorkerRecords /\ rec.at = "idle" /\ rec.job = job /\ rec.owed = {}
    BY <1>2, OffFacts
  <2>2. worker' = [worker EXCEPT ![w] = rec]
    BY <1>3
  <2> HIDE DEF rec
  <2> QED
    BY <1>0, <2>1, <2>2, WorkerFields DEF OnlyWorker
<1>5. /\ InFlight = {} /\ InFlight' = {first.req} /\ WorkerIsSound' /\ TokenIsUnique'
      /\ worker[w].owed = {} /\ \A r \in Requests : Owed(r)' <=> Owed(r)
  <2>1. InFlight = {} /\ worker[w].owed = {}
    BY <1>0, UpFacts DEF HoldingPlaces, WorkerIsSound
  <2>2. InFlight' = {first.req} /\ WorkerIsSound' /\ TokenIsUnique'
    BY <1>0, <1>2, <1>4, UpAfter DEF HoldingPlaces
  <2>3. \A r \in Requests : Owed(r)' <=> Owed(r)
    BY <1>0, <1>4, <2>1, UpFacts, UpAfter
  <2> QED
    BY <2>1, <2>2, <2>3
<1>6. TypeOK'
  BY <1>0, <1>1, <1>4 DEF TypeOK, OnlyWorker, WorkerRecords, Waiting
<1>7. PlacesAreApart'
  BY <1>0, <1>1, <1>4, <1>5 DEF PlacesAreApart, OnlyWorker
<1>8. EveryMemoryIsSomewhere'
  BY <1>0, <1>5 DEF EveryMemoryIsSomewhere
<1>9. Counted'
  BY <1>0, <1>1, <1>5 DEF Counted
<1> QED
  BY <1>5, <1>6, <1>7, <1>8, <1>9 DEF MemoryInv

\* The job leaves the queue for good, and the worker owes its projection.
LEMMA DisposeAndOwe ==
  ASSUME MemoryInv, NEW w \in Workers, NEW counter \in {"completed", "exhausted", "abandoned"},
         NEW next \in {"top", "drain", "finish"}, worker[w].at \in HoldingPlaces,
         Dispose(worker[w].job.req, counter), Owe(w, {worker[w].job.req}, next),
         UNCHANGED <<started, scheduler, drained, fate, active, exiting>>
  PROVE  MemoryInv'
<1> DEFINE req == worker[w].job.req
<1>0. TypeOK /\ WorkerIsSound /\ TokenIsUnique /\ PlacesAreApart /\ EveryMemoryIsSomewhere /\ Counted
  BY DEF MemoryInv
<1>1. /\ req \in Requests /\ InFlight = {req} /\ req \in known /\ req \notin PendingRequests
      /\ worker[w].owed = {} /\ worker[w].at # "off"
  BY <1>0, HeldFacts
<1>2. /\ pending' = pending /\ known' = known \ {req} /\ IsFiniteSet(known')
      /\ Cardinality(known') = Cardinality(known) - 1 /\ Cardinality(known) \in Nat
      /\ metrics' \in [Counters -> Nat] /\ Balanced(Cardinality(known))'
  BY <1>0, <1>1, DisposeFacts
<1>3. OnlyWorker(w) /\ worker'[w].at = "project" /\ worker'[w].owed = {req}
  <2>1. {req} \in SUBSET Requests
    BY <1>1
  <2> QED
    BY <1>0, <2>1, OweFacts
<1> HIDE DEF req
<1>4. InFlight' = {} /\ WorkerIsSound' /\ TokenIsUnique'
  BY <1>0, <1>1, <1>3, UpAfter DEF HoldingPlaces
<1>5. /\ \A r \in Requests : Owed(r)' <=> (r = req \/ \E s \in Requests : r \in drained[s])
      /\ \A r \in Requests : Owed(r) <=> \E s \in Requests : r \in drained[s]
  BY <1>0, <1>1, <1>3, UpFacts, UpAfter
<1>6. TypeOK'
  BY <1>0, <1>2, <1>3 DEF TypeOK, OnlyWorker, WorkerRecords, Counters
<1>7. PlacesAreApart'
  <2>1. PendingRequests' = PendingRequests /\ Distinct'
    BY <1>0, <1>2 DEF PendingRequests, PlacesAreApart, Distinct
  <2>2. \A v \in Workers, s \in Requests : worker'[v].owed \cap drained[s] = {}
    <3>1. \A s \in Requests : req \notin drained[s]
      BY <1>0, <1>1, <1>5 DEF PlacesAreApart
    <3> QED
      BY <1>0, <1>3, <3>1 DEF PlacesAreApart, OnlyWorker
  <2>3. fate[req] = "none"
    BY <1>0, <1>1 DEF PlacesAreApart
  <2> QED
    BY <1>0, <1>1, <1>2, <1>4, <1>5, <2>1, <2>2, <2>3 DEF PlacesAreApart
<1>8. EveryMemoryIsSomewhere'
  BY <1>0, <1>1, <1>2, <1>5 DEF EveryMemoryIsSomewhere
<1>9. Counted'
  <2>1. /\ Cardinality(known) = Len(pending) + 1 /\ Cardinality(known) <= Capacity
        /\ Len(pending) \in Nat /\ Capacity \in Nat
    BY <1>0, <1>1, PolicyAssumption DEF Counted, TypeOK
  <2>2. Balanced(Cardinality(known))'
    BY <1>2
  <2> QED
    BY <1>2, <1>4, <2>1, <2>2 DEF Counted, Balanced
<1> QED
  BY <1>4, <1>6, <1>7, <1>8, <1>9 DEF MemoryInv

\* AttemptCompletes: the memory is settled with the job's disposal.
LEMMA CompleteKeeps ==
  ASSUME MemoryInv, NEW w \in Workers, AttemptCompletes(w)
  PROVE  MemoryInv'
<1> DEFINE req == worker[w].job.req
<1>0. /\ TypeOK /\ WorkerIsSound /\ TokenIsUnique /\ PlacesAreApart
      /\ EveryMemoryIsSomewhere /\ Counted
      /\ worker[w].at = "attempt" /\ Dispose(req, "completed")
      /\ fate' = [fate EXCEPT ![req] = "generated"]
      /\ UNCHANGED <<started, scheduler, drained, active, exiting>>
  BY DEF MemoryInv, AttemptCompletes
<1>1. /\ req \in Requests /\ InFlight = {req} /\ req \in known /\ req \notin PendingRequests
      /\ worker[w].owed = {} /\ worker[w].at # "off"
  BY <1>0, HeldFacts DEF HoldingPlaces
<1>2. /\ pending' = pending /\ known' = known \ {req} /\ IsFiniteSet(known')
      /\ Cardinality(known') = Cardinality(known) - 1 /\ Cardinality(known) \in Nat
      /\ metrics' \in [Counters -> Nat] /\ Balanced(Cardinality(known))'
  BY <1>0, <1>1, DisposeFacts
<1>3. OnlyWorker(w) /\ worker'[w].at = "top" /\ worker'[w].owed = {}
  BY <1>0, RestartFacts DEF AttemptCompletes, Places
<1> HIDE DEF req
<1>4. InFlight' = {} /\ WorkerIsSound' /\ TokenIsUnique'
  BY <1>0, <1>1, <1>3, UpAfter DEF HoldingPlaces
<1>5. \A r \in Requests : Owed(r)' <=> Owed(r)
  BY <1>0, <1>1, <1>3, UpFacts, UpAfter
<1>6. /\ fate' \in [Requests -> {"none", "generated", "projected"}] /\ fate'[req] # "none"
      /\ \A r \in Requests \ {req} : fate'[r] = fate[r]
      /\ ~Owed(req)
  BY <1>0, <1>1 DEF TypeOK, PlacesAreApart
<1>7. TypeOK'
  BY <1>0, <1>2, <1>3, <1>6 DEF TypeOK, OnlyWorker, WorkerRecords, Counters
<1>8. PlacesAreApart'
  <2>1. PendingRequests' = PendingRequests /\ Distinct'
    BY <1>0, <1>2 DEF PendingRequests, PlacesAreApart, Distinct
  <2>2. \A v \in Workers, s \in Requests : worker'[v].owed \cap drained[s] = {}
    BY <1>0, <1>3 DEF PlacesAreApart, OnlyWorker
  <2> QED
    BY <1>0, <1>1, <1>2, <1>4, <1>5, <1>6, <2>1, <2>2 DEF PlacesAreApart
<1>9. EveryMemoryIsSomewhere'
  BY <1>0, <1>1, <1>2, <1>5, <1>6 DEF EveryMemoryIsSomewhere
<1>10. Counted'
  <2>1. /\ Cardinality(known) = Len(pending) + 1 /\ Cardinality(known) <= Capacity
        /\ Len(pending) \in Nat /\ Capacity \in Nat
    BY <1>0, <1>1, PolicyAssumption DEF Counted, TypeOK
  <2>2. Balanced(Cardinality(known))'
    BY <1>2
  <2> QED
    BY <1>2, <1>4, <2>1, <2>2 DEF Counted, Balanced
<1> QED
  BY <1>4, <1>7, <1>8, <1>9, <1>10 DEF MemoryInv

\* RetryLater: from the worker's hands to the back of the queue.
LEMMA RetryKeeps ==
  ASSUME MemoryInv, NEW w \in Workers, RetryLater(w)
  PROVE  MemoryInv'
<1> DEFINE req == worker[w].job.req
           e == [req |-> req, attempts |-> worker[w].job.attempts,
                 delay |-> RetryDelay(worker[w].job.attempts)]
<1>0. /\ TypeOK /\ WorkerIsSound /\ TokenIsUnique /\ PlacesAreApart
      /\ EveryMemoryIsSomewhere /\ Counted
      /\ worker[w].at = "preempted" /\ pending' = Append(pending, e)
      /\ UNCHANGED <<known, metrics, started, scheduler, drained, fate, active, exiting>>
  BY DEF MemoryInv, RetryLater
<1>1. /\ req \in Requests /\ InFlight = {req} /\ req \in known /\ req \notin PendingRequests
      /\ worker[w].job.attempts \in Nat /\ worker[w].owed = {} /\ worker[w].at # "off"
  BY <1>0, HeldFacts DEF HoldingPlaces
<1>2. e \in Waiting /\ e.req = req
  <2>1. RetryDelay(worker[w].job.attempts) \in Nat
    BY PolicyAssumption DEF RetryDelay
  <2> QED
    BY <1>1, <2>1 DEF Waiting
<1>3. /\ pending' \in Seq(Waiting) /\ Len(pending') = Len(pending) + 1
      /\ PendingRequests' = PendingRequests \cup {req} /\ Distinct'
  <2>1. pending \in Seq(Waiting) /\ Distinct
    BY <1>0 DEF TypeOK, Waiting, PlacesAreApart
  <2> HIDE DEF e, req
  <2> QED
    BY <1>0, <1>1, <1>2, <2>1, AppendFacts
<1>4. OnlyWorker(w) /\ worker'[w].at = "top" /\ worker'[w].owed = {}
  BY <1>0, RestartFacts DEF RetryLater, Places
<1> HIDE DEF e, req
<1>5. InFlight' = {} /\ WorkerIsSound' /\ TokenIsUnique'
  BY <1>0, <1>1, <1>4, UpAfter DEF HoldingPlaces
<1>6. \A r \in Requests : Owed(r)' <=> Owed(r)
  BY <1>0, <1>1, <1>4, UpFacts, UpAfter
<1>7. TypeOK'
  BY <1>0, <1>3, <1>4 DEF TypeOK, OnlyWorker, WorkerRecords, Waiting
<1>8. PlacesAreApart'
  <2>1. \A v \in Workers, s \in Requests : worker'[v].owed \cap drained[s] = {}
    BY <1>0, <1>4 DEF PlacesAreApart, OnlyWorker
  <2> QED
    BY <1>0, <1>1, <1>3, <1>5, <1>6, <2>1 DEF PlacesAreApart
<1>9. EveryMemoryIsSomewhere'
  BY <1>0, <1>6 DEF EveryMemoryIsSomewhere
<1>10. Counted'
  <2>1. Cardinality(known) = Len(pending) + 1 /\ Len(pending) \in Nat
    BY <1>0, <1>1 DEF Counted, TypeOK
  <2> QED
    BY <1>0, <1>3, <1>5, <2>1 DEF Counted
<1> QED
  BY <1>5, <1>7, <1>8, <1>9, <1>10 DEF MemoryInv

\* Project: what the worker owes is settled.
LEMMA ProjectKeeps ==
  ASSUME MemoryInv, NEW w \in Workers, Project(w)
  PROVE  MemoryInv'
<1>0. /\ TypeOK /\ WorkerIsSound /\ TokenIsUnique /\ PlacesAreApart
      /\ EveryMemoryIsSomewhere /\ Counted
      /\ worker[w].at = "project" /\ fate' = Projected(worker[w].owed)
      /\ worker' = [worker EXCEPT ![w] = [Off EXCEPT !.at = worker[w].next]]
      /\ UNCHANGED <<queue, started, scheduler, drained, active, exiting>>
  BY DEF MemoryInv, Project
<1>1. /\ OnlyWorker(w) /\ worker'[w].at \in {"top", "drain", "finish"} /\ worker'[w].owed = {}
  <2>1. PICK place \in {"top", "drain", "finish"} : worker[w].next = place
    BY <1>0, WorkerFields
  <2> QED
    BY <1>0, <2>1, RestartFacts DEF Places
<1>2. InFlight = {} /\ InFlight' = {} /\ WorkerIsSound' /\ TokenIsUnique'
  BY <1>0, <1>1, UpFacts, UpAfter DEF HoldingPlaces
<1>3. /\ \A r \in Requests : Owed(r) <=> r \in worker[w].owed \/ \E s \in Requests : r \in drained[s]
      /\ \A r \in Requests : Owed(r)' <=> \E s \in Requests : r \in drained[s]
  BY <1>0, <1>1, UpFacts, UpAfter
<1>4. /\ fate' \in [Requests -> {"none", "generated", "projected"}]
      /\ \A r \in Requests : fate'[r] = IF r \in worker[w].owed THEN "projected" ELSE fate[r]
  BY <1>0 DEF Projected, TypeOK
<1>5. TypeOK'
  BY <1>0, <1>1, <1>4 DEF TypeOK, OnlyWorker, WorkerRecords, queue
<1>6. PlacesAreApart'
  <2>1. PendingRequests' = PendingRequests /\ Distinct' /\ known' = known
    BY <1>0 DEF PendingRequests, PlacesAreApart, Distinct, queue
  <2>2. \A v \in Workers, s \in Requests : worker'[v].owed \cap drained[s] = {}
    BY <1>0, <1>1 DEF PlacesAreApart, OnlyWorker
  <2>3. \A r \in Requests : Owed(r)' => Owed(r) /\ fate'[r] = "none" /\ r \notin known
    BY <1>0, <1>3, <1>4 DEF PlacesAreApart
  <2>4. \A r \in Requests : fate'[r] # "none" => r \notin known
    BY <1>0, <1>3, <1>4 DEF PlacesAreApart
  <2> QED
    BY <1>0, <1>2, <2>1, <2>2, <2>3, <2>4 DEF PlacesAreApart
<1>7. EveryMemoryIsSomewhere'
  BY <1>0, <1>3, <1>4 DEF EveryMemoryIsSomewhere, queue
<1>8. Counted'
  BY <1>0, <1>2 DEF Counted, queue
<1> QED
  BY <1>2, <1>5, <1>6, <1>7, <1>8 DEF MemoryInv

\* DrainAtExit: what waits is owed by the worker.
LEMMA DrainKeeps ==
  ASSUME MemoryInv, NEW w \in Workers, DrainAtExit(w)
  PROVE  MemoryInv'
<1>0. /\ TypeOK /\ WorkerIsSound /\ TokenIsUnique /\ PlacesAreApart
      /\ EveryMemoryIsSomewhere /\ Counted
      /\ worker[w].at = "drain" /\ Owe(w, PendingRequests, "finish") /\ DrainPending
      /\ UNCHANGED <<started, scheduler, drained, fate, active, exiting>>
  BY DEF MemoryInv, DrainAtExit
<1>1. InFlight = {} /\ worker[w].owed = {} /\ worker[w].at # "off"
  BY <1>0, UpFacts DEF HoldingPlaces, WorkerIsSound
<1>2. known = PendingRequests /\ PendingRequests \in SUBSET Requests
  BY <1>0, <1>1 DEF PlacesAreApart, TypeOK
<1>3. /\ pending' = <<>> /\ known' = {} /\ IsFiniteSet(known') /\ Cardinality(known') = 0
      /\ Cardinality(known') <= Capacity
      /\ metrics' \in [Counters -> Nat] /\ Balanced(Cardinality(known))'
  BY <1>0, <1>1, DrainFacts
<1>4. OnlyWorker(w) /\ worker'[w].at = "project" /\ worker'[w].owed = PendingRequests
  BY <1>0, <1>2, OweFacts
<1>5. InFlight' = {} /\ WorkerIsSound' /\ TokenIsUnique'
  BY <1>0, <1>1, <1>4, UpAfter DEF HoldingPlaces
<1>6. /\ \A r \in Requests : Owed(r) <=> \E s \in Requests : r \in drained[s]
      /\ \A r \in Requests : Owed(r)' <=> r \in known \/ \E s \in Requests : r \in drained[s]
  BY <1>0, <1>1, <1>2, <1>4, UpFacts, UpAfter
<1>7. pending' \in Seq(Waiting) /\ Len(pending') = 0 /\ DOMAIN pending' = {}
  BY <1>3
<1>8. TypeOK'
  BY <1>0, <1>3, <1>4, <1>7 DEF TypeOK, OnlyWorker, WorkerRecords, Counters, Waiting
<1>9. PlacesAreApart'
  <2>1. PendingRequests' = {} /\ Distinct'
    BY <1>7 DEF PendingRequests, Distinct
  <2>2. \A v \in Workers, s \in Requests : worker'[v].owed \cap drained[s] = {}
    <3>1. \A s \in Requests : known \cap drained[s] = {}
      BY <1>0, <1>6 DEF PlacesAreApart, TypeOK
    <3> QED
      BY <1>0, <1>2, <1>4, <3>1 DEF PlacesAreApart, OnlyWorker
  <2>3. \A r \in Requests : Owed(r)' => fate[r] = "none"
    BY <1>0, <1>6 DEF PlacesAreApart
  <2> QED
    BY <1>0, <1>3, <1>5, <2>1, <2>2, <2>3 DEF PlacesAreApart
<1>10. EveryMemoryIsSomewhere'
  BY <1>0, <1>3, <1>6 DEF EveryMemoryIsSomewhere
<1>11. Counted'
  <2>1. Balanced(Cardinality(known))'
    BY <1>3
  <2> QED
    BY <1>3, <1>5, <1>7, <2>1 DEF Counted, Balanced
<1> QED
  BY <1>5, <1>8, <1>9, <1>10, <1>11 DEF MemoryInv

\* FinishWorker: the token is given back.
LEMMA FinishKeeps ==
  ASSUME MemoryInv, NEW w \in Workers, FinishWorker(w)
  PROVE  MemoryInv'
<1>0. /\ TypeOK /\ WorkerIsSound /\ TokenIsUnique /\ PlacesAreApart
      /\ EveryMemoryIsSomewhere /\ Counted
      /\ worker[w].at = "finish" /\ worker' = [worker EXCEPT ![w] = Off]
      /\ UNCHANGED <<queue, scheduler, drained, fate, active, exiting>>
  BY DEF MemoryInv, FinishWorker
<1>1. OnlyWorker(w) /\ worker'[w].at = "off" /\ worker'[w].owed = {}
  BY <1>0, WorkerFields, OffFacts DEF OnlyWorker
<1>2. InFlight' = InFlight /\ WorkerIsSound' /\ worker[w].owed = {}
  BY <1>0, <1>1, UpFacts, UpAfter DEF HoldingPlaces, WorkerIsSound
<1>3. TokenIsUnique'
  BY <1>0, <1>1, UpFacts DEF TokenIsUnique, OnlyWorker
<1>4. started' \in BOOLEAN
  BY DEF FinishWorker
<1>5. TypeOK'
  BY <1>0, <1>1, <1>4 DEF TypeOK, OnlyWorker, WorkerRecords, queue
<1>6. \A v \in Workers : worker'[v].owed = worker[v].owed
  BY <1>1, <1>2 DEF OnlyWorker
<1> QED
  BY <1>0, <1>2, <1>3, <1>5, <1>6, PlacesKept DEF MemoryInv

-----------------------------------------------------------------------------
(* The scheduler's steps.                                                  *)

\* A claimed job is the only one.
LEMMA OneInFlight ==
  ASSUME MemoryInv
  PROVE  InFlight = {} \/ \E r \in Requests : InFlight = {r}
<1>1. CASE \A w \in Workers : worker[w].at = "off"
  BY <1>1 DEF InFlight, Holding
<1>2. ASSUME NEW w \in Workers, worker[w].at # "off"
      PROVE  InFlight = {} \/ \E r \in Requests : InFlight = {r}
  <2>1. CASE worker[w].at \in HoldingPlaces
    BY <2>1, HeldFacts DEF MemoryInv
  <2>2. CASE worker[w].at \notin HoldingPlaces
    BY <1>2, <2>2, UpFacts DEF MemoryInv
  <2> QED
    BY <2>1, <2>2
<1> QED
  BY <1>1, <1>2

\* A scheduler's step: only its own place changes.
SchedulerStep(r, place) ==
  /\ scheduler' \in [Requests -> {"running", "queued", "spawning", "failed", "projecting", "done"}]
  /\ scheduler'[r] = place /\ \A s \in Requests \ {r} : scheduler'[s] = scheduler[s]

\* RejectAtCapacity: projected at once.
LEMMA RejectKeeps ==
  ASSUME MemoryInv, NEW r \in Requests, RejectAtCapacity(r)
  PROVE  MemoryInv'
<1>0. /\ TypeOK /\ WorkerIsSound /\ TokenIsUnique /\ PlacesAreApart
      /\ EveryMemoryIsSomewhere /\ Counted
      /\ scheduler[r] = "running" /\ fate' = Projected({r})
      /\ scheduler' = [scheduler EXCEPT ![r] = "done"]
      /\ UNCHANGED <<queue, started, drained, worker, active, exiting>>
  BY DEF MemoryInv, RejectAtCapacity
<1>1. SchedulerStep(r, "done")
  BY <1>0 DEF SchedulerStep, TypeOK
<1>2. /\ fate' \in [Requests -> {"none", "generated", "projected"}]
      /\ \A s \in Requests : fate'[s] = IF s = r THEN "projected" ELSE fate[s]
  BY <1>0 DEF Projected, TypeOK
<1>3. /\ InFlight' = InFlight /\ PendingRequests' = PendingRequests /\ Distinct' = Distinct
      /\ known' = known /\ \A s \in Requests : Owed(s)' <=> Owed(s)
  BY <1>0 DEF InFlight, Holding, PendingRequests, Distinct, Owed, queue
<1>4. r \notin known /\ ~Owed(r)
  BY <1>0 DEF EveryMemoryIsSomewhere
<1>5. TypeOK' /\ WorkerIsSound' /\ TokenIsUnique'
  <2>1. TypeOK'
    BY <1>0, <1>1, <1>2 DEF TypeOK, queue, SchedulerStep
  <2>2. WorkerIsSound' /\ TokenIsUnique'
    BY <1>0, <1>1 DEF WorkerIsSound, TokenIsUnique, SchedulerStep
  <2> QED
    BY <2>1, <2>2
<1>6. PlacesAreApart'
  BY <1>0, <1>1, <1>2, <1>3, <1>4 DEF PlacesAreApart, SchedulerStep
<1>7. EveryMemoryIsSomewhere'
  BY <1>0, <1>1, <1>2, <1>3 DEF EveryMemoryIsSomewhere, SchedulerStep
<1>8. Counted'
  BY <1>0, <1>3 DEF Counted, queue
<1> QED
  BY <1>5, <1>6, <1>7, <1>8 DEF MemoryInv

\* Enqueue: the job is accepted and waits.
LEMMA EnqueueKeeps ==
  ASSUME MemoryInv, NEW r \in Requests, Enqueue(r)
  PROVE  MemoryInv'
<1>0. /\ TypeOK /\ WorkerIsSound /\ TokenIsUnique /\ PlacesAreApart
      /\ EveryMemoryIsSomewhere /\ Counted
      /\ scheduler[r] = "running" /\ r \notin known /\ ~Full /\ PushPending(r)
      /\ scheduler' = [scheduler EXCEPT ![r] = "queued"]
      /\ UNCHANGED <<started, drained, worker, fate, active, exiting>>
  BY DEF MemoryInv, Enqueue
<1>1. SchedulerStep(r, "queued")
  BY <1>0 DEF SchedulerStep, TypeOK
<1>2. /\ pending' \in Seq(Waiting) /\ Len(pending') = Len(pending) + 1
      /\ PendingRequests' = PendingRequests \cup {r} /\ Distinct'
      /\ known' = known \cup {r} /\ IsFiniteSet(known')
      /\ Cardinality(known') = Cardinality(known) + 1 /\ Cardinality(known) \in Nat
      /\ Cardinality(known') <= Capacity
      /\ metrics' \in [Counters -> Nat] /\ Balanced(Cardinality(known))'
  BY <1>0, PushFacts
<1>3. InFlight' = InFlight /\ \A s \in Requests : Owed(s)' <=> Owed(s)
  BY <1>0 DEF InFlight, Holding, Owed
<1>4. ~Owed(r) /\ fate[r] = "none" /\ r \notin InFlight
  BY <1>0 DEF EveryMemoryIsSomewhere, PlacesAreApart
<1>5. TypeOK' /\ WorkerIsSound' /\ TokenIsUnique'
  <2>1. TypeOK'
    BY <1>0, <1>1, <1>2 DEF TypeOK, SchedulerStep, Counters, Waiting
  <2>2. WorkerIsSound' /\ TokenIsUnique'
    BY <1>0, <1>1 DEF WorkerIsSound, TokenIsUnique, SchedulerStep
  <2> QED
    BY <2>1, <2>2
<1>6. PlacesAreApart'
  BY <1>0, <1>1, <1>2, <1>3, <1>4 DEF PlacesAreApart, SchedulerStep
<1>7. EveryMemoryIsSomewhere'
  BY <1>0, <1>1, <1>2, <1>3 DEF EveryMemoryIsSomewhere, SchedulerStep
<1>8. Counted'
  <2>1. Balanced(Cardinality(known))'
    BY <1>2
  <2>2. Len(pending) \in Nat
    BY <1>0 DEF TypeOK
  <2>3. Cardinality(known) = Len(pending) + (IF InFlight = {} THEN 0 ELSE 1)
    BY <1>0 DEF Counted
  <2>4. Cardinality(known') = Len(pending') + (IF InFlight' = {} THEN 0 ELSE 1)
    BY <1>2, <1>3, <2>2, <2>3
  <2> QED
    BY <1>2, <2>1, <2>4 DEF Counted, Balanced
<1> QED
  BY <1>5, <1>6, <1>7, <1>8 DEF MemoryInv

\* A scheduler that has scheduled only moves on.
LEMMA SchedulerMoves ==
  ASSUME MemoryInv, NEW r \in Requests, NEW place \in {"spawning", "failed", "done"},
         SchedulerStep(r, place), scheduler[r] \in {"queued", "spawning"},
         UNCHANGED <<queue, drained, fate>>, InFlight' = InFlight,
         \A w \in Workers : worker'[w].owed = worker[w].owed
  PROVE  PlacesAreApart' /\ EveryMemoryIsSomewhere' /\ Counted'
<1>1. /\ PendingRequests' = PendingRequests /\ Distinct' = Distinct
      /\ \A s \in Requests : Owed(s)' <=> Owed(s)
  BY DEF PendingRequests, Distinct, Owed, queue
<1>2. PlacesAreApart'
  BY <1>1 DEF MemoryInv, PlacesAreApart, SchedulerStep, queue
<1>3. EveryMemoryIsSomewhere'
  BY <1>1 DEF MemoryInv, EveryMemoryIsSomewhere, SchedulerStep, queue
<1>4. Counted'
  BY DEF MemoryInv, Counted, queue
<1> QED
  BY <1>2, <1>3, <1>4

\* BeginWorker and SpawnFails: the token is taken and given back.
LEMMA TokenMoves ==
  ASSUME MemoryInv, NEW r \in Requests, BeginWorker(r) \/ SpawnFails(r)
  PROVE  MemoryInv'
<1>0. /\ TypeOK /\ WorkerIsSound /\ TokenIsUnique
      /\ UNCHANGED <<queue, drained, worker, fate, active, exiting>>
      /\ InFlight' = InFlight
  BY DEF MemoryInv, BeginWorker, SpawnFails, InFlight, Holding
<1>1. started' \in BOOLEAN
  BY DEF BeginWorker, SpawnFails
<1>2. /\ scheduler[r] \in {"queued", "spawning"}
      /\ \E place \in {"spawning", "failed", "done"} : SchedulerStep(r, place)
  <2>1. CASE BeginWorker(r)
    <3>1. PICK place \in {"spawning", "done"} : scheduler' = [scheduler EXCEPT ![r] = place]
      BY <2>1 DEF BeginWorker
    <3> QED
      BY <1>0, <2>1, <3>1 DEF BeginWorker, SchedulerStep, TypeOK
  <2>2. CASE SpawnFails(r)
    BY <1>0, <2>2 DEF SpawnFails, SchedulerStep, TypeOK
  <2> QED
    BY <2>1, <2>2
<1>3. PlacesAreApart' /\ EveryMemoryIsSomewhere' /\ Counted'
  BY <1>0, <1>2, SchedulerMoves
<1>4. TypeOK'
  BY <1>0, <1>1, <1>2 DEF TypeOK, queue, SchedulerStep
<1>5. WorkerIsSound'
  BY <1>0 DEF WorkerIsSound
<1>6. TokenIsUnique'
  <2>1. CASE BeginWorker(r)
    BY <1>0, <2>1 DEF BeginWorker, TokenIsUnique, TypeOK
  <2>2. CASE SpawnFails(r)
    BY <1>0, <2>2 DEF SpawnFails, TokenIsUnique, TypeOK
  <2> QED
    BY <2>1, <2>2
<1> QED
  BY <1>3, <1>4, <1>5, <1>6 DEF MemoryInv

\* Spawn: the token passes to the new worker.
LEMMA SpawnKeeps ==
  ASSUME MemoryInv, NEW r \in Requests, Spawn(r)
  PROVE  MemoryInv'
<1>0. /\ TypeOK /\ WorkerIsSound /\ TokenIsUnique /\ scheduler[r] = "spawning"
      /\ scheduler' = [scheduler EXCEPT ![r] = "done"]
      /\ UNCHANGED <<queue, started, drained, fate, active, exiting>>
  BY DEF MemoryInv, Spawn
<1>1. PICK w \in Workers : /\ worker[w].at = "off"
                           /\ worker' = [worker EXCEPT ![w] = [Off EXCEPT !.at = "top"]]
  <2> DEFINE thread == CHOOSE w \in Workers : worker[w].at = "off"
  <2>1. \E w \in Workers : worker[w].at = "off"
    BY DEF Spawn
  <2>2. thread \in Workers /\ worker[thread].at = "off"
    BY <2>1
  <2>3. worker' = [worker EXCEPT ![thread] = [Off EXCEPT !.at = "top"]]
    BY DEF Spawn
  <2> HIDE DEF thread
  <2> QED
    BY <2>2, <2>3
<1>2. OnlyWorker(w) /\ worker'[w].at = "top" /\ worker'[w].owed = {}
  BY <1>0, <1>1, RestartFacts DEF Places
<1>3. \A v \in Workers : worker[v].at = "off" /\ worker[v].owed = {}
  BY <1>0 DEF TokenIsUnique, WorkerIsSound
<1>4. InFlight' = InFlight /\ \A v \in Workers : worker'[v].owed = worker[v].owed
  BY <1>2, <1>3 DEF InFlight, Holding, OnlyWorker
<1>5. SchedulerStep(r, "done")
  BY <1>0 DEF SchedulerStep, TypeOK
<1>6. PlacesAreApart' /\ EveryMemoryIsSomewhere' /\ Counted'
  BY <1>0, <1>4, <1>5, SchedulerMoves
<1>7. TypeOK'
  BY <1>0, <1>2, <1>5 DEF TypeOK, OnlyWorker, WorkerRecords, SchedulerStep, queue
<1>8. WorkerIsSound'
  BY <1>2, <1>3 DEF WorkerIsSound, OnlyWorker, HoldingPlaces
<1>9. TokenIsUnique'
  BY <1>0, <1>2, <1>3, <1>5 DEF TokenIsUnique, OnlyWorker, SchedulerStep
<1> QED
  BY <1>6, <1>7, <1>8, <1>9 DEF MemoryInv

\* DrainAfterFailedStart: what waits is owed by the scheduler, and a job that a
\* later worker claimed stays known.
LEMMA DrainFailedKeeps ==
  ASSUME MemoryInv, NEW r \in Requests, DrainAfterFailedStart(r)
  PROVE  MemoryInv'
<1>0. /\ TypeOK /\ WorkerIsSound /\ TokenIsUnique /\ PlacesAreApart
      /\ EveryMemoryIsSomewhere /\ Counted
      /\ scheduler[r] = "failed" /\ DrainPending
      /\ drained' = [drained EXCEPT ![r] = PendingRequests]
      /\ scheduler' = [scheduler EXCEPT ![r] = "projecting"]
      /\ UNCHANGED <<started, worker, fate, active, exiting>>
  BY DEF MemoryInv, DrainAfterFailedStart
<1>1. /\ pending' = <<>> /\ known' = InFlight /\ IsFiniteSet(known')
      /\ Cardinality(known') = IF InFlight = {} THEN 0 ELSE 1
      /\ Cardinality(known') <= Capacity
      /\ metrics' \in [Counters -> Nat] /\ Balanced(Cardinality(known))'
  BY <1>0, OneInFlight, DrainFacts
<1>2. SchedulerStep(r, "projecting")
  BY <1>0 DEF SchedulerStep, TypeOK
<1>3. /\ drained[r] = {} /\ drained' \in [Requests -> SUBSET Requests]
      /\ drained'[r] = PendingRequests /\ \A s \in Requests \ {r} : drained'[s] = drained[s]
      /\ PendingRequests \subseteq known
  BY <1>0 DEF PlacesAreApart, TypeOK
<1>4. /\ InFlight' = InFlight
      /\ \A s \in Requests : Owed(s)' <=> Owed(s) \/ s \in PendingRequests
  BY <1>0, <1>3 DEF InFlight, Holding, Owed
<1>5. pending' \in Seq(Waiting) /\ Len(pending') = 0 /\ DOMAIN pending' = {}
  BY <1>1
<1>6. TypeOK' /\ WorkerIsSound' /\ TokenIsUnique'
  <2>1. InFlight \subseteq Requests
    BY <1>0 DEF PlacesAreApart, TypeOK
  <2>2. TypeOK'
    BY <1>0, <1>1, <1>2, <1>3, <1>5, <2>1 DEF TypeOK, SchedulerStep, Counters, Waiting
  <2>3. WorkerIsSound' /\ TokenIsUnique'
    BY <1>0, <1>2 DEF WorkerIsSound, TokenIsUnique, SchedulerStep
  <2> QED
    BY <2>2, <2>3
<1>7. PlacesAreApart'
  <2>1. PendingRequests' = {} /\ Distinct'
    BY <1>5 DEF PendingRequests, Distinct
  <2>2. \A x \in known : ~Owed(x) /\ fate[x] = "none"
    BY <1>0 DEF PlacesAreApart, TypeOK
  <2>3. \A w \in Workers, s \in Requests : worker[w].owed \cap drained'[s] = {}
    <3>1. \A w \in Workers : worker[w].owed \cap PendingRequests = {}
      BY <1>3, <2>2 DEF Owed
    <3> QED
      BY <1>0, <1>3, <3>1 DEF PlacesAreApart
  <2>4. \A s, t \in Requests : s # t => drained'[s] \cap drained'[t] = {}
    <3>1. \A s \in Requests : drained[s] \cap PendingRequests = {}
      BY <1>3, <2>2 DEF Owed
    <3> QED
      BY <1>0, <1>3, <3>1 DEF PlacesAreApart
  <2>5. \A s \in Requests : Owed(s)' => s \notin known' /\ fate'[s] = "none"
    BY <1>0, <1>1, <1>3, <1>4, <2>2 DEF PlacesAreApart
  <2>6. \A s \in Requests : fate'[s] # "none" => s \notin known'
    BY <1>0, <1>1 DEF PlacesAreApart
  <2>7. \A s \in Requests : drained'[s] # {} => scheduler'[s] = "projecting"
    BY <1>0, <1>2, <1>3 DEF PlacesAreApart, SchedulerStep
  <2> QED
    BY <1>0, <1>1, <1>4, <2>1, <2>3, <2>4, <2>5, <2>6, <2>7 DEF PlacesAreApart
<1>8. EveryMemoryIsSomewhere'
  <2>1. known = PendingRequests \cup InFlight
    BY <1>0 DEF PlacesAreApart
  <2> QED
    BY <1>0, <1>1, <1>2, <1>4, <2>1 DEF EveryMemoryIsSomewhere, SchedulerStep
<1>9. Counted'
  <2>1. Balanced(Cardinality(known))'
    BY <1>1
  <2>2. Cardinality(known') = Len(pending') + (IF InFlight' = {} THEN 0 ELSE 1)
    BY <1>1, <1>4, <1>5
  <2> QED
    BY <1>1, <2>1, <2>2 DEF Counted, Balanced
<1> QED
  BY <1>6, <1>7, <1>8, <1>9 DEF MemoryInv

\* ProjectAfterFailedStart: what the scheduler drained is settled.
LEMMA ProjectFailedKeeps ==
  ASSUME MemoryInv, NEW r \in Requests, ProjectAfterFailedStart(r)
  PROVE  MemoryInv'
<1>0. /\ TypeOK /\ WorkerIsSound /\ TokenIsUnique /\ PlacesAreApart
      /\ EveryMemoryIsSomewhere /\ Counted
      /\ scheduler[r] = "projecting" /\ fate' = Projected(drained[r])
      /\ drained' = [drained EXCEPT ![r] = {}]
      /\ scheduler' = [scheduler EXCEPT ![r] = "done"]
      /\ UNCHANGED <<queue, started, worker, active, exiting>>
  BY DEF MemoryInv, ProjectAfterFailedStart
<1>1. SchedulerStep(r, "done")
  BY <1>0 DEF SchedulerStep, TypeOK
<1>2. /\ drained' \in [Requests -> SUBSET Requests] /\ drained'[r] = {}
      /\ \A s \in Requests \ {r} : drained'[s] = drained[s]
  BY <1>0 DEF TypeOK
<1>3. /\ fate' \in [Requests -> {"none", "generated", "projected"}]
      /\ \A s \in Requests : fate'[s] = IF s \in drained[r] THEN "projected" ELSE fate[s]
  BY <1>0 DEF Projected, TypeOK
<1>4. /\ InFlight' = InFlight /\ PendingRequests' = PendingRequests /\ Distinct' = Distinct
      /\ known' = known
  BY <1>0 DEF InFlight, Holding, PendingRequests, Distinct, queue
<1>5. \A s \in Requests : Owed(s)' <=> Owed(s) /\ s \notin drained[r]
  <2>1. /\ \A s \in drained[r] : \A q \in Requests \ {r} : s \notin drained[q]
        /\ \A s \in drained[r] : \A w \in Workers : s \notin worker[w].owed
    BY <1>0 DEF PlacesAreApart
  <2> QED
    BY <1>0, <1>2, <2>1 DEF Owed
<1>6. \A s \in Requests : s \in drained[r] => Owed(s) /\ s \notin known
  BY <1>0 DEF Owed, PlacesAreApart
<1>7. TypeOK' /\ WorkerIsSound' /\ TokenIsUnique'
  <2>1. TypeOK'
    BY <1>0, <1>1, <1>2, <1>3 DEF TypeOK, SchedulerStep, queue
  <2>2. WorkerIsSound' /\ TokenIsUnique'
    BY <1>0, <1>1 DEF WorkerIsSound, TokenIsUnique, SchedulerStep
  <2> QED
    BY <2>1, <2>2
<1>8. PlacesAreApart'
  <2>1. /\ \A w \in Workers, s \in Requests : worker[w].owed \cap drained'[s] = {}
        /\ \A s, t \in Requests : s # t => drained'[s] \cap drained'[t] = {}
        /\ \A s \in Requests : drained'[s] # {} => scheduler'[s] = "projecting"
    BY <1>0, <1>1, <1>2 DEF PlacesAreApart, SchedulerStep
  <2>2. /\ \A s \in Requests : Owed(s)' => s \notin known /\ fate'[s] = "none"
        /\ \A s \in Requests : fate'[s] # "none" => s \notin known
    BY <1>0, <1>3, <1>5, <1>6 DEF PlacesAreApart
  <2> QED
    BY <1>0, <1>4, <2>1, <2>2 DEF PlacesAreApart
<1>9. EveryMemoryIsSomewhere'
  <2>1. \A s \in Requests : s \in drained[r] => scheduler[s] # "running"
    BY <1>0, <1>6 DEF EveryMemoryIsSomewhere
  <2> QED
    BY <1>0, <1>1, <1>3, <1>4, <1>5, <2>1 DEF EveryMemoryIsSomewhere, SchedulerStep
<1>10. Counted'
  BY <1>0, <1>4 DEF Counted, queue
<1> QED
  BY <1>7, <1>8, <1>9, <1>10 DEF MemoryInv

-----------------------------------------------------------------------------
(* The theorems.                                                           *)

\* The initial states.
LEMMA MemoryInit == Init => MemoryInv
<1> SUFFICES ASSUME Init PROVE MemoryInv
  OBVIOUS
<1>1. /\ \A w \in Workers : worker[w].at = "off" /\ worker[w].owed = {}
      /\ worker \in [Workers -> WorkerRecords]
  BY OffFacts DEF Init
<1>2. pending \in Seq(Waiting) /\ Len(pending) = 0 /\ DOMAIN pending = {}
  BY DEF Init
<1>3. InFlight = {} /\ PendingRequests = {} /\ Distinct /\ \A r \in Requests : ~Owed(r)
  BY <1>1, <1>2 DEF InFlight, Holding, PendingRequests, Distinct, Owed, Init
<1>4. TypeOK
  <2>1. metrics \in [Counters -> Nat]
    BY DEF Init, Counters
  <2>2. started \in BOOLEAN /\ active \in BOOLEAN /\ exiting \in BOOLEAN
    BY DEF Init
  <2>3. /\ scheduler \in [Requests -> {"running", "queued", "spawning", "failed", "projecting", "done"}]
        /\ drained \in [Requests -> SUBSET Requests] /\ known \subseteq Requests
        /\ fate \in [Requests -> {"none", "generated", "projected"}]
    BY DEF Init
  <2> QED
    BY <1>1, <1>2, <2>1, <2>2, <2>3 DEF TypeOK, Waiting, WorkerRecords, Counters
<1>5. WorkerIsSound /\ TokenIsUnique
  BY <1>1 DEF Init, WorkerIsSound, TokenIsUnique, HoldingPlaces
<1>6. PlacesAreApart /\ EveryMemoryIsSomewhere
  BY <1>1, <1>3 DEF Init, PlacesAreApart, EveryMemoryIsSomewhere
<1>7. Counted
  <2>1. IsFiniteSet(known) /\ Cardinality(known) = 0
    BY FS_EmptySet DEF Init
  <2>2. Cardinality(known) <= Capacity
    BY <2>1, PolicyAssumption
  <2>3. metrics["accepted"] = 0 /\ metrics["completed"] = 0 /\ metrics["exhausted"] = 0
        /\ metrics["abandoned"] = 0
    BY DEF Init
  <2> QED
    BY <1>2, <1>3, <2>1, <2>2, <2>3 DEF Counted
<1> QED
  BY <1>4, <1>5, <1>6, <1>7 DEF MemoryInv

\* Every step keeps the invariant.
LEMMA MemoryStep == MemoryInv /\ [Next]_vars => MemoryInv'
<1> SUFFICES ASSUME MemoryInv, [Next]_vars PROVE MemoryInv'
  OBVIOUS
<1>1. ASSUME NEW r \in Requests, Schedule(r) PROVE MemoryInv'
  BY <1>1, RejectKeeps, EnqueueKeeps, TokenMoves, SpawnKeeps, DrainFailedKeeps,
     ProjectFailedKeeps DEF Schedule
<1>2. ASSUME NEW w \in Workers, IdleWaitGivesUp(w) PROVE MemoryInv'
  BY <1>2, DisposeAndOwe DEF IdleWaitGivesUp, HoldingPlaces
<1>3. ASSUME NEW w \in Workers, AttemptFails(w) PROVE MemoryInv'
  BY <1>3, DisposeAndOwe DEF AttemptFails, HoldingPlaces
<1>4. ASSUME NEW w \in Workers, CancelledAtExit(w) PROVE MemoryInv'
  BY <1>4, DisposeAndOwe DEF CancelledAtExit, HoldingPlaces
<1>5. ASSUME NEW w \in Workers, RetryExhausted(w) PROVE MemoryInv'
  BY <1>5, DisposeAndOwe DEF RetryExhausted, HoldingPlaces
<1>6. ASSUME NEW w \in Workers, Work(w) PROVE MemoryInv'
  BY <1>2, <1>3, <1>4, <1>5, <1>6, QuietWork, ClaimKeeps, CompleteKeeps, RetryKeeps,
     ProjectKeeps, DrainKeeps, FinishKeeps DEF Work
<1>7. ASSUME ForegroundChanges \/ Quit \/ UNCHANGED vars PROVE MemoryInv'
  <2>1. active' \in BOOLEAN /\ exiting' \in BOOLEAN
    BY <1>7 DEF ForegroundChanges, Quit, vars, MemoryInv, TypeOK
  <2>2. UNCHANGED <<queue, started, scheduler, drained, worker, fate>>
    BY <1>7 DEF ForegroundChanges, Quit, vars, queue
  <2>3. TypeOK' /\ WorkerIsSound' /\ TokenIsUnique'
    BY <2>1, <2>2 DEF MemoryInv, TypeOK, WorkerIsSound, TokenIsUnique, queue
  <2>4. InFlight' = InFlight
    BY <2>2 DEF InFlight, Holding
  <2> QED
    BY <2>2, <2>3, <2>4, PlacesKept DEF MemoryInv
<1> QED
  BY <1>1, <1>6, <1>7, TickKeeps DEF Next

\* The inductive invariant of the semantic memory queue.
THEOREM MemoryInvariant == Spec => []MemoryInv
  BY MemoryInit, MemoryStep, PTL DEF Spec

\* The workers that hold a job, counted.
LEMMA HoldingIsCounted ==
  ASSUME MemoryInv
  PROVE  Cardinality(Holding) = IF InFlight = {} THEN 0 ELSE 1
<1>1. CASE Holding = {}
  BY <1>1, FS_EmptySet DEF InFlight
<1>2. ASSUME NEW w \in Holding PROVE Cardinality(Holding) = IF InFlight = {} THEN 0 ELSE 1
  <2>1. Holding = {w}
    BY DEF MemoryInv, TokenIsUnique, Holding
  <2>2. InFlight # {}
    BY DEF InFlight
  <2> QED
    BY <2>1, <2>2, FS_Singleton
<1> QED
  BY <1>1, <1>2

\* known_ids is exactly the waiting and the claimed jobs, each once, never more
\* than the capacity, and the metrics of LossAwareWorkQueue add up: for every
\* number of runs, threads and attempts, and every capacity.
THEOREM QueueIsAlwaysExact == Spec => []QueueIsExact
<1>1. MemoryInv => QueueIsExact
  <2> SUFFICES ASSUME MemoryInv PROVE QueueIsExact
    OBVIOUS
  <2>1. /\ TypeOK /\ known = PendingRequests \cup InFlight
        /\ Cardinality(known) = Len(pending) + Cardinality(Holding)
        /\ Cardinality(known) <= Capacity
    BY HoldingIsCounted DEF MemoryInv, PlacesAreApart, Counted
  <2>2. metrics["accepted"] = metrics["completed"] + metrics["exhausted"]
                              + metrics["abandoned"] + Cardinality(known)
    BY DEF MemoryInv, Counted
  <2>3. metrics.accepted = metrics.completed + metrics.exhausted
                           + metrics.abandoned + Cardinality(known)
    BY <2>2, Zenon
  <2> QED
    BY <2>1, <2>3 DEF QueueIsExact
<1> QED
  BY <1>1, MemoryInvariant, PTL

\* At most one worker loop runs, and a scheduled memory is in exactly one
\* place: waiting, claimed, owed by one thread or settled.
THEOREM AlwaysOneWorkerOnePlace == Spec => []OneWorkerOnePlace
<1>1. MemoryInv => OneWorker
  <2> SUFFICES ASSUME MemoryInv PROVE OneWorker
    OBVIOUS
  <2> DEFINE up == {w \in Workers : worker[w].at # "off"}
  <2>1. CASE up = {}
    BY <2>1, FS_EmptySet DEF OneWorker
  <2>2. ASSUME NEW w \in up PROVE OneWorker
    <3>1. up = {w}
      BY DEF MemoryInv, TokenIsUnique
    <3>2. Cardinality(up) = 1
      BY <3>1, FS_Singleton
    <3> QED
      BY <3>2 DEF OneWorker
  <2> QED
    BY <2>1, <2>2
<1>2. MemoryInv => EachMemoryInOnePlace
  <2> SUFFICES ASSUME MemoryInv, NEW r \in Requests, scheduler[r] # "running"
               PROVE  LET waiting == {i \in DOMAIN pending : pending[i].req = r}
                          claimed == {w \in Holding : worker[w].job.req = r}
                          owing   == {w \in Workers : r \in worker[w].owed}
                          failing == {s \in Requests : r \in drained[s]}
                          settled == IF fate[r] = "none" THEN 0 ELSE 1
                      IN  Cardinality(waiting) + Cardinality(claimed) + Cardinality(owing)
                          + Cardinality(failing) + settled = 1
    BY DEF EachMemoryInOnePlace
  <2> DEFINE waiting == {i \in DOMAIN pending : pending[i].req = r}
             claimed == {w \in Holding : worker[w].job.req = r}
             owing == {w \in Workers : r \in worker[w].owed}
             failing == {s \in Requests : r \in drained[s]}
             settled == IF fate[r] = "none" THEN 0 ELSE 1
  <2>1. Cardinality(waiting) = IF r \in PendingRequests THEN 1 ELSE 0
    <3>1. CASE r \in PendingRequests
      <4>1. PICK i \in DOMAIN pending : pending[i].req = r
        BY <3>1 DEF PendingRequests
      <4>2. waiting = {i}
        BY <4>1 DEF MemoryInv, PlacesAreApart, Distinct
      <4> QED
        BY <3>1, <4>2, FS_Singleton
    <3>2. CASE r \notin PendingRequests
      <4>1. waiting = {}
        BY <3>2 DEF PendingRequests
      <4> QED
        BY <3>2, <4>1, FS_EmptySet
    <3> QED
      BY <3>1, <3>2
  <2>2. Cardinality(claimed) = IF r \in InFlight THEN 1 ELSE 0
    <3>1. CASE r \in InFlight
      <4>1. PICK w \in Holding : worker[w].job.req = r
        BY <3>1 DEF InFlight
      <4>2. claimed = {w}
        BY <4>1 DEF MemoryInv, TokenIsUnique, Holding
      <4> QED
        BY <3>1, <4>2, FS_Singleton
    <3>2. CASE r \notin InFlight
      <4>1. claimed = {}
        BY <3>2 DEF InFlight
      <4> QED
        BY <3>2, <4>1, FS_EmptySet
    <3> QED
      BY <3>1, <3>2
  <2>3. Cardinality(owing) = IF \E w \in Workers : r \in worker[w].owed THEN 1 ELSE 0
    <3>1. ASSUME NEW w \in Workers, r \in worker[w].owed PROVE Cardinality(owing) = 1
      <4>1. owing = {w}
        BY <3>1 DEF MemoryInv, TokenIsUnique, WorkerIsSound
      <4> QED
        BY <4>1, FS_Singleton
    <3>2. CASE ~\E w \in Workers : r \in worker[w].owed
      <4>1. owing = {}
        BY <3>2
      <4> QED
        BY <3>2, <4>1, FS_EmptySet
    <3> QED
      BY <3>1, <3>2
  <2>4. Cardinality(failing) = IF \E s \in Requests : r \in drained[s] THEN 1 ELSE 0
    <3>1. ASSUME NEW s \in Requests, r \in drained[s] PROVE Cardinality(failing) = 1
      <4>1. failing = {s}
        BY <3>1 DEF MemoryInv, PlacesAreApart
      <4> QED
        BY <4>1, FS_Singleton
    <3>2. CASE ~\E s \in Requests : r \in drained[s]
      <4>1. failing = {}
        BY <3>2
      <4> QED
        BY <3>2, <4>1, FS_EmptySet
    <3> QED
      BY <3>1, <3>2
  <2>5. /\ r \in known <=> r \in PendingRequests \/ r \in InFlight
        /\ ~(r \in PendingRequests /\ r \in InFlight)
        /\ Owed(r) => r \notin known /\ fate[r] = "none"
        /\ fate[r] # "none" => r \notin known
        /\ ~((\E w \in Workers : r \in worker[w].owed) /\ (\E s \in Requests : r \in drained[s]))
        /\ r \in known \/ Owed(r) \/ fate[r] # "none"
    BY DEF MemoryInv, PlacesAreApart, EveryMemoryIsSomewhere
  <2> HIDE DEF waiting, claimed, owing, failing
  <2>6. Cardinality(waiting) + Cardinality(claimed) + Cardinality(owing)
        + Cardinality(failing) + settled = 1
    BY <2>1, <2>2, <2>3, <2>4, <2>5 DEF Owed
  <2> QED
    BY <2>6 DEF waiting, claimed, owing, failing
<1> QED
  BY <1>1, <1>2, MemoryInvariant, PTL DEF OneWorkerOnePlace
=============================================================================
