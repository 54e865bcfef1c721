--------------------------- MODULE GenerationsProofs ---------------------------
(***************************************************************************)
(* Proofs about the two stores that publish whole generations and collect  *)
(* the old ones: KnowledgeGenerations and VectorRefresh.                   *)
(*                                                                         *)
(* KnowledgeGenerations, for every number of operations, generations,      *)
(* workspace changes, failures and crashes.  The inductive invariant says  *)
(* what each operation may rely on at the place it has reached: whoever    *)
(* builds holds the index lock alone, its generation is newer than the     *)
(* current one and nobody has it open, so that a failure may remove it and *)
(* a rename only moves the pointer on; and what it scanned is no older     *)
(* than what the pointer names.                                            *)
(*                                                                         *)
(* VectorRefresh, for every number of threads, readers, revisions and      *)
(* generations, and any number of crashes:                                 *)
(*                                                                         *)
(*   DiskInv      generations have distinct numbers below the newest, and  *)
(*                what a reader or CURRENT names is there and is not the   *)
(*                unpublished one, so that neither the collection nor a    *)
(*                failed publication takes it.                             *)
(*   CarriedInv   the newest scheduled revision is in somebody's hands: a  *)
(*                thread that has registered it, the queue, the refresher, *)
(*                or a thread whose reset took it out of the queue and     *)
(*                that will schedule it again.                             *)
(*   PurgeInv     the ledger does not move while a thread forgets, so that *)
(*                the reset is never skipped as outdated; once it has      *)
(*                noted its revision, older refreshes are turned away at   *)
(*                the gate.                                                *)
(***************************************************************************)
EXTENDS KnowledgeGenerations, VectorRefresh, TLAPS

(***************************************************************************)
(* Knowledge generations.                                                  *)
(***************************************************************************)
Generations == [id : Nat \ {0}, of : Nat, whole : BOOLEAN]
Opers ==
  [kind : {"none", "index", "search", "answer", "auto"},
   at : {"idle", "path", "snapshot", "lock", "decide", "pending", "build", "manifest",
         "rename", "collect", "caching", "again", "resnapshot", "ready", "record", "finish",
         "succeeded", "failed"},
   phase : {"Cancellable", "CommitWindow", "Cancelled", "Finalized"},
   seen : Nat, snap : Nat, own : Nat, of : Nat,
   status : {"none", "completed", "cancelled", "failed"}]

KnowledgeTypeOK ==
  /\ workspace \in Nat /\ current \in Nat /\ created \in Nat /\ cached \in Nat
  /\ disk \subseteq Generations
  /\ indexLock \subseteq Operations
  /\ oper \in [Operations -> Opers]

Building == {"build", "manifest", "rename"}
Locked == {"decide", "pending", "collect"} \cup Building

\* The index lock has at most one holder, and its holder is inside.
LockIsExclusive ==
  /\ \A o \in Operations : o \in indexLock <=> oper[o].at \in Locked
  /\ \A o, p \in indexLock : o = p

\* A generation's number is its own, and it was scanned from a workspace of the
\* past; what is current was created and what is cached was current.
DiskIsOrdered ==
  /\ \A d, e \in disk : d.id = e.id => d = e
  /\ \A d \in disk : d.id <= created /\ d.of <= workspace
  /\ current <= created /\ cached <= current

\* What an operation may rely on: its snapshot is whole and not newer than the
\* pointer; what it builds is on disk and newer, from a scan no older than the
\* current generation's; and where it writes it cannot have been cancelled.
OperOK(n) ==
  /\ n.snap <= current /\ (n.snap # 0 => n.snap \in WholeIds)
  /\ n.of <= workspace
  /\ n.own # 0 => n.at \in Building \cup {"collect"}
  /\ n.at \in Building =>
       /\ n.own > current /\ n.own <= created
       /\ \E d \in disk : d.id = n.own /\ d.of = n.of /\ (n.at = "rename" => d.whole)
  /\ n.at = "collect" => n.own = current /\ current # 0
  /\ n.at \in {"pending"} \cup Building =>
       \A d \in disk : d.id = current => d.of <= n.of
  /\ n.kind = "auto" => n.phase = "Cancellable"
  /\ n.at \in {"manifest", "rename", "collect"} /\ n.kind # "auto" => n.phase = "CommitWindow"
  /\ n.at \in {"record", "finish"} => n.phase = "CommitWindow"
  /\ n.at = "succeeded" /\ n.kind # "auto" => n.phase = "Finalized"
  /\ n.status # "none" => n.at \in {"succeeded", "failed"}

KnowledgeInv ==
  /\ KnowledgeTypeOK /\ LockIsExclusive /\ DiskIsOrdered /\ PublishedIsWhole
  /\ cached # 0 => cached \in WholeIds
  /\ \A o \in Operations : OperOK(oper[o])
-----------------------------------------------------------------------------
\* The fields of an operation.
LEMMA OperFields ==
  ASSUME KnowledgeTypeOK, NEW o \in Operations
  PROVE  /\ oper[o].snap \in Nat /\ oper[o].own \in Nat /\ oper[o].of \in Nat
         /\ oper[o].seen \in Nat /\ oper[o] \in Opers
  BY DEF KnowledgeTypeOK, Opers

\* A generation is whole when its directory is.
LEMMA WholeFacts ==
  ASSUME NEW x
  PROVE  x \in WholeIds <=> \E d \in disk : d.whole /\ d.id = x
  BY DEF WholeIds

\* A step of one operation that leaves the files alone only has to keep what
\* that operation relies on.
LEMMA OperMoves ==
  ASSUME KnowledgeInv, NEW o \in Operations,
         UNCHANGED <<workspace, disk, current, created, cached>>,
         oper' \in [Operations -> Opers],
         \A p \in Operations \ {o} : oper'[p] = oper[p],
         OperOK(oper'[o]),
         indexLock' \subseteq Operations,
         \A p \in Operations \ {o} : p \in indexLock' <=> p \in indexLock,
         o \in indexLock' <=> oper'[o].at \in Locked,
         o \in indexLock' => indexLock' = {o}
  PROVE  KnowledgeInv'
<1>1. KnowledgeTypeOK'
  BY DEF KnowledgeInv, KnowledgeTypeOK
<1>2. LockIsExclusive'
  <2>1. \A p \in Operations : p \in indexLock' <=> oper'[p].at \in Locked
    BY DEF KnowledgeInv, LockIsExclusive
  <2>2. \A p, q \in indexLock' : p = q
    BY DEF KnowledgeInv, LockIsExclusive
  <2> QED
    BY <2>1, <2>2 DEF LockIsExclusive
<1>3. DiskIsOrdered' /\ PublishedIsWhole' /\ (cached' # 0 => cached' \in WholeIds') 
  BY DEF KnowledgeInv, DiskIsOrdered, PublishedIsWhole, WholeIds
<1>4. \A p \in Operations : OperOK(oper[p])'
  <2>1. \A p \in Operations : OperOK(oper'[p])
    BY DEF KnowledgeInv
  <2>2. WholeIds' = WholeIds
    BY DEF WholeIds
  <2> QED
    BY <2>1, <2>2 DEF OperOK
<1> QED
  BY <1>1, <1>2, <1>3, <1>4 DEF KnowledgeInv

\* The steps that only read files, or that only open and close windows.
LEMMA QuietStep ==
  ASSUME KnowledgeInv, NEW o \in Operations,
         \/ \E kind \in {"index", "search", "answer", "auto"} : RegisterOperation(o, kind)
         \/ ReadActivePath(o) \/ TakeSnapshot(o) \/ EnterIndexLock(o) \/ DecideIndex(o)
         \/ BeginCommit(o) \/ RecordAndResume(o) \/ RecordAndFinalize(o)
         \/ \E at \in {"record", "finish"} : OpenStoreWindow(o, at)
         \/ ReportStatus(o) \/ Unregister(o) \/ CancelOperation(o)
  PROVE  KnowledgeInv'
<1>0. /\ KnowledgeTypeOK /\ oper \in [Operations -> Opers] /\ OperOK(oper[o])
      /\ oper[o] \in Opers /\ indexLock \subseteq Operations
      /\ (o \in indexLock <=> oper[o].at \in Locked)
      /\ \A p, q \in indexLock : p = q
      /\ current \in Nat /\ cached \in Nat /\ workspace \in Nat
      /\ oper[o].snap \in Nat /\ oper[o].own \in Nat /\ oper[o].of \in Nat
      /\ disk \subseteq Generations
  BY OperFields DEF KnowledgeInv, KnowledgeTypeOK, LockIsExclusive
<1>w. /\ current # 0 => current \in WholeIds
      /\ cached # 0 => cached \in WholeIds
      /\ cached <= current /\ \A d \in disk : d.of <= workspace
  BY DEF KnowledgeInv, PublishedIsWhole, DiskIsOrdered
<1>1. UNCHANGED <<workspace, disk, current, created, cached>>
  BY DEF RegisterOperation, ReadActivePath, TakeSnapshot, EnterIndexLock, DecideIndex,
         BeginCommit, RecordAndResume, RecordAndFinalize, OpenStoreWindow, ReportStatus,
         Unregister, CancelOperation, KeepFiles
<1>2. ASSUME NEW n \in Opers, oper' = [oper EXCEPT ![o] = n], OperOK(n),
             \/ UNCHANGED indexLock /\ (n.at \in Locked <=> oper[o].at \in Locked)
             \/ indexLock = {} /\ indexLock' = {o} /\ n.at \in Locked
             \/ indexLock' = indexLock \ {o} /\ n.at \notin Locked
      PROVE  KnowledgeInv'
  <2>1. /\ oper' \in [Operations -> Opers] /\ oper'[o] = n
        /\ \A p \in Operations \ {o} : oper'[p] = oper[p]
    BY <1>0, <1>2
  <2>2. /\ indexLock' \subseteq Operations
        /\ \A p \in Operations \ {o} : p \in indexLock' <=> p \in indexLock
        /\ o \in indexLock' <=> n.at \in Locked
        /\ o \in indexLock' => indexLock' = {o}
    BY <1>0, <1>2
  <2> QED
    BY <1>1, <1>2, <2>1, <2>2, OperMoves
<1>3. ASSUME NEW kind \in {"index", "search", "answer", "auto"}, RegisterOperation(o, kind)
      PROVE  KnowledgeInv'
  <2> DEFINE n == [NoOper EXCEPT !.kind = kind, !.at = IF kind = "index" THEN "lock" ELSE "path"]
  <2>1. /\ n \in Opers /\ n.at \in {"lock", "path"} /\ n.kind = kind
        /\ n.snap = 0 /\ n.own = 0 /\ n.of = 0 /\ n.phase = "Cancellable"
        /\ n.status = "none"
    BY DEF NoOper, Opers
  <2>2. oper' = [oper EXCEPT ![o] = n] /\ UNCHANGED indexLock /\ oper[o].at = "idle"
    BY <1>3 DEF RegisterOperation
  <2> HIDE DEF n
  <2>3. OperOK(n)
    BY <1>0, <2>1 DEF OperOK, Building
  <2> QED
    BY <1>2, <2>1, <2>2, <2>3 DEF Locked, Building
<1>4. CASE ReadActivePath(o)
  <2> DEFINE n == [oper[o] EXCEPT !.seen = current,
                                  !.at = IF @ = "path" THEN "snapshot" ELSE "resnapshot"]
  <2>1. /\ n \in Opers /\ n.at \in {"snapshot", "resnapshot"} /\ n.kind = oper[o].kind
        /\ n.status = oper[o].status
        /\ n.snap = oper[o].snap /\ n.own = oper[o].own /\ n.of = oper[o].of
        /\ n.phase = oper[o].phase
    BY <1>0 DEF Opers
  <2>2. /\ oper' = [oper EXCEPT ![o] = n] /\ UNCHANGED indexLock
        /\ oper[o].at \in {"path", "again"}
    BY <1>0, <1>4 DEF ReadActivePath
  <2> HIDE DEF n
  <2>3. OperOK(n)
    BY <1>0, <2>1, <2>2 DEF OperOK, Building
  <2> QED
    BY <1>2, <2>1, <2>2, <2>3 DEF Locked, Building
<1>5. CASE TakeSnapshot(o)
  <2> DEFINE hit == cached # 0 /\ cached = oper[o].seen
             n == [oper[o] EXCEPT !.snap = IF hit THEN cached ELSE current,
                                  !.at = IF @ = "resnapshot" \/ hit THEN "ready" ELSE "lock"]
  <2>1. /\ n \in Opers /\ n.at \in {"ready", "lock"} /\ n.kind = oper[o].kind
        /\ n.status = oper[o].status
        /\ n.snap \in {cached, current} /\ n.own = oper[o].own /\ n.of = oper[o].of
        /\ n.phase = oper[o].phase
    BY <1>0 DEF Opers
  <2>2. /\ oper' = [oper EXCEPT ![o] = n] /\ UNCHANGED indexLock
        /\ oper[o].at \in {"snapshot", "resnapshot"}
    BY <1>0, <1>5 DEF TakeSnapshot
  <2> HIDE DEF n
  <2>3. OperOK(n)
    BY <1>0, <1>w, <2>1, <2>2 DEF OperOK, Building
  <2> QED
    BY <1>2, <2>1, <2>2, <2>3 DEF Locked, Building
<1>6. CASE EnterIndexLock(o)
  <2> DEFINE n == [oper[o] EXCEPT !.at = "decide"]
  <2>1. /\ n \in Opers /\ n.at = "decide" /\ n.kind = oper[o].kind
        /\ n.status = oper[o].status
        /\ n.snap = oper[o].snap /\ n.own = oper[o].own /\ n.of = oper[o].of
        /\ n.phase = oper[o].phase
    BY <1>0 DEF Opers
  <2>2. /\ oper' = [oper EXCEPT ![o] = n] /\ indexLock = {} /\ indexLock' = {o}
        /\ oper[o].at = "lock"
    BY <1>0, <1>6 DEF EnterIndexLock, OperTo
  <2> HIDE DEF n
  <2>3. OperOK(n)
    BY <1>0, <2>1, <2>2 DEF OperOK, Building
  <2> QED
    BY <1>2, <2>1, <2>2, <2>3 DEF Locked
<1>7. CASE DecideIndex(o)
  <2> DEFINE fresh == oper[o].kind # "index" /\ current # 0 /\ VersionOf(current) = workspace
             n == [oper[o] EXCEPT !.snap = current, !.of = workspace,
                                  !.at = IF fresh THEN "caching" ELSE "pending"]
  <2>1. /\ n \in Opers /\ n.at = (IF fresh THEN "caching" ELSE "pending")
        /\ n.status = oper[o].status
        /\ n.kind = oper[o].kind /\ n.snap = current /\ n.own = oper[o].own
        /\ n.of = workspace /\ n.phase = oper[o].phase
    <3> HIDE DEF fresh
    <3> QED
      BY <1>0 DEF Opers
  <2>2. /\ oper' = [oper EXCEPT ![o] = n] /\ oper[o].at = "decide"
        /\ indexLock' = IF fresh THEN indexLock \ {o} ELSE indexLock
    BY <1>0, <1>7 DEF DecideIndex
  <2> HIDE DEF n, fresh
  <2>3. OperOK(n)
    BY <1>0, <1>w, <2>1, <2>2 DEF OperOK, Building
  <2> QED
    BY <1>2, <2>1, <2>2, <2>3 DEF Locked, Building
<1>8. CASE BeginCommit(o)
  <2> DEFINE n == [oper[o] EXCEPT !.at = "manifest",
                                  !.phase = IF Manual(o) THEN "CommitWindow" ELSE @]
  <2>1. /\ n \in Opers /\ n.at = "manifest" /\ n.kind = oper[o].kind
        /\ n.status = oper[o].status
        /\ n.snap = oper[o].snap /\ n.own = oper[o].own /\ n.of = oper[o].of
        /\ n.phase = IF oper[o].kind # "auto" THEN "CommitWindow" ELSE oper[o].phase
    BY <1>0 DEF Opers, Manual
  <2>2. /\ oper' = [oper EXCEPT ![o] = n] /\ UNCHANGED indexLock /\ oper[o].at = "build"
    BY <1>0, <1>8 DEF BeginCommit
  <2> HIDE DEF n
  <2>3. OperOK(n)
    BY <1>0, <2>1, <2>2 DEF OperOK, Building
  <2> QED
    BY <1>2, <2>1, <2>2, <2>3 DEF Locked, Building
<1>9. ASSUME NEW at \in {"record", "finish"}, OpenStoreWindow(o, at) PROVE KnowledgeInv'
  <2> DEFINE n == [oper[o] EXCEPT !.at = at, !.phase = "CommitWindow"]
  <2>1. /\ n \in Opers /\ n.at = at /\ n.kind = oper[o].kind
        /\ n.status = oper[o].status
        /\ n.snap = oper[o].snap /\ n.own = oper[o].own /\ n.of = oper[o].of
        /\ n.phase = "CommitWindow"
    BY <1>0 DEF Opers
  <2>2. /\ oper' = [oper EXCEPT ![o] = n] /\ UNCHANGED indexLock /\ oper[o].at = "ready"
        /\ oper[o].kind \in {"search", "answer"}
    BY <1>0, <1>9 DEF OpenStoreWindow
  <2> HIDE DEF n
  <2>3. OperOK(n)
    BY <1>0, <2>1, <2>2 DEF OperOK, Building
  <2> QED
    BY <1>2, <2>1, <2>2, <2>3 DEF Locked, Building
<1>10. CASE RecordAndResume(o)
  <2> DEFINE n == [oper[o] EXCEPT !.at = "ready", !.phase = "Cancellable"]
  <2>1. /\ n \in Opers /\ n.at = "ready" /\ n.kind = oper[o].kind
        /\ n.status = oper[o].status
        /\ n.snap = oper[o].snap /\ n.own = oper[o].own /\ n.of = oper[o].of
        /\ n.phase = "Cancellable"
    BY <1>0 DEF Opers
  <2>2. /\ oper' = [oper EXCEPT ![o] = n] /\ UNCHANGED indexLock /\ oper[o].at = "record"
    BY <1>0, <1>10 DEF RecordAndResume
  <2> HIDE DEF n
  <2>3. OperOK(n)
    BY <1>0, <2>1, <2>2 DEF OperOK, Building
  <2> QED
    BY <1>2, <2>1, <2>2, <2>3 DEF Locked, Building
<1>11. CASE RecordAndFinalize(o)
  <2> DEFINE n == [oper[o] EXCEPT !.at = "succeeded",
                                  !.phase = IF Manual(o) THEN "Finalized" ELSE @]
  <2>1. /\ n \in Opers /\ n.at = "succeeded" /\ n.kind = oper[o].kind
        /\ n.status = oper[o].status
        /\ n.snap = oper[o].snap /\ n.own = oper[o].own /\ n.of = oper[o].of
        /\ n.phase = IF oper[o].kind # "auto" THEN "Finalized" ELSE oper[o].phase
    BY <1>0 DEF Opers, Manual
  <2>2. /\ oper' = [oper EXCEPT ![o] = n] /\ UNCHANGED indexLock
        /\ oper[o].at \in {"finish", "ready"}
    BY <1>0, <1>11 DEF RecordAndFinalize
  <2> HIDE DEF n
  <2>3. OperOK(n)
    BY <1>0, <2>1, <2>2 DEF OperOK, Building
  <2> QED
    BY <1>2, <2>1, <2>2, <2>3 DEF Locked, Building
<1>12. CASE ReportStatus(o)
  <2> DEFINE n == [oper[o] EXCEPT !.status = CASE oper[o].at = "succeeded" -> "completed"
                                               [] Cancelled(o) -> "cancelled"
                                               [] OTHER -> "failed"]
  <2>1. /\ n \in Opers /\ n.at = oper[o].at /\ n.kind = oper[o].kind
        /\ n.snap = oper[o].snap /\ n.own = oper[o].own /\ n.of = oper[o].of
        /\ n.phase = oper[o].phase
    BY <1>0 DEF Opers
  <2>2. /\ oper' = [oper EXCEPT ![o] = n] /\ UNCHANGED indexLock
        /\ oper[o].at \in {"succeeded", "failed"}
    BY <1>0, <1>12 DEF ReportStatus
  <2> HIDE DEF n
  <2>3. OperOK(n)
    BY <1>0, <2>1, <2>2 DEF OperOK, Building
  <2> QED
    BY <1>2, <2>1, <2>2, <2>3
<1>13. CASE Unregister(o)
  <2>1. /\ NoOper \in Opers /\ NoOper.at = "idle" /\ NoOper.kind = "none"
        /\ NoOper.snap = 0 /\ NoOper.own = 0 /\ NoOper.of = 0
        /\ NoOper.phase = "Cancellable" /\ NoOper.status = "none"
    BY DEF NoOper, Opers
  <2>2. oper' = [oper EXCEPT ![o] = NoOper] /\ UNCHANGED indexLock /\ oper[o].status # "none"
    BY <1>0, <1>13 DEF Unregister
  <2>3. OperOK(NoOper)
    BY <1>0, <2>1 DEF OperOK, Building
  <2>4. oper[o].at \notin Locked
    BY <1>0, <2>2 DEF OperOK, Locked, Building
  <2> QED
    BY <1>2, <2>1, <2>2, <2>3, <2>4 DEF Locked, Building
<1>14. CASE CancelOperation(o)
  <2> DEFINE n == [oper[o] EXCEPT !.phase = "Cancelled"]
  <2>1. /\ n \in Opers /\ n.at = oper[o].at /\ n.kind = oper[o].kind
        /\ n.status = oper[o].status
        /\ n.snap = oper[o].snap /\ n.own = oper[o].own /\ n.of = oper[o].of
    BY <1>0 DEF Opers
  <2>2. /\ oper' = [oper EXCEPT ![o] = n] /\ UNCHANGED indexLock
        /\ oper[o].kind # "auto" /\ oper[o].phase = "Cancellable"
    BY <1>0, <1>14 DEF CancelOperation
  <2> HIDE DEF n
  <2>3. OperOK(n)
    BY <1>0, <2>1, <2>2 DEF OperOK, Building
  <2> QED
    BY <1>2, <2>1, <2>2, <2>3
<1> QED
  BY <1>3, <1>4, <1>5, <1>6, <1>7, <1>8, <1>9, <1>10, <1>11, <1>12, <1>13, <1>14

\* An operation outside the lock relies on its snapshot alone.
LEMMA OutsideStays ==
  ASSUME KnowledgeInv, NEW p \in Operations, oper[p].at \notin Locked, oper'[p] = oper[p],
         current' \in Nat, workspace' \in Nat, current <= current', workspace <= workspace',
         oper[p].snap # 0 => oper[p].snap \in WholeIds'
  PROVE  OperOK(oper[p])'
<1>1. /\ OperOK(oper[p]) /\ oper[p].snap \in Nat /\ oper[p].of \in Nat
      /\ current \in Nat /\ workspace \in Nat
  BY OperFields DEF KnowledgeInv, KnowledgeTypeOK
<1> QED
  BY <1>1 DEF OperOK, Locked, Building

\* The pending generation's directory appears, not yet whole.
LEMMA CreateStep ==
  ASSUME KnowledgeInv, NEW o \in Operations, CreatePending(o)
  PROVE  KnowledgeInv'
<1> DEFINE new == [id |-> created + 1, of |-> oper[o].of, whole |-> FALSE]
<1>0. /\ KnowledgeTypeOK /\ oper \in [Operations -> Opers] /\ OperOK(oper[o])
      /\ oper[o] \in Opers /\ indexLock \subseteq Operations /\ oper[o].at = "pending"
      /\ current \in Nat /\ cached \in Nat /\ workspace \in Nat /\ created \in Nat
      /\ oper[o].snap \in Nat /\ oper[o].own \in Nat /\ oper[o].of \in Nat
      /\ disk \subseteq Generations /\ LockIsExclusive /\ DiskIsOrdered
  BY OperFields DEF KnowledgeInv, KnowledgeTypeOK, CreatePending
<1>1. /\ created' = created + 1 /\ disk' = disk \cup {new}
      /\ UNCHANGED <<workspace, current, cached, indexLock>>
  BY DEF CreatePending
<1>2. /\ new \in Generations /\ new.id = created + 1 /\ new.of = oper[o].of /\ ~new.whole
  BY <1>0 DEF Generations
<1>3. /\ oper' \in [Operations -> Opers]
      /\ \A p \in Operations \ {o} : oper'[p] = oper[p]
      /\ oper'[o].own = created + 1 /\ oper'[o].at = "build" /\ oper'[o].of = oper[o].of
      /\ oper'[o].snap = oper[o].snap /\ oper'[o].kind = oper[o].kind
      /\ oper'[o].phase = oper[o].phase /\ oper'[o].status = oper[o].status
  BY <1>0 DEF CreatePending, Opers
<1> HIDE DEF new
<1>4. \A x : x \in WholeIds' <=> x \in WholeIds
  BY <1>1, <1>2 DEF WholeIds
<1>5. KnowledgeTypeOK'
  BY <1>0, <1>1, <1>2, <1>3 DEF KnowledgeTypeOK
<1>6. LockIsExclusive'
  BY <1>0, <1>1, <1>3 DEF LockIsExclusive, Locked, Building
<1>7. \A d \in disk : d.id \in Nat /\ d.id <= created /\ d.of <= workspace
  BY <1>0 DEF DiskIsOrdered, Generations
<1>8. DiskIsOrdered'
  BY <1>0, <1>1, <1>2, <1>7 DEF DiskIsOrdered, OperOK
<1>9. PublishedIsWhole' /\ (cached' # 0 => cached' \in WholeIds')
  BY <1>1, <1>4 DEF KnowledgeInv, PublishedIsWhole
<1>10. OperOK(oper[o])'
  BY <1>0, <1>1, <1>2, <1>3, <1>4, <1>7 DEF OperOK, Building, DiskIsOrdered
<1>11. ASSUME NEW p \in Operations \ {o} PROVE OperOK(oper[p])'
  <2>1. oper[p].at \notin Locked
    BY <1>0, <1>11 DEF LockIsExclusive, Locked
  <2> QED
    BY <1>0, <1>1, <1>3, <1>4, <2>1, OutsideStays DEF KnowledgeInv, OperOK
<1> QED
  BY <1>5, <1>6, <1>8, <1>9, <1>10, <1>11 DEF KnowledgeInv

\* The manifest makes it whole.
LEMMA ManifestStep ==
  ASSUME KnowledgeInv, NEW o \in Operations, WriteManifest(o)
  PROVE  KnowledgeInv'
<1> DEFINE made(d) == IF d.id = oper[o].own THEN [d EXCEPT !.whole = TRUE] ELSE d
<1>0. /\ KnowledgeTypeOK /\ oper \in [Operations -> Opers] /\ OperOK(oper[o])
      /\ oper[o] \in Opers /\ indexLock \subseteq Operations /\ oper[o].at = "manifest"
      /\ current \in Nat /\ cached \in Nat /\ workspace \in Nat /\ created \in Nat
      /\ oper[o].snap \in Nat /\ oper[o].own \in Nat /\ oper[o].of \in Nat
      /\ disk \subseteq Generations /\ LockIsExclusive /\ DiskIsOrdered
  BY OperFields DEF KnowledgeInv, KnowledgeTypeOK, WriteManifest
<1>1. /\ disk' = {made(d) : d \in disk}
      /\ UNCHANGED <<workspace, current, created, cached, indexLock>>
  BY DEF WriteManifest
<1>2. \A d \in disk : /\ made(d) \in Generations /\ made(d).id = d.id /\ made(d).of = d.of
                      /\ d.whole => made(d).whole
                      /\ d.id = oper[o].own => made(d).whole
  BY <1>0 DEF Generations
<1>3. /\ oper' \in [Operations -> Opers]
      /\ \A p \in Operations \ {o} : oper'[p] = oper[p]
      /\ oper'[o].own = oper[o].own /\ oper'[o].at = "rename" /\ oper'[o].of = oper[o].of
      /\ oper'[o].snap = oper[o].snap /\ oper'[o].kind = oper[o].kind
      /\ oper'[o].phase = oper[o].phase /\ oper'[o].status = oper[o].status
  BY <1>0 DEF WriteManifest, OperTo, Opers
<1> HIDE DEF made
<1>4. \A x : x \in WholeIds => x \in WholeIds'
  BY <1>1, <1>2 DEF WholeIds
<1>5. KnowledgeTypeOK'
  BY <1>0, <1>1, <1>2, <1>3 DEF KnowledgeTypeOK
<1>6. LockIsExclusive'
  BY <1>0, <1>1, <1>3 DEF LockIsExclusive, Locked, Building
<1>7. DiskIsOrdered'
  BY <1>0, <1>1, <1>2 DEF DiskIsOrdered
<1>8. PublishedIsWhole' /\ (cached' # 0 => cached' \in WholeIds')
  BY <1>1, <1>4 DEF KnowledgeInv, PublishedIsWhole
<1>9. OperOK(oper[o])'
  <2>1. \E e \in disk' : e.id = oper[o].own /\ e.of = oper[o].of /\ e.whole
    <3>1. PICK d \in disk : d.id = oper[o].own /\ d.of = oper[o].of
      BY <1>0 DEF OperOK, Building
    <3> QED
      BY <1>1, <1>2, <3>1
  <2>2. \A e \in disk' : e.id = current => e.of <= oper[o].of
    BY <1>0, <1>1, <1>2 DEF OperOK, Building
  <2> QED
    BY <1>0, <1>1, <1>3, <1>4, <2>1, <2>2 DEF OperOK, Building
<1>10. ASSUME NEW p \in Operations \ {o} PROVE OperOK(oper[p])'
  <2>1. oper[p].at \notin Locked
    BY <1>0, <1>10 DEF LockIsExclusive, Locked, Building
  <2> QED
    BY <1>0, <1>1, <1>3, <1>4, <2>1, OutsideStays DEF KnowledgeInv, OperOK
<1> QED
  BY <1>5, <1>6, <1>7, <1>8, <1>9, <1>10 DEF KnowledgeInv

\* The pointer moves to it.
LEMMA RenameStep ==
  ASSUME KnowledgeInv, NEW o \in Operations, RenamePointer(o)
  PROVE  KnowledgeInv'
<1>0. /\ KnowledgeTypeOK /\ oper \in [Operations -> Opers] /\ OperOK(oper[o])
      /\ oper[o] \in Opers /\ indexLock \subseteq Operations /\ oper[o].at = "rename"
      /\ current \in Nat /\ cached \in Nat /\ workspace \in Nat /\ created \in Nat
      /\ oper[o].snap \in Nat /\ oper[o].own \in Nat /\ oper[o].of \in Nat
      /\ disk \subseteq Generations /\ LockIsExclusive /\ DiskIsOrdered
  BY OperFields DEF KnowledgeInv, KnowledgeTypeOK, RenamePointer
<1>1. /\ current' = oper[o].own /\ oper[o].own > current /\ oper[o].own <= created
      /\ UNCHANGED <<workspace, disk, created, cached, indexLock>>
  BY <1>0 DEF RenamePointer, OperOK, Building
<1>2. /\ oper' \in [Operations -> Opers]
      /\ \A p \in Operations \ {o} : oper'[p] = oper[p]
      /\ oper'[o].own = oper[o].own /\ oper'[o].at = "collect" /\ oper'[o].of = oper[o].of
      /\ oper'[o].snap = oper[o].snap /\ oper'[o].kind = oper[o].kind
      /\ oper'[o].phase = oper[o].phase /\ oper'[o].status = oper[o].status
  BY <1>0 DEF RenamePointer, OperTo, Opers
<1>3. WholeIds' = WholeIds
  BY <1>1 DEF WholeIds
<1>4. KnowledgeTypeOK'
  BY <1>0, <1>1, <1>2 DEF KnowledgeTypeOK
<1>5. LockIsExclusive'
  BY <1>0, <1>1, <1>2 DEF LockIsExclusive, Locked, Building
<1>6. DiskIsOrdered'
  BY <1>0, <1>1 DEF DiskIsOrdered
<1>7. PublishedIsWhole'
  <2>1. \E d \in disk : d.id = oper[o].own /\ d.whole
    BY <1>0 DEF OperOK, Building
  <2> QED
    BY <1>1, <2>1 DEF PublishedIsWhole, WholeIds
<1>8. cached' # 0 => cached' \in WholeIds'
  BY <1>1, <1>3 DEF KnowledgeInv
<1>9. OperOK(oper[o])'
  BY <1>0, <1>1, <1>2, <1>3 DEF OperOK, Building
<1>10. ASSUME NEW p \in Operations \ {o} PROVE OperOK(oper[p])'
  <2>1. oper[p].at \notin Locked
    BY <1>0, <1>10 DEF LockIsExclusive, Locked, Building
  <2> QED
    BY <1>0, <1>1, <1>2, <1>3, <2>1, OutsideStays DEF KnowledgeInv, OperOK
<1> QED
  BY <1>4, <1>5, <1>6, <1>7, <1>8, <1>9, <1>10 DEF KnowledgeInv

\* The collection, finished or cut short, spares what is in use.
LEMMA CollectStep ==
  ASSUME KnowledgeInv, NEW o \in Operations, Collect(o)
  PROVE  KnowledgeInv'
<1> DEFINE doomed == Doomed(oper[o].own)
<1>0. /\ KnowledgeTypeOK /\ oper \in [Operations -> Opers] /\ OperOK(oper[o])
      /\ oper[o] \in Opers /\ indexLock \subseteq Operations /\ oper[o].at = "collect"
      /\ current \in Nat /\ cached \in Nat /\ workspace \in Nat /\ created \in Nat
      /\ oper[o].snap \in Nat /\ oper[o].own \in Nat /\ oper[o].of \in Nat
      /\ disk \subseteq Generations /\ LockIsExclusive /\ DiskIsOrdered
  BY OperFields DEF KnowledgeInv, KnowledgeTypeOK, Collect
<1>1. /\ indexLock' = indexLock \ {o} /\ UNCHANGED <<workspace, current, created, cached>>
      /\ oper[o].own = current /\ current # 0
  BY <1>0 DEF Collect, Unlocked, OperOK
<1>2. /\ oper' \in [Operations -> Opers]
      /\ \A p \in Operations \ {o} : oper'[p] = oper[p]
      /\ oper'[o].own = 0 /\ oper'[o].at = "caching" /\ oper'[o].of = oper[o].of
      /\ oper'[o].snap = current /\ oper'[o].kind = oper[o].kind
      /\ oper[o].kind = "auto" => oper'[o].phase = oper[o].phase
      /\ oper'[o].status = oper[o].status
  BY <1>0, <1>1 DEF Collect, Opers
<1>3. /\ current \notin doomed /\ cached \notin doomed
      /\ \A p \in Operations : oper[p].snap \notin doomed
  BY <1>1 DEF Doomed, Retained, Leased
<1>4. /\ disk' \subseteq Generations
      /\ \A e \in disk' : \E d \in disk : e.id = d.id /\ e.of = d.of
      /\ \A d, e \in disk' : d.id = e.id => d = e
      /\ \A x \in WholeIds : x \notin doomed => x \in WholeIds'
  <2> HIDE DEF doomed
  <2>1. CASE disk' = {d \in disk : d.id \notin doomed}
    BY <1>0, <2>1 DEF WholeIds, DiskIsOrdered
  <2>2. CASE \E g \in doomed : disk' = {IF d.id = g THEN [d EXCEPT !.whole = FALSE] ELSE d :
                                        d \in {d \in disk : d.id \notin doomed \/ d.id <= g}}
    <3>1. PICK g \in doomed :
            disk' = {IF d.id = g THEN [d EXCEPT !.whole = FALSE] ELSE d :
                     d \in {d \in disk : d.id \notin doomed \/ d.id <= g}}
      BY <2>2
    <3> DEFINE cut(d) == IF d.id = g THEN [d EXCEPT !.whole = FALSE] ELSE d
               kept == {d \in disk : d.id \notin doomed \/ d.id <= g}
    <3>2. disk' = {cut(d) : d \in kept}
      BY <3>1
    <3>3. \A d \in disk : /\ cut(d) \in Generations /\ cut(d).id = d.id /\ cut(d).of = d.of
                          /\ d.id # g => cut(d) = d
      BY <1>0 DEF Generations
    <3>4. kept \subseteq disk /\ \A d \in disk : d.id \notin doomed => d \in kept
      OBVIOUS
    <3> HIDE DEF cut, kept
    <3>5. \A x \in WholeIds : x \notin doomed => x \in WholeIds'
      <4>1. ASSUME NEW x \in WholeIds, x \notin doomed PROVE x \in WholeIds'
        <5>1. PICK d \in disk : d.whole /\ d.id = x
          BY <4>1 DEF WholeIds
        <5>2. cut(d) = d /\ d \in disk'
          BY <3>2, <3>3, <3>4, <4>1, <5>1
        <5> QED
          BY <5>1, <5>2 DEF WholeIds
      <4> QED
        BY <4>1
    <3> QED
      BY <1>0, <3>2, <3>3, <3>4, <3>5 DEF DiskIsOrdered
  <2> QED
    BY <2>1, <2>2 DEF Collect, doomed
<1> HIDE DEF doomed
<1>5. KnowledgeTypeOK'
  BY <1>0, <1>1, <1>2, <1>4 DEF KnowledgeTypeOK
<1>6. LockIsExclusive'
  BY <1>0, <1>1, <1>2 DEF LockIsExclusive, Locked, Building
<1>7. DiskIsOrdered'
  BY <1>0, <1>1, <1>4 DEF DiskIsOrdered
<1>8. PublishedIsWhole' /\ (cached' # 0 => cached' \in WholeIds')
  BY <1>1, <1>3, <1>4 DEF KnowledgeInv, PublishedIsWhole
<1>9. OperOK(oper[o])'
  BY <1>0, <1>1, <1>2, <1>8 DEF OperOK, Building, PublishedIsWhole
<1>10. ASSUME NEW p \in Operations \ {o} PROVE OperOK(oper[p])'
  <2>1. oper[p].at \notin Locked
    BY <1>0, <1>10 DEF LockIsExclusive, Locked
  <2> QED
    BY <1>0, <1>1, <1>2, <1>3, <1>4, <2>1, OutsideStays DEF KnowledgeInv, OperOK
<1> QED
  BY <1>5, <1>6, <1>7, <1>8, <1>9, <1>10 DEF KnowledgeInv

\* An operation that fails takes its unpublished generation with it.
LEMMA ErrorStep ==
  ASSUME KnowledgeInv, NEW o \in Operations,
         ObserveCancel(o) \/ BuildFails(o) \/ StoreFails(o)
  PROVE  KnowledgeInv'
<1>0. /\ KnowledgeTypeOK /\ oper \in [Operations -> Opers] /\ OperOK(oper[o])
      /\ oper[o] \in Opers /\ indexLock \subseteq Operations
      /\ oper[o].at # "collect"
      /\ current \in Nat /\ cached \in Nat /\ workspace \in Nat /\ created \in Nat
      /\ oper[o].snap \in Nat /\ oper[o].own \in Nat /\ oper[o].of \in Nat
      /\ disk \subseteq Generations /\ LockIsExclusive /\ DiskIsOrdered
  BY OperFields DEF KnowledgeInv, KnowledgeTypeOK, ObserveCancel, BuildFails, StoreFails,
                    Checkpoints
<1>1. /\ indexLock' = indexLock \ {o} /\ UNCHANGED <<workspace, current, created, cached>>
      /\ disk' = {d \in disk : d.id # oper[o].own}
  BY DEF ObserveCancel, BuildFails, StoreFails, ReturnError, Unlocked
<1>2. oper' = [oper EXCEPT ![o].at = "failed", ![o].own = 0, ![o].snap = 0,
                           ![o].phase = IF @ = "CommitWindow" THEN "Cancellable" ELSE @]
  BY DEF ObserveCancel, BuildFails, StoreFails, ReturnError
<1>3. /\ oper' \in [Operations -> Opers]
      /\ \A p \in Operations \ {o} : oper'[p] = oper[p]
      /\ oper'[o].own = 0 /\ oper'[o].at = "failed" /\ oper'[o].of = oper[o].of
      /\ oper'[o].snap = 0 /\ oper'[o].kind = oper[o].kind
      /\ oper[o].phase = "Cancellable" => oper'[o].phase = "Cancellable"
  BY <1>0, <1>2 DEF Opers
<1>4. oper[o].own = 0 \/ (oper[o].own > current /\ oper[o].at \in Building)
  BY <1>0 DEF OperOK
<1>5. \A x \in WholeIds : x <= current => x \in WholeIds'
  <2>1. \A d \in disk : d.id \in Nat \ {0}
    BY <1>0 DEF Generations
  <2> QED
    BY <1>0, <1>1, <1>4, <2>1 DEF WholeIds
<1>6. KnowledgeTypeOK'
  BY <1>0, <1>1, <1>3 DEF KnowledgeTypeOK
<1>7. LockIsExclusive'
  BY <1>0, <1>1, <1>3 DEF LockIsExclusive, Locked, Building
<1>8. DiskIsOrdered'
  BY <1>0, <1>1 DEF DiskIsOrdered
<1>9. PublishedIsWhole' /\ (cached' # 0 => cached' \in WholeIds')
  BY <1>0, <1>1, <1>5 DEF KnowledgeInv, PublishedIsWhole, DiskIsOrdered
<1>10. OperOK(oper[o])'
  BY <1>0, <1>1, <1>3 DEF OperOK, Building
<1>11. ASSUME NEW p \in Operations \ {o} PROVE OperOK(oper[p])'
  <2>1. OperOK(oper[p]) /\ oper[p].snap \in Nat
    BY <1>0, OperFields DEF KnowledgeInv
  <2>2. CASE oper[p].at \notin Locked
    BY <1>0, <1>1, <1>3, <1>5, <2>1, <2>2, OutsideStays DEF OperOK
  <2>3. CASE oper[p].at \in Locked
    <3>1. oper[o].own = 0
      BY <1>0, <1>4, <1>11, <2>3 DEF LockIsExclusive, Locked
    <3>2. disk' = disk
      BY <1>0, <1>1, <3>1 DEF Generations
    <3>3. WholeIds' = WholeIds
      BY <3>2 DEF WholeIds
    <3> QED
      BY <1>1, <1>3, <2>1, <3>2, <3>3 DEF OperOK
  <2> QED
    BY <2>2, <2>3
<1> QED
  BY <1>6, <1>7, <1>8, <1>9, <1>10, <1>11 DEF KnowledgeInv

\* The cache follows the pointer.
LEMMA CacheStep ==
  ASSUME KnowledgeInv, NEW o \in Operations, CacheAdapter(o)
  PROVE  KnowledgeInv'
<1>0. /\ KnowledgeTypeOK /\ oper \in [Operations -> Opers] /\ OperOK(oper[o])
      /\ oper[o] \in Opers /\ indexLock \subseteq Operations /\ oper[o].at = "caching"
      /\ current \in Nat /\ cached \in Nat /\ workspace \in Nat /\ created \in Nat
      /\ LockIsExclusive /\ DiskIsOrdered
  BY OperFields DEF KnowledgeInv, KnowledgeTypeOK, CacheAdapter
<1>1. /\ UNCHANGED <<workspace, disk, current, created, indexLock>>
      /\ cached' \in {current, cached}
  BY DEF CacheAdapter
<1>2. /\ oper' \in [Operations -> Opers]
      /\ \A p \in Operations \ {o} : oper'[p] = oper[p]
      /\ oper'[o].own = oper[o].own /\ oper'[o].at = "again" /\ oper'[o].of = oper[o].of
      /\ oper'[o].snap = oper[o].snap /\ oper'[o].kind = oper[o].kind
      /\ oper'[o].phase = oper[o].phase /\ oper'[o].status = oper[o].status
  BY <1>0 DEF CacheAdapter, OperTo, Opers
<1>3. WholeIds' = WholeIds
  BY <1>1 DEF WholeIds
<1>4. KnowledgeTypeOK'
  BY <1>0, <1>1, <1>2 DEF KnowledgeTypeOK
<1>5. LockIsExclusive'
  BY <1>0, <1>1, <1>2 DEF LockIsExclusive, Locked, Building
<1>6. DiskIsOrdered' /\ PublishedIsWhole' /\ (cached' # 0 => cached' \in WholeIds')
  BY <1>0, <1>1, <1>3 DEF KnowledgeInv, DiskIsOrdered, PublishedIsWhole
<1>7. OperOK(oper[o])'
  BY <1>0, <1>1, <1>2, <1>3 DEF OperOK, Building
<1>8. ASSUME NEW p \in Operations \ {o} PROVE OperOK(oper[p])'
  BY <1>1, <1>2, <1>3 DEF KnowledgeInv, OperOK
<1> QED
  BY <1>4, <1>5, <1>6, <1>7, <1>8 DEF KnowledgeInv

\* The workspace changes, the cache is dropped, the process dies.
LEMMA OutsideStep ==
  ASSUME KnowledgeInv,
         TouchWorkspace \/ InvalidateCache \/ CrashIndexer \/ UNCHANGED knowledgeVars
  PROVE  KnowledgeInv'
<1>0. /\ KnowledgeTypeOK /\ workspace \in Nat /\ DiskIsOrdered /\ current \in Nat
      /\ disk \subseteq Generations
  BY DEF KnowledgeInv, KnowledgeTypeOK
<1>1. /\ UNCHANGED <<disk, current, created>> /\ workspace' \in {workspace, workspace + 1}
      /\ cached' \in {0, cached}
  BY DEF TouchWorkspace, InvalidateCache, CrashIndexer, knowledgeVars
<1>2. WholeIds' = WholeIds
  BY <1>1 DEF WholeIds
<1>3. \A d \in disk : d.of \in Nat
  BY <1>0 DEF Generations
<1>4. DiskIsOrdered' /\ PublishedIsWhole' /\ (cached' # 0 => cached' \in WholeIds')
  BY <1>0, <1>1, <1>2, <1>3 DEF KnowledgeInv, DiskIsOrdered, PublishedIsWhole
<1>5. CASE UNCHANGED <<oper, indexLock>>
  <2>1. KnowledgeTypeOK' /\ LockIsExclusive'
    BY <1>0, <1>1, <1>5 DEF KnowledgeInv, KnowledgeTypeOK, LockIsExclusive
  <2>2. ASSUME NEW p \in Operations PROVE OperOK(oper[p])'
    <3>1. OperOK(oper[p]) /\ oper[p].of \in Nat
      BY <1>0, OperFields DEF KnowledgeInv
    <3> QED
      BY <1>0, <1>1, <1>2, <1>5, <3>1 DEF OperOK
  <2> QED
    BY <1>4, <2>1, <2>2 DEF KnowledgeInv
<1>6. CASE CrashIndexer
  <2>1. oper' = [o \in Operations |-> NoOper] /\ indexLock' = {}
    BY <1>6 DEF CrashIndexer
  <2>2. /\ NoOper \in Opers /\ NoOper.at = "idle" /\ NoOper.kind = "none"
        /\ NoOper.snap = 0 /\ NoOper.own = 0 /\ NoOper.of = 0
        /\ NoOper.phase = "Cancellable" /\ NoOper.status = "none"
    BY DEF NoOper, Opers
  <2>3. KnowledgeTypeOK' /\ LockIsExclusive'
    BY <1>0, <1>1, <2>1, <2>2 DEF KnowledgeTypeOK, LockIsExclusive, Locked, Building
  <2>4. ASSUME NEW p \in Operations PROVE OperOK(oper[p])'
    BY <1>0, <1>1, <2>1, <2>2 DEF OperOK, Building
  <2> QED
    BY <1>4, <2>3, <2>4 DEF KnowledgeInv
<1> QED
  BY <1>5, <1>6 DEF TouchWorkspace, InvalidateCache, knowledgeVars

\* No step takes the invariant away.
LEMMA KnowledgeStep == KnowledgeInv /\ [KnowledgeNext]_knowledgeVars => KnowledgeInv'
  BY QuietStep, CreateStep, ManifestStep, RenameStep, CollectStep, ErrorStep, CacheStep,
     OutsideStep
  DEF KnowledgeNext

\* The index begins empty, with nobody at work.
LEMMA KnowledgeInitial == KnowledgeInit => KnowledgeInv
<1> SUFFICES ASSUME KnowledgeInit PROVE KnowledgeInv
  OBVIOUS
<1>1. /\ NoOper \in Opers /\ NoOper.at = "idle" /\ NoOper.kind = "none"
      /\ NoOper.snap = 0 /\ NoOper.own = 0 /\ NoOper.of = 0
      /\ NoOper.phase = "Cancellable" /\ NoOper.status = "none"
  BY DEF NoOper, Opers
<1>2. KnowledgeTypeOK /\ LockIsExclusive
  BY <1>1 DEF KnowledgeInit, KnowledgeTypeOK, LockIsExclusive, Locked, Building
<1>3. DiskIsOrdered /\ PublishedIsWhole /\ cached = 0
  BY DEF KnowledgeInit, DiskIsOrdered, PublishedIsWhole
<1>4. ASSUME NEW o \in Operations PROVE OperOK(oper[o])
  BY <1>1 DEF KnowledgeInit, OperOK, Building
<1> QED
  BY <1>2, <1>3, <1>4 DEF KnowledgeInv

\* The invariant holds of every behaviour.
THEOREM KnowledgeInvariant == KnowledgeSpec => []KnowledgeInv
  BY KnowledgeInitial, KnowledgeStep, PTL DEF KnowledgeSpec

\* The generation the pointer names, and every one an operation or the cache has
\* open, is whole on disk: through publications and collections by others,
\* failures at any file operation and crashes.
THEOREM GenerationsInUseAreAlwaysWhole == KnowledgeSpec => []GenerationsInUseAreWhole
<1>1. KnowledgeInv => GenerationsInUseAreWhole
  BY DEF KnowledgeInv, OperOK, GenerationsInUseAreWhole, SnapshotIsWhole
<1> QED
  BY <1>1, KnowledgeInvariant, PTL

\* A cancelled operation is nowhere where it would write.
THEOREM CancelledNeverWrites == KnowledgeSpec => []CancelledWritesNothing
<1>1. KnowledgeInv => CancelledWritesNothing
  BY DEF KnowledgeInv, OperOK, CancelledWritesNothing, Cancelled
<1> QED
  BY <1>1, KnowledgeInvariant, PTL

\* Only RenamePointer moves the pointer, and it moves it to a newer generation
\* of a scan that is no older.
LEMMA PointerMovesOn ==
  ASSUME KnowledgeInv, [KnowledgeNext]_knowledgeVars, current' # current, current # 0
  PROVE  /\ current' > current
         /\ \E d, e \in disk : d.id = current /\ e.id = current' /\ d.of <= e.of
<1>1. PICK o \in Operations : RenamePointer(o)
  BY DEF KnowledgeNext, RegisterOperation, ReadActivePath, TakeSnapshot, EnterIndexLock,
         DecideIndex, CreatePending, BeginCommit, WriteManifest, Collect, BuildFails,
         CacheAdapter, OpenStoreWindow, RecordAndResume, RecordAndFinalize, StoreFails,
         ReportStatus, Unregister, ObserveCancel, CancelOperation, TouchWorkspace,
         InvalidateCache, CrashIndexer, KeepFiles, ReturnError, knowledgeVars
<1>2. /\ current' = oper[o].own /\ oper[o].at = "rename" /\ OperOK(oper[o])
  BY <1>1 DEF RenamePointer, KnowledgeInv
<1>3. PICK e \in disk : e.id = oper[o].own /\ e.of = oper[o].of
  BY <1>2 DEF OperOK, Building
<1>4. PICK d \in disk : d.id = current
  BY DEF KnowledgeInv, PublishedIsWhole, WholeIds
<1> QED
  BY <1>2, <1>3, <1>4 DEF OperOK, Building

\* No publication replaces an index by one of an older scan.
THEOREM PointerNeverGoesBack == KnowledgeSpec => IndexNeverGoesBack
<1>1. KnowledgeInv /\ [KnowledgeNext]_knowledgeVars =>
        [current' # current /\ current # 0 =>
           /\ current' > current
           /\ \E d, e \in disk : d.id = current /\ e.id = current' /\ d.of <= e.of
        ]_knowledgeVars
  BY PointerMovesOn
<1> QED
  BY <1>1, KnowledgeInvariant, PTL DEF KnowledgeSpec, IndexNeverGoesBack

(***************************************************************************)
(* The memory vector refresh.                                              *)
(***************************************************************************)
Forgetting == {"forgotten", "flagged", "noted", "dropped", "purged"}
Deleting == {"marked", "unqueued", "unlisted"}
Scheduling == {"loaded", "checked", "registered", "queued"}
Places == {"idle"} \cup Scheduling \cup Forgetting \cup Deleting
Working == {"taken", "preparing", "prepared", "staging", "staged"}

VectorTypeOK ==
  /\ ledgerRevision \in Nat /\ forgotten \in Nat /\ owed \in Nat
  /\ latestRevision \in Nat /\ pendingRefresh \in Nat /\ currentPointer \in Nat
  /\ resetRequired \in BOOLEAN /\ unflagged \in BOOLEAN
  /\ refreshLease \in BOOLEAN /\ deletedRegistry \in BOOLEAN
  /\ projectFate \in {"live", "deleting", "deleted"}
  /\ generations \subseteq [id : Nat \ {0}, rev : Nat]
  /\ vectorThread \in [VectorThreads -> [at : Places, rev : Nat]]
  /\ refresher \in [at : {"off", "take"} \cup Working, rev : Nat]
  /\ vectorReader \in [VectorReaders -> [gen : Nat, purged : BOOLEAN]]

-----------------------------------------------------------------------------
\* A set of generations has a newest number, 0 when it is empty.
HasNewest(gens) ==
  \E m \in {0} \cup {g.id : g \in gens} : \A g \in gens : g.id <= m

\* The generation being staged is the newest, nobody names it, and without it
\* there is a newest one too.
DiskInv ==
  /\ SnapshotStaysWhole
  /\ HasNewest(generations)
  /\ \A g, h \in generations : g.id = h.id => g = h
  /\ refresher.at = "staged" =>
       /\ generations # {} /\ currentPointer # Staged
       /\ \A r \in VectorReaders : ~vectorReader[r].purged => vectorReader[r].gen # Staged
       /\ HasNewest({g \in generations : g.id # Staged})

\* Whoever has the newest scheduled revision in hand.
Carried ==
  \/ \E t \in VectorThreads :
       /\ vectorThread[t].at \in {"registered", "dropped", "purged", "loaded", "checked"}
       /\ vectorThread[t].rev = owed
  \/ pendingRefresh = owed
  \/ refresher.at \in Working /\ refresher.rev = owed

CarriedInv ==
  /\ PendingHasARefresher
  /\ deletedRegistry => projectFate # "live"
  /\ \A t \in VectorThreads : vectorThread[t].at \in Deleting => projectFate # "live"
  /\ projectFate = "live" =>
       /\ \A t \in VectorThreads :
            vectorThread[t].at \in {"registered", "noted"} =>
              vectorThread[t].rev <= latestRevision
       /\ owed # 0 => owed = latestRevision /\ Carried

-----------------------------------------------------------------------------
Clean == \A g \in generations : g.rev >= forgotten
GateIsClean == GateHeld => refresher.rev >= forgotten

\* What is on its way to the gate: nothing older than the newest deletion, or
\* it will be turned away there.
Guarded ==
  \/ deletedRegistry
  \/ latestRevision >= forgotten
  \/ /\ \A t \in VectorThreads : vectorThread[t].at \in {"loaded", "checked", "registered"} =>
          vectorThread[t].rev >= forgotten
     /\ pendingRefresh = 0 \/ pendingRefresh >= forgotten
     /\ refresher.at \in {"taken", "preparing", "prepared"} => refresher.rev >= forgotten

Resting ==
  /\ refresher.at = "off" /\ pendingRefresh = 0
  /\ \A t \in VectorThreads : vectorThread[t].at = "idle"

PurgeInv ==
  /\ \A t, u \in VectorThreads :
       vectorThread[t].at \in Forgetting \cup Deleting
       /\ vectorThread[u].at \in Forgetting \cup Deleting => t = u
  /\ latestRevision <= ledgerRevision /\ forgotten <= ledgerRevision
  /\ \A t \in VectorThreads :
       /\ vectorThread[t].rev <= ledgerRevision
       /\ vectorThread[t].at \in Forgetting => vectorThread[t].rev = ledgerRevision
       /\ vectorThread[t].at \in Forgetting \ {"forgotten"} => resetRequired
       /\ vectorThread[t].at \in {"noted", "dropped", "purged"} =>
            latestRevision >= forgotten
       /\ vectorThread[t].at = "purged" => Clean /\ GateIsClean
       /\ vectorThread[t].at \in Deleting => deletedRegistry
  /\ (\A t \in VectorThreads : vectorThread[t].at \notin {"forgotten", "flagged"}) => Guarded
  /\ ~resetRequired /\ ~unflagged
     /\ (\A t \in VectorThreads : vectorThread[t].at # "forgotten") => Clean /\ GateIsClean
  /\ projectFate # "live" => deletedRegistry \/ Resting
  /\ projectFate = "deleted" => generations = {} /\ ~GateHeld
-----------------------------------------------------------------------------
\* The fields of the records.
LEMMA Fields ==
  ASSUME VectorTypeOK
  PROVE  /\ \A t \in VectorThreads :
              vectorThread[t].at \in Places /\ vectorThread[t].rev \in Nat
         /\ \A r \in VectorReaders :
              vectorReader[r].gen \in Nat /\ vectorReader[r].purged \in BOOLEAN
         /\ refresher.at \in {"off", "take"} \cup Working /\ refresher.rev \in Nat
         /\ \A g \in generations : g.id \in Nat \ {0} /\ g.rev \in Nat
  BY DEF VectorTypeOK

\* What a step of one thread does to the threads.
ThreadStep(t, at, rev) ==
  /\ vectorThread' \in [VectorThreads -> [at : Places, rev : Nat]]
  /\ vectorThread'[t].at = at /\ vectorThread'[t].rev = rev
  /\ \A u \in VectorThreads \ {t} : vectorThread'[u] = vectorThread[u]

\* A thread that moves keeps its revision.
LEMMA MoveFacts ==
  ASSUME VectorTypeOK, NEW t \in VectorThreads, NEW from, NEW to \in Places,
         Move(t, from, to)
  PROVE  vectorThread[t].at = from /\ ThreadStep(t, to, vectorThread[t].rev)
  BY DEF VectorTypeOK, Move, ThreadStep

\* A thread that starts over takes another revision.
LEMMA SetFacts ==
  ASSUME VectorTypeOK, NEW t \in VectorThreads, NEW at \in Places, NEW rev \in Nat,
         vectorThread' = [vectorThread EXCEPT ![t] = [at |-> at, rev |-> rev]]
  PROVE  ThreadStep(t, at, rev)
  BY DEF VectorTypeOK, ThreadStep

\* Max is the newest number of a set of generations that has one.
LEMMA MaxFacts ==
  ASSUME NEW gens, \A g \in gens : g.id \in Nat, HasNewest(gens)
  PROVE  /\ Max({0} \cup {g.id : g \in gens}) \in {0} \cup {g.id : g \in gens}
         /\ \A h \in gens : h.id <= Max({0} \cup {g.id : g \in gens})
<1> DEFINE ids == {0} \cup {g.id : g \in gens}
<1>1. \E m \in ids : \A n \in ids : m >= n
  BY DEF HasNewest
<1>2. (CHOOSE m \in ids : \A n \in ids : m >= n) \in ids
      /\ \A n \in ids : (CHOOSE m \in ids : \A k \in ids : m >= k) >= n
  BY <1>1
<1>3. Max(ids) \in ids /\ \A n \in ids : Max(ids) >= n
  BY <1>2 DEF Max
<1>4. Max(ids) \in Nat
  BY <1>3
<1> QED
  BY <1>3, <1>4

\* The number being staged, and the next one.
LEMMA StagedFacts ==
  ASSUME VectorTypeOK, HasNewest(generations)
  PROVE  /\ Staged \in {0} \cup {g.id : g \in generations} /\ Staged \in Nat
         /\ \A g \in generations : g.id <= Staged
         /\ NextGeneration = Staged + 1
<1>1. \A g \in generations : g.id \in Nat
  BY Fields
<1>2. /\ Staged \in {0} \cup {g.id : g \in generations}
      /\ \A g \in generations : g.id <= Staged
  BY <1>1, MaxFacts DEF Staged
<1>3. Staged \in Nat
  BY <1>1, <1>2
<1>4. NextGeneration = 1 + Staged
  BY Zenon DEF Staged, NextGeneration
<1> QED
  BY <1>2, <1>3, <1>4

-----------------------------------------------------------------------------
(* What each step does, without EXCEPT.                                    *)

\* A thread takes the ledger of the newest revision in hand.
LEMMA HoldLedgerFacts ==
  ASSUME VectorTypeOK, NEW t \in VectorThreads, HoldLedger(t)
  PROVE  /\ projectFate = "live" /\ vectorThread[t].at = "idle"
         /\ \/ ledgerRevision' = ledgerRevision
            \/ ~StoreHeld /\ ledgerRevision' = ledgerRevision + 1
         /\ ThreadStep(t, "loaded", ledgerRevision')
         /\ UNCHANGED <<resetRequired, projectFate, generations, currentPointer,
                         latestRevision, pendingRefresh, refreshLease, deletedRegistry, refresher,
                         vectorReader, forgotten, unflagged, owed>>
<1>1. ledgerRevision' \in Nat /\ ledgerRevision \in Nat
  BY DEF HoldLedger, VectorTypeOK, vectorDurable
<1>2. ThreadStep(t, "loaded", ledgerRevision')
  BY <1>1, SetFacts DEF HoldLedger, Places, Scheduling, Forgetting
<1> QED
  BY <1>2 DEF HoldLedger, vectorDisk, vectorDurable, vectorShared, vectorHistory

\* A scheduling thread gives up when the project is deleted.
LEMMA CheckDeletedFacts ==
  ASSUME VectorTypeOK, NEW t \in VectorThreads, CheckDeleted(t)
  PROVE  /\ vectorThread[t].at = "loaded"
         /\ ThreadStep(t, IF deletedRegistry THEN "idle" ELSE "checked", vectorThread[t].rev)
         /\ UNCHANGED <<ledgerRevision, resetRequired, projectFate, generations,
                         currentPointer, latestRevision, pendingRefresh, refreshLease, deletedRegistry,
                         refresher, vectorReader, forgotten, unflagged, owed>>
<1>1. CASE deletedRegistry
  BY <1>1, MoveFacts DEF CheckDeleted, Places, Scheduling, vectorDisk, vectorDurable,
     vectorShared, vectorHistory
<1>2. CASE ~deletedRegistry
  BY <1>2, MoveFacts DEF CheckDeleted, Places, Scheduling, vectorDisk, vectorDurable,
     vectorShared, vectorHistory
<1> QED
  BY <1>1, <1>2

\* It registers its revision, or is outdated.
LEMMA RegisterRevisionFacts ==
  ASSUME VectorTypeOK, NEW t \in VectorThreads, RegisterRevision(t)
  PROVE  /\ vectorThread[t].at = "checked"
         /\ \/ /\ vectorThread[t].rev < latestRevision
               /\ ThreadStep(t, "idle", vectorThread[t].rev)
               /\ UNCHANGED <<latestRevision, owed>>
            \/ /\ ~(vectorThread[t].rev < latestRevision)
               /\ ThreadStep(t, "registered", vectorThread[t].rev)
               /\ latestRevision' = vectorThread[t].rev /\ owed' = vectorThread[t].rev
         /\ UNCHANGED <<ledgerRevision, resetRequired, projectFate, generations,
                         currentPointer, pendingRefresh, refreshLease, deletedRegistry, refresher,
                         vectorReader, forgotten, unflagged>>
  BY MoveFacts DEF RegisterRevision, Places, Scheduling, Forgetting, Deleting, vectorDisk,
     vectorDurable, vectorShared, vectorHistory

\* It queues its revision, whatever is queued.
LEMMA InsertPendingFacts ==
  ASSUME VectorTypeOK, NEW t \in VectorThreads, InsertPending(t)
  PROVE  /\ vectorThread[t].at = "registered"
         /\ ThreadStep(t, "queued", vectorThread[t].rev)
         /\ pendingRefresh' = vectorThread[t].rev
         /\ owed' = IF pendingRefresh > vectorThread[t].rev THEN 0 ELSE owed
         /\ UNCHANGED <<ledgerRevision, resetRequired, projectFate, generations,
                         currentPointer, latestRevision, refreshLease, deletedRegistry, refresher,
                         vectorReader, forgotten, unflagged>>
  BY MoveFacts DEF InsertPending, Places, Scheduling, Forgetting, Deleting, vectorDisk,
     vectorDurable, vectorShared, vectorHistory

\* It gets the lease or finds it taken.
LEMMA SpawnRefresherFacts ==
  ASSUME VectorTypeOK, NEW t \in VectorThreads, SpawnRefresher(t)
  PROVE  /\ vectorThread[t].at = "queued"
         /\ ThreadStep(t, "idle", vectorThread[t].rev)
         /\ refreshLease' \in BOOLEAN /\ refreshLease'
         /\ refresher' = IF refreshLease THEN refresher ELSE [at |-> "take", rev |-> 0]
         /\ UNCHANGED <<ledgerRevision, resetRequired, projectFate, generations,
                         currentPointer, latestRevision, pendingRefresh, deletedRegistry, vectorReader,
                         forgotten, unflagged, owed>>
  BY MoveFacts DEF SpawnRefresher, Places, Scheduling, Forgetting, Deleting, vectorDisk,
     vectorDurable, vectorShared, vectorHistory

\* A memory is deleted; the reset is not flagged yet.
LEMMA DeleteMemoryFacts ==
  ASSUME VectorTypeOK, NEW t \in VectorThreads, DeleteMemory(t)
  PROVE  /\ projectFate = "live" /\ vectorThread[t].at = "idle" /\ ~StoreHeld
         /\ ledgerRevision' = ledgerRevision + 1 /\ forgotten' = ledgerRevision'
         /\ ThreadStep(t, "forgotten", ledgerRevision')
         /\ resetRequired' = resetRequired
         /\ UNCHANGED <<projectFate, generations, currentPointer, latestRevision,
                         pendingRefresh, refreshLease, deletedRegistry, refresher, vectorReader,
                         unflagged, owed>>
<1>1. ledgerRevision' \in Nat /\ ledgerRevision \in Nat
  BY DEF DeleteMemory, VectorTypeOK, Forget, vectorDurable
<1>2. ThreadStep(t, "forgotten", ledgerRevision')
  BY <1>1, SetFacts DEF DeleteMemory, Places, Scheduling, Forgetting, Forget
<1> QED
  BY <1>2 DEF DeleteMemory, Forget, vectorDisk, vectorDurable, vectorShared, vectorHistory

\* A session's memories are deleted and the reset is flagged.
LEMMA RetireSessionFacts ==
  ASSUME VectorTypeOK, NEW t \in VectorThreads, RetireSession(t)
  PROVE  /\ projectFate = "live" /\ vectorThread[t].at = "idle" /\ ~StoreHeld
         /\ ledgerRevision' = ledgerRevision + 1 /\ forgotten' = ledgerRevision'
         /\ ThreadStep(t, "flagged", ledgerRevision')
         /\ resetRequired' \in BOOLEAN /\ resetRequired'
         /\ UNCHANGED <<projectFate, generations, currentPointer, latestRevision,
                         pendingRefresh, refreshLease, deletedRegistry, refresher, vectorReader,
                         unflagged, owed>>
<1>1. ledgerRevision' \in Nat /\ ledgerRevision \in Nat
  BY DEF RetireSession, VectorTypeOK, Forget, vectorDurable
<1>2. ThreadStep(t, "flagged", ledgerRevision')
  BY <1>1, SetFacts DEF RetireSession, Places, Scheduling, Forgetting, Forget
<1> QED
  BY <1>2 DEF RetireSession, Forget, vectorDisk, vectorDurable, vectorShared, vectorHistory

\* The reset is flagged.
LEMMA FlagResetFacts ==
  ASSUME VectorTypeOK, NEW t \in VectorThreads, FlagReset(t)
  PROVE  /\ vectorThread[t].at = "forgotten"
         /\ ThreadStep(t, "flagged", vectorThread[t].rev)
         /\ resetRequired' \in BOOLEAN /\ resetRequired'
         /\ UNCHANGED <<ledgerRevision, projectFate, generations, currentPointer,
                         latestRevision, pendingRefresh, refreshLease, deletedRegistry, refresher,
                         vectorReader, forgotten, unflagged, owed>>
  BY MoveFacts DEF FlagReset, Places, Scheduling, Forgetting, Deleting, vectorDisk,
     vectorDurable, vectorShared, vectorHistory

\* A reset that is due is taken up.
LEMMA ResumeResetFacts ==
  ASSUME VectorTypeOK, NEW t \in VectorThreads, ResumeReset(t)
  PROVE  /\ projectFate = "live" /\ resetRequired /\ ~StoreHeld /\ vectorThread[t].at = "idle"
         /\ ThreadStep(t, "flagged", ledgerRevision)
         /\ UNCHANGED <<ledgerRevision, resetRequired, projectFate, generations,
                         currentPointer, latestRevision, pendingRefresh, refreshLease, deletedRegistry,
                         refresher, vectorReader, forgotten, unflagged, owed>>
<1>1. ledgerRevision' \in Nat /\ ledgerRevision \in Nat
  BY DEF ResumeReset, VectorTypeOK, vectorDurable
<1>2. ThreadStep(t, "flagged", ledgerRevision)
  BY <1>1, SetFacts DEF ResumeReset, Places, Scheduling, Forgetting
<1> QED
  BY <1>2 DEF ResumeReset, vectorDisk, vectorDurable, vectorShared, vectorHistory

\* The reset notes its revision.
LEMMA NoteRevisionFacts ==
  ASSUME VectorTypeOK, NEW t \in VectorThreads, NoteRevision(t)
  PROVE  /\ vectorThread[t].at = "flagged"
         /\ ThreadStep(t, "noted", vectorThread[t].rev)
         /\ latestRevision' = IF latestRevision >= vectorThread[t].rev THEN latestRevision ELSE vectorThread[t].rev
         /\ owed' = IF owed < vectorThread[t].rev THEN 0 ELSE owed
         /\ UNCHANGED <<ledgerRevision, resetRequired, projectFate, generations,
                         currentPointer, pendingRefresh, refreshLease, deletedRegistry, refresher,
                         vectorReader, forgotten, unflagged>>
  BY MoveFacts DEF NoteRevision, Places, Scheduling, Forgetting, Deleting, Newest, vectorDisk,
     vectorDurable, vectorShared, vectorHistory

\* The reset empties the queue of what is not newer.
LEMMA DropOlderPendingFacts ==
  ASSUME VectorTypeOK, NEW t \in VectorThreads, DropOlderPending(t)
  PROVE  /\ vectorThread[t].at = "noted"
         /\ ThreadStep(t, "dropped", vectorThread[t].rev)
         /\ pendingRefresh' = IF pendingRefresh <= vectorThread[t].rev THEN 0 ELSE pendingRefresh
         /\ UNCHANGED <<ledgerRevision, resetRequired, projectFate, generations,
                         currentPointer, latestRevision, refreshLease, deletedRegistry, refresher,
                         vectorReader, forgotten, unflagged, owed>>
  BY MoveFacts DEF DropOlderPending, Places, Scheduling, Forgetting, Deleting, vectorDisk,
     vectorDurable, vectorShared, vectorHistory

\* The reset removes the root, unless it is outdated.
LEMMA PurgeHistoryFacts ==
  ASSUME VectorTypeOK, NEW t \in VectorThreads, PurgeHistory(t)
  PROVE  /\ vectorThread[t].at = "dropped" /\ ~GateHeld
         /\ ThreadStep(t, "purged", vectorThread[t].rev)
         /\ IF RevisionIsCurrent(vectorThread[t].rev)
            THEN RemoveRoot /\ unflagged' \in BOOLEAN /\ ~unflagged'
            ELSE UNCHANGED <<generations, currentPointer, vectorReader, unflagged>>
         /\ UNCHANGED <<ledgerRevision, resetRequired, projectFate, latestRevision,
                         pendingRefresh, refreshLease, deletedRegistry, refresher, forgotten, owed>>
  BY MoveFacts DEF PurgeHistory, Places, Scheduling, Forgetting, Deleting, vectorDisk,
     vectorDurable, vectorShared, vectorHistory

\* The reset is done.
LEMMA ClearResetFacts ==
  ASSUME VectorTypeOK, NEW t \in VectorThreads, ClearReset(t)
  PROVE  /\ vectorThread[t].at = "purged"
         /\ ThreadStep(t, "loaded", vectorThread[t].rev)
         /\ resetRequired' \in BOOLEAN /\ ~resetRequired'
         /\ UNCHANGED <<ledgerRevision, projectFate, generations, currentPointer,
                         latestRevision, pendingRefresh, refreshLease, deletedRegistry, refresher,
                         vectorReader, forgotten, unflagged, owed>>
  BY MoveFacts DEF ClearReset, Places, Scheduling, Forgetting, Deleting, vectorDisk,
     vectorDurable, vectorShared, vectorHistory

\* A project deletion is journalled and registered.
LEMMA MarkDeletedFacts ==
  ASSUME VectorTypeOK, NEW t \in VectorThreads, MarkDeleted(t)
  PROVE  /\ projectFate # "deleted" /\ ~StoreHeld /\ vectorThread[t].at = "idle"
         /\ ThreadStep(t, "marked", vectorThread[t].rev)
         /\ projectFate' = "deleting" /\ deletedRegistry' \in BOOLEAN /\ deletedRegistry' /\ owed' = 0
         /\ UNCHANGED <<ledgerRevision, resetRequired, generations, currentPointer,
                         latestRevision, pendingRefresh, refreshLease, refresher, vectorReader,
                         forgotten, unflagged>>
  BY MoveFacts DEF MarkDeleted, Places, Scheduling, Forgetting, Deleting, vectorDisk,
     vectorDurable, vectorShared, vectorHistory

\* It empties the queue.
LEMMA RemovePendingFacts ==
  ASSUME VectorTypeOK, NEW t \in VectorThreads, RemovePending(t)
  PROVE  /\ vectorThread[t].at = "marked"
         /\ ThreadStep(t, "unqueued", vectorThread[t].rev)
         /\ pendingRefresh' = 0
         /\ UNCHANGED <<ledgerRevision, resetRequired, projectFate, generations,
                         currentPointer, latestRevision, refreshLease, deletedRegistry, refresher,
                         vectorReader, forgotten, unflagged, owed>>
  BY MoveFacts DEF RemovePending, Places, Scheduling, Forgetting, Deleting, vectorDisk,
     vectorDurable, vectorShared, vectorHistory

\* It forgets the revision.
LEMMA RemoveLatestFacts ==
  ASSUME VectorTypeOK, NEW t \in VectorThreads, RemoveLatest(t)
  PROVE  /\ vectorThread[t].at = "unqueued"
         /\ ThreadStep(t, "unlisted", vectorThread[t].rev)
         /\ latestRevision' = 0
         /\ UNCHANGED <<ledgerRevision, resetRequired, projectFate, generations,
                         currentPointer, pendingRefresh, refreshLease, deletedRegistry, refresher,
                         vectorReader, forgotten, unflagged, owed>>
  BY MoveFacts DEF RemoveLatest, Places, Scheduling, Forgetting, Deleting, vectorDisk,
     vectorDurable, vectorShared, vectorHistory

\* It removes the root.
LEMMA RemoveProjectVectorsFacts ==
  ASSUME VectorTypeOK, NEW t \in VectorThreads, RemoveProjectVectors(t)
  PROVE  /\ vectorThread[t].at = "unlisted" /\ ~GateHeld
         /\ ThreadStep(t, "idle", vectorThread[t].rev)
         /\ RemoveRoot /\ projectFate' = "deleted"
         /\ UNCHANGED <<ledgerRevision, resetRequired, latestRevision, pendingRefresh,
                         refreshLease, deletedRegistry, refresher, forgotten, unflagged, owed>>
  BY MoveFacts DEF RemoveProjectVectors, Places, Scheduling, Forgetting, Deleting, vectorDisk,
     vectorDurable, vectorShared, vectorHistory

\* The refresher takes what is queued, or gives the lease back.
LEMMA TakePendingFacts ==
  ASSUME VectorTypeOK, TakePending
  PROVE  /\ refresher.at = "take" /\ pendingRefresh' = 0
         /\ \/ /\ pendingRefresh = 0 /\ refreshLease' \in BOOLEAN /\ ~refreshLease'
               /\ refresher'.at = "off" /\ refresher'.rev = 0
            \/ /\ pendingRefresh # 0 /\ UNCHANGED refreshLease
               /\ refresher'.at = "taken" /\ refresher'.rev = pendingRefresh
         /\ refresher' \in [at : {"off", "take"} \cup Working, rev : Nat]
         /\ UNCHANGED <<ledgerRevision, resetRequired, projectFate, generations,
                         currentPointer, latestRevision, deletedRegistry, vectorThread, vectorReader,
                         forgotten, unflagged, owed>>
<1>1. CASE pendingRefresh = 0
  <2>1. refreshLease' \in BOOLEAN /\ ~refreshLease' /\ refresher' = RefresherOff
    BY <1>1 DEF TakePending
  <2> QED
    BY <1>1, <2>1 DEF TakePending, RefresherOff, vectorDisk, vectorDurable, vectorShared,
       vectorHistory
<1>2. CASE pendingRefresh # 0
  BY <1>2 DEF VectorTypeOK, Working, TakePending, vectorDisk, vectorDurable, vectorShared,
     vectorHistory
<1> QED
  BY <1>1, <1>2

\* It turns away what is deleted or outdated.
LEMMA CheckTakenFacts ==
  ASSUME VectorTypeOK, CheckTaken
  PROVE  /\ refresher.at = "taken" /\ refresher'.rev = refresher.rev
         /\ refresher'.at = IF deletedRegistry \/ ~RevisionIsCurrent(refresher.rev)
                              THEN "take" ELSE "preparing"
         /\ refresher' \in [at : {"off", "take"} \cup Working, rev : Nat]
         /\ UNCHANGED <<ledgerRevision, resetRequired, projectFate, generations,
                         currentPointer, latestRevision, pendingRefresh, refreshLease, deletedRegistry,
                         vectorThread, vectorReader, forgotten, unflagged, owed>>
  BY DEF VectorTypeOK, Working, CheckTaken, vectorDisk, vectorDurable, vectorShared, vectorHistory

\* It prepares, finds the revision published or fails.
LEMMA PrepareRefreshFacts ==
  ASSUME VectorTypeOK, PrepareRefresh
  PROVE  /\ refresher.at = "preparing" /\ refresher'.rev = refresher.rev
         /\ \/ refresher'.at = "prepared" /\ owed' = owed
            \/ /\ refresher'.at = "take"
               /\ owed' = IF \/ [id |-> currentPointer, rev |-> refresher.rev] \in generations
                              \/ owed = refresher.rev
                           THEN 0 ELSE owed
         /\ refresher' \in [at : {"off", "take"} \cup Working, rev : Nat]
         /\ UNCHANGED <<ledgerRevision, resetRequired, projectFate, generations,
                         currentPointer, latestRevision, pendingRefresh, refreshLease, deletedRegistry,
                         vectorThread, vectorReader, forgotten, unflagged>>
  BY DEF VectorTypeOK, Working, PrepareRefresh, vectorDisk, vectorDurable, vectorShared,
     vectorHistory

\* At the gate it turns away what is deleted or outdated.
LEMMA EnterGateFacts ==
  ASSUME VectorTypeOK, EnterGate
  PROVE  /\ refresher.at = "prepared" /\ refresher'.rev = refresher.rev
         /\ refresher'.at = IF deletedRegistry \/ ~RevisionIsCurrent(refresher.rev)
                              THEN "take" ELSE "staging"
         /\ refresher' \in [at : {"off", "take"} \cup Working, rev : Nat]
         /\ UNCHANGED <<ledgerRevision, resetRequired, projectFate, generations,
                         currentPointer, latestRevision, pendingRefresh, refreshLease, deletedRegistry,
                         vectorThread, vectorReader, forgotten, unflagged, owed>>
  BY DEF VectorTypeOK, Working, EnterGate, vectorDisk, vectorDurable, vectorShared, vectorHistory

\* It stages the next generation.
LEMMA StageGenerationFacts ==
  ASSUME VectorTypeOK, StageGeneration
  PROVE  /\ refresher.at = "staging"
         /\ refresher'.at = "staged" /\ refresher'.rev = refresher.rev
         /\ generations' = generations \cup {[id |-> NextGeneration, rev |-> refresher.rev]}
         /\ refresher' \in [at : {"off", "take"} \cup Working, rev : Nat]
         /\ UNCHANGED <<ledgerRevision, resetRequired, projectFate, currentPointer,
                         latestRevision, pendingRefresh, refreshLease, deletedRegistry, vectorThread,
                         vectorReader, forgotten, unflagged, owed>>
  BY DEF VectorTypeOK, Working, StageGeneration, vectorDisk, vectorDurable, vectorShared,
     vectorHistory

\* It removes what it staged.
LEMMA PublicationFailsFacts ==
  ASSUME VectorTypeOK, PublicationFails
  PROVE  /\ refresher.at \in {"staging", "staged"}
         /\ refresher'.at = "take" /\ refresher'.rev = refresher.rev
         /\ generations' = IF refresher.at = "staged"
                           THEN {g \in generations : g.id # Staged} ELSE generations
         /\ owed' = IF owed = refresher.rev THEN 0 ELSE owed
         /\ refresher' \in [at : {"off", "take"} \cup Working, rev : Nat]
         /\ UNCHANGED <<ledgerRevision, resetRequired, projectFate, currentPointer,
                         latestRevision, pendingRefresh, refreshLease, deletedRegistry, vectorThread,
                         vectorReader, forgotten, unflagged>>
  BY DEF VectorTypeOK, Working, PublicationFails, vectorDisk, vectorDurable, vectorShared,
     vectorHistory

\* It publishes what it staged and collects.
LEMMA PublishGenerationFacts ==
  ASSUME VectorTypeOK, PublishGeneration
  PROVE  /\ refresher.at = "staged"
         /\ refresher'.at = "take" /\ refresher'.rev = refresher.rev
         /\ currentPointer' = Staged /\ generations' = generations \ Collected(Staged)
         /\ owed' = IF owed <= refresher.rev THEN 0 ELSE owed
         /\ refresher' \in [at : {"off", "take"} \cup Working, rev : Nat]
         /\ UNCHANGED <<ledgerRevision, resetRequired, projectFate, latestRevision,
                         pendingRefresh, refreshLease, deletedRegistry, vectorThread, vectorReader,
                         forgotten, unflagged>>
  BY DEF VectorTypeOK, Working, PublishGeneration, vectorDisk, vectorDurable, vectorShared,
     vectorHistory

\* A reader takes what CURRENT names, or nothing.
LEMMA SnapshotFacts ==
  ASSUME VectorTypeOK, NEW r \in VectorReaders, OpenSnapshot(r) \/ DropSnapshot(r)
  PROVE  /\ vectorReader' \in [VectorReaders -> [gen : Nat, purged : BOOLEAN]]
         /\ vectorReader'[r].gen \in {0, currentPointer}
         /\ \A q \in VectorReaders \ {r} : vectorReader'[q] = vectorReader[q]
         /\ UNCHANGED <<ledgerRevision, resetRequired, projectFate, generations,
                        currentPointer, latestRevision, pendingRefresh, refreshLease,
                        deletedRegistry, vectorThread, refresher, forgotten, unflagged, owed>>
<1>0. vectorReader \in [VectorReaders -> [gen : Nat, purged : BOOLEAN]] /\ currentPointer \in Nat
  BY DEF VectorTypeOK
<1>1. CASE OpenSnapshot(r)
  BY <1>0, <1>1 DEF OpenSnapshot, vectorDisk, vectorDurable, vectorShared, vectorHistory
<1>2. CASE DropSnapshot(r)
  BY <1>0, <1>2 DEF DropSnapshot, NoSnapshot, vectorDisk, vectorDurable, vectorShared,
     vectorHistory
<1> QED
  BY <1>1, <1>2

\* Everything is removed, under the readers too.
LEMMA RemoveRootFacts ==
  ASSUME VectorTypeOK, RemoveRoot
  PROVE  /\ generations' = {} /\ currentPointer' = 0
         /\ vectorReader' \in [VectorReaders -> [gen : Nat, purged : BOOLEAN]]
         /\ \A r \in VectorReaders : vectorReader'[r].gen = vectorReader[r].gen
         /\ \A r \in VectorReaders : ~vectorReader'[r].purged => vectorReader'[r].gen = 0
  BY DEF VectorTypeOK, RemoveRoot

\* Only what is durable survives.
LEMMA CrashFacts ==
  ASSUME VectorTypeOK, VectorCrash
  PROVE  /\ latestRevision' = 0 /\ pendingRefresh' = 0 /\ owed' = 0
         /\ refreshLease' \in BOOLEAN /\ ~refreshLease' /\ deletedRegistry' \in BOOLEAN /\ ~deletedRegistry'
         /\ vectorThread' \in [VectorThreads -> [at : Places, rev : Nat]]
         /\ \A t \in VectorThreads : vectorThread'[t].at = "idle" /\ vectorThread'[t].rev = 0
         /\ refresher' \in [at : {"off", "take"} \cup Working, rev : Nat]
         /\ refresher'.at = "off"
         /\ vectorReader' \in [VectorReaders -> [gen : Nat, purged : BOOLEAN]]
         /\ \A r \in VectorReaders : vectorReader'[r].gen = 0
         /\ unflagged' = (unflagged \/ \E t \in VectorThreads : vectorThread[t].at = "forgotten")
         /\ unflagged' \in BOOLEAN
         /\ UNCHANGED <<ledgerRevision, resetRequired, projectFate, generations,
                        currentPointer, forgotten>>
  BY DEF VectorTypeOK, VectorCrash, IdleThread, RefresherOff, NoSnapshot, Places,
         vectorDisk, vectorDurable

-----------------------------------------------------------------------------
\* Every step keeps the types.
LEMMA TypeStep ==
  ASSUME VectorTypeOK, HasNewest(generations), [VectorNext]_vectorVars
  PROVE  VectorTypeOK'
<1>0. /\ ledgerRevision \in Nat /\ latestRevision \in Nat /\ pendingRefresh \in Nat
      /\ owed \in Nat /\ refresher.rev \in Nat
      /\ \A t \in VectorThreads : vectorThread[t].rev \in Nat
  BY Fields DEF VectorTypeOK
<1>1. ASSUME NEW t \in VectorThreads, HoldLedger(t) PROVE VectorTypeOK'
  BY <1>0, <1>1, HoldLedgerFacts DEF VectorTypeOK, ThreadStep
<1>2. ASSUME NEW t \in VectorThreads, CheckDeleted(t) PROVE VectorTypeOK'
  BY <1>0, <1>2, CheckDeletedFacts DEF VectorTypeOK, ThreadStep
<1>3. ASSUME NEW t \in VectorThreads, RegisterRevision(t) PROVE VectorTypeOK'
  BY <1>0, <1>3, RegisterRevisionFacts DEF VectorTypeOK, ThreadStep
<1>4. ASSUME NEW t \in VectorThreads, InsertPending(t) PROVE VectorTypeOK'
  BY <1>0, <1>4, InsertPendingFacts DEF VectorTypeOK, ThreadStep
<1>5. ASSUME NEW t \in VectorThreads, SpawnRefresher(t) PROVE VectorTypeOK'
  <2>1. /\ refresher' \in [at : {"off", "take"} \cup Working, rev : Nat]
        /\ vectorThread' \in [VectorThreads -> [at : Places, rev : Nat]]
    BY <1>5, SpawnRefresherFacts DEF VectorTypeOK, ThreadStep
  <2>2. refreshLease' \in BOOLEAN
    BY <1>5, SpawnRefresherFacts
  <2> QED
    BY <2>1, <2>2, <1>5, SpawnRefresherFacts DEF VectorTypeOK
<1>6. ASSUME NEW t \in VectorThreads, DeleteMemory(t) PROVE VectorTypeOK'
  <2>1. resetRequired' \in BOOLEAN
    BY <1>6, DeleteMemoryFacts DEF VectorTypeOK
  <2> QED
    BY <2>1, <1>0, <1>6, DeleteMemoryFacts DEF VectorTypeOK, ThreadStep
<1>24. ASSUME NEW t \in VectorThreads, RetireSession(t) PROVE VectorTypeOK'
  <2>1. resetRequired' \in BOOLEAN
    BY <1>24, RetireSessionFacts
  <2> QED
    BY <2>1, <1>0, <1>24, RetireSessionFacts DEF VectorTypeOK, ThreadStep
<1>7. ASSUME NEW t \in VectorThreads, FlagReset(t) \/ ResumeReset(t) \/ ClearReset(t)
      PROVE  VectorTypeOK'
  BY <1>0, <1>7, FlagResetFacts, ResumeResetFacts, ClearResetFacts DEF VectorTypeOK, ThreadStep
<1>8. ASSUME NEW t \in VectorThreads, NoteRevision(t) PROVE VectorTypeOK'
  BY <1>0, <1>8, NoteRevisionFacts DEF VectorTypeOK, ThreadStep
<1>9. ASSUME NEW t \in VectorThreads, DropOlderPending(t) PROVE VectorTypeOK'
  BY <1>0, <1>9, DropOlderPendingFacts DEF VectorTypeOK, ThreadStep
<1>10. ASSUME NEW t \in VectorThreads, PurgeHistory(t) PROVE VectorTypeOK'
  <2>1. CASE RemoveRoot /\ unflagged' \in BOOLEAN
    BY <1>10, <2>1, PurgeHistoryFacts, RemoveRootFacts DEF VectorTypeOK, ThreadStep
  <2>2. CASE UNCHANGED <<generations, currentPointer, vectorReader, unflagged>>
    BY <1>10, <2>2, PurgeHistoryFacts DEF VectorTypeOK, ThreadStep
  <2> QED
    BY <1>10, <2>1, <2>2, PurgeHistoryFacts
<1>11. ASSUME NEW t \in VectorThreads, MarkDeleted(t) PROVE VectorTypeOK'
  <2>1. deletedRegistry' \in BOOLEAN
    BY <1>11, MarkDeletedFacts
  <2> QED
    BY <2>1, <1>11, MarkDeletedFacts DEF VectorTypeOK, ThreadStep
<1>12. ASSUME NEW t \in VectorThreads, RemovePending(t) \/ RemoveLatest(t) PROVE VectorTypeOK'
  BY <1>12, RemovePendingFacts, RemoveLatestFacts DEF VectorTypeOK, ThreadStep
<1>13. ASSUME NEW t \in VectorThreads, RemoveProjectVectors(t) PROVE VectorTypeOK'
  BY <1>13, RemoveProjectVectorsFacts, RemoveRootFacts DEF VectorTypeOK, ThreadStep
<1>14. ASSUME TakePending PROVE VectorTypeOK'
  <2>1. refreshLease' \in BOOLEAN
    BY <1>14, TakePendingFacts DEF VectorTypeOK
  <2> QED
    BY <2>1, <1>14, TakePendingFacts DEF VectorTypeOK
<1>15. ASSUME CheckTaken \/ EnterGate PROVE VectorTypeOK'
  BY <1>15, CheckTakenFacts, EnterGateFacts DEF VectorTypeOK
<1>16. ASSUME PrepareRefresh PROVE VectorTypeOK'
  BY <1>0, <1>16, PrepareRefreshFacts DEF VectorTypeOK
<1>17. Staged \in Nat /\ NextGeneration \in Nat \ {0}
  BY StagedFacts
<1>18. ASSUME StageGeneration PROVE VectorTypeOK'
  BY <1>0, <1>17, <1>18, StageGenerationFacts DEF VectorTypeOK
<1>19. ASSUME PublicationFails PROVE VectorTypeOK'
  BY <1>0, <1>19, PublicationFailsFacts DEF VectorTypeOK
<1>20. ASSUME PublishGeneration PROVE VectorTypeOK'
  BY <1>0, <1>17, <1>20, PublishGenerationFacts DEF VectorTypeOK
<1>21. ASSUME NEW r \in VectorReaders, OpenSnapshot(r) \/ DropSnapshot(r) PROVE VectorTypeOK'
  BY <1>21, SnapshotFacts DEF VectorTypeOK
<1>22. ASSUME VectorCrash PROVE VectorTypeOK'
  <2>1. refreshLease' \in BOOLEAN /\ deletedRegistry' \in BOOLEAN
    BY <1>22, CrashFacts
  <2>2. UNCHANGED <<resetRequired, projectFate, generations>> /\ unflagged' \in BOOLEAN
    BY <1>22, CrashFacts
  <2> QED
    BY <2>1, <2>2, <1>22, CrashFacts DEF VectorTypeOK
<1>23. ASSUME UNCHANGED vectorVars PROVE VectorTypeOK'
  BY <1>23 DEF VectorTypeOK, vectorVars, vectorDisk, vectorDurable, vectorShared, vectorHistory
<1> QED
  BY <1>1, <1>2, <1>3, <1>4, <1>5, <1>6, <1>7, <1>8, <1>9, <1>10, <1>11, <1>12, <1>13, <1>14,
     <1>15, <1>16, <1>18, <1>19, <1>20, <1>21, <1>22, <1>23, <1>24 DEF VectorNext

-----------------------------------------------------------------------------
(* The disk.                                                               *)

\* What stays when the files and the readers do.
LEMMA DiskKept ==
  ASSUME DiskInv, UNCHANGED <<generations, currentPointer, vectorReader>>,
         refresher'.at = "staged" => refresher.at = "staged"
  PROVE  DiskInv'
<1>1. Staged' = Staged
  BY DEF Staged
<1>2. SnapshotStaysWhole' = SnapshotStaysWhole
  BY DEF SnapshotStaysWhole
<1> QED
  BY <1>1, <1>2 DEF DiskInv, HasNewest

\* SnapshotStaysWhole, reader by reader.
LEMMA WholeVectorFacts ==
  SnapshotStaysWhole <=>
    /\ currentPointer # 0 => \E g \in generations : g.id = currentPointer
    /\ \A r \in VectorReaders :
         ~vectorReader[r].purged /\ vectorReader[r].gen # 0 =>
           \E g \in generations : g.id = vectorReader[r].gen
  BY DEF SnapshotStaysWhole

\* A root that is gone leaves nothing to keep.
LEMMA RootGone ==
  ASSUME VectorTypeOK, RemoveRoot, refresher'.at # "staged"
  PROVE  DiskInv'
<1>1. SnapshotStaysWhole'
  BY RemoveRootFacts DEF SnapshotStaysWhole
<1>2. HasNewest(generations)'
  BY RemoveRootFacts DEF HasNewest
<1> QED
  BY <1>1, <1>2, RemoveRootFacts DEF DiskInv

\* The staged generation is new: nobody names it.
LEMMA StageKeepsDisk ==
  ASSUME VectorTypeOK, DiskInv, StageGeneration
  PROVE  DiskInv'
<1> DEFINE new == [id |-> NextGeneration, rev |-> refresher.rev]
<1>0. /\ HasNewest(generations) /\ SnapshotStaysWhole
      /\ \A g, h \in generations : g.id = h.id => g = h
      /\ generations' = generations \cup {new}
      /\ currentPointer' = currentPointer /\ vectorReader' = vectorReader
  BY StageGenerationFacts DEF DiskInv
<1>1. /\ Staged \in Nat /\ NextGeneration = Staged + 1 /\ new.id = NextGeneration
      /\ \A g \in generations : g.id \in Nat /\ g.id <= Staged
  BY <1>0, StagedFacts, Fields
<1>2. HasNewest(generations)' /\ \A g \in generations' : g.id \in Nat
  BY <1>0, <1>1 DEF HasNewest
<1>3. Staged' = NextGeneration
  <2>1. /\ Staged' \in {0} \cup {g.id : g \in generations'}
        /\ \A g \in generations' : g.id <= Staged'
    BY <1>2, MaxFacts DEF Staged, HasNewest
  <2>2. new \in generations' /\ \A g \in generations' : g = new \/ g.id <= Staged
    BY <1>0, <1>1
  <2>3. NextGeneration <= Staged' /\ Staged' \in Nat
    BY <1>1, <1>2, <2>1, <2>2
  <2>4. PICK g \in generations' : g.id = Staged'
    BY <1>1, <2>1, <2>3
  <2> QED
    BY <1>1, <2>2, <2>3, <2>4
<1>4. SnapshotStaysWhole'
  <2>1. /\ currentPointer' # 0 => \E g \in generations' : g.id = currentPointer'
        /\ \A r \in VectorReaders :
             ~vectorReader'[r].purged /\ vectorReader'[r].gen # 0 =>
               \E g \in generations' : g.id = vectorReader'[r].gen
    BY <1>0, WholeVectorFacts
  <2> QED
    BY <2>1 DEF SnapshotStaysWhole
<1>5. \A g, h \in generations' : g.id = h.id => g = h
  BY <1>0, <1>1
<1>6. /\ generations' # {} /\ currentPointer' # Staged'
      /\ \A r \in VectorReaders : ~vectorReader'[r].purged => vectorReader'[r].gen # Staged'
  <2>1. \A x : x = NextGeneration => x # 0 /\ ~\E g \in generations : g.id = x
    BY <1>1
  <2> HIDE DEF new
  <2>2. generations' # {} /\ currentPointer # NextGeneration
    BY <1>0, <2>1, WholeVectorFacts
  <2>3. \A r \in VectorReaders : ~vectorReader[r].purged => vectorReader[r].gen # NextGeneration
    BY <1>0, <2>1, WholeVectorFacts
  <2> QED
    BY <1>0, <1>3, <2>2, <2>3
<1>7. {g \in generations' : g.id # Staged'} = generations
  BY <1>0, <1>1, <1>3
<1>8. HasNewest({g \in generations : g.id # Staged})'
  BY <1>0, <1>7 DEF HasNewest
<1> QED
  BY <1>2, <1>4, <1>5, <1>6, <1>8 DEF DiskInv

\* A failed publication takes only what nobody names.
LEMMA FailureKeepsDisk ==
  ASSUME VectorTypeOK, DiskInv, PublicationFails
  PROVE  DiskInv'
<1>0. /\ refresher'.at = "take" /\ currentPointer' = currentPointer /\ vectorReader' = vectorReader
      /\ SnapshotStaysWhole /\ \A g, h \in generations : g.id = h.id => g = h
  BY PublicationFailsFacts DEF DiskInv
<1>1. CASE refresher.at # "staged"
  BY <1>0, <1>1, PublicationFailsFacts, DiskKept
<1>2. CASE refresher.at = "staged"
  <2>1. /\ generations' = {g \in generations : g.id # Staged}
        /\ currentPointer # Staged
        /\ \A r \in VectorReaders : ~vectorReader[r].purged => vectorReader[r].gen # Staged
        /\ HasNewest({g \in generations : g.id # Staged})
    BY <1>2, PublicationFailsFacts DEF DiskInv
  <2>2. HasNewest(generations)'
    BY <2>1 DEF HasNewest
  <2>3. /\ currentPointer' # 0 => \E g \in generations' : g.id = currentPointer'
        /\ \A r \in VectorReaders :
             ~vectorReader'[r].purged /\ vectorReader'[r].gen # 0 =>
               \E g \in generations' : g.id = vectorReader'[r].gen
    BY <1>0, <2>1, WholeVectorFacts
  <2>4. SnapshotStaysWhole'
    BY <2>3 DEF SnapshotStaysWhole
  <2> QED
    BY <1>0, <2>1, <2>2, <2>4 DEF DiskInv
<1> QED
  BY <1>1, <1>2

\* Publication collects neither what it published nor what is leased.
LEMMA PublicationKeepsDisk ==
  ASSUME VectorTypeOK, DiskInv, PublishGeneration
  PROVE  DiskInv'
<1>0. /\ refresher.at = "staged" /\ refresher'.at = "take" /\ currentPointer' = Staged
      /\ vectorReader' = vectorReader /\ generations' = generations \ Collected(Staged)
      /\ SnapshotStaysWhole /\ \A g, h \in generations : g.id = h.id => g = h
      /\ generations # {} /\ HasNewest(generations)
  BY PublishGenerationFacts DEF DiskInv
<1>1. /\ Staged \in Nat /\ \A g \in generations : g.id \in Nat \ {0} /\ g.id <= Staged
      /\ Staged \in {0} \cup {g.id : g \in generations}
  BY <1>0, StagedFacts, Fields
<1>2. PICK g \in generations : g.id = Staged
  BY <1>0, <1>1
<1>3. /\ \A h \in generations : h.id = Staged => h \in generations'
      /\ \A h \in generations, r \in VectorReaders :
           vectorReader[r].gen = h.id => h \in generations'
      /\ generations' \subseteq generations
  BY <1>0 DEF Collected, SnapshotHeld
<1>4. HasNewest(generations)'
  BY <1>1, <1>2, <1>3 DEF HasNewest
<1>5. /\ currentPointer' # 0 => \E h \in generations' : h.id = currentPointer'
      /\ \A r \in VectorReaders :
           ~vectorReader'[r].purged /\ vectorReader'[r].gen # 0 =>
             \E h \in generations' : h.id = vectorReader'[r].gen
  BY <1>0, <1>2, <1>3, WholeVectorFacts
<1>6. SnapshotStaysWhole'
  BY <1>5 DEF SnapshotStaysWhole
<1> QED
  BY <1>0, <1>3, <1>4, <1>6 DEF DiskInv

\* A reader takes the generation that CURRENT names.
LEMMA ReaderKeepsDisk ==
  ASSUME VectorTypeOK, DiskInv, NEW r \in VectorReaders, OpenSnapshot(r) \/ DropSnapshot(r)
  PROVE  DiskInv'
<1>0. /\ UNCHANGED <<generations, currentPointer, refresher>>
      /\ vectorReader'[r].gen \in {0, currentPointer}
      /\ \A q \in VectorReaders \ {r} : vectorReader'[q] = vectorReader[q]
  BY SnapshotFacts
<1>1. Staged' = Staged
  BY <1>0 DEF Staged
<1>2. /\ currentPointer' # 0 => \E h \in generations' : h.id = currentPointer'
      /\ \A q \in VectorReaders :
           ~vectorReader'[q].purged /\ vectorReader'[q].gen # 0 =>
             \E h \in generations' : h.id = vectorReader'[q].gen
  BY <1>0, WholeVectorFacts DEF DiskInv
<1>3. SnapshotStaysWhole'
  BY <1>2 DEF SnapshotStaysWhole
<1>4. refresher.at = "staged" => Staged # 0
  BY StagedFacts, Fields DEF DiskInv
<1>5. refresher.at = "staged" =>
        \A q \in VectorReaders : ~vectorReader'[q].purged => vectorReader'[q].gen # Staged
  BY <1>0, <1>4 DEF DiskInv
<1>6. HasNewest(generations)' /\ (refresher.at = "staged" => HasNewest({g \in generations : g.id # Staged})')
  BY <1>0, <1>1 DEF DiskInv, HasNewest
<1> QED
  BY <1>0, <1>1, <1>3, <1>5, <1>6 DEF DiskInv

\* Every step keeps DiskInv.
LEMMA DiskStep ==
  ASSUME VectorTypeOK, DiskInv, [VectorNext]_vectorVars
  PROVE  DiskInv'
<1>1. ASSUME NEW t \in VectorThreads,
             \/ HoldLedger(t) \/ CheckDeleted(t) \/ RegisterRevision(t) \/ InsertPending(t)
             \/ DeleteMemory(t) \/ FlagReset(t) \/ RetireSession(t) \/ ResumeReset(t)
             \/ NoteRevision(t) \/ DropOlderPending(t) \/ ClearReset(t)
             \/ MarkDeleted(t) \/ RemovePending(t) \/ RemoveLatest(t)
      PROVE  DiskInv'
  <2>1. UNCHANGED <<generations, currentPointer, vectorReader, refresher>>
    BY <1>1 DEF HoldLedger, CheckDeleted, RegisterRevision, InsertPending, DeleteMemory,
       FlagReset, RetireSession, ResumeReset, NoteRevision, DropOlderPending, ClearReset,
       MarkDeleted, RemovePending, RemoveLatest, Forget,
       vectorDisk, vectorDurable, vectorShared, vectorHistory
  <2> QED
    BY <2>1, DiskKept
<1>2. ASSUME NEW t \in VectorThreads, SpawnRefresher(t) PROVE DiskInv'
  BY <1>2, SpawnRefresherFacts, DiskKept
<1>3. ASSUME NEW t \in VectorThreads, PurgeHistory(t) PROVE DiskInv'
  <2>1. UNCHANGED refresher /\ refresher.at # "staged"
    BY <1>3, PurgeHistoryFacts DEF GateHeld
  <2>2. RemoveRoot \/ UNCHANGED <<generations, currentPointer, vectorReader>>
    BY <1>3, PurgeHistoryFacts
  <2> QED
    BY <2>1, <2>2, RootGone, DiskKept
<1>4. ASSUME NEW t \in VectorThreads, RemoveProjectVectors(t) PROVE DiskInv'
  BY <1>4, RemoveProjectVectorsFacts, RootGone DEF GateHeld
<1>5. ASSUME TakePending \/ CheckTaken \/ PrepareRefresh \/ EnterGate PROVE DiskInv'
  BY <1>5, TakePendingFacts, CheckTakenFacts, PrepareRefreshFacts, EnterGateFacts, DiskKept
<1>6. ASSUME VectorCrash PROVE DiskInv'
  <2>1. UNCHANGED <<generations, currentPointer>> /\ refresher'.at # "staged"
    BY <1>6, CrashFacts
  <2>2. SnapshotStaysWhole'
    BY <1>6, <2>1, CrashFacts, WholeVectorFacts DEF DiskInv, SnapshotStaysWhole
  <2> QED
    BY <2>1, <2>2 DEF DiskInv, HasNewest
<1>7. ASSUME UNCHANGED vectorVars PROVE DiskInv'
  BY <1>7, DiskKept DEF vectorVars, vectorDisk, vectorDurable
<1> QED
  BY <1>1, <1>2, <1>3, <1>4, <1>5, <1>6, <1>7, StageKeepsDisk, FailureKeepsDisk,
     PublicationKeepsDisk, ReaderKeepsDisk DEF VectorNext

-----------------------------------------------------------------------------
(* The newest scheduled revision.                                          *)

\* Every step keeps CarriedInv.
LEMMA CarriedStep ==
  ASSUME VectorTypeOK, CarriedInv, [VectorNext]_vectorVars
  PROVE  CarriedInv'
<1>0. /\ ledgerRevision \in Nat /\ latestRevision \in Nat /\ pendingRefresh \in Nat
      /\ owed \in Nat /\ refresher.rev \in Nat
      /\ \A t \in VectorThreads : vectorThread[t].rev \in Nat
      /\ refreshLease \in BOOLEAN
  BY Fields DEF VectorTypeOK
<1> USE DEF CarriedInv, Carried, PendingHasARefresher, ThreadStep, Deleting, Working
<1>1. ASSUME NEW t \in VectorThreads, HoldLedger(t) PROVE CarriedInv'
  BY <1>0, <1>1, HoldLedgerFacts
<1>2. ASSUME NEW t \in VectorThreads, CheckDeleted(t) PROVE CarriedInv'
  BY <1>0, <1>2, CheckDeletedFacts
<1>3. ASSUME NEW t \in VectorThreads, RegisterRevision(t) PROVE CarriedInv'
  BY <1>0, <1>3, RegisterRevisionFacts
<1>4. ASSUME NEW t \in VectorThreads, InsertPending(t) PROVE CarriedInv'
  BY <1>0, <1>4, InsertPendingFacts
<1>5. ASSUME NEW t \in VectorThreads, SpawnRefresher(t) PROVE CarriedInv'
  BY <1>0, <1>5, SpawnRefresherFacts
<1>6. ASSUME NEW t \in VectorThreads, DeleteMemory(t) PROVE CarriedInv'
  BY <1>0, <1>6, DeleteMemoryFacts
<1>7. ASSUME NEW t \in VectorThreads, FlagReset(t) PROVE CarriedInv'
  BY <1>0, <1>7, FlagResetFacts
<1>8. ASSUME NEW t \in VectorThreads, RetireSession(t) PROVE CarriedInv'
  BY <1>0, <1>8, RetireSessionFacts
<1>9. ASSUME NEW t \in VectorThreads, ResumeReset(t) PROVE CarriedInv'
  BY <1>0, <1>9, ResumeResetFacts
<1>10. ASSUME NEW t \in VectorThreads, NoteRevision(t) PROVE CarriedInv'
  BY <1>0, <1>10, NoteRevisionFacts
<1>11. ASSUME NEW t \in VectorThreads, DropOlderPending(t) PROVE CarriedInv'
  BY <1>0, <1>11, DropOlderPendingFacts
<1>12. ASSUME NEW t \in VectorThreads, PurgeHistory(t) PROVE CarriedInv'
  BY <1>0, <1>12, PurgeHistoryFacts
<1>13. ASSUME NEW t \in VectorThreads, ClearReset(t) PROVE CarriedInv'
  BY <1>0, <1>13, ClearResetFacts
<1>14. ASSUME NEW t \in VectorThreads, MarkDeleted(t) PROVE CarriedInv'
  BY <1>0, <1>14, MarkDeletedFacts
<1>15. ASSUME NEW t \in VectorThreads, RemovePending(t) PROVE CarriedInv'
  BY <1>0, <1>15, RemovePendingFacts
<1>16. ASSUME NEW t \in VectorThreads, RemoveLatest(t) PROVE CarriedInv'
  BY <1>0, <1>16, RemoveLatestFacts
<1>17. ASSUME NEW t \in VectorThreads, RemoveProjectVectors(t) PROVE CarriedInv'
  BY <1>0, <1>17, RemoveProjectVectorsFacts
<1>18. ASSUME TakePending PROVE CarriedInv'
  BY <1>0, <1>18, TakePendingFacts
<1>19. ASSUME CheckTaken PROVE CarriedInv'
  BY <1>0, <1>19, CheckTakenFacts DEF RevisionIsCurrent
<1>20. ASSUME PrepareRefresh PROVE CarriedInv'
  BY <1>0, <1>20, PrepareRefreshFacts
<1>21. ASSUME EnterGate PROVE CarriedInv'
  BY <1>0, <1>21, EnterGateFacts DEF RevisionIsCurrent
<1>22. ASSUME StageGeneration PROVE CarriedInv'
  BY <1>0, <1>22, StageGenerationFacts
<1>23. ASSUME PublicationFails PROVE CarriedInv'
  BY <1>0, <1>23, PublicationFailsFacts
<1>24. ASSUME PublishGeneration PROVE CarriedInv'
  BY <1>0, <1>24, PublishGenerationFacts
<1>25. ASSUME NEW r \in VectorReaders, OpenSnapshot(r) \/ DropSnapshot(r) PROVE CarriedInv'
  BY <1>0, <1>25, SnapshotFacts
<1>26. ASSUME VectorCrash PROVE CarriedInv'
  BY <1>0, <1>26, CrashFacts
<1>27. ASSUME UNCHANGED vectorVars PROVE CarriedInv'
  BY <1>27 DEF vectorVars, vectorDisk, vectorDurable, vectorShared, vectorHistory
<1> QED
  BY <1>1, <1>2, <1>3, <1>4, <1>5, <1>6, <1>7, <1>8, <1>9, <1>10, <1>11, <1>12, <1>13, <1>14,
     <1>15, <1>16, <1>17, <1>18, <1>19, <1>20, <1>21, <1>22, <1>23, <1>24, <1>25, <1>26, <1>27 DEF VectorNext

-----------------------------------------------------------------------------
(* What is deleted.                                                        *)

\* Every step keeps PurgeInv.
LEMMA PurgeStep ==
  ASSUME VectorTypeOK, PurgeInv, [VectorNext]_vectorVars
  PROVE  PurgeInv'
<1>0. /\ ledgerRevision \in Nat /\ latestRevision \in Nat /\ pendingRefresh \in Nat
      /\ forgotten \in Nat /\ refresher.rev \in Nat
      /\ \A t \in VectorThreads : vectorThread[t].rev \in Nat
      /\ \A g \in generations : g.rev \in Nat
      /\ resetRequired \in BOOLEAN /\ deletedRegistry \in BOOLEAN /\ unflagged \in BOOLEAN
  BY Fields DEF VectorTypeOK
<1> USE DEF PurgeInv, Guarded, Resting, Clean, GateIsClean, GateHeld, ThreadStep, Forgetting,
            Deleting
<1>1. ASSUME NEW t \in VectorThreads, HoldLedger(t) PROVE PurgeInv'
  BY <1>0, <1>1, HoldLedgerFacts DEF StoreHeld
<1>2. ASSUME NEW t \in VectorThreads, CheckDeleted(t) PROVE PurgeInv'
  BY <1>0, <1>2, CheckDeletedFacts
<1>3. ASSUME NEW t \in VectorThreads, RegisterRevision(t) PROVE PurgeInv'
  BY <1>0, <1>3, RegisterRevisionFacts
<1>4. ASSUME NEW t \in VectorThreads, InsertPending(t) PROVE PurgeInv'
  BY <1>0, <1>4, InsertPendingFacts
<1>5. ASSUME NEW t \in VectorThreads, SpawnRefresher(t) PROVE PurgeInv'
  BY <1>0, <1>5, SpawnRefresherFacts
<1>6. ASSUME NEW t \in VectorThreads, DeleteMemory(t) PROVE PurgeInv'
  BY <1>0, <1>6, DeleteMemoryFacts DEF StoreHeld
<1>7. ASSUME NEW t \in VectorThreads, FlagReset(t) PROVE PurgeInv'
  BY <1>0, <1>7, FlagResetFacts
<1>8. ASSUME NEW t \in VectorThreads, RetireSession(t) PROVE PurgeInv'
  BY <1>0, <1>8, RetireSessionFacts DEF StoreHeld
<1>9. ASSUME NEW t \in VectorThreads, ResumeReset(t) PROVE PurgeInv'
  BY <1>0, <1>9, ResumeResetFacts DEF StoreHeld
<1>10. ASSUME NEW t \in VectorThreads, NoteRevision(t) PROVE PurgeInv'
  BY <1>0, <1>10, NoteRevisionFacts
<1>11. ASSUME NEW t \in VectorThreads, DropOlderPending(t) PROVE PurgeInv'
  BY <1>0, <1>11, DropOlderPendingFacts
<1>12. ASSUME NEW t \in VectorThreads, PurgeHistory(t) PROVE PurgeInv'
  BY <1>0, <1>12, PurgeHistoryFacts, RemoveRootFacts DEF RevisionIsCurrent
<1>13. ASSUME NEW t \in VectorThreads, ClearReset(t) PROVE PurgeInv'
  BY <1>0, <1>13, ClearResetFacts
<1>14. ASSUME NEW t \in VectorThreads, MarkDeleted(t) PROVE PurgeInv'
  BY <1>0, <1>14, MarkDeletedFacts DEF StoreHeld
<1>15. ASSUME NEW t \in VectorThreads, RemovePending(t) PROVE PurgeInv'
  BY <1>0, <1>15, RemovePendingFacts
<1>16. ASSUME NEW t \in VectorThreads, RemoveLatest(t) PROVE PurgeInv'
  BY <1>0, <1>16, RemoveLatestFacts
<1>17. ASSUME NEW t \in VectorThreads, RemoveProjectVectors(t) PROVE PurgeInv'
  BY <1>0, <1>17, RemoveProjectVectorsFacts, RemoveRootFacts
<1>18. ASSUME TakePending PROVE PurgeInv'
  BY <1>0, <1>18, TakePendingFacts
<1>19. ASSUME CheckTaken PROVE PurgeInv'
  BY <1>0, <1>19, CheckTakenFacts DEF RevisionIsCurrent
<1>20. ASSUME PrepareRefresh PROVE PurgeInv'
  BY <1>0, <1>20, PrepareRefreshFacts
<1>21. ASSUME EnterGate PROVE PurgeInv'
  BY <1>0, <1>21, EnterGateFacts DEF RevisionIsCurrent
<1>22. ASSUME StageGeneration PROVE PurgeInv'
  BY <1>0, <1>22, StageGenerationFacts
<1>23. ASSUME PublicationFails PROVE PurgeInv'
  BY <1>0, <1>23, PublicationFailsFacts
<1>24. ASSUME PublishGeneration PROVE PurgeInv'
  <2>1. generations' \subseteq generations
    BY <1>24, PublishGenerationFacts
  <2> QED
    BY <1>0, <1>24, <2>1, PublishGenerationFacts
<1>25. ASSUME NEW r \in VectorReaders, OpenSnapshot(r) \/ DropSnapshot(r) PROVE PurgeInv'
  BY <1>0, <1>25, SnapshotFacts
<1>26. ASSUME VectorCrash PROVE PurgeInv'
  <2>1. ~unflagged' => ~unflagged /\ \A t \in VectorThreads : vectorThread[t].at # "forgotten"
    BY <1>26, CrashFacts
  <2>2. /\ UNCHANGED <<ledgerRevision, resetRequired, projectFate, generations, forgotten>>
        /\ latestRevision' = 0 /\ pendingRefresh' = 0 /\ refresher'.at = "off"
        /\ \A t \in VectorThreads : vectorThread'[t].at = "idle" /\ vectorThread'[t].rev = 0
    BY <1>26, CrashFacts
  <2> QED
    BY <1>0, <2>1, <2>2
<1>27. ASSUME UNCHANGED vectorVars PROVE PurgeInv'
  BY <1>27 DEF vectorVars, vectorDisk, vectorDurable, vectorShared, vectorHistory
<1> QED
  BY <1>1, <1>2, <1>3, <1>4, <1>5, <1>6, <1>7, <1>8, <1>9, <1>10, <1>11, <1>12, <1>13, <1>14,
     <1>15, <1>16, <1>17, <1>18, <1>19, <1>20, <1>21, <1>22, <1>23, <1>24, <1>25, <1>26, <1>27 DEF VectorNext

-----------------------------------------------------------------------------
(* The theorems.                                                           *)

VectorInv == VectorTypeOK /\ DiskInv /\ CarriedInv /\ PurgeInv

\* The initial states: nothing on disk, nobody at work.
LEMMA VectorInitInv ==
  ASSUME VectorInit
  PROVE  VectorInv
<1>1. VectorTypeOK
  BY DEF VectorInit, VectorTypeOK, IdleThread, RefresherOff, NoSnapshot, Places, Working
<1>2. /\ \A t \in VectorThreads : vectorThread[t].at = "idle" /\ vectorThread[t].rev = 0
      /\ \A r \in VectorReaders : vectorReader[r].gen = 0
      /\ refresher.at = "off"
  BY DEF VectorInit, IdleThread, RefresherOff, NoSnapshot
<1>3. DiskInv
  <2>1. SnapshotStaysWhole /\ HasNewest(generations)
    BY <1>2 DEF VectorInit, SnapshotStaysWhole, HasNewest
  <2> QED
    BY <1>2, <2>1 DEF VectorInit, DiskInv
<1>4. CarriedInv
  BY <1>2 DEF VectorInit, CarriedInv, PendingHasARefresher, Deleting
<1>5. PurgeInv
  BY <1>2 DEF VectorInit, PurgeInv, Guarded, Resting, Clean, GateIsClean, GateHeld, Forgetting,
     Deleting
<1> QED
  BY <1>1, <1>3, <1>4, <1>5 DEF VectorInv

\* The inductive invariant of the vector index: every step of a thread, of the
\* refresher or of a reader, and every crash, keeps it.
THEOREM VectorInvariant == VectorSpec => []VectorInv
<1>1. VectorInv /\ [VectorNext]_vectorVars => VectorInv'
  <2> SUFFICES ASSUME VectorInv, [VectorNext]_vectorVars PROVE VectorInv'
    OBVIOUS
  <2>1. VectorTypeOK'
    BY TypeStep DEF VectorInv, DiskInv
  <2> QED
    BY <2>1, DiskStep, CarriedStep, PurgeStep DEF VectorInv
<1> QED
  BY <1>1, VectorInitInv, PTL DEF VectorSpec

\* What the user deletes stays out of the index, whatever refresh was prepared
\* before the deletion and wherever a crash falls, except between the commit of
\* a deletion and the write that flags its reset.
THEOREM DeletedAlwaysStaysDeleted == VectorSpec => []DeletedStaysDeleted
<1>1. VectorInv => DeletedStaysDeleted
  BY DEF VectorInv, PurgeInv, DeletedStaysDeleted, ForgottenStaysForgotten,
         DeletedProjectHasNoVectors, Clean
<1> QED
  BY <1>1, VectorInvariant, PTL

\* A queued refresh always has somebody to carry it out, and when nobody is at
\* work any more the newest scheduled revision of a live project is accounted
\* for.
THEOREM RefreshIsNeverLost == VectorSpec => []NoRefreshIsLost
<1>1. VectorInv => NoRefreshIsLost
  <2> SUFFICES ASSUME VectorInv PROVE NoRefreshIsLost
    OBVIOUS
  <2>1. PendingHasARefresher
    BY DEF VectorInv, CarriedInv
  <2>2. NewestIsIndexed
    BY <2>1 DEF VectorInv, CarriedInv, Carried, NewestIsIndexed, PendingHasARefresher, Working
  <2> QED
    BY <2>1, <2>2 DEF NoRefreshIsLost
<1> QED
  BY <1>1, VectorInvariant, PTL

\* What CURRENT names and what a reader holds is on disk, unless a purge of the
\* whole root took it from the reader.
THEOREM SnapshotAlwaysStaysWhole == VectorSpec => []SnapshotStaysWhole
<1>1. VectorInv => SnapshotStaysWhole
  BY DEF VectorInv, DiskInv
<1> QED
  BY <1>1, VectorInvariant, PTL
================================================================================
