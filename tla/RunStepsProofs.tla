--------------------------- MODULE RunStepsProofs ---------------------------
(***************************************************************************)
(* Proofs about the control of one agent run, RunControl, and about the    *)
(* permissions it asks for, PermissionResume.  The two share no variable.  *)
(***************************************************************************)
EXTENDS RunControl, PermissionResume, SequenceTheorems, TLAPS

(***************************************************************************)
(* RunControl, for any set of steers, any queue capacity and any bounds:   *)
(* type correctness, the safety invariants of the durable log, the         *)
(* finality of a stop and the refinement of SteeringPromise.               *)
(***************************************************************************)

(***************************************************************************)
(* The log after a commit.                                                 *)
(***************************************************************************)

\* A successful commit closure appends exactly one entry to the durable log
\* and leaves the earlier ones alone (what every *_with handler does).
LEMMA PersistAppends ==
    ASSUME log \in Seq(LogEntry), NEW kind \in CommitKinds, NEW e \in Nat,
           Persist(kind, e)
    PROVE  /\ log' \in Seq(LogEntry)
           /\ Len(log') = Len(log) + 1
           /\ \A i \in 1 .. Len(log) : log'[i] = log[i]
           /\ log'[Len(log) + 1].kind = kind
           /\ log'[Len(log) + 1].epoch = e
  BY DEF Persist, LogEntry

\* The same for the queue of pending steers: an accepted steer goes to the
\* back of pending_steers (commit_steer_request_with).
LEMMA SteerAppends ==
    ASSUME pendingSteers \in Seq(RunSteer), NEW id \in Steers,
           steerEpoch \in Nat, CommitSteerRequest(id)
    PROVE  /\ pendingSteers' \in Seq(RunSteer)
           /\ Len(pendingSteers') = Len(pendingSteers) + 1
           /\ \A i \in 1 .. Len(pendingSteers) :
                 pendingSteers'[i] = pendingSteers[i]
           /\ pendingSteers'[Len(pendingSteers) + 1].epoch = steerEpoch + 1
  BY DEF CommitSteerRequest, RunSteer

\* A queue that is not empty has a newest steer, with an epoch.
LEMMA NewestPending ==
    ASSUME pendingSteers \in Seq(RunSteer), pendingSteers # << >>
    PROVE  /\ Len(pendingSteers) \in Nat \ {0}
           /\ pendingSteers[Len(pendingSteers)].epoch \in Nat
<1>1. Len(pendingSteers) \in Nat \ {0}
  BY EmptySeq, LenProperties
<1>2. pendingSteers[Len(pendingSteers)] \in RunSteer
  BY <1>1, ElementOfSeq
<1> QED
  BY <1>1, <1>2 DEF RunSteer

(***************************************************************************)
(* Type correctness.                                                       *)
(***************************************************************************)

\* Every handler of AgentRunControl keeps its fields in their types.
LEMMA TypeStep == TypeOK /\ [Next]_controlVars => TypeOK'
<1> SUFFICES ASSUME TypeOK, [Next]_controlVars PROVE TypeOK'
  OBVIOUS
<1> USE DEF TypeOK, StopReasons, RequestedReasons, MeterReasons, ClockReasons,
            RunPhases, NoStop, CommitKinds
<1>1. CASE RequestCancel
  BY <1>1 DEF RequestCancel
<1>2. ASSUME NEW reason \in StopReasons, SetStopReason(reason) PROVE TypeOK'
  BY <1>2 DEF SetStopReason
<1>3. CASE CommitStartCheckpoint
  BY <1>3, PersistAppends DEF CommitStartCheckpoint
<1>4. CASE BeginPreparation
  BY <1>4 DEF BeginPreparation
<1>5. ASSUME NEW e \in SampledEpochs, CommitPreparationCheckpoint(e)
      PROVE  TypeOK'
  BY <1>5, PersistAppends DEF CommitPreparationCheckpoint, SampledEpochs
<1>6. ASSUME NEW e \in SampledEpochs, CommitPreparation(e) PROVE TypeOK'
  BY <1>6, PersistAppends DEF CommitPreparation, SampledEpochs
<1>7. ASSUME NEW e \in SampledEpochs, CommitPreparationTerminal(e)
      PROVE  TypeOK'
  BY <1>7, PersistAppends DEF CommitPreparationTerminal, SampledEpochs
<1>8. ASSUME NEW id \in Steers, CommitSteerRequest(id) PROVE TypeOK'
  <2>1. log' \in Seq(LogEntry)
    BY <1>8, PersistAppends DEF CommitSteerRequest
  <2>2. pendingSteers' \in Seq(RunSteer)
    BY <1>8, SteerAppends
  <2> QED
    BY <1>8, <2>1, <2>2 DEF CommitSteerRequest
<1>9. CASE CommitPendingSteers
  <2>1. pendingSteers[Len(pendingSteers)].epoch \in Nat
    BY <1>9, NewestPending DEF CommitPendingSteers
  <2>2. log' \in Seq(LogEntry)
    BY <1>9, <2>1, PersistAppends DEF CommitPendingSteers
  <2> QED
    BY <1>9, <2>1, <2>2 DEF CommitPendingSteers
<1>10. ASSUME NEW e \in SampledEpochs, CommitExecutionStep(e) PROVE TypeOK'
  BY <1>10, PersistAppends DEF CommitExecutionStep, SampledEpochs
<1>11. ASSUME NEW e \in SampledEpochs, CommitTerminalResult(e) PROVE TypeOK'
  BY <1>11, PersistAppends DEF CommitTerminalResult, SampledEpochs
<1>12. ASSUME NEW e \in SampledEpochs, RecordPartialOutput(e) PROVE TypeOK'
  BY <1>12 DEF RecordPartialOutput, SampledEpochs
<1>13. ASSUME NEW e \in SampledEpochs, RecordBestKnownResult(e) PROVE TypeOK'
  BY <1>13 DEF RecordBestKnownResult, SampledEpochs
<1>14. CASE ContinueStoppedRun
  BY <1>14 DEF ContinueStoppedRun
<1>15. CASE UNCHANGED controlVars
  BY <1>15 DEF controlVars
<1> QED
  BY <1>1, <1>2, <1>3, <1>4, <1>5, <1>6, <1>7, <1>8, <1>9, <1>10, <1>11,
     <1>12, <1>13, <1>14, <1>15
     DEF Next, RequestStop, RefreshStopReason, MeterStop

\* TypeOK is an invariant of RunControl, whatever its constants.
THEOREM TypeCorrect == Spec => []TypeOK
<1>1. Init => TypeOK
  <2> SUFFICES ASSUME Init PROVE TypeOK
    OBVIOUS
  <2>1. pendingSteers \in Seq(RunSteer) /\ log \in Seq(LogEntry)
    BY DEF Init
  <2>2. steerEpoch \in Nat /\ appliedEpoch \in Nat
    BY ControlConstants DEF Init
  <2> QED
    BY <2>1, <2>2 DEF Init, TypeOK, RunPhases, NoStop
<1> QED
  BY <1>1, TypeStep, PTL DEF Spec

(***************************************************************************)
(* The inductive invariant.  The log properties are not inductive alone:   *)
(* they need the queue to be exact, the log to agree with the phase, and   *)
(* every steer in the log to be followed by its application as soon as the *)
(* applied epoch has passed it.                                            *)
(***************************************************************************)
CancelIsVisible == userCancelled => ~Running

\* The phase and the log agree about the terminal commit, which answered the
\* newest objective and left no steer waiting.
TerminalAgrees ==
    /\ Terminal => /\ pendingSteers = << >>
                   /\ \E i \in 1 .. Len(log) : log[i].kind = "terminal"
    /\ \A i \in 1 .. Len(log) :
          log[i].kind = "terminal" => Terminal /\ log[i].epoch = steerEpoch

AppliedAfter(i) == \E k \in i + 1 .. Len(log) :
                      log[k].kind = "apply" /\ log[k].epoch >= log[i].epoch

SteersAreAccounted ==
    \A i \in 1 .. Len(log) :
       log[i].kind = "steer" =>
          /\ log[i].epoch <= steerEpoch
          /\ log[i].epoch <= appliedEpoch => AppliedAfter(i)

ControlInv == /\ CancelIsVisible
              /\ SteerQueueIsExact
              /\ ResultsMatchObjective
              /\ TerminalAgrees
              /\ TerminalEndsTheLog
              /\ SteersAreAccounted
              /\ CommittedWorkIsCurrent

\* What the log parts say of a step that writes nothing and moves no epoch.
LEMMA QuietLog ==
    ASSUME TypeOK, ControlInv,
           UNCHANGED <<steerEpoch, appliedEpoch, pendingSteers, log>>,
           Terminal' = Terminal
    PROVE  /\ SteerQueueIsExact'
           /\ TerminalAgrees'
           /\ TerminalEndsTheLog'
           /\ SteersAreAccounted'
           /\ CommittedWorkIsCurrent'
<1>1. SteerQueueIsExact'
  BY DEF ControlInv, SteerQueueIsExact
<1>2. TerminalAgrees' /\ TerminalEndsTheLog'
  BY DEF ControlInv, TerminalAgrees, TerminalEndsTheLog
<1>3. SteersAreAccounted'
  BY DEF ControlInv, SteersAreAccounted, AppliedAfter
<1>4. CommittedWorkIsCurrent'
  BY DEF ControlInv, CommittedWorkIsCurrent
<1> QED
  BY <1>1, <1>2, <1>3, <1>4

\* What the log parts say of a commit of work at the current epoch: the gate
\* EpochIsCurrent is all that the log properties need from a handler.
LEMMA WorkCommit ==
    ASSUME TypeOK, ControlInv, NEW kind \in WorkKinds, NEW e \in Nat,
           ~Terminal, EpochIsCurrent(e), Persist(kind, e),
           UNCHANGED <<steerEpoch, appliedEpoch, pendingSteers>>,
           Terminal' <=> kind = "terminal"
    PROVE  /\ SteerQueueIsExact'
           /\ TerminalAgrees'
           /\ TerminalEndsTheLog'
           /\ SteersAreAccounted'
           /\ CommittedWorkIsCurrent'
<1> DEFINE n == Len(log)
<1>1. /\ log' \in Seq(LogEntry)
      /\ Len(log') = n + 1
      /\ \A i \in 1 .. n : log'[i] = log[i]
      /\ log'[n + 1].kind = kind
      /\ log'[n + 1].epoch = e
  BY PersistAppends DEF TypeOK, WorkKinds, CommitKinds
<1>2. n \in Nat
  BY LenProperties DEF TypeOK
<1>3. \A i \in 1 .. n : log[i] \in LogEntry
  BY ElementOfSeq DEF TypeOK
<1>4. \A i \in 1 .. n : log[i].kind # "terminal"
  BY DEF ControlInv, TerminalAgrees
<1> HIDE DEF n
<1>5. SteerQueueIsExact'
  BY DEF ControlInv, SteerQueueIsExact
<1>6. TerminalAgrees'
  BY <1>1, <1>2, <1>4 DEF TerminalAgrees, EpochIsCurrent
<1>7. TerminalEndsTheLog'
  BY <1>1, <1>2, <1>4 DEF TerminalEndsTheLog
<1>8. \A i \in 1 .. n : AppliedAfter(i) => AppliedAfter(i)'
  BY <1>1, <1>2 DEF AppliedAfter, n
<1>9. SteersAreAccounted'
  BY <1>1, <1>2, <1>8 DEF ControlInv, SteersAreAccounted, WorkKinds, n
<1>10. CommittedWorkIsCurrent'
  <2> SUFFICES ASSUME NEW i \in 1 .. n + 1, NEW j \in 1 .. n + 1, i < j,
                      log'[i].kind = "steer", log'[j].kind \in WorkKinds
               PROVE  /\ log'[j].epoch >= log'[i].epoch
                      /\ \E k \in i + 1 .. j - 1 :
                            /\ log'[k].kind = "apply"
                            /\ log'[k].epoch >= log'[i].epoch
    BY <1>1, <1>2 DEF CommittedWorkIsCurrent
  <2>1. CASE j \in 1 .. n
    BY <1>1, <1>2, <2>1 DEF ControlInv, CommittedWorkIsCurrent, n
  <2>2. CASE j = n + 1
    <3>1. i \in 1 .. n /\ log[i].kind = "steer" /\ log'[i] = log[i]
      BY <1>1, <1>2, <2>2
    <3>2. log[i].epoch <= e /\ AppliedAfter(i)
      BY <3>1 DEF ControlInv, SteersAreAccounted, EpochIsCurrent, n
    <3>3. PICK k \in i + 1 .. n :
             log[k].kind = "apply" /\ log[k].epoch >= log[i].epoch
      BY <3>2 DEF AppliedAfter, n
    <3>4. log'[k] = log[k] /\ k \in i + 1 .. j - 1
      BY <1>1, <1>2, <2>2, <3>1, <3>3
    <3> QED
      BY <1>1, <1>3, <2>2, <3>1, <3>2, <3>3, <3>4 DEF LogEntry
  <2> QED
    BY <1>2, <2>1, <2>2
<1> QED
  BY <1>5, <1>6, <1>7, <1>9, <1>10

\* An entry that is not work leaves the ordering of work after steers alone.
LEMMA NonWorkAppend ==
    ASSUME TypeOK, CommittedWorkIsCurrent,
           Len(log') = Len(log) + 1,
           \A i \in 1 .. Len(log) : log'[i] = log[i],
           log'[Len(log) + 1].kind \notin WorkKinds
    PROVE  CommittedWorkIsCurrent'
<1> DEFINE n == Len(log)
<1>1. n \in Nat
  BY LenProperties DEF TypeOK
<1> SUFFICES ASSUME NEW i \in 1 .. n + 1, NEW j \in 1 .. n + 1, i < j,
                    log'[i].kind = "steer", log'[j].kind \in WorkKinds
             PROVE  /\ log'[j].epoch >= log'[i].epoch
                    /\ \E k \in i + 1 .. j - 1 :
                          /\ log'[k].kind = "apply"
                          /\ log'[k].epoch >= log'[i].epoch
  BY <1>1 DEF CommittedWorkIsCurrent
<1>2. j # n + 1
  OBVIOUS
<1>3. i \in 1 .. n /\ j \in 1 .. n
  BY <1>1, <1>2
<1>4. log'[i] = log[i] /\ log'[j] = log[j]
  BY <1>3
<1>5. /\ log[j].epoch >= log[i].epoch
      /\ \E k \in i + 1 .. j - 1 :
            log[k].kind = "apply" /\ log[k].epoch >= log[i].epoch
  BY <1>3, <1>4 DEF CommittedWorkIsCurrent
<1>6. PICK k \in i + 1 .. j - 1 :
         log[k].kind = "apply" /\ log[k].epoch >= log[i].epoch
  BY <1>5
<1>7. k \in 1 .. n
  BY <1>1, <1>3
<1>8. log'[k] = log[k]
  BY <1>7
<1> QED
  BY <1>4, <1>5, <1>6, <1>8

\* A start checkpoint is not work for an objective: it may be written while
\* steers are waiting, and disturbs none of the log properties.
LEMMA StartCommit ==
    ASSUME TypeOK, ControlInv, CommitStartCheckpoint
    PROVE  ControlInv'
<1> DEFINE n == Len(log)
<1>1. /\ log' \in Seq(LogEntry)
      /\ Len(log') = n + 1
      /\ \A i \in 1 .. n : log'[i] = log[i]
      /\ log'[n + 1].kind = "start"
  BY PersistAppends DEF TypeOK, CommitStartCheckpoint, CommitKinds
<1>2. n \in Nat
  BY LenProperties DEF TypeOK
<1>3. \A i \in 1 .. n : log[i].kind # "terminal"
  BY DEF ControlInv, TerminalAgrees, CommitStartCheckpoint
<1> HIDE DEF n
<1>4. CancelIsVisible' /\ SteerQueueIsExact' /\ ResultsMatchObjective'
  BY DEF ControlInv, CancelIsVisible, SteerQueueIsExact, Running,
         ResultsMatchObjective, CommitStartCheckpoint
<1>5. TerminalAgrees' /\ TerminalEndsTheLog'
  BY <1>1, <1>2, <1>3
     DEF TerminalAgrees, TerminalEndsTheLog, CommitStartCheckpoint, Terminal
<1>6. \A i \in 1 .. n : AppliedAfter(i) => AppliedAfter(i)'
  BY <1>1, <1>2 DEF AppliedAfter, n
<1>7. SteersAreAccounted'
  BY <1>1, <1>2, <1>6
     DEF ControlInv, SteersAreAccounted, CommitStartCheckpoint, n
<1>8. CommittedWorkIsCurrent'
  BY <1>1, <1>2, NonWorkAppend DEF ControlInv, WorkKinds, n
<1> QED
  BY <1>4, <1>5, <1>7, <1>8 DEF ControlInv

\* Accepting a steer: the new entry is the newest epoch, not applied yet.
LEMMA SteerCommit ==
    ASSUME TypeOK, ControlInv, NEW id \in Steers, CommitSteerRequest(id)
    PROVE  ControlInv'
<1> DEFINE n == Len(log)
<1>1. /\ log' \in Seq(LogEntry)
      /\ Len(log') = n + 1
      /\ \A i \in 1 .. n : log'[i] = log[i]
      /\ log'[n + 1].kind = "steer"
      /\ log'[n + 1].epoch = steerEpoch + 1
  BY PersistAppends DEF TypeOK, CommitSteerRequest, CommitKinds
<1>2. n \in Nat
  BY LenProperties DEF TypeOK
<1>3. \A i \in 1 .. n : log[i].kind # "terminal"
  BY DEF ControlInv, TerminalAgrees, CommitSteerRequest
<1>4. \A i \in 1 .. n : log[i] \in LogEntry
  BY ElementOfSeq DEF TypeOK
<1> HIDE DEF n
<1>5. CancelIsVisible' /\ ResultsMatchObjective'
  BY DEF ControlInv, CancelIsVisible, Running, ResultsMatchObjective,
         CommitSteerRequest
<1>6. SteerQueueIsExact'
  <2>1. Len(pendingSteers) \in Nat
    BY LenProperties DEF TypeOK
  <2>2. /\ Len(pendingSteers') = Len(pendingSteers) + 1
        /\ \A i \in 1 .. Len(pendingSteers) :
              pendingSteers'[i] = pendingSteers[i]
        /\ pendingSteers'[Len(pendingSteers) + 1].epoch = steerEpoch + 1
    BY SteerAppends DEF TypeOK
  <2>3. /\ steerEpoch = appliedEpoch + Len(pendingSteers)
        /\ \A i \in 1 .. Len(pendingSteers) :
              pendingSteers[i].epoch = appliedEpoch + i
    BY DEF ControlInv, SteerQueueIsExact
  <2>4. /\ Len(pendingSteers) < SteerCapacity
        /\ steerEpoch' = steerEpoch + 1
        /\ appliedEpoch' = appliedEpoch
    BY DEF CommitSteerRequest
  <2>5. \A i \in 1 .. Len(pendingSteers') :
           pendingSteers'[i].epoch = appliedEpoch + i
    <3> SUFFICES ASSUME NEW i \in 1 .. Len(pendingSteers) + 1
                 PROVE  pendingSteers'[i].epoch = appliedEpoch + i
      BY <2>2
    <3>1. CASE i \in 1 .. Len(pendingSteers)
      BY <2>2, <2>3, <3>1
    <3>2. CASE i = Len(pendingSteers) + 1
      <4>1. pendingSteers'[i].epoch = steerEpoch + 1
        BY <2>2, <3>2
      <4>2. steerEpoch + 1 = appliedEpoch + i
        BY <2>1, <2>3, <3>2 DEF TypeOK
      <4> QED
        BY <4>1, <4>2
    <3> QED
      BY <2>1, <3>1, <3>2
  <2> QED
    BY <2>1, <2>2, <2>3, <2>4, <2>5, ControlConstants
       DEF TypeOK, SteerQueueIsExact
<1>7. TerminalAgrees' /\ TerminalEndsTheLog'
  BY <1>1, <1>2, <1>3
     DEF TerminalAgrees, TerminalEndsTheLog, CommitSteerRequest, Terminal
<1>8. \A i \in 1 .. n : AppliedAfter(i) => AppliedAfter(i)'
  BY <1>1, <1>2 DEF AppliedAfter, n
<1>9. appliedEpoch <= steerEpoch
  <2>1. Len(pendingSteers) \in Nat
    BY LenProperties DEF TypeOK
  <2> QED
    BY <2>1 DEF TypeOK, ControlInv, SteerQueueIsExact
<1>10. SteersAreAccounted'
  <2> SUFFICES ASSUME NEW i \in 1 .. n + 1, log'[i].kind = "steer"
               PROVE  /\ log'[i].epoch <= steerEpoch + 1
                      /\ log'[i].epoch <= appliedEpoch => AppliedAfter(i)'
    BY <1>1 DEF SteersAreAccounted, CommitSteerRequest
  <2>1. CASE i \in 1 .. n
    <3>1. log[i] \in LogEntry /\ log'[i] = log[i]
      BY <1>1, <1>4, <2>1
    <3>2. /\ log[i].epoch <= steerEpoch
          /\ log[i].epoch <= appliedEpoch => AppliedAfter(i)
      BY <2>1, <3>1 DEF ControlInv, SteersAreAccounted, n
    <3> QED
      BY <1>8, <2>1, <3>1, <3>2 DEF TypeOK, LogEntry
  <2>2. CASE i = n + 1
    BY <1>1, <1>9, <2>2 DEF TypeOK
  <2> QED
    BY <1>2, <2>1, <2>2
<1>11. CommittedWorkIsCurrent'
  BY <1>1, <1>2, NonWorkAppend DEF ControlInv, WorkKinds, n
<1> QED
  BY <1>5, <1>6, <1>7, <1>10, <1>11 DEF ControlInv

\* Applying the queue: the entry written covers every steer in the log.
LEMMA ApplyCommit ==
    ASSUME TypeOK, ControlInv, CommitPendingSteers
    PROVE  ControlInv'
<1> DEFINE n == Len(log)
<1>1. /\ pendingSteers[Len(pendingSteers)].epoch = steerEpoch
      /\ appliedEpoch' = steerEpoch
      /\ Persist("apply", steerEpoch)
  BY NewestPending
     DEF TypeOK, ControlInv, SteerQueueIsExact, CommitPendingSteers
<1>2. /\ log' \in Seq(LogEntry)
      /\ Len(log') = n + 1
      /\ \A i \in 1 .. n : log'[i] = log[i]
      /\ log'[n + 1].kind = "apply"
      /\ log'[n + 1].epoch = steerEpoch
  BY <1>1, PersistAppends DEF TypeOK, CommitKinds
<1>3. n \in Nat
  BY LenProperties DEF TypeOK
<1>4. \A i \in 1 .. n : log[i].kind # "terminal"
  BY DEF ControlInv, TerminalAgrees, CommitPendingSteers
<1>5. \A i \in 1 .. n : log[i].kind = "steer" => log[i].epoch <= steerEpoch
  BY DEF ControlInv, SteersAreAccounted
<1>6. \A i \in 1 .. n : log[i] \in LogEntry
  BY ElementOfSeq DEF TypeOK
<1> HIDE DEF n
<1>7. CancelIsVisible' /\ ResultsMatchObjective'
  BY DEF ControlInv, CancelIsVisible, Running, ResultsMatchObjective,
         CommitPendingSteers
<1>8. SteerQueueIsExact'
  BY <1>1, EmptySeq, ControlConstants
     DEF TypeOK, SteerQueueIsExact, CommitPendingSteers
<1>9. TerminalAgrees' /\ TerminalEndsTheLog'
  BY <1>2, <1>3, <1>4
     DEF TerminalAgrees, TerminalEndsTheLog, CommitPendingSteers, Terminal
<1>10. \A i \in 1 .. n : log[i].kind = "steer" => AppliedAfter(i)'
  BY <1>2, <1>3, <1>5, <1>6 DEF AppliedAfter, TypeOK, LogEntry
<1>11. SteersAreAccounted'
  BY <1>2, <1>3, <1>5, <1>10 DEF SteersAreAccounted, CommitPendingSteers
<1>12. CommittedWorkIsCurrent'
  BY <1>2, <1>3, NonWorkAppend DEF ControlInv, WorkKinds, n
<1> QED
  BY <1>7, <1>8, <1>9, <1>11, <1>12 DEF ControlInv

\* ControlInv is preserved by every handler.
LEMMA ControlStep ==
    TypeOK /\ ControlInv /\ [Next]_controlVars => ControlInv'
<1> SUFFICES ASSUME TypeOK, ControlInv, [Next]_controlVars PROVE ControlInv'
  OBVIOUS
<1>1. CASE RequestCancel
  <2>1. UNCHANGED <<steerEpoch, appliedEpoch, pendingSteers, log>>
        /\ Terminal' = Terminal
    BY <1>1 DEF RequestCancel, Terminal
  <2>2. CancelIsVisible' /\ ResultsMatchObjective'
    BY <1>1 DEF RequestCancel, ControlInv, CancelIsVisible, Running, NoStop,
                ResultsMatchObjective
  <2> QED
    BY <2>1, <2>2, QuietLog DEF ControlInv
<1>2. ASSUME NEW reason \in StopReasons, SetStopReason(reason)
      PROVE  ControlInv'
  <2>1. UNCHANGED <<steerEpoch, appliedEpoch, pendingSteers, log>>
        /\ Terminal' = Terminal
    BY <1>2 DEF SetStopReason, Terminal
  <2>2. CancelIsVisible' /\ ResultsMatchObjective'
    BY <1>2 DEF SetStopReason, ControlInv, CancelIsVisible, Running, NoStop,
                ResultsMatchObjective, StopReasons, RequestedReasons,
                MeterReasons, ClockReasons
  <2> QED
    BY <2>1, <2>2, QuietLog DEF ControlInv
<1>3. CASE CommitStartCheckpoint
  BY <1>3, StartCommit
<1>4. CASE BeginPreparation
  <2>1. UNCHANGED <<steerEpoch, appliedEpoch, pendingSteers, log>>
        /\ Terminal' = Terminal
    BY <1>4 DEF BeginPreparation, Terminal
  <2>2. CancelIsVisible' /\ ResultsMatchObjective'
    BY <1>4 DEF BeginPreparation, ControlInv, CancelIsVisible, Running,
                ResultsMatchObjective
  <2> QED
    BY <2>1, <2>2, QuietLog DEF ControlInv
<1>5. ASSUME NEW e \in SampledEpochs, NEW kind \in WorkKinds,
             Running, ~Terminal, EpochIsCurrent(e), Persist(kind, e),
             Terminal' <=> kind = "terminal",
             UNCHANGED <<stopReason, userCancelled, steerEpoch, appliedEpoch,
                         pendingSteers, partialOutput, results>>
      PROVE  ControlInv'
  <2>1. e \in Nat
    BY DEF SampledEpochs, TypeOK
  <2>2. CancelIsVisible' /\ ResultsMatchObjective'
    BY <1>5 DEF ControlInv, CancelIsVisible, Running, ResultsMatchObjective
  <2> QED
    BY <1>5, <2>1, <2>2, WorkCommit DEF ControlInv
<1>6. ASSUME NEW e \in SampledEpochs, CommitPreparationCheckpoint(e)
      PROVE  ControlInv'
  BY <1>5, <1>6 DEF CommitPreparationCheckpoint, Terminal, WorkKinds
<1>7. ASSUME NEW e \in SampledEpochs, CommitPreparation(e) PROVE ControlInv'
  BY <1>5, <1>7 DEF CommitPreparation, Terminal, WorkKinds
<1>8. ASSUME NEW e \in SampledEpochs, CommitPreparationTerminal(e)
      PROVE  ControlInv'
  BY <1>5, <1>8 DEF CommitPreparationTerminal, Terminal, WorkKinds
<1>9. ASSUME NEW id \in Steers, CommitSteerRequest(id) PROVE ControlInv'
  BY <1>9, SteerCommit
<1>10. CASE CommitPendingSteers
  BY <1>10, ApplyCommit
<1>11. ASSUME NEW e \in SampledEpochs, CommitExecutionStep(e)
       PROVE  ControlInv'
  BY <1>5, <1>11 DEF CommitExecutionStep, Terminal, WorkKinds
<1>12. ASSUME NEW e \in SampledEpochs, CommitTerminalResult(e)
       PROVE  ControlInv'
  BY <1>5, <1>12 DEF CommitTerminalResult, Terminal, WorkKinds
<1>13. ASSUME NEW e \in SampledEpochs,
              RecordPartialOutput(e) \/ RecordBestKnownResult(e)
       PROVE  ControlInv'
  <2>1. UNCHANGED <<steerEpoch, appliedEpoch, pendingSteers, log>>
        /\ Terminal' = Terminal
    BY <1>13 DEF RecordPartialOutput, RecordBestKnownResult, Terminal
  <2>2. CancelIsVisible'
    BY <1>13 DEF RecordPartialOutput, RecordBestKnownResult, ControlInv,
                 CancelIsVisible, Running
  <2>3. ResultsMatchObjective'
    BY <1>13 DEF RecordPartialOutput, RecordBestKnownResult, ControlInv,
                 ResultsMatchObjective, ObjectiveEpochMatches, EpochIsCurrent
  <2> QED
    BY <2>1, <2>2, <2>3, QuietLog DEF ControlInv
<1>14. CASE ContinueStoppedRun
  <2>1. UNCHANGED <<steerEpoch, appliedEpoch, pendingSteers, log>>
        /\ Terminal' = Terminal
    BY <1>14 DEF ContinueStoppedRun, Terminal
  <2>2. CancelIsVisible' /\ ResultsMatchObjective'
    BY <1>14 DEF ContinueStoppedRun, ControlInv, CancelIsVisible,
                 ResultsMatchObjective
  <2> QED
    BY <2>1, <2>2, QuietLog DEF ControlInv
<1>15. CASE UNCHANGED controlVars
  <2>1. UNCHANGED <<steerEpoch, appliedEpoch, pendingSteers, log>>
        /\ Terminal' = Terminal
    BY <1>15 DEF controlVars, Terminal
  <2>2. CancelIsVisible' /\ ResultsMatchObjective'
    BY <1>15 DEF controlVars, ControlInv, CancelIsVisible, Running,
                 ResultsMatchObjective
  <2> QED
    BY <2>1, <2>2, QuietLog DEF ControlInv
<1> QED
  BY <1>1, <1>2, <1>3, <1>4, <1>6, <1>7, <1>8, <1>9, <1>10, <1>11, <1>12,
     <1>13, <1>14, <1>15
     DEF Next, RequestStop, RefreshStopReason, MeterStop, StopReasons,
         RequestedReasons

\* ControlInv holds when a control is created (with_budget_at_steer_epoch).
LEMMA ControlInit == Init => ControlInv
<1> SUFFICES ASSUME Init PROVE ControlInv
  OBVIOUS
<1>1. Len(log) = 0 /\ Len(pendingSteers) = 0
  BY EmptySeq DEF Init
<1>2. CancelIsVisible /\ ResultsMatchObjective
  BY DEF Init, CancelIsVisible, ResultsMatchObjective
<1>3. SteerQueueIsExact
  BY <1>1, ControlConstants DEF Init, SteerQueueIsExact
<1>4. TerminalAgrees /\ TerminalEndsTheLog
  BY <1>1 DEF Init, TerminalAgrees, TerminalEndsTheLog, Terminal
<1>5. SteersAreAccounted /\ CommittedWorkIsCurrent
  BY <1>1 DEF SteersAreAccounted, CommittedWorkIsCurrent
<1> QED
  BY <1>2, <1>3, <1>4, <1>5 DEF ControlInv

\* The inductive invariant is an invariant of RunControl.
THEOREM ControlInvariant == Spec => []ControlInv
  BY ControlInit, TypeCorrect, ControlStep, PTL DEF Spec

\* For every queue capacity and every interleaving of callers with arbitrarily
\* stale epochs, work written to the durable log after a steer is work for
\* that steer or a newer one, applied in between.
THEOREM CommittedWorkIsAlwaysCurrent == Spec => []CommittedWorkIsCurrent
<1>1. ControlInv => CommittedWorkIsCurrent
  BY DEF ControlInv
<1> QED
  BY <1>1, ControlInvariant, PTL

\* Nothing is written after a terminal commit, in particular no second one.
THEOREM TerminalAlwaysEndsTheLog == Spec => []TerminalEndsTheLog
<1>1. ControlInv => TerminalEndsTheLog
  BY DEF ControlInv
<1> QED
  BY <1>1, ControlInvariant, PTL

\* No accepted steer is skipped or applied twice.
THEOREM SteerQueueIsAlwaysExact == Spec => []SteerQueueIsExact
<1>1. ControlInv => SteerQueueIsExact
  BY DEF ControlInv
<1> QED
  BY <1>1, ControlInvariant, PTL

\* No result or streamed text of an older objective survives a steer.
THEOREM ResultsAlwaysMatchObjective == Spec => []ResultsMatchObjective
<1>1. ControlInv => ResultsMatchObjective
  BY DEF ControlInv
<1> QED
  BY <1>1, ControlInvariant, PTL

\* A stop reason is never replaced and nothing durable happens while it
\* stands; only a retry lifts it, and never a cancellation.
THEOREM StopIsAlwaysFinal == Spec => StopIsFinal
<1> DEFINE FinalStep ==
      ~Running =>
          \/ UNCHANGED <<stopReason, phase, pendingSteers, appliedEpoch, log>>
          \/ /\ stopReason # "UserCancelled"
             /\ stopReason' = NoStop
             /\ userCancelled' = FALSE
             /\ UNCHANGED <<pendingSteers, appliedEpoch, log>>
<1>1. ASSUME [Next]_controlVars PROVE [FinalStep]_controlVars
  <2> SUFFICES ASSUME Next, ~Running PROVE FinalStep
    BY <1>1
  <2>1. CASE RequestCancel
    BY <2>1 DEF RequestCancel
  <2>2. CASE \E e \in SampledEpochs :
                RecordPartialOutput(e) \/ RecordBestKnownResult(e)
    BY <2>2 DEF RecordPartialOutput, RecordBestKnownResult
  <2>3. CASE ContinueStoppedRun
    BY <2>3 DEF ContinueStoppedRun
  <2> QED
    BY <2>1, <2>2, <2>3
       DEF Next, RequestStop, RefreshStopReason, MeterStop,
           CommitStartCheckpoint, BeginPreparation,
           CommitPreparationCheckpoint, CommitPreparation,
           CommitPreparationTerminal, CommitSteerRequest,
           CommitPendingSteers, CommitExecutionStep, CommitTerminalResult
<1>2. Spec => [][FinalStep]_controlVars
  BY <1>1, PTL DEF Spec
<1> QED
  BY <1>2 DEF StopIsFinal

(***************************************************************************)
(* RunControl implements SteeringPromise.                                  *)
(***************************************************************************)

\* The objective a run has answered is read off its phase.
LEMMA AnsweredByPhase ==
    ASSUME TypeOK, ControlInv
    PROVE  answered = IF Terminal THEN {steerEpoch} ELSE {}
  BY DEF ControlInv, TerminalAgrees, answered

\* Every handler is a step of the promise or leaves it alone.
LEMMA PromiseStep ==
    ASSUME TypeOK, ControlInv, TypeOK', ControlInv', [Next]_controlVars
    PROVE  [Promise!PromiseNext]_(Promise!promiseVars)
<1> USE DEF Promise!PromiseNext, Promise!promiseVars
<1>1. answered = IF Terminal THEN {steerEpoch} ELSE {}
  BY AnsweredByPhase
<1>2. answered' = IF Terminal' THEN {steerEpoch'} ELSE {}
  BY DEF ControlInv, TerminalAgrees, answered
<1>3. ASSUME UNCHANGED <<phase, steerEpoch, appliedEpoch>>
      PROVE  UNCHANGED <<steerEpoch, appliedEpoch, answered>>
  BY <1>1, <1>2, <1>3 DEF Terminal
<1>4. CASE \E id \in Steers : CommitSteerRequest(id)
  BY <1>1, <1>2, <1>4 DEF CommitSteerRequest, Terminal, Promise!Accept
<1>5. CASE CommitPendingSteers
  <2>1. appliedEpoch' = steerEpoch /\ appliedEpoch # steerEpoch
    BY <1>5, NewestPending
       DEF CommitPendingSteers, TypeOK, ControlInv, SteerQueueIsExact
  <2> QED
    BY <1>1, <1>2, <1>5, <2>1 DEF CommitPendingSteers, Terminal, Promise!Apply
<1>6. CASE \E e \in SampledEpochs :
              CommitPreparationTerminal(e) \/ CommitTerminalResult(e)
  BY <1>1, <1>2, <1>6
     DEF CommitPreparationTerminal, CommitTerminalResult, EpochIsCurrent,
         Terminal, Promise!Answer
<1>7. CASE BeginPreparation \/ ContinueStoppedRun
           \/ \E e \in SampledEpochs : CommitPreparation(e)
  BY <1>1, <1>2, <1>7
     DEF BeginPreparation, ContinueStoppedRun, CommitPreparation, Terminal
<1>8. CASE \/ RequestCancel
           \/ \E reason \in StopReasons : SetStopReason(reason)
           \/ CommitStartCheckpoint
           \/ \E e \in SampledEpochs : \/ CommitPreparationCheckpoint(e)
                                       \/ CommitExecutionStep(e)
                                       \/ RecordPartialOutput(e)
                                       \/ RecordBestKnownResult(e)
           \/ UNCHANGED controlVars
  <2>1. UNCHANGED <<phase, steerEpoch, appliedEpoch>>
    BY <1>8 DEF RequestCancel, SetStopReason, CommitStartCheckpoint,
                CommitPreparationCheckpoint, CommitExecutionStep,
                RecordPartialOutput, RecordBestKnownResult, controlVars
  <2> QED
    BY <1>3, <2>1
<1> QED
  BY <1>4, <1>5, <1>6, <1>7, <1>8
     DEF Next, RequestStop, RefreshStopReason, MeterStop, StopReasons,
         RequestedReasons

\* AgentRunControl keeps the steering promise: its one terminal answer is an
\* answer to the newest guidance it accepted, all of which was applied, and it
\* accepts no guidance afterwards.
THEOREM KeepsSteeringPromise == Spec => ImplementsPromise
<1>1. Init => Promise!PromiseInit
  <2> SUFFICES ASSUME Init PROVE Promise!PromiseInit
    OBVIOUS
  <2>1. Len(log) = 0
    BY EmptySeq DEF Init
  <2>2. answered = {}
    BY <2>1 DEF answered
  <2> QED
    BY <2>2 DEF Init, Promise!PromiseInit
<1>2. TypeOK /\ ControlInv /\ TypeOK' /\ ControlInv' /\ [Next]_controlVars
        => [Promise!PromiseNext]_(Promise!promiseVars)
  BY PromiseStep
<1> QED
  BY <1>1, <1>2, TypeCorrect, ControlInvariant, PTL
     DEF Spec, ImplementsPromise, Promise!PromiseSpec

-----------------------------------------------------------------------------
(***************************************************************************)
(* PermissionResume, for every set of requests and every number of         *)
(* retries, crashes and store failures.  None of the three                  *)
(* properties is inductive.                                                *)
(*                                                                         *)
(*   OnceInv    a tool runs once because whoever is about to run it knows  *)
(*              that it has not run: the loop under review or with a       *)
(*              subagent, the command between its answer and the run.      *)
(*   MoveInv    status, checkpoint, restart mark and owner agree, so that  *)
(*              a run nobody works on is left where someone finds it.      *)
(*   DenialInv  each place a run may go on from - the suspended run, the   *)
(*              snapshot, the checkpoint, the command that carries one of  *)
(*              them - gives the denials, and what a checkpoint calls seen *)
(*              was in the log when it was saved, so that the replay adds  *)
(*              what it lacks.                                             *)
(***************************************************************************)

\* What the user may answer.
Deciding == {"allow", "session", "deny"}

\* A request that nobody answered is not saved, or waits for an answer; its
\* tool has not run unless it has a finished event.
UnansweredIsUnrun ==
  \A r \in Requests :
    /\ asked[r] <= task.attempt
    /\ asked[r] = 0 => ruling[r] = "none"
    /\ asked[r] = 0 /\ r \in ChildRequests => ran[r] = 0
    /\ ruling[r] = "none" /\ r \notin finished => ran[r] = 0
    /\ r \in noted => ruling[r] # "none"

\* What the loop is about to run has not run: the call under review is saved
\* and unanswered, and the subagent's call waits for its own answer.
LoopIsAhead ==
  /\ loop.at = "review" =>
       /\ loop.request \in PendingOf(task.attempt) \ ChildRequests
       /\ loop.request \notin finished
  /\ loop.at = "child" =>
       loop.request \in ChildRequests /\ ran[loop.request] = 0

\* What the answering command is about to run has not run either: it rules on
\* an unanswered request of the newest attempt, and so are the siblings that a
\* grant for the session still has to answer.
ResolverIsAhead ==
  /\ resolver.rest \subseteq PendingOf(task.attempt) \cap Grantable
  /\ resolver.at = "idle" => resolver.rest = {}
  /\ resolver.at # "idle" => resolver.decision \in Deciding
  /\ resolver.decision = "deny" => resolver.rest = {}
  /\ resolver.at = "rule" =>
       /\ resolver.request \in PendingOf(task.attempt) \ ChildRequests
       /\ resolver.request \notin resolver.rest
  /\ resolver.at \in {"run", "finish", "note"} =>
       /\ resolver.request \in Requests \ resolver.rest
       /\ ruling[resolver.request] = resolver.decision
       /\ resolver.decision # "deny"
  /\ resolver.at = "run" =>
       resolver.request \in finished \/ ran[resolver.request] = 0
  /\ resolver.at = "note" => resolver.request \in finished
  /\ resolver.at \in {"take", "restore", "claim hot", "claim cold"} =>
       PendingOf(task.attempt) \ ChildRequests = {}

\* ApprovedRunsOnce without its type part.
RanOnceAllowed ==
  \A r \in Requests :
    /\ ran[r] <= 1
    /\ ran[r] = 1 => ruling[r] \in {"allow", "session"} \/ r \in vetted \/ Granted(r)

Ahead == UnansweredIsUnrun /\ LoopIsAhead /\ ResolverIsAhead /\ RanOnceAllowed

OnceInv == PermissionTypeOK /\ Ahead

\* Status, checkpoint, restart mark and owner of the newest attempt agree.
StatusAgrees ==
  /\ task.status = "waiting" =>
       /\ envelope # NoCheckpoint /\ envelope.state = "blocked"
       /\ ~task.terminal /\ task.open /\ owner # "loop"
  /\ task.status = "paused" =>
       /\ envelope # NoCheckpoint /\ envelope.state = "paused"
       /\ ~task.terminal /\ owner # "loop"
  /\ task.status = "running" =>
       /\ owner # "loop" => task.terminal
       /\ ~task.terminal => task.open
       /\ task.terminal => PendingOf(task.attempt) \ ChildRequests = {}
  /\ task.status = "ended" => task.terminal
  /\ task.open => ~task.terminal
  /\ task.waitIsLast => task.status = "waiting" /\ PendingOf(task.attempt) # {}
  /\ owner # "none" => cancelRaised = task.terminal
  /\ owner = "loop" /\ loop.waiting => PendingOf(task.attempt) \ ChildRequests # {}

\* Someone can move a waiting session on.
Movable ==
  owner = "none" /\ task.status = "waiting" =>
    \/ PendingInSession # {}
    \/ \E r \in ChildRequests : asked[r] = task.attempt /\ ruling[r] # "none"

MoveInv == OnceInv /\ StatusAgrees /\ Movable

\* The denials a run that goes on must hold.
Kept == DueDenials \ forgotten

\* What a checkpoint gives when the denials since are replayed onto it.
Replayed(saved) == saved.knows \cup (NotedHere \ saved.seen)

\* What a saved state calls seen was in the log; the snapshot of an attempt is
\* no older than its checkpoint, and a loop past its first turn has a snapshot
\* of everything noted.  An attempt without a checkpoint has no answer yet.
SavedIsSeen ==
  /\ envelope # NoCheckpoint => envelope.seen \subseteq noted
  /\ snapshot # NoCheckpoint =>
       snapshot.seen \subseteq noted /\ snapshot.attempt <= task.attempt
  /\ envelope # NoCheckpoint /\ SnapshotMatches => envelope.seen \subseteq snapshot.seen
  /\ owner = "loop" /\ loop.at # "model" /\ ~cancelRaised =>
       SnapshotMatches /\ snapshot.seen = noted
  /\ envelope = NoCheckpoint /\ ~task.terminal =>
       \A r \in Requests \ ChildRequests : asked[r] = task.attempt => ruling[r] = "none"
  /\ origin <= task.attempt

\* The suspended run holds the denials, but for one the command has written
\* and not applied yet.
HotKnows ==
  suspended # NoRun =>
    IF resolver.at \in {"list", "next"} /\ resolver.decision = "deny"
    THEN Kept \ resolver.done \subseteq suspended
    ELSE Kept \subseteq suspended

\* A paused checkpoint holds them as it is, any other one and the snapshot when
\* the observations since are replayed.
ColdKnows ==
  ~task.terminal =>
    /\ envelope # NoCheckpoint =>
         IF envelope.state = "paused" THEN Kept \subseteq envelope.knows
         ELSE Kept \subseteq Replayed(envelope)
    /\ SnapshotMatches => Kept \subseteq Replayed(snapshot)

\* So does what the command has taken to go on with.
ResolverKnows ==
  /\ resolver.at = "take" => task.terminal \/ Kept \subseteq Replayed(resolver.base)
  /\ resolver.at \in {"restore", "claim cold"} => task.terminal \/ Kept \subseteq resolver.knows
  /\ resolver.at = "claim hot" => Kept \subseteq resolver.knows

DenialInv ==
  /\ MoveInv /\ SavedIsSeen /\ HotKnows /\ ColdKnows /\ ResolverKnows
  /\ DenialIsRemembered
-----------------------------------------------------------------------------
(***************************************************************************)
(* What the updates of the loop's record, of the answering command's and   *)
(* of the durable status do, one lemma for each form they take.            *)
(***************************************************************************)
LEMMA LoopFields ==
  ASSUME loop \in Loops
  PROVE  /\ loop.knows \subseteq Requests /\ loop.waiting \in BOOLEAN
         /\ loop.request \in Requests \cup {NoRequest}
  BY DEF Loops

\* A loop at rest.
LEMMA LoopIdle == IdleLoop \in Loops /\ IdleLoop.at = "idle" /\ IdleLoop.waiting = FALSE
  BY DEF Loops, IdleLoop

\* A loop that begins asks the model.
LEMMA LoopBegins ==
  ASSUME NEW k \in SUBSET Requests
  PROVE  /\ LoopFrom(k) \in Loops /\ LoopFrom(k).at = "model"
         /\ LoopFrom(k).knows = k /\ LoopFrom(k).waiting = FALSE
  BY DEF Loops, IdleLoop, LoopFrom

\* TakeTurn.
LEMMA LoopTurns ==
  ASSUME loop \in Loops, NEW l, l = [loop EXCEPT !.at = "batch", !.waiting = FALSE]
  PROVE  /\ l \in Loops /\ l.at = "batch"
         /\ l.waiting = FALSE /\ l.knows = loop.knows
  BY DEF Loops

\* Ask and AskChild.
LEMMA LoopAsks ==
  ASSUME loop \in Loops, NEW r \in Requests, NEW a \in {"review", "child"},
         NEW l, l = [loop EXCEPT !.at = a, !.request = r]
  PROVE  /\ l \in Loops /\ l.at = a /\ l.request = r
         /\ l.waiting = loop.waiting /\ l.knows = loop.knows
  BY DEF Loops

\* GuardianAllows and ChildGoesOn.
LEMMA LoopReturns ==
  ASSUME loop \in Loops, NEW l, l = [loop EXCEPT !.at = "batch", !.request = NoRequest]
  PROVE  /\ l \in Loops /\ l.at = "batch"
         /\ l.waiting = loop.waiting /\ l.knows = loop.knows
  BY DEF Loops

\* GuardianDefers.
LEMMA LoopDefers ==
  ASSUME loop \in Loops, NEW l,
         l = [loop EXCEPT !.at = "batch", !.request = NoRequest, !.waiting = TRUE]
  PROVE  /\ l \in Loops /\ l.at = "batch"
         /\ l.waiting = TRUE /\ l.knows = loop.knows
  BY DEF Loops

\* EndBatch.
LEMMA LoopEndsBatch ==
  ASSUME loop \in Loops, NEW l, l = [loop EXCEPT !.at = "model"]
  PROVE  /\ l \in Loops /\ l.at = "model"
         /\ l.waiting = loop.waiting /\ l.knows = loop.knows
  BY DEF Loops

\* The fields of the answering command.
LEMMA ResolverFields ==
  ASSUME resolver \in Resolvers
  PROVE  /\ resolver.request \in Requests \cup {NoRequest} /\ resolver.decision \in Answers
         /\ resolver.rest \subseteq Requests /\ resolver.done \subseteq Requests
         /\ resolver.knows \subseteq Requests /\ resolver.keyed \in BOOLEAN
         /\ resolver.base.knows \subseteq Requests /\ resolver.base.seen \subseteq Requests
  BY DEF Resolvers

\* No command at work.
LEMMA ResolverIdle ==
  /\ IdleResolver \in Resolvers /\ IdleResolver.at = "idle" /\ IdleResolver.rest = {}
  /\ IdleResolver.decision = "none"
  BY DEF IdleResolver, NoState, Resolvers, Answers

\* BeginAnswer.
LEMMA ResolverBegins ==
  ASSUME NEW r \in Requests, NEW d \in Deciding, NEW q,
         q = [IdleResolver EXCEPT !.at = "rule", !.request = r, !.decision = d]
  PROVE  /\ q \in Resolvers /\ q.at = "rule" /\ q.request = r /\ q.decision = d
         /\ q.rest = {} /\ q.done = {}
  BY DEF IdleResolver, NoState, Resolvers, Answers, Deciding

\* Steps of the command that only move it on.
LEMMA ResolverMoves ==
  ASSUME resolver \in Resolvers,
         NEW a \in {"run", "finish", "note", "check", "claim cold"},
         NEW q, q = [resolver EXCEPT !.at = a]
  PROVE  /\ q \in Resolvers /\ q.at = a /\ q.request = resolver.request
         /\ q.decision = resolver.decision /\ q.rest = resolver.rest
         /\ q.done = resolver.done /\ q.knows = resolver.knows
         /\ q.base = resolver.base
  BY DEF Resolvers

\* Note.
LEMMA ResolverNotes ==
  ASSUME resolver \in Resolvers, NEW r \in Requests,
         NEW q, q = [resolver EXCEPT !.at = "list", !.done = @ \cup {r}]
  PROVE  /\ q \in Resolvers /\ q.at = "list" /\ q.done = resolver.done \cup {r}
         /\ q.decision = resolver.decision /\ q.rest = resolver.rest
  BY DEF Resolvers

\* ListSiblings.
LEMMA ResolverLists ==
  ASSUME resolver \in Resolvers, NEW s \in SUBSET Requests,
         NEW q, q = [resolver EXCEPT !.at = "next", !.listed = TRUE, !.rest = s]
  PROVE  /\ q \in Resolvers /\ q.at = "next" /\ q.rest = s
         /\ q.decision = resolver.decision /\ q.done = resolver.done
  BY DEF Resolvers

\* AnswerSibling.
LEMMA ResolverRules ==
  ASSUME resolver \in Resolvers, NEW r \in Requests,
         NEW q, q = [resolver EXCEPT !.at = "rule", !.request = r, !.rest = @ \ {r}]
  PROVE  /\ q \in Resolvers /\ q.at = "rule" /\ q.request = r
         /\ q.rest = resolver.rest \ {r} /\ q.decision = resolver.decision
  BY DEF Resolvers

\* CheckPending, when the run goes on.
LEMMA ResolverTakes ==
  ASSUME resolver \in Resolvers, NEW k \in BOOLEAN,
         NEW b \in [knows : SUBSET Requests, seen : SUBSET Requests],
         NEW q, q = [resolver EXCEPT !.at = "take", !.keyed = k, !.base = b]
  PROVE  /\ q \in Resolvers /\ q.at = "take" /\ q.base = b
         /\ q.decision = resolver.decision /\ q.rest = resolver.rest
  BY DEF Resolvers

\* TakeSuspended.
LEMMA ResolverHolds ==
  ASSUME resolver \in Resolvers, NEW a \in {"claim hot", "restore"},
         NEW k \in SUBSET Requests,
         NEW q, q = [resolver EXCEPT !.at = a, !.knows = k]
  PROVE  /\ q \in Resolvers /\ q.at = a /\ q.knows = k
         /\ q.decision = resolver.decision /\ q.rest = resolver.rest
  BY DEF Resolvers

\* The fields of the durable status.
LEMMA TaskFields ==
  ASSUME task \in TaskRecords
  PROVE  /\ task.attempt \in 1..MaxAttempts
         /\ task.status \in {"running", "waiting", "paused", "ended"}
         /\ task.terminal \in BOOLEAN /\ task.open \in BOOLEAN
         /\ task.waitIsLast \in BOOLEAN /\ task.keyed \in BOOLEAN
  BY DEF TaskRecords

\* Park.
LEMMA TaskWaits ==
  ASSUME task \in TaskRecords,
         NEW k, k = [task EXCEPT !.status = "waiting", !.waitIsLast = TRUE]
  PROVE  /\ k \in TaskRecords /\ k.attempt = task.attempt /\ k.status = "waiting"
         /\ k.terminal = task.terminal /\ k.open = task.open /\ k.waitIsLast = TRUE
  BY DEF TaskRecords

\* PauseLoop.
LEMMA TaskPauses ==
  ASSUME task \in TaskRecords, NEW k, k = [task EXCEPT !.status = "paused", !.open = FALSE]
  PROVE  /\ k \in TaskRecords /\ k.attempt = task.attempt /\ k.status = "paused"
         /\ k.terminal = task.terminal /\ k.open = FALSE
         /\ k.waitIsLast = task.waitIsLast
  BY DEF TaskRecords

\* Complete and CancelTask.
LEMMA TaskEnds ==
  ASSUME task \in TaskRecords
  PROVE  /\ EndedTask \in TaskRecords /\ EndedTask.attempt = task.attempt
         /\ EndedTask.status = "ended" /\ EndedTask.terminal = TRUE
         /\ EndedTask.open = FALSE /\ EndedTask.waitIsLast = FALSE
  BY DEF TaskRecords, EndedTask

\* Rule and ResolveInPlace.
LEMMA TaskAnswered ==
  ASSUME task \in TaskRecords, NEW k, k = [task EXCEPT !.waitIsLast = FALSE]
  PROVE  /\ k \in TaskRecords /\ k.attempt = task.attempt /\ k.status = task.status
         /\ k.terminal = task.terminal /\ k.open = task.open /\ k.waitIsLast = FALSE
  BY DEF TaskRecords

\* Fail.
LEMMA TaskFails ==
  ASSUME task \in TaskRecords,
         NEW k, k = [task EXCEPT !.status = "paused", !.open = FALSE, !.waitIsLast = FALSE]
  PROVE  /\ k \in TaskRecords /\ k.attempt = task.attempt /\ k.status = "paused"
         /\ k.terminal = task.terminal /\ k.open = FALSE /\ k.waitIsLast = FALSE
  BY DEF TaskRecords

\* Claim.
LEMMA TaskResumes ==
  ASSUME task \in TaskRecords, NEW claims \in BOOLEAN,
         NEW k, k = [task EXCEPT !.status = "running", !.open = @ \/ claims,
                                 !.waitIsLast = FALSE, !.keyed = @ \/ claims]
  PROVE  /\ k \in TaskRecords /\ k.attempt = task.attempt /\ k.status = "running"
         /\ k.terminal = task.terminal /\ k.open = (task.open \/ claims)
         /\ k.waitIsLast = FALSE
  BY DEF TaskRecords

\* Restart.
LEMMA TaskReconciled ==
  ASSUME task \in TaskRecords, NEW s \in {"waiting", "paused"}, NEW w \in BOOLEAN,
         NEW k, k = [task EXCEPT !.status = s, !.open = w, !.waitIsLast = w]
  PROVE  /\ k \in TaskRecords /\ k.attempt = task.attempt /\ k.status = s
         /\ k.terminal = task.terminal /\ k.open = w /\ k.waitIsLast = w
  BY DEF TaskRecords

\* Checkpoints are made of what a task state knows and what the log held.
LEMMA SnapshotFacts ==
  ASSUME PermissionTypeOK, NEW k \in SUBSET Requests
  PROVE  /\ SnapshotOf(k) \in Snapshots /\ SnapshotOf(k) # NoCheckpoint
         /\ SnapshotOf(k).attempt = task.attempt /\ SnapshotOf(k).knows = k
         /\ SnapshotOf(k).seen = noted
  BY TaskFields, NoCheckpointAssumption DEF PermissionTypeOK, SnapshotOf, Snapshots

TaskStates == Snapshots \cup Envelopes \cup [knows : SUBSET Requests, seen : SUBSET Requests]

\* A checkpoint made from a task state.
LEMMA EnvelopeFacts ==
  ASSUME NEW s \in {"blocked", "resuming", "paused"}, NEW saved \in TaskStates
  PROVE  /\ EnvelopeOf(s, saved) \in Envelopes /\ EnvelopeOf(s, saved) # NoCheckpoint
         /\ EnvelopeOf(s, saved).state = s
         /\ EnvelopeOf(s, saved).knows = saved.knows
         /\ EnvelopeOf(s, saved).seen = saved.seen
<1>1. /\ EnvelopeOf(s, saved) \in Envelopes
      /\ EnvelopeOf(s, saved).state = s
      /\ EnvelopeOf(s, saved).knows = saved.knows
      /\ EnvelopeOf(s, saved).seen = saved.seen
  BY DEF EnvelopeOf, Snapshots, Envelopes, TaskStates
<1> QED
  BY <1>1, NoCheckpointAssumption

\* The checkpoint of a loop that leaves.
LEMMA LeavingFacts ==
  ASSUME PermissionTypeOK, NEW s \in {"blocked", "paused"}
  PROVE  LET e == EnvelopeOf(s, SnapshotOf(loop.knows))
         IN  /\ e \in Envelopes /\ e # NoCheckpoint /\ e.state = s
             /\ e.knows = loop.knows /\ e.seen = noted
<1>1. loop.knows \in SUBSET Requests
  BY LoopFields DEF PermissionTypeOK
<1> QED
  BY <1>1, SnapshotFacts, EnvelopeFacts DEF TaskStates

\* The checkpoint a failing command saves again, and when it does so.
FailSaved == IF SnapshotMatches THEN snapshot ELSE envelope
FailPauses == /\ envelope # NoCheckpoint /\ envelope.state \in {"blocked", "resuming"}
              /\ ~task.terminal /\ PendingInSession = {}

\* A command that fails gives the run control up, and leaves everything as it
\* is or the run paused.
LEMMA FailFacts ==
  ASSUME PermissionTypeOK, Fail
  PROVE  /\ owner' = "none" /\ resolver' = IdleResolver /\ UNCHANGED <<cancelRaised, loop>>
         /\ task' \in TaskRecords /\ task'.attempt = task.attempt
         /\ envelope' # NoCheckpoint => envelope' \in Envelopes
         /\ forgotten' \subseteq Requests /\ forgotten \subseteq forgotten'
         /\ ~FailPauses => UNCHANGED <<task, envelope, forgotten>>
         /\ FailPauses =>
              /\ task'.status = "paused" /\ task'.terminal = task.terminal
              /\ task'.open = FALSE /\ task'.waitIsLast = FALSE
              /\ envelope' # NoCheckpoint /\ envelope'.state = "paused"
              /\ FailSaved \in TaskStates
              /\ envelope'.knows = FailSaved.knows /\ envelope'.seen = FailSaved.seen
              /\ forgotten' = forgotten \cup
                   {r \in NotedHere \ FailSaved.seen : ruling[r] = "deny"}
<1>1. owner' = "none" /\ resolver' = IdleResolver /\ UNCHANGED <<cancelRaised, loop>>
  BY DEF Fail, LeaveResolver
<1>2. CASE ~FailPauses
  BY <1>1, <1>2 DEF Fail, FailPauses, PermissionTypeOK
<1>3. CASE FailPauses
  <2>1. FailSaved \in TaskStates
    BY <1>3 DEF TaskStates, FailPauses, FailSaved, SnapshotMatches, PermissionTypeOK
  <2>2. /\ envelope' = EnvelopeOf("paused", FailSaved)
        /\ task' = [task EXCEPT !.status = "paused", !.open = FALSE, !.waitIsLast = FALSE]
        /\ forgotten' = forgotten \cup
             {r \in NotedHere \ FailSaved.seen : ruling[r] = "deny"}
    BY <1>3 DEF Fail, FailPauses, FailSaved
  <2>3. NotedHere \subseteq Requests
    BY DEF NotedHere, PermissionTypeOK
  <2>4. task \in TaskRecords /\ forgotten \subseteq Requests
    BY DEF PermissionTypeOK
  <2>5. /\ envelope' \in Envelopes /\ envelope' # NoCheckpoint
        /\ envelope'.state = "paused"
        /\ envelope'.knows = FailSaved.knows /\ envelope'.seen = FailSaved.seen
    BY <2>1, <2>2, EnvelopeFacts
  <2>6. /\ task' \in TaskRecords /\ task'.attempt = task.attempt
        /\ task'.status = "paused" /\ task'.terminal = task.terminal
        /\ task'.open = FALSE /\ task'.waitIsLast = FALSE
    BY <2>2, <2>4, TaskFails
  <2> HIDE DEF FailSaved
  <2> QED
    BY <1>1, <1>3, <2>1, <2>2, <2>3, <2>4, <2>5, <2>6
<1> QED
  BY <1>2, <1>3

\* What a restart reconciles from: one of the saved task states.
LEMMA ReconciledFacts ==
  ASSUME PermissionTypeOK
  PROVE  ReconciledState \in TaskStates
<1> USE DEF PermissionTypeOK, TaskStates
<1> DEFINE denied == IF envelope = NoCheckpoint THEN {}
                     ELSE {r \in NotedHere \ envelope.seen : ruling[r] = "deny"}
<1>1. denied \subseteq Requests /\ noted \subseteq Requests
  BY DEF NotedHere
<1>2. CASE SnapshotMatches /\ denied \subseteq snapshot.knows
  BY <1>2 DEF ReconciledState, SnapshotMatches
<1>3. CASE ~(SnapshotMatches /\ denied \subseteq snapshot.knows) /\ envelope # NoCheckpoint
  <2>1. envelope.knows \subseteq Requests
    BY <1>3 DEF Envelopes
  <2> HIDE DEF denied
  <2>2. [knows |-> envelope.knows \cup denied, seen |-> noted]
          \in [knows : SUBSET Requests, seen : SUBSET Requests]
    BY <1>1, <2>1
  <2>3. ReconciledState = IF denied = {} THEN envelope
                          ELSE [knows |-> envelope.knows \cup denied, seen |-> noted]
    BY <1>3 DEF ReconciledState, denied
  <2> QED
    BY <1>3, <2>2, <2>3
<1>4. CASE ~(SnapshotMatches /\ denied \subseteq snapshot.knows) /\ envelope = NoCheckpoint
  BY <1>4 DEF ReconciledState, NoState
<1> QED
  BY <1>2, <1>3, <1>4

\* A restart leaves a settled task alone, forgets the snapshot of one that
\* waits, and reconciles any other.
LEMMA RestartFacts ==
  ASSUME PermissionTypeOK, Restart
  PROVE  /\ task' \in TaskRecords /\ task'.attempt = task.attempt
         /\ envelope' # NoCheckpoint => envelope' \in Envelopes
         /\ snapshot' # NoCheckpoint => snapshot' \in Snapshots /\ snapshot' = snapshot
         /\ forgotten' \subseteq Requests /\ forgotten \subseteq forgotten'
         /\ ~task.open => UNCHANGED <<task, envelope, snapshot, forgotten>>
         /\ task.open => snapshot' = NoCheckpoint
         /\ task.open /\ task.waitIsLast => UNCHANGED <<task, envelope, forgotten>>
         /\ task.open /\ ~task.waitIsLast =>
              /\ envelope' # NoCheckpoint
              /\ envelope'.knows = ReconciledState.knows
              /\ envelope'.seen = ReconciledState.seen
              /\ task'.terminal = task.terminal
              /\ IF PendingOf(task.attempt) # {}
                 THEN /\ envelope'.state = "blocked" /\ task'.status = "waiting"
                      /\ task'.open /\ task'.waitIsLast
                 ELSE /\ envelope'.state = "paused" /\ task'.status = "paused"
                      /\ ~task'.open /\ ~task'.waitIsLast
              /\ forgotten' = IF envelope = NoCheckpoint /\ ~SnapshotMatches
                              THEN forgotten \cup DueDenials ELSE forgotten
<1> USE DEF PermissionTypeOK
<1>1. CASE ~task.open
  BY <1>1, TaskFields DEF Restart
<1>2. CASE task.open /\ task.waitIsLast
  BY <1>2, TaskFields DEF Restart
<1>3. CASE task.open /\ ~task.waitIsLast
  <2> DEFINE waits == PendingOf(task.attempt) # {}
  <2>1. /\ envelope' = EnvelopeOf(IF waits THEN "blocked" ELSE "paused", ReconciledState)
        /\ task' = [task EXCEPT !.status = IF waits THEN "waiting" ELSE "paused",
                                !.open = waits, !.waitIsLast = waits]
        /\ snapshot' = NoCheckpoint
        /\ forgotten' = IF envelope = NoCheckpoint /\ ~SnapshotMatches
                        THEN forgotten \cup DueDenials ELSE forgotten
    BY <1>3, Zenon DEF Restart
  <2>2. waits \in BOOLEAN
    OBVIOUS
  <2> HIDE DEF waits
  <2>3. /\ envelope' # NoCheckpoint /\ envelope' \in Envelopes
        /\ envelope'.knows = ReconciledState.knows
        /\ envelope'.seen = ReconciledState.seen
        /\ envelope'.state = IF waits THEN "blocked" ELSE "paused"
    BY <2>1, <2>2, ReconciledFacts, EnvelopeFacts
  <2>4. /\ task' \in TaskRecords /\ task'.attempt = task.attempt
        /\ task'.terminal = task.terminal
        /\ task'.status = IF waits THEN "waiting" ELSE "paused"
        /\ task'.open = waits /\ task'.waitIsLast = waits
    BY <2>1, <2>2 DEF TaskRecords
  <2>5. DueDenials \subseteq Requests
    BY DEF DueDenials
  <2> QED
    BY <1>3, <2>1, <2>3, <2>4, <2>5 DEF waits
<1> QED
  BY <1>1, <1>2, <1>3

\* Every handler keeps every variable in its range.
LEMMA PermissionTypeStep ==
  PermissionTypeOK /\ LoopIsAhead /\ ResolverIsAhead /\ [PermissionNext]_permissionVars =>
    PermissionTypeOK'
<1> SUFFICES ASSUME PermissionTypeOK, LoopIsAhead, ResolverIsAhead,
                    [PermissionNext]_permissionVars
             PROVE  PermissionTypeOK'
  OBVIOUS
<1> USE DEF PermissionTypeOK, permissionLog, permissionMemory, permissionHistory
<1>1. CASE TakeTurn
  BY <1>1, LoopTurns, LoopFields, SnapshotFacts DEF TakeTurn, LoopAt, LeaveLoop
<1>2. CASE GuardianAllows
  <2>1. loop.request \in Requests /\ loop \in Loops
    BY <1>2 DEF GuardianAllows, LoopAt, LoopIsAhead, PendingOf
  <2>2. loop' \in Loops /\ loop'.at = "batch"
    BY <1>2, LoopReturns DEF GuardianAllows
  <2>3. snapshot' # NoCheckpoint => snapshot' \in Snapshots
    BY <1>2, LoopFields, SnapshotFacts DEF GuardianAllows
  <2>4. ran' \in [Requests -> Nat]
    BY <1>2, <2>1 DEF GuardianAllows
  <2> QED
    BY <1>2, <2>1, <2>2, <2>3, <2>4 DEF GuardianAllows, LoopAt
<1>3. CASE GuardianDefers
  BY <1>3, LoopDefers DEF GuardianDefers, LoopAt, LeaveLoop
<1>4. CASE ChildGoesOn
  <2>1. loop.request \in Requests
    BY <1>4, PermissionNames DEF ChildGoesOn, LoopAt, LoopIsAhead
  <2>2. loop' \in Loops /\ loop'.at = "batch"
    BY <1>4, LoopReturns DEF ChildGoesOn
  <2>3. ran' \in [Requests -> Nat] /\ finished' \subseteq Requests /\ finished \subseteq finished'
    BY <1>4, <2>1 DEF ChildGoesOn
  <2> QED
    BY <1>4, <2>2, <2>3 DEF ChildGoesOn, LoopAt
<1>5. CASE EndBatch
  BY <1>5, LoopEndsBatch DEF EndBatch, LoopAt, LeaveLoop
<1>6. CASE Park
  BY <1>6, LoopFields, LoopIdle, TaskWaits, LeavingFacts DEF Park, LoopAt, LeaveLoop
<1>7. CASE PauseLoop
  BY <1>7, LoopFields, LoopIdle, TaskPauses, LeavingFacts DEF PauseLoop, LoopAt,
     LeaveLoop
<1>8. CASE LoopStops
  BY <1>8, LoopIdle DEF LoopStops, LoopAt, LeaveLoop
<1>9. CASE Complete
  BY <1>9, LoopIdle, TaskEnds DEF Complete, LoopAt, LeaveLoop
<1>10. CASE CancelTask
  BY <1>10, TaskEnds DEF CancelTask
<1>11. ASSUME NEW r \in Requests, Ask(r) PROVE PermissionTypeOK'
  <2>1. loop' \in Loops /\ loop'.at = "review"
    BY <1>11 DEF Ask, Loops
  <2>2. asked' \in [Requests -> 0..MaxAttempts]
    BY <1>11, TaskFields, PermissionNames DEF Ask
  <2> QED
    BY <1>11, <2>1, <2>2 DEF Ask, LoopAt
<1>12. ASSUME NEW r \in Requests, UseGrant(r) PROVE PermissionTypeOK'
  BY <1>12, LoopFields, SnapshotFacts DEF UseGrant, LoopAt
<1>13. ASSUME NEW r \in Requests, AskChild(r) PROVE PermissionTypeOK'
  <2>1. loop' \in Loops /\ loop'.at = "child"
    BY <1>13 DEF AskChild, Loops
  <2>2. asked' \in [Requests -> 0..MaxAttempts]
    BY <1>13, TaskFields, PermissionNames DEF AskChild
  <2> QED
    BY <1>13, <2>1, <2>2 DEF AskChild, LoopAt
<1>14. ASSUME NEW r \in Requests, NEW decision \in Deciding, BeginAnswer(r, decision)
     PROVE  PermissionTypeOK'
  <2>1. resolver' \in Resolvers /\ resolver'.at = "rule"
    BY <1>14 DEF BeginAnswer, IdleResolver, NoState, Resolvers, Answers, Deciding
  <2> QED
    BY <1>14, <2>1 DEF BeginAnswer
<1>15. ASSUME NEW r \in Requests, NEW decision \in Deciding, ResolveInPlace(r, decision)
     PROVE  PermissionTypeOK'
  BY <1>15, TaskAnswered DEF ResolveInPlace, Answers, Deciding
<1>16. CASE Rule
  <2>1. resolver.request \in Requests /\ resolver.decision \in Answers
    BY <1>16, ResolverFields DEF Rule, ResolverAt, ResolverIsAhead, PendingOf
  <2>2. resolver' \in Resolvers /\ resolver'.at \in {"list", "run"}
    BY <1>16, <2>1 DEF Rule, Resolvers
  <2>3. task' \in TaskRecords
    BY <1>16, TaskAnswered DEF Rule
  <2>4. /\ ruling' \in [Requests -> Answers] /\ finished' \subseteq Requests
        /\ noted' \subseteq finished' /\ forgotten' \subseteq Requests
    BY <1>16, <2>1 DEF Rule
  <2> QED
    BY <1>16, <2>2, <2>3, <2>4 DEF Rule, ResolverAt
<1>17. CASE RunTool
  <2>1. resolver.request \in Requests
    BY <1>17 DEF RunTool, ResolverAt, ResolverIsAhead
  <2>2. resolver' \in Resolvers /\ resolver'.at \in {"note", "finish"}
    BY <1>17 DEF RunTool, Resolvers
  <2>3. ran' \in [Requests -> Nat]
    BY <1>17, <2>1 DEF RunTool
  <2> QED
    BY <1>17, <2>2, <2>3 DEF RunTool, ResolverAt
<1>18. CASE Finish
  BY <1>18, ResolverMoves DEF Finish, ResolverAt, ResolverIsAhead
<1>19. CASE Note
  BY <1>19, ResolverNotes DEF Note, ResolverAt, ResolverIsAhead
<1>20. CASE ListSiblings
  <2>1. resolver' \in Resolvers /\ resolver'.at = "next"
    BY <1>20 DEF ListSiblings, PendingOf, Resolvers
  <2> QED
    BY <1>20, <2>1 DEF ListSiblings, ResolverAt
<1>21. ASSUME NEW r \in Requests, AnswerSibling(r) PROVE PermissionTypeOK'
  BY <1>21, ResolverRules DEF AnswerSibling, ResolverAt
<1>22. CASE ApplyHot
  BY <1>22, ResolverMoves, ResolverFields DEF ApplyHot, ResolverAt
<1>23. CASE CheckPending
  <2>1. CASE LeaveResolver /\ UNCHANGED <<task, envelope, forgotten>>
    BY <1>23, <2>1, ResolverIdle DEF CheckPending, LeaveResolver, ResolverAt
  <2>2. CASE Fail
    BY <1>23, <2>2, FailFacts, ResolverIdle DEF CheckPending, ResolverAt
  <2>3. CASE /\ resolver' = [resolver EXCEPT
                  !.at = "take", !.keyed = task.keyed \/ Peek("blocked") = "some",
                  !.base = IF Peek("blocked") = "some"
                           THEN [knows |-> envelope.knows, seen |-> envelope.seen]
                           ELSE NoState]
             /\ UNCHANGED <<task, envelope, owner, cancelRaised, loop, forgotten>>
    <3> DEFINE base == IF Peek("blocked") = "some"
                       THEN [knows |-> envelope.knows, seen |-> envelope.seen]
                       ELSE NoState
    <3>1. base \in [knows : SUBSET Requests, seen : SUBSET Requests]
      BY DEF Peek, Envelopes, NoState
    <3> HIDE DEF base
    <3>2. resolver' \in Resolvers /\ resolver'.at = "take"
      BY <2>3, <3>1, TaskFields DEF base, Resolvers
    <3> QED
      BY <1>23, <2>3, <3>2 DEF CheckPending, ResolverAt
  <2> QED
    BY <1>23, <2>1, <2>2, <2>3 DEF CheckPending
<1>24. CASE TakeSuspended
  <2>1. Rebuilt(resolver.base) \subseteq Requests
    BY ResolverFields DEF Rebuilt, NotedHere
  <2>2. resolver' \in Resolvers /\ resolver'.at # "idle"
    BY <1>24, <2>1 DEF TakeSuspended, Resolvers
  <2> QED
    BY <1>24, <2>2 DEF TakeSuspended, ResolverAt
<1>25. CASE Restore
  <2>1. resolver' \in Resolvers /\ resolver'.at # "idle"
    BY <1>25, ResolverMoves DEF Restore
  <2> QED
    BY <1>25, <2>1, ResolverFields, SnapshotFacts DEF Restore, ResolverAt
<1>26. CASE Claim
  <2>1. CASE Fail /\ PutBack
    BY <1>26, <2>1, FailFacts, ResolverIdle, ResolverFields
    DEF Claim, Claiming, ResolverAt, PutBack
  <2>2. CASE ~(Fail /\ PutBack)
    <3>1. /\ owner' = "loop" /\ loop' = LoopFrom(resolver.knows)
          /\ resolver' = IdleResolver /\ UNCHANGED <<cancelRaised, suspended, forgotten>>
      BY <1>26, <2>2 DEF Claim
    <3>2. task' \in TaskRecords
      BY <1>26, <2>2, TaskResumes DEF Claim
    <3>3. envelope' # NoCheckpoint => envelope' \in Envelopes
      BY <1>26, <2>2 DEF Claim, Envelopes, Peek
    <3> QED
      BY <1>26, <3>1, <3>2, <3>3, LoopBegins, ResolverFields, ResolverIdle DEF Claim
  <2> QED
    BY <2>1, <2>2
<1>27. CASE StoreFails
  <2>1. faults' \in [restarts : 0..MaxRestarts, failures : 0..MaxStoreFailures]
    BY <1>27, PermissionNames DEF StoreFails
  <2> QED
    BY <1>27, <2>1, FailFacts, ResolverIdle, ResolverFields DEF StoreFails, PutBack
<1>28. CASE Retry
  <2>1. task' \in TaskRecords
    BY <1>28, TaskFields, PermissionNames DEF Retry, TaskRecords
  <2>2. loop' \in Loops /\ loop'.at = "model"
    <3>1. envelope # NoCheckpoint => envelope.knows \subseteq Requests
      BY DEF Envelopes
    <3>2. Peek("paused") = "some" => envelope # NoCheckpoint
      BY DEF Peek
    <3>3. PICK k \in SUBSET Requests : loop' = LoopFrom(k)
      BY <1>28, <3>1, <3>2 DEF Retry
    <3>4. /\ LoopFrom(k) \in Loops /\ LoopFrom(k).at = "model"
      BY LoopBegins
    <3> QED
      BY <3>3, <3>4
  <2>3. origin' \in 1..MaxAttempts /\ forgotten' \subseteq Requests
    BY <1>28, TaskFields, PermissionNames DEF Retry
  <2> QED
    BY <1>28, <2>1, <2>2, <2>3 DEF Retry
<1>29. CASE RetryFails
  BY <1>29, PermissionNames DEF RetryFails
<1>30. CASE Evict
  BY <1>30 DEF Evict
<1>31. CASE Restart
  <2>1. faults' \in [restarts : 0..MaxRestarts, failures : 0..MaxStoreFailures]
    BY <1>31, PermissionNames DEF Restart
  <2>2. /\ task' \in TaskRecords
        /\ envelope' # NoCheckpoint => envelope' \in Envelopes
        /\ snapshot' # NoCheckpoint => snapshot' \in Snapshots
        /\ forgotten' \subseteq Requests
    BY <1>31, RestartFacts
  <2>3. /\ suspended' = NoRun /\ owner' = "none" /\ cancelRaised' = FALSE
        /\ loop' = IdleLoop /\ resolver' = IdleResolver
        /\ UNCHANGED <<asked, ruling, finished, noted, ran, vetted, origin>>
    BY <1>31 DEF Restart
  <2>4. loop' \in Loops /\ loop'.at = "idle" /\ resolver' \in Resolvers /\ resolver'.at = "idle"
    BY <2>3, LoopIdle, ResolverIdle
  <2>5. /\ asked' \in [Requests -> 0..MaxAttempts] /\ ruling' \in [Requests -> Answers]
        /\ finished' \subseteq Requests /\ noted' \subseteq finished'
        /\ ran' \in [Requests -> Nat] /\ vetted' \subseteq Requests
        /\ origin' \in 1..MaxAttempts
    BY <2>3
  <2> QED
    BY <2>1, <2>2, <2>3, <2>4, <2>5
<1>32. CASE UNCHANGED permissionVars
  BY <1>32 DEF permissionVars
<1> QED
  BY <1>1, <1>2, <1>3, <1>4, <1>5, <1>6, <1>7, <1>8, <1>9, <1>10, <1>11, <1>12,
     <1>13, <1>14, <1>15, <1>16, <1>17, <1>18, <1>19, <1>20, <1>21, <1>22, <1>23,
     <1>24, <1>25, <1>26, <1>27, <1>28, <1>29, <1>30, <1>31, <1>32 DEF
     PermissionNext, Deciding

(***************************************************************************)
(* Which steps can touch what.                                             *)
(***************************************************************************)
LEMMA AttemptStays ==
  ASSUME PermissionTypeOK, [PermissionNext]_permissionVars, ~Retry
  PROVE  task'.attempt = task.attempt
<1> USE DEF PermissionTypeOK
<1>1. CASE Park
  BY <1>1, TaskWaits DEF Park
<1>2. CASE PauseLoop
  BY <1>2, TaskPauses DEF PauseLoop
<1>3. CASE Complete \/ CancelTask
  BY <1>3, TaskEnds DEF Complete, CancelTask
<1>4. CASE Rule \/ \E r \in Requests, decision \in Deciding : ResolveInPlace(r, decision)
  BY <1>4, TaskAnswered DEF Rule, ResolveInPlace
<1>5. CASE CheckPending \/ StoreFails
  BY <1>5, FailFacts DEF CheckPending, StoreFails
<1>6. CASE Claim
  BY <1>6, FailFacts, TaskResumes DEF Claim
<1>7. CASE Restart
  BY <1>7, RestartFacts
<1>8. CASE \/ TakeTurn \/ GuardianAllows \/ GuardianDefers \/ ChildGoesOn \/ EndBatch
           \/ LoopStops \/ RunTool \/ Finish \/ Note \/ ListSiblings \/ ApplyHot
           \/ TakeSuspended \/ Restore \/ RetryFails \/ Evict
  BY <1>8 DEF TakeTurn, GuardianAllows, GuardianDefers, ChildGoesOn, EndBatch, LoopStops,
     RunTool, Finish, Note, ListSiblings, ApplyHot, TakeSuspended, Restore, RetryFails, Evict
<1>9. CASE \E r \in Requests : Ask(r) \/ UseGrant(r) \/ AskChild(r) \/ AnswerSibling(r)
  BY <1>9 DEF Ask, UseGrant, AskChild, AnswerSibling
<1>10. CASE \E r \in Requests, decision \in Deciding : BeginAnswer(r, decision)
  BY <1>10 DEF BeginAnswer
<1>11. CASE UNCHANGED permissionVars
  BY <1>11 DEF permissionVars
<1> QED
  BY <1>1, <1>2, <1>3, <1>4, <1>5, <1>6, <1>7, <1>8, <1>9, <1>10, <1>11
  DEF PermissionNext, Deciding

\* Only the steps that save, answer, run or finish a call change what the log
\* says of calls and how often they ran.
LEMMA CallsStay ==
  ASSUME [PermissionNext]_permissionVars,
         ~GuardianAllows, ~ChildGoesOn, ~Rule, ~RunTool, ~Finish, ~Note,
         \A r \in Requests : ~Ask(r) /\ ~UseGrant(r) /\ ~AskChild(r),
         \A r \in Requests, decision \in Deciding : ~ResolveInPlace(r, decision)
  PROVE  UNCHANGED <<permissionLog, ran, vetted>>
<1> USE DEF permissionLog, permissionHistory
<1>1. CASE \/ TakeTurn \/ GuardianDefers \/ EndBatch \/ Park \/ PauseLoop \/ LoopStops
           \/ Complete \/ CancelTask
  BY <1>1 DEF TakeTurn, GuardianDefers, EndBatch, Park, PauseLoop, LoopStops, Complete,
              CancelTask
<1>2. CASE \/ ListSiblings \/ ApplyHot \/ CheckPending \/ TakeSuspended \/ Restore
           \/ Claim \/ StoreFails
  BY <1>2 DEF ListSiblings, ApplyHot, CheckPending, TakeSuspended, Restore, Claim,
              StoreFails
<1>3. CASE Retry \/ RetryFails \/ Evict
  BY <1>3 DEF Retry, RetryFails, Evict
<1>4. CASE Restart
  BY <1>4 DEF Restart
<1>5. CASE \E r \in Requests : AnswerSibling(r)
  BY <1>5 DEF AnswerSibling
<1>6. CASE \E r \in Requests, decision \in Deciding : BeginAnswer(r, decision)
  BY <1>6 DEF BeginAnswer
<1>7. CASE UNCHANGED permissionVars
  BY <1>7 DEF permissionVars
<1> QED
  BY <1>1, <1>2, <1>3, <1>4, <1>5, <1>6, <1>7 DEF PermissionNext, Deciding

\* A call nobody answered has not run unless it is finished.
LEMMA UnansweredStep ==
  PermissionTypeOK /\ Ahead /\ [PermissionNext]_permissionVars => UnansweredIsUnrun'
<1> SUFFICES ASSUME PermissionTypeOK, Ahead, [PermissionNext]_permissionVars
             PROVE  UnansweredIsUnrun'
  OBVIOUS
<1> USE DEF UnansweredIsUnrun
<1>0. /\ task.attempt \in Nat \ {0} /\ asked \in [Requests -> Nat]
      /\ ruling \in [Requests -> Answers] /\ ran \in [Requests -> Nat]
      /\ UnansweredIsUnrun
  BY TaskFields DEF PermissionTypeOK, Ahead
<1>1. CASE GuardianAllows
  <2>1. /\ loop.request \in Requests /\ asked[loop.request] = task.attempt
        /\ UNCHANGED <<asked, ruling, noted, task>>
    BY <1>1 DEF GuardianAllows, LoopAt, Ahead, LoopIsAhead, PendingOf
  <2>2. /\ finished' = finished \cup {loop.request}
        /\ \A r \in Requests \ {loop.request} : ran'[r] = ran[r]
    BY <1>0, <1>1, <2>1 DEF GuardianAllows
  <2> QED
    BY <1>0, <2>1, <2>2
<1>2. CASE ChildGoesOn
  <2>1. /\ loop.request \in Requests /\ UNCHANGED <<asked, ruling, noted, task>>
        /\ cancelRaised \/ ruling[loop.request] # "none"
    BY <1>2, PermissionNames DEF ChildGoesOn, LoopAt, Ahead, LoopIsAhead
  <2>2. /\ finished \subseteq finished'
        /\ \A r \in Requests \ {loop.request} : ran'[r] = ran[r]
        /\ ran'[loop.request] # ran[loop.request] => ruling[loop.request] = "allow"
    BY <1>0, <1>2, <2>1 DEF ChildGoesOn
  <2> QED
    BY <1>0, <2>1, <2>2
<1>3. CASE Rule
  <2>1. /\ resolver.request \in Requests /\ asked[resolver.request] # 0
        /\ resolver.decision # "none" /\ task'.attempt = task.attempt
    BY <1>0, <1>3, TaskAnswered
    DEF Rule, ResolverAt, Ahead, ResolverIsAhead, PendingOf, Deciding, PermissionTypeOK
  <2>2. /\ UNCHANGED <<asked, ran>> /\ finished \subseteq finished'
        /\ ruling' = [ruling EXCEPT ![resolver.request] = resolver.decision]
        /\ noted' \subseteq noted \cup {resolver.request}
    BY <1>3 DEF Rule
  <2> QED
    BY <1>0, <2>1, <2>2
<1>4. CASE RunTool
  <2>1. resolver.request \in Requests /\ ruling[resolver.request] # "none"
    BY <1>4 DEF RunTool, ResolverAt, Ahead, ResolverIsAhead, Deciding
  <2>2. /\ UNCHANGED <<asked, ruling, finished, noted, task>>
        /\ \A r \in Requests \ {resolver.request} : ran'[r] = ran[r]
    BY <1>0, <1>4, <2>1 DEF RunTool, permissionLog
  <2> QED
    BY <1>0, <2>1, <2>2
<1>5. CASE Finish
  BY <1>0, <1>5 DEF Finish, permissionHistory
<1>6. CASE Note
  <2>1. ruling[resolver.request] # "none"
    BY <1>6 DEF Note, ResolverAt, Ahead, ResolverIsAhead, Deciding
  <2> QED
    BY <1>0, <1>6, <2>1 DEF Note, permissionHistory
<1>7. ASSUME NEW r \in Requests, Ask(r) \/ AskChild(r) PROVE UnansweredIsUnrun'
  <2>1. /\ asked' = [asked EXCEPT ![r] = task.attempt]
        /\ UNCHANGED <<ruling, finished, noted, task, ran>>
    BY <1>7 DEF Ask, AskChild, permissionHistory
  <2> QED
    BY <1>0, <2>1
<1>8. ASSUME NEW r \in Requests, UseGrant(r) PROVE UnansweredIsUnrun'
  <2>1. /\ r \notin ChildRequests /\ UNCHANGED <<asked, ruling, noted, task>>
        /\ finished' = finished \cup {r} /\ \A q \in Requests \ {r} : ran'[q] = ran[q]
    BY <1>0, <1>8, PermissionNames DEF UseGrant, Granted
  <2> QED
    BY <1>0, <2>1
<1>9. ASSUME NEW r \in Requests, NEW decision \in Deciding, ResolveInPlace(r, decision)
      PROVE  UnansweredIsUnrun'
  <2>1. /\ asked[r] # 0 /\ decision # "none"
        /\ ruling' = [ruling EXCEPT ![r] = decision]
        /\ UNCHANGED <<asked, finished, noted, ran>> /\ task'.attempt = task.attempt
    BY <1>0, <1>9, TaskAnswered
    DEF ResolveInPlace, PendingOf, permissionHistory, Deciding, PermissionTypeOK
  <2> QED
    BY <1>0, <2>1
<1>10. CASE UNCHANGED <<permissionLog, ran>> /\ task'.attempt = task.attempt
  BY <1>0, <1>10 DEF permissionLog
<1>11. CASE Retry
  <2>1. UNCHANGED <<permissionLog, ran>> /\ task'.attempt = task.attempt + 1
    BY <1>11 DEF Retry
  <2> QED
    BY <1>0, <2>1 DEF permissionLog
<1> QED
  BY <1>1, <1>2, <1>3, <1>4, <1>5, <1>6, <1>7, <1>8, <1>9, <1>10, <1>11, CallsStay,
     AttemptStays

\* A call runs once, and only if it was allowed; an answer is never taken back.
LEMMA RanStep ==
  PermissionTypeOK /\ Ahead /\ [PermissionNext]_permissionVars => RanOnceAllowed'
<1> SUFFICES ASSUME PermissionTypeOK, Ahead, [PermissionNext]_permissionVars
             PROVE  RanOnceAllowed'
  OBVIOUS
<1> USE DEF RanOnceAllowed, Granted
<1>0. /\ ruling \in [Requests -> Answers] /\ ran \in [Requests -> Nat]
      /\ RanOnceAllowed /\ Grantable \subseteq Requests
  BY PermissionNames DEF PermissionTypeOK, Ahead
<1>1. CASE GuardianAllows
  <2>1. loop.request \in Requests /\ ran[loop.request] = 0
    BY <1>1 DEF GuardianAllows, LoopAt, Ahead, LoopIsAhead, UnansweredIsUnrun, PendingOf
  <2>2. /\ UNCHANGED ruling /\ vetted' = vetted \cup {loop.request}
        /\ \A r \in Requests \ {loop.request} : ran'[r] = ran[r]
        /\ ran'[loop.request] \in {0, 1}
    BY <1>0, <1>1, <2>1 DEF GuardianAllows
  <2> QED
    BY <1>0, <2>1, <2>2
<1>2. CASE ChildGoesOn
  <2>1. loop.request \in Requests /\ ran[loop.request] = 0
    BY <1>2, PermissionNames DEF ChildGoesOn, LoopAt, Ahead, LoopIsAhead
  <2>2. /\ UNCHANGED <<ruling, vetted>>
        /\ \A r \in Requests \ {loop.request} : ran'[r] = ran[r]
        /\ \/ ran'[loop.request] = 0
           \/ ran'[loop.request] = 1 /\ ruling[loop.request] = "allow"
    BY <1>0, <1>2, <2>1 DEF ChildGoesOn
  <2> QED
    BY <1>0, <2>1, <2>2
<1>3. CASE Rule
  <2>1. resolver.request \in Requests /\ ruling[resolver.request] = "none"
    BY <1>3 DEF Rule, ResolverAt, Ahead, ResolverIsAhead, PendingOf
  <2>2. /\ UNCHANGED <<ran, vetted>>
        /\ ruling' = [ruling EXCEPT ![resolver.request] = resolver.decision]
    BY <1>3 DEF Rule
  <2> QED
    BY <1>0, <2>1, <2>2
<1>4. CASE RunTool
  <2>1. /\ resolver.request \in Requests /\ ruling[resolver.request] \in {"allow", "session"}
        /\ resolver.request \in finished \/ ran[resolver.request] = 0
    BY <1>4 DEF RunTool, ResolverAt, Ahead, ResolverIsAhead, Deciding
  <2>2. /\ UNCHANGED <<ruling, vetted>>
        /\ \A r \in Requests \ {resolver.request} : ran'[r] = ran[r]
        /\ ran'[resolver.request] \in {ran[resolver.request], 1}
    BY <1>0, <1>4, <2>1 DEF RunTool, permissionLog
  <2> QED
    BY <1>0, <2>1, <2>2
<1>5. ASSUME NEW r \in Requests, UseGrant(r) PROVE RanOnceAllowed'
  <2>1. ran[r] = 0
    BY <1>5 DEF UseGrant, Ahead, UnansweredIsUnrun
  <2> QED
    BY <1>0, <1>5, <2>1 DEF UseGrant
<1>6. ASSUME NEW r \in Requests, NEW decision \in Deciding, ResolveInPlace(r, decision)
      PROVE  RanOnceAllowed'
  <2>1. /\ ruling[r] = "none" /\ ruling' = [ruling EXCEPT ![r] = decision]
        /\ UNCHANGED <<ran, vetted>>
    BY <1>6 DEF ResolveInPlace, PendingOf, permissionHistory
  <2> QED
    BY <1>0, <2>1
<1>7. ASSUME NEW r \in Requests, Ask(r) \/ AskChild(r)
      PROVE  UNCHANGED <<ruling, ran, vetted>>
  BY <1>7 DEF Ask, AskChild, permissionHistory
<1>8. CASE Finish \/ Note
  BY <1>0, <1>8 DEF Finish, Note, permissionHistory
<1>9. CASE UNCHANGED <<ruling, ran, vetted>>
  BY <1>0, <1>9
<1> QED
  BY <1>1, <1>2, <1>3, <1>4, <1>5, <1>6, <1>7, <1>8, <1>9, CallsStay DEF permissionLog

\* What the loop is about to run has not run.
LEMMA LoopStep ==
  PermissionTypeOK /\ Ahead /\ [PermissionNext]_permissionVars => LoopIsAhead'
<1> SUFFICES ASSUME PermissionTypeOK, Ahead, [PermissionNext]_permissionVars
             PROVE  LoopIsAhead'
  OBVIOUS
<1> USE DEF LoopIsAhead, PendingOf
<1>0. /\ LoopIsAhead /\ ruling \in [Requests -> Answers] /\ loop \in Loops
      /\ task.attempt \in Nat \ {0} /\ asked \in [Requests -> 0..MaxAttempts]
      /\ (owner = "loop") = (loop.at # "idle")
  BY TaskFields DEF Ahead, PermissionTypeOK
<1>1. CASE loop'.at \notin {"review", "child"}
  BY <1>1
<1>2. ASSUME NEW r \in Requests, Ask(r) PROVE LoopIsAhead'
  <2>1. loop'.at = "review" /\ loop'.request = r
    BY <1>0, <1>2 DEF Ask, Loops
  <2>2. /\ asked'[r] = task.attempt /\ UNCHANGED <<ruling, finished, task>>
        /\ ruling[r] = "none" /\ r \notin finished /\ r \notin ChildRequests
    BY <1>0, <1>2 DEF Ask, Ahead, UnansweredIsUnrun
  <2> QED
    BY <2>1, <2>2
<1>3. ASSUME NEW r \in Requests, AskChild(r) PROVE LoopIsAhead'
  <2>1. loop'.at = "child" /\ loop'.request = r
    BY <1>0, <1>3 DEF AskChild, Loops
  <2>2. r \in ChildRequests /\ ran[r] = 0 /\ UNCHANGED ran
    BY <1>3 DEF AskChild, permissionHistory, Ahead, UnansweredIsUnrun
  <2> QED
    BY <2>1, <2>2
<1>4. ASSUME NEW r \in Requests, NEW decision \in Deciding, ResolveInPlace(r, decision)
      PROVE  LoopIsAhead'
  <2>1. /\ r \in ChildRequests /\ ruling' = [ruling EXCEPT ![r] = decision]
        /\ UNCHANGED <<asked, finished, ran, loop>> /\ task'.attempt = task.attempt
    BY <1>4, TaskAnswered
    DEF ResolveInPlace, permissionMemory, permissionHistory, PermissionTypeOK
  <2> QED
    BY <1>0, <2>1
<1>5. CASE CancelTask \/ Evict
  <2>1. UNCHANGED <<asked, ruling, finished, ran, loop>> /\ task'.attempt = task.attempt
    BY <1>5, TaskEnds DEF CancelTask, Evict, permissionLog, permissionHistory, PermissionTypeOK
  <2> QED
    BY <1>0, <2>1
<1>6. CASE TakeTurn \/ GuardianAllows \/ GuardianDefers \/ ChildGoesOn \/ EndBatch
  <2>1. loop'.at \in {"batch", "model"}
    BY <1>0, <1>6, LoopTurns, LoopReturns, LoopDefers, LoopEndsBatch
    DEF TakeTurn, GuardianAllows, GuardianDefers, ChildGoesOn, EndBatch
  <2> QED
    BY <1>1, <2>1
<1>7. CASE Park \/ PauseLoop \/ LoopStops \/ Complete
  <2>1. loop'.at = "idle"
    BY <1>7, LoopIdle DEF Park, PauseLoop, LoopStops, Complete, LeaveLoop
  <2> QED
    BY <1>1, <2>1
<1>8. CASE owner # "loop" /\ UNCHANGED loop
  BY <1>0, <1>1, <1>8
<1>9. CASE \/ Rule \/ RunTool \/ Finish \/ Note \/ ListSiblings \/ ApplyHot
           \/ TakeSuspended \/ Restore \/ RetryFails
  BY <1>8, <1>9
  DEF Rule, RunTool, Finish, Note, ListSiblings, ApplyHot, TakeSuspended, Restore,
      RetryFails, ResolverAt
<1>10. CASE CheckPending \/ StoreFails
  BY <1>8, <1>10, FailFacts DEF CheckPending, StoreFails, ResolverAt, LeaveResolver
<1>11. CASE Claim
  <2>1. owner = "answer" /\ (UNCHANGED loop \/ loop' = LoopFrom(resolver.knows))
    BY <1>11, FailFacts DEF Claim, Claiming, ResolverAt
  <2>2. resolver.knows \in SUBSET Requests
    BY ResolverFields DEF PermissionTypeOK
  <2> QED
    BY <1>1, <1>8, <2>1, <2>2, LoopBegins
<1>12. ASSUME NEW r \in Requests, UseGrant(r) PROVE LoopIsAhead'
  BY <1>1, <1>12 DEF UseGrant, LoopAt, permissionMemory
<1>13. ASSUME NEW r \in Requests, AnswerSibling(r) PROVE LoopIsAhead'
  BY <1>8, <1>13 DEF AnswerSibling, ResolverAt
<1>14. ASSUME NEW r \in Requests, NEW decision \in Deciding, BeginAnswer(r, decision)
       PROVE  LoopIsAhead'
  BY <1>8, <1>14 DEF BeginAnswer
<1>15. CASE Retry
  <2>1. loop'.at = "model"
    BY <1>15 DEF Retry, LoopFrom, IdleLoop
  <2> QED
    BY <1>1, <2>1
<1>16. CASE Restart
  BY <1>1, <1>16, LoopIdle DEF Restart
<1>17. CASE UNCHANGED permissionVars
  BY <1>0, <1>17 DEF permissionVars, permissionLog, permissionMemory, permissionHistory
<1> QED
  BY <1>2, <1>3, <1>4, <1>5, <1>6, <1>7, <1>9, <1>10, <1>11, <1>12, <1>13, <1>14, <1>15,
     <1>16, <1>17 DEF PermissionNext, Deciding

\* What the answering command is about to run has not run.
LEMMA ResolverStep ==
  PermissionTypeOK /\ Ahead /\ [PermissionNext]_permissionVars => ResolverIsAhead'
<1> SUFFICES ASSUME PermissionTypeOK, Ahead, [PermissionNext]_permissionVars
             PROVE  ResolverIsAhead'
  OBVIOUS
<1>0. /\ ResolverIsAhead /\ ruling \in [Requests -> Answers] /\ resolver \in Resolvers
      /\ ran \in [Requests -> Nat] /\ task \in TaskRecords
      /\ task.attempt \in Nat \ {0} /\ asked \in [Requests -> 0..MaxAttempts]
      /\ (owner = "answer") = (resolver.at # "idle")
  BY TaskFields DEF Ahead, PermissionTypeOK
<1> USE DEF ResolverIsAhead, PendingOf
<1>1. CASE resolver'.at = "idle" /\ resolver'.rest = {} /\ resolver'.decision # "deny"
  BY <1>1
<1>2. CASE resolver' = IdleResolver
  BY <1>1, <1>2, ResolverIdle
<1>3. CASE owner # "answer" /\ UNCHANGED resolver
  BY <1>0, <1>3
<1>4. CASE \/ TakeTurn \/ GuardianAllows \/ GuardianDefers \/ ChildGoesOn \/ EndBatch
           \/ Park \/ PauseLoop \/ LoopStops \/ Complete \/ Retry \/ RetryFails
  BY <1>3, <1>4
  DEF TakeTurn, GuardianAllows, GuardianDefers, ChildGoesOn, EndBatch, Park, PauseLoop,
      LoopStops, Complete, Retry, RetryFails, LoopAt, LeaveLoop
<1>5. ASSUME NEW r \in Requests, Ask(r) \/ AskChild(r) \/ UseGrant(r) PROVE ResolverIsAhead'
  BY <1>3, <1>5 DEF Ask, AskChild, UseGrant, LoopAt, permissionMemory
<1>6. CASE CancelTask \/ Evict
  <2>1. /\ UNCHANGED <<asked, ruling, finished, noted, ran, resolver>>
        /\ task'.attempt = task.attempt
    BY <1>0, <1>6, TaskEnds DEF CancelTask, Evict, permissionLog, permissionHistory
  <2> QED
    BY <1>0, <2>1
<1>7. ASSUME NEW r \in Requests, NEW decision \in Deciding, ResolveInPlace(r, decision)
      PROVE  ResolverIsAhead'
  <2>1. /\ r \in ChildRequests /\ ruling[r] = "none"
        /\ ruling' = [ruling EXCEPT ![r] = decision] /\ decision # "none"
        /\ UNCHANGED <<asked, finished, ran, resolver>> /\ task'.attempt = task.attempt
    BY <1>0, <1>7, TaskAnswered
    DEF ResolveInPlace, permissionMemory, permissionHistory, Deciding
  <2>2. r \notin Grantable
    BY <2>1, PermissionNames
  <2>3. resolver.at \in {"run", "finish", "note"} => resolver.request # r
    BY <1>0, <2>1 DEF Deciding
  <2> QED
    BY <1>0, <2>1, <2>2, <2>3
<1>8. ASSUME NEW r \in Requests, NEW decision \in Deciding, BeginAnswer(r, decision)
      PROVE  ResolverIsAhead'
  <2>1. /\ resolver'.at = "rule" /\ resolver'.request = r /\ resolver'.decision = decision
        /\ resolver'.rest = {}
    BY <1>8 DEF BeginAnswer, IdleResolver
  <2>2. /\ UNCHANGED <<asked, ruling, task>>
        /\ r \in PendingOf(task.attempt) \ ChildRequests
    BY <1>8 DEF BeginAnswer, permissionLog
  <2> QED
    BY <2>1, <2>2
<1>9. CASE Rule
  <2>1. /\ resolver.request \in PendingOf(task.attempt) \ ChildRequests
        /\ resolver.request \notin resolver.rest /\ resolver.decision \in Deciding
    BY <1>0, <1>9 DEF Rule, ResolverAt
  <2>2. /\ resolver'.at = IF resolver.decision = "deny" THEN "list" ELSE "run"
        /\ resolver'.request = resolver.request /\ resolver'.decision = resolver.decision
        /\ resolver'.rest = resolver.rest
    BY <1>0, <1>9 DEF Rule, Resolvers
  <2>3. /\ ruling' = [ruling EXCEPT ![resolver.request] = resolver.decision]
        /\ finished \subseteq finished'
        /\ UNCHANGED <<asked, ran>> /\ task'.attempt = task.attempt
    BY <1>0, <1>9, TaskAnswered DEF Rule
  <2>4. resolver.request \in finished \/ ran[resolver.request] = 0
    BY <2>1 DEF Ahead, UnansweredIsUnrun
  <2> QED
    BY <1>0, <2>1, <2>2, <2>3, <2>4
<1>10. CASE RunTool
  <2>1. /\ resolver'.at = IF resolver.request \in finished THEN "note" ELSE "finish"
        /\ resolver'.request = resolver.request /\ resolver'.decision = resolver.decision
        /\ resolver'.rest = resolver.rest
    BY <1>0, <1>10 DEF RunTool, Resolvers
  <2>2. UNCHANGED <<asked, ruling, finished, task>> /\ resolver.at = "run"
    BY <1>10 DEF RunTool, ResolverAt, permissionLog
  <2> QED
    BY <1>0, <2>1, <2>2
<1>11. CASE Finish
  <2>1. /\ resolver'.at = "note" /\ resolver'.request = resolver.request
        /\ resolver'.decision = resolver.decision /\ resolver'.rest = resolver.rest
    BY <1>0, <1>11 DEF Finish, Resolvers
  <2>2. /\ UNCHANGED <<asked, ruling, task>> /\ finished' = finished \cup {resolver.request}
        /\ resolver.at = "finish"
    BY <1>11 DEF Finish, ResolverAt
  <2> QED
    BY <1>0, <2>1, <2>2
<1>12. CASE Note
  <2>1. /\ resolver'.at = "list" /\ resolver'.decision = resolver.decision
        /\ resolver'.rest = resolver.rest
    BY <1>0, <1>12 DEF Note, Resolvers
  <2>2. UNCHANGED <<asked, ruling, task>> /\ resolver.at = "note"
    BY <1>12 DEF Note, ResolverAt
  <2> QED
    BY <1>0, <2>1, <2>2
<1>13. CASE ListSiblings
  <2>1. /\ resolver'.at = "next" /\ resolver'.decision = resolver.decision
        /\ \/ resolver'.rest = resolver.rest
           \/ resolver'.rest = {}
           \/ /\ resolver.decision = "session"
              /\ resolver'.rest = PendingOf(task.attempt) \cap Grantable
    BY <1>0, <1>13 DEF ListSiblings, Resolvers
  <2>2. UNCHANGED <<asked, ruling, task>> /\ resolver.at = "list"
    BY <1>13 DEF ListSiblings, ResolverAt, permissionLog
  <2> QED
    BY <1>0, <2>1, <2>2
<1>14. ASSUME NEW r \in Requests, AnswerSibling(r) PROVE ResolverIsAhead'
  <2>1. /\ resolver'.at = "rule" /\ resolver'.decision = resolver.decision
        /\ resolver'.rest = resolver.rest \ {r} /\ resolver'.request = r
    BY <1>0, <1>14 DEF AnswerSibling, Resolvers
  <2>2. /\ UNCHANGED <<asked, ruling, task>> /\ resolver.at = "next"
        /\ r \in resolver.rest
    BY <1>14 DEF AnswerSibling, ResolverAt, permissionLog
  <2>3. r \notin ChildRequests
    BY <1>0, <2>2, PermissionNames
  <2> QED
    BY <1>0, <2>1, <2>2, <2>3
<1>15. CASE ApplyHot
  <2>1. /\ resolver'.at = "check" /\ resolver'.decision = resolver.decision
        /\ resolver'.rest = resolver.rest
    BY <1>0, <1>15 DEF ApplyHot, Resolvers
  <2>2. UNCHANGED <<asked, ruling, task>> /\ resolver.at = "next"
    BY <1>15 DEF ApplyHot, ResolverAt, permissionLog
  <2> QED
    BY <1>0, <2>1, <2>2
<1>16. CASE CheckPending
  <2>1. CASE LeaveResolver \/ Fail
    BY <1>2, <2>1, FailFacts DEF LeaveResolver
  <2>2. CASE ~(LeaveResolver \/ Fail)
    <3>1. /\ PendingOf(task.attempt) = {} /\ UNCHANGED <<asked, ruling, task>>
          /\ resolver.at = "check"
      BY <1>16, <2>2 DEF CheckPending, ResolverAt, permissionLog
    <3>2. /\ resolver'.at = "take" /\ resolver'.decision = resolver.decision
          /\ resolver'.rest = resolver.rest
      BY <1>0, <1>16, <2>2 DEF CheckPending, Resolvers
    <3> QED
      BY <1>0, <3>1, <3>2
  <2> QED
    BY <2>1, <2>2
<1>17. CASE TakeSuspended
  <2>1. /\ resolver'.at \in {"claim hot", "restore"}
        /\ resolver'.decision = resolver.decision /\ resolver'.rest = resolver.rest
    BY <1>0, <1>17 DEF TakeSuspended, Resolvers
  <2>2. UNCHANGED <<asked, ruling, task>> /\ resolver.at = "take"
    BY <1>17 DEF TakeSuspended, ResolverAt, permissionLog
  <2> QED
    BY <1>0, <2>1, <2>2
<1>18. CASE Restore
  <2>1. /\ resolver'.at = "claim cold"
        /\ resolver'.decision = resolver.decision /\ resolver'.rest = resolver.rest
    BY <1>0, <1>18 DEF Restore, Resolvers
  <2>2. UNCHANGED <<asked, ruling, task>> /\ resolver.at = "restore"
    BY <1>18 DEF Restore, ResolverAt, permissionLog
  <2> QED
    BY <1>0, <2>1, <2>2
<1>19. CASE Claim \/ StoreFails \/ Restart
  BY <1>2, <1>19, FailFacts DEF Claim, StoreFails, Restart
<1>20. CASE UNCHANGED permissionVars
  BY <1>0, <1>20 DEF permissionVars, permissionLog, permissionMemory, permissionHistory
<1> QED
  BY <1>4, <1>5, <1>6, <1>7, <1>8, <1>9, <1>10, <1>11, <1>12, <1>13, <1>14, <1>15, <1>16,
     <1>17, <1>18, <1>19, <1>20 DEF PermissionNext, Deciding

\* A session begins with nothing asked and nothing run.
LEMMA PermissionInitial == PermissionInit => OnceInv
<1> SUFFICES ASSUME PermissionInit PROVE OnceInv
  OBVIOUS
<1> USE DEF PermissionInit
<1>1. task \in TaskRecords /\ task.attempt = 1 /\ 0 \in 0..MaxAttempts /\ 1 \in 1..MaxAttempts
  BY PermissionNames DEF TaskRecords
<1>2. /\ loop \in Loops /\ loop.at = "model" /\ loop.waiting = FALSE
      /\ resolver \in Resolvers /\ resolver.at = "idle" /\ resolver.rest = {}
      /\ resolver.decision = "none"
  BY LoopBegins, ResolverIdle
<1>3. faults \in [restarts : 0..MaxRestarts, failures : 0..MaxStoreFailures]
  BY PermissionNames
<1>4. asked \in [Requests -> 0..MaxAttempts] /\ ruling \in [Requests -> Answers]
      /\ ran \in [Requests -> Nat]
  BY <1>1 DEF Answers
<1>5. PermissionTypeOK
  BY <1>1, <1>2, <1>3, <1>4 DEF PermissionTypeOK
<1>6. UnansweredIsUnrun /\ LoopIsAhead /\ ResolverIsAhead /\ RanOnceAllowed
  BY <1>1, <1>2
  DEF UnansweredIsUnrun, LoopIsAhead, ResolverIsAhead, RanOnceAllowed
<1> QED
  BY <1>5, <1>6 DEF OnceInv, Ahead

\* No step takes the invariant away.
LEMMA OnceStep == OnceInv /\ [PermissionNext]_permissionVars => OnceInv'
  BY PermissionTypeStep, UnansweredStep, LoopStep, ResolverStep, RanStep
  DEF OnceInv, Ahead

\* A tool that needs permission runs at most once and only if it was allowed,
\* for every number of requests, retries, crashes and store failures.
THEOREM ApprovedAlwaysRunsOnce == PermissionSpec => []ApprovedRunsOnce
<1>1. OnceInv => ApprovedRunsOnce
  BY DEF OnceInv, Ahead, RanOnceAllowed, ApprovedRunsOnce
<1> QED
  BY <1>1, PermissionInitial, OnceStep, PTL DEF PermissionSpec

(***************************************************************************)
(* Status, checkpoint and owner.                                           *)
(***************************************************************************)
LEMMA PeekFacts ==
  ASSUME NEW wanted \in {"blocked", "paused"}
  PROVE  /\ Peek(wanted) \in {"none", "some", "error"}
         /\ Peek(wanted) = "some" =>
              /\ envelope # NoCheckpoint /\ envelope.state = wanted
              /\ task.status \in {"paused", "waiting"}
         /\ Peek(wanted) = "none" =>
              \/ envelope = NoCheckpoint
              \/ envelope.state = "resuming" /\ task.terminal
              \/ task.status \notin {"paused", "waiting"}
  BY DEF Peek

\* Status, checkpoint, restart mark and owner agree after every step.
LEMMA StatusStep ==
  OnceInv /\ StatusAgrees /\ [PermissionNext]_permissionVars => StatusAgrees'
<1> SUFFICES ASSUME OnceInv, StatusAgrees, [PermissionNext]_permissionVars
             PROVE  StatusAgrees'
  OBVIOUS
<1>0. /\ task \in TaskRecords /\ ruling \in [Requests -> Answers] /\ loop \in Loops
      /\ asked \in [Requests -> 0..MaxAttempts] /\ task.attempt \in Nat \ {0}
      /\ task.status \in {"running", "waiting", "paused", "ended"}
      /\ task.terminal \in BOOLEAN /\ task.open \in BOOLEAN /\ task.waitIsLast \in BOOLEAN
      /\ cancelRaised \in BOOLEAN /\ owner \in {"none", "loop", "answer"}
      /\ (owner = "loop") = (loop.at # "idle") /\ StatusAgrees
      /\ (owner = "answer") = (resolver.at # "idle")
  BY TaskFields DEF OnceInv, PermissionTypeOK
<1>a. PermissionTypeOK /\ Ahead
  BY DEF OnceInv
<1> USE DEF StatusAgrees, PendingOf
<1>1. CASE TakeTurn \/ EndBatch
  <2>1. /\ owner = "loop" /\ UNCHANGED <<asked, ruling, task, envelope, owner, cancelRaised>>
        /\ loop'.waiting => loop.waiting
    BY <1>0, <1>1, LoopTurns, LoopEndsBatch DEF TakeTurn, EndBatch, LoopAt, permissionLog
  <2> QED
    BY <1>0, <2>1
<1>2. CASE GuardianAllows \/ ChildGoesOn
  <2>1. /\ owner = "loop" /\ UNCHANGED <<asked, ruling, task, envelope, owner, cancelRaised>>
        /\ loop'.waiting = loop.waiting
    BY <1>0, <1>2, LoopReturns DEF GuardianAllows, ChildGoesOn, LoopAt
  <2> QED
    BY <1>0, <2>1
<1>3. CASE GuardianDefers
  <2>1. /\ owner = "loop" /\ UNCHANGED <<asked, ruling, task, envelope, owner, cancelRaised>>
        /\ loop.request \in PendingOf(task.attempt) \ ChildRequests
    BY <1>a, <1>3 DEF GuardianDefers, LoopAt, permissionLog, Ahead, LoopIsAhead
  <2> QED
    BY <1>0, <2>1
<1>4. CASE Park
  <2>1. /\ owner = "loop" /\ loop.waiting /\ ~cancelRaised
        /\ UNCHANGED <<asked, ruling, cancelRaised>> /\ owner' = "none"
    BY <1>4 DEF Park, LoopAt, LeaveLoop, permissionLog
  <2>2. /\ task'.attempt = task.attempt /\ task'.status = "waiting"
        /\ task'.terminal = task.terminal /\ task'.open = task.open /\ task'.waitIsLast
    BY <1>0, <1>4, TaskWaits DEF Park
  <2>3. envelope' # NoCheckpoint /\ envelope'.state = "blocked"
    BY <1>a, <1>4, LeavingFacts DEF Park
  <2> QED
    BY <1>0, <2>1, <2>2, <2>3
<1>5. CASE PauseLoop
  <2>1. /\ owner = "loop" /\ ~cancelRaised
        /\ UNCHANGED <<asked, ruling, cancelRaised>> /\ owner' = "none"
    BY <1>5 DEF PauseLoop, LoopAt, LeaveLoop, permissionLog
  <2>2. /\ task'.attempt = task.attempt /\ task'.status = "paused"
        /\ task'.terminal = task.terminal /\ task'.open = FALSE
        /\ task'.waitIsLast = task.waitIsLast
    BY <1>0, <1>5, TaskPauses DEF PauseLoop
  <2>3. envelope' # NoCheckpoint /\ envelope'.state = "paused"
    BY <1>a, <1>5, LeavingFacts DEF PauseLoop
  <2> QED
    BY <1>0, <2>1, <2>2, <2>3
<1>6. CASE LoopStops
  BY <1>0, <1>6 DEF LoopStops, LoopAt, LeaveLoop, permissionLog
<1>7. CASE Complete
  <2>1. /\ task'.status = "ended" /\ task'.terminal /\ ~task'.open /\ ~task'.waitIsLast
        /\ owner' = "none"
    BY <1>0, <1>7, TaskEnds DEF Complete, LeaveLoop
  <2> QED
    BY <2>1
<1>8. CASE CancelTask
  <2>1. /\ UNCHANGED <<asked, ruling, envelope, owner, loop>>
        /\ cancelRaised' = (cancelRaised \/ owner # "none")
    BY <1>8 DEF CancelTask, permissionLog
  <2>2. CASE task.terminal
    BY <1>0, <1>8, <2>1, <2>2 DEF CancelTask
  <2>3. CASE ~task.terminal
    <3>1. /\ task'.attempt = task.attempt /\ task'.status = "ended" /\ task'.terminal
          /\ ~task'.open /\ ~task'.waitIsLast
      BY <1>0, <1>8, <2>3, TaskEnds DEF CancelTask
    <3> QED
      BY <1>0, <2>1, <3>1
  <2> QED
    BY <2>2, <2>3
<1>9. ASSUME NEW r \in Requests, Ask(r) \/ AskChild(r) PROVE StatusAgrees'
  <2>1. /\ owner = "loop" /\ ~cancelRaised /\ asked[r] = 0
        /\ asked' = [asked EXCEPT ![r] = task.attempt]
        /\ UNCHANGED <<ruling, task, envelope, owner, cancelRaised>>
    BY <1>9 DEF Ask, AskChild, LoopAt
  <2>2. loop'.waiting = loop.waiting
    BY <1>0, <1>9 DEF Ask, AskChild, Loops
  <2> QED
    BY <1>0, <2>1, <2>2
<1>10. ASSUME NEW r \in Requests, UseGrant(r) PROVE StatusAgrees'
  BY <1>0, <1>10 DEF UseGrant, permissionMemory
<1>11. ASSUME NEW r \in Requests, NEW decision \in Deciding, ResolveInPlace(r, decision)
       PROVE  StatusAgrees'
  <2>1. /\ r \in ChildRequests /\ ruling' = [ruling EXCEPT ![r] = decision]
        /\ decision # "none"
        /\ UNCHANGED <<asked, envelope, owner, cancelRaised, loop>>
    BY <1>11 DEF ResolveInPlace, permissionMemory, Deciding
  <2>2. /\ task'.attempt = task.attempt /\ task'.status = task.status
        /\ task'.terminal = task.terminal /\ task'.open = task.open /\ ~task'.waitIsLast
    BY <1>0, <1>11, TaskAnswered DEF ResolveInPlace
  <2> QED
    BY <1>0, <2>1, <2>2
<1>12. ASSUME NEW r \in Requests, NEW decision \in Deciding, BeginAnswer(r, decision)
       PROVE  StatusAgrees'
  <2>1. /\ UNCHANGED <<asked, ruling, task, envelope, loop>>
        /\ owner = "none" /\ owner' = "answer" /\ cancelRaised' = FALSE
        /\ task.status # "ended" /\ r \in PendingOf(task.attempt) \ ChildRequests
    BY <1>12 DEF BeginAnswer, permissionLog
  <2> QED
    BY <1>0, <2>1
<1>13. CASE Rule
  <2>1. /\ ruling' = [ruling EXCEPT ![resolver.request] = resolver.decision]
        /\ resolver.request \in Requests /\ resolver.decision # "none"
        /\ owner = "answer" /\ UNCHANGED <<asked, envelope, owner, cancelRaised, loop>>
    BY <1>a, <1>13 DEF Rule, ResolverAt, Ahead, ResolverIsAhead, Deciding
  <2>2. /\ task'.attempt = task.attempt /\ task'.status = task.status
        /\ task'.terminal = task.terminal /\ task'.open = task.open /\ ~task'.waitIsLast
    BY <1>0, <1>13, TaskAnswered DEF Rule
  <2> QED
    BY <1>0, <2>1, <2>2
<1>14. CASE UNCHANGED <<asked, ruling, task, envelope, owner, cancelRaised, loop>>
  BY <1>0, <1>14
<1>15. CASE \/ RunTool \/ Finish \/ Note \/ ListSiblings \/ ApplyHot \/ TakeSuspended
            \/ Restore \/ RetryFails \/ Evict
  BY <1>14, <1>15
  DEF RunTool, Finish, Note, ListSiblings, ApplyHot, TakeSuspended, Restore, RetryFails,
      Evict, permissionLog
<1>16. ASSUME NEW r \in Requests, AnswerSibling(r) PROVE StatusAgrees'
  BY <1>14, <1>16 DEF AnswerSibling, permissionLog
<1>17. CASE Fail /\ owner = "answer" /\ UNCHANGED <<asked, ruling>>
  <2>1. CASE ~FailPauses
    <3>1. owner' = "none" /\ UNCHANGED <<task, envelope>>
      BY <1>a, <1>17, <2>1, FailFacts
    <3> QED
      BY <1>0, <1>17, <3>1
  <2>2. CASE FailPauses
    <3>1. /\ owner' = "none" /\ task'.attempt = task.attempt
          /\ task'.status = "paused" /\ task'.terminal = task.terminal
          /\ ~task'.open /\ ~task'.waitIsLast
          /\ envelope' # NoCheckpoint /\ envelope'.state = "paused"
      BY <1>a, <1>17, <2>2, FailFacts
    <3> QED
      BY <1>0, <2>2, <3>1 DEF FailPauses
  <2> QED
    BY <2>1, <2>2
<1>18. CASE CheckPending
  <2>1. owner = "answer" /\ UNCHANGED <<asked, ruling>>
    BY <1>18 DEF CheckPending, ResolverAt, permissionLog
  <2>2. CASE Fail
    BY <1>17, <2>1, <2>2
  <2>3. CASE ~Fail
    <3>1. owner' \in {"none", owner} /\ UNCHANGED <<task, envelope, cancelRaised, loop>>
      BY <1>18, <2>3 DEF CheckPending, LeaveResolver
    <3> QED
      BY <1>0, <2>1, <3>1
  <2> QED
    BY <2>2, <2>3
<1>19. CASE Claim
  <2>1. owner = "answer" /\ UNCHANGED <<asked, ruling>>
    BY <1>19 DEF Claim, Claiming, ResolverAt, permissionLog
  <2>2. CASE Fail
    BY <1>17, <2>1, <2>2
  <2>3. CASE ~Fail
    <3> DEFINE claims == Peek("blocked") = "some"
    <3>1. /\ owner' = "loop" /\ loop' = LoopFrom(resolver.knows) /\ UNCHANGED cancelRaised
          /\ Peek("blocked") # "error"
          /\ envelope' = IF claims THEN [envelope EXCEPT !.state = "resuming"] ELSE envelope
          /\ task' = [task EXCEPT !.status = "running", !.open = @ \/ claims,
                                  !.waitIsLast = FALSE, !.keyed = @ \/ claims]
      BY <1>19, <2>3 DEF Claim
    <3>2. /\ task'.attempt = task.attempt /\ task'.status = "running"
          /\ task'.terminal = task.terminal /\ task'.open = (task.open \/ claims)
          /\ ~task'.waitIsLast
      BY <1>0, <3>1 DEF TaskRecords
    <3>3. loop'.waiting = FALSE
      BY <3>1 DEF LoopFrom, IdleLoop
    <3>4. PendingOf(task.attempt) \ ChildRequests = {}
      BY <1>a, <1>19 DEF Claim, Claiming, ResolverAt, Ahead, ResolverIsAhead
    <3>5. claims => task.status = "waiting"
      BY <1>0, PeekFacts
    <3>6. ~cancelRaised => claims
      BY <1>0, <2>1, <3>1, PeekFacts
    <3> QED
      BY <1>0, <2>1, <3>1, <3>2, <3>3, <3>4, <3>5, <3>6
  <2> QED
    BY <2>2, <2>3
<1>20. CASE StoreFails
  BY <1>17, <1>20 DEF StoreFails, permissionLog
<1>21. CASE Retry
  <2>1. /\ task'.status = "running" /\ task'.terminal = FALSE /\ task'.open
        /\ ~task'.waitIsLast /\ owner' = "loop" /\ cancelRaised' = FALSE
    BY <1>21 DEF Retry
  <2>2. loop'.waiting = FALSE
    BY <1>21 DEF Retry, LoopFrom, IdleLoop
  <2> QED
    BY <2>1, <2>2
<1>22. CASE Restart
  <2>1. owner' = "none" /\ UNCHANGED <<asked, ruling>>
    BY <1>22 DEF Restart, permissionLog
  <2>2. CASE ~task.open \/ task.waitIsLast
    <3>1. UNCHANGED <<task, envelope>>
      BY <1>a, <1>22, <2>2, RestartFacts
    <3> QED
      BY <1>0, <2>1, <2>2, <3>1
  <2>3. CASE task.open /\ ~task.waitIsLast
    <3>1. /\ envelope' # NoCheckpoint /\ task'.terminal = task.terminal
          /\ task'.attempt = task.attempt
          /\ IF PendingOf(task.attempt) # {}
             THEN /\ envelope'.state = "blocked" /\ task'.status = "waiting"
                  /\ task'.open /\ task'.waitIsLast
             ELSE /\ envelope'.state = "paused" /\ task'.status = "paused"
                  /\ ~task'.open /\ ~task'.waitIsLast
      BY <1>a, <1>22, <2>3, RestartFacts
    <3> QED
      BY <1>0, <2>1, <2>3, <3>1
  <2> QED
    BY <1>0, <2>2, <2>3
<1>23. CASE UNCHANGED permissionVars
  BY <1>14, <1>23 DEF permissionVars, permissionLog, permissionMemory
<1> QED
  BY <1>1, <1>2, <1>3, <1>4, <1>5, <1>6, <1>7, <1>8, <1>9, <1>10, <1>11, <1>12, <1>13,
     <1>15, <1>16, <1>18, <1>19, <1>20, <1>21, <1>22, <1>23
     DEF PermissionNext, Deciding

\* Someone can always move a waiting session on.
LEMMA MovableStep ==
  OnceInv /\ StatusAgrees /\ Movable /\ [PermissionNext]_permissionVars => Movable'
<1> SUFFICES ASSUME OnceInv, StatusAgrees, Movable, [PermissionNext]_permissionVars,
                    owner' = "none", task'.status = "waiting"
             PROVE  \/ PendingInSession' # {}
                    \/ \E r \in ChildRequests : asked'[r] = task'.attempt /\ ruling'[r] # "none"
  BY DEF Movable
<1>0. /\ task \in TaskRecords /\ ruling \in [Requests -> Answers]
      /\ asked \in [Requests -> 0..MaxAttempts] /\ task.attempt \in Nat \ {0}
      /\ task'.attempt \in Nat \ {0} /\ PermissionTypeOK /\ Ahead
      /\ owner \in {"none", "loop", "answer"} /\ ChildRequests \subseteq Requests
  BY TaskFields, OnceStep, PermissionNames DEF OnceInv, PermissionTypeOK, TaskRecords
<1>1. CASE PendingOf(task.attempt)' # {}
  BY <1>0, <1>1 DEF PendingOf, PendingInSession
<1>2. CASE task.status = "waiting" /\ owner = "none" /\ UNCHANGED <<asked, ruling, task>>
  BY <1>2 DEF Movable, PendingInSession
<1>3. ASSUME NEW r \in Requests, NEW decision \in Deciding, ResolveInPlace(r, decision)
      PROVE  \E q \in ChildRequests : asked'[q] = task'.attempt /\ ruling'[q] # "none"
  BY <1>0, <1>3, AttemptStays, TaskAnswered DEF ResolveInPlace, PendingOf, Deciding
<1>4. CASE Park
  <2>1. PendingOf(task.attempt) # {} /\ UNCHANGED <<asked, ruling>>
    BY <1>4 DEF Park, LoopAt, StatusAgrees, permissionLog
  <2>2. task'.attempt = task.attempt
    BY <1>0, <1>4, TaskWaits DEF Park
  <2> QED
    BY <1>1, <2>1, <2>2 DEF PendingOf
<1>5. CASE Restart
  <2>1. UNCHANGED <<asked, ruling>> /\ task'.attempt = task.attempt
    BY <1>0, <1>5, RestartFacts DEF Restart, permissionLog
  <2>2. CASE task.open /\ ~task.waitIsLast
    BY <1>0, <1>1, <1>5, <2>1, <2>2, RestartFacts DEF PendingOf
  <2>3. CASE ~(task.open /\ ~task.waitIsLast)
    <3>1. UNCHANGED task
      BY <1>0, <1>5, <2>3, RestartFacts, TaskFields
    <3>2. task.waitIsLast /\ PendingOf(task.attempt) # {}
      BY <1>0, <2>3, <3>1, TaskFields DEF StatusAgrees
    <3> QED
      BY <1>1, <2>1, <3>2 DEF PendingOf
  <2> QED
    BY <2>2, <2>3
<1>6. CASE Fail /\ UNCHANGED <<asked, ruling>> /\ owner = "answer"
  <2>1. CASE FailPauses
    BY <1>0, <1>6, <2>1, FailFacts
  <2>2. CASE ~FailPauses
    <3>1. UNCHANGED task
      BY <1>0, <1>6, <2>2, FailFacts
    <3>2. PendingInSession # {}
      BY <2>2, <3>1 DEF FailPauses, StatusAgrees
    <3> QED
      BY <1>6, <3>1, <3>2 DEF PendingInSession
  <2> QED
    BY <2>1, <2>2
<1>7. CASE CheckPending
  <2>1. UNCHANGED <<asked, ruling>> /\ owner = "answer"
    BY <1>7 DEF CheckPending, permissionLog, ResolverAt
  <2>2. CASE ~Fail
    <3>1. PendingOf(task.attempt) # {} /\ UNCHANGED task
      BY <1>7, <2>1, <2>2 DEF CheckPending
    <3> QED
      BY <1>1, <2>1, <3>1 DEF PendingOf
  <2> QED
    BY <1>6, <2>1, <2>2
<1>8. CASE Claim \/ StoreFails
  BY <1>6, <1>8 DEF Claim, Claiming, StoreFails, ResolverAt, permissionLog
<1>9. CASE CancelTask
  <2>1. UNCHANGED <<asked, ruling, owner>> /\ task' \in {task, EndedTask}
    BY <1>9 DEF CancelTask, permissionLog
  <2> QED
    BY <1>0, <1>2, <2>1, TaskEnds
<1>10. CASE PauseLoop \/ LoopStops \/ Complete
  <2>1. owner = "loop"
    BY <1>10 DEF PauseLoop, LoopStops, Complete, LoopAt
  <2> QED
    BY <1>0, <1>10, <2>1, TaskPauses, TaskEnds
    DEF PauseLoop, LoopStops, Complete, StatusAgrees
<1>11. CASE Evict \/ RetryFails
  BY <1>2, <1>11 DEF Evict, RetryFails, permissionLog
<1>12. CASE UNCHANGED permissionVars
  BY <1>2, <1>12 DEF permissionVars, permissionLog, permissionMemory
<1>13. CASE \/ TakeTurn \/ GuardianAllows \/ GuardianDefers \/ ChildGoesOn \/ EndBatch
            \/ Rule \/ RunTool \/ Finish \/ Note \/ ListSiblings \/ ApplyHot
            \/ TakeSuspended \/ Restore \/ Retry
  BY <1>13
  DEF TakeTurn, GuardianAllows, GuardianDefers, ChildGoesOn, EndBatch, Rule, RunTool,
      Finish, Note, ListSiblings, ApplyHot, TakeSuspended, Restore, Retry, LoopAt, ResolverAt
<1>14. ASSUME NEW r \in Requests, Ask(r) \/ AskChild(r) \/ UseGrant(r) \/ AnswerSibling(r)
       PROVE  FALSE
  BY <1>14 DEF Ask, AskChild, UseGrant, AnswerSibling, LoopAt, ResolverAt, permissionMemory
<1>15. ASSUME NEW r \in Requests, NEW decision \in Deciding, BeginAnswer(r, decision)
       PROVE  FALSE
  BY <1>15 DEF BeginAnswer
<1> QED
  BY <1>3, <1>4, <1>5, <1>7, <1>8, <1>9, <1>10, <1>11, <1>12, <1>13, <1>14, <1>15
     DEF PermissionNext, Deciding

\* The first attempt runs and its loop owns it.
LEMMA MoveInitial == PermissionInit => MoveInv
<1> SUFFICES ASSUME PermissionInit PROVE MoveInv
  OBVIOUS
<1>1. StatusAgrees
  <2>1. loop.waiting = FALSE
    BY DEF PermissionInit, LoopFrom, IdleLoop
  <2> QED
    BY <2>1 DEF PermissionInit, StatusAgrees
<1>2. Movable
  BY DEF PermissionInit, Movable
<1> QED
  BY <1>1, <1>2, PermissionInitial DEF MoveInv

\* No step takes the invariant away.
LEMMA MoveStep == MoveInv /\ [PermissionNext]_permissionVars => MoveInv'
  BY OnceStep, StatusStep, MovableStep DEF MoveInv

\* A session that waits with nobody at work can be moved on by an answer, or
\* had a subagent's request answered in place, and its checkpoint can be
\* claimed; one that counts as running with nobody at work was cancelled.
THEOREM AnsweredRunAlwaysMovesOn == PermissionSpec => []AnsweredRunMovesOn
<1>1. MoveInv => AnsweredRunMovesOn
  BY DEF MoveInv, StatusAgrees, Movable, AnsweredRunMovesOn
<1> QED
  BY <1>1, MoveInitial, MoveStep, PTL DEF PermissionSpec

(***************************************************************************)
(* What a run that goes on must know.                                      *)
(***************************************************************************)
RulesDenial == Rule /\ resolver.decision = "deny"

\* Denials are written by the answering command alone, which rules on a request
\* of the newest attempt that nobody had answered.
LEMMA RuleFacts ==
  ASSUME OnceInv, Rule
  PROVE  /\ resolver.request \in Requests \ ChildRequests
         /\ asked[resolver.request] = task.attempt /\ resolver.request \notin noted
         /\ resolver.decision \in Deciding
         /\ ruling' = [ruling EXCEPT ![resolver.request] = resolver.decision]
         /\ task'.attempt = task.attempt /\ task'.terminal = task.terminal
         /\ UNCHANGED <<asked, envelope, snapshot, suspended, owner, cancelRaised, loop, origin>>
         /\ noted \subseteq noted'
         /\ resolver.decision = "deny" =>
              /\ noted' = noted \cup {resolver.request}
              /\ resolver'.at = "list" /\ resolver'.decision = "deny"
              /\ resolver'.done = resolver.done \cup {resolver.request}
              /\ forgotten' = IF envelope # NoCheckpoint /\ envelope.state = "paused"
                              THEN forgotten \cup {resolver.request} ELSE forgotten
         /\ resolver.decision # "deny" =>
              resolver'.at = "run" /\ UNCHANGED <<noted, forgotten>>
<1>1. /\ resolver.request \in PendingOf(task.attempt) \ ChildRequests
      /\ resolver.decision \in Deciding
  BY DEF Rule, ResolverAt, OnceInv, Ahead, ResolverIsAhead
<1>2. resolver.request \in Requests /\ resolver.request \notin noted
  BY <1>1 DEF PendingOf, OnceInv, Ahead, UnansweredIsUnrun
<1>3. task'.attempt = task.attempt /\ task'.terminal = task.terminal
  BY TaskAnswered DEF Rule, OnceInv, PermissionTypeOK
<1>4. /\ resolver.decision = "deny" =>
            /\ resolver'.at = "list" /\ resolver'.decision = "deny"
            /\ resolver'.done = resolver.done \cup {resolver.request}
      /\ resolver.decision # "deny" => resolver'.at = "run"
  BY DEF Rule, Resolvers, OnceInv, PermissionTypeOK
<1> QED
  BY <1>1, <1>2, <1>3, <1>4 DEF Rule, PendingOf

\* No other step adds to the denials a run must hold.
LEMMA KeptShrinks ==
  ASSUME OnceInv, [PermissionNext]_permissionVars, ~RulesDenial
  PROVE  Kept' \subseteq Kept
<1>0. /\ asked \in [Requests -> 0..MaxAttempts] /\ ruling \in [Requests -> Answers]
      /\ task.attempt \in Nat \ {0} /\ PermissionTypeOK /\ origin \in Nat
      /\ UnansweredIsUnrun
  BY TaskFields DEF OnceInv, PermissionTypeOK, Ahead
<1> USE DEF Kept, DueDenials
<1>1. CASE UNCHANGED <<asked, ruling, origin>> /\ forgotten \subseteq forgotten'
  BY <1>1
<1>2. CASE Rule
  BY <1>0, <1>2, RuleFacts DEF RulesDenial
<1>3. ASSUME NEW r \in Requests, Ask(r) \/ AskChild(r) PROVE Kept' \subseteq Kept
  <2>1. /\ asked' = [asked EXCEPT ![r] = task.attempt] /\ asked[r] = 0
        /\ UNCHANGED <<ruling, origin, forgotten>>
    BY <1>3 DEF Ask, AskChild, permissionHistory
  <2> QED
    BY <1>0, <2>1 DEF UnansweredIsUnrun
<1>4. ASSUME NEW r \in Requests, NEW decision \in Deciding, ResolveInPlace(r, decision)
      PROVE  Kept' \subseteq Kept
  BY <1>0, <1>4 DEF ResolveInPlace, permissionHistory
<1>5. CASE Retry
  <2>1. UNCHANGED <<asked, ruling>>
    BY <1>5 DEF Retry, permissionLog
  <2>2. \/ UNCHANGED <<origin, forgotten>>
        \/ origin' = task.attempt + 1
    BY <1>5 DEF Retry
  <2> QED
    BY <1>0, <1>1, <2>1, <2>2 DEF UnansweredIsUnrun
<1>6. CASE CheckPending
  BY <1>0, <1>1, <1>6, FailFacts DEF CheckPending, permissionLog
<1>7. CASE Claim
  BY <1>0, <1>1, <1>7, FailFacts DEF Claim, permissionLog
<1>8. CASE StoreFails
  BY <1>0, <1>1, <1>8, FailFacts DEF StoreFails, permissionLog
<1>9. CASE Restart
  BY <1>0, <1>1, <1>9, RestartFacts DEF Restart, permissionLog
<1>10. CASE \/ TakeTurn \/ GuardianAllows \/ GuardianDefers \/ ChildGoesOn \/ EndBatch
            \/ Park \/ PauseLoop \/ LoopStops \/ Complete \/ CancelTask
  BY <1>1, <1>10
  DEF TakeTurn, GuardianAllows, GuardianDefers, ChildGoesOn, EndBatch, Park, PauseLoop,
      LoopStops, Complete, CancelTask, permissionLog, permissionHistory
<1>11. CASE \/ RunTool \/ Finish \/ Note \/ ListSiblings \/ ApplyHot \/ TakeSuspended
            \/ Restore \/ RetryFails \/ Evict
  BY <1>1, <1>11
  DEF RunTool, Finish, Note, ListSiblings, ApplyHot, TakeSuspended, Restore, RetryFails,
      Evict, permissionLog, permissionHistory
<1>12. ASSUME NEW r \in Requests, UseGrant(r) \/ AnswerSibling(r) PROVE Kept' \subseteq Kept
  BY <1>1, <1>12 DEF UseGrant, AnswerSibling, permissionLog, permissionHistory
<1>13. ASSUME NEW r \in Requests, NEW decision \in Deciding, BeginAnswer(r, decision)
       PROVE  Kept' \subseteq Kept
  BY <1>1, <1>13 DEF BeginAnswer, permissionLog, permissionHistory
<1>14. CASE UNCHANGED permissionVars
  BY <1>1, <1>14 DEF permissionVars, permissionLog, permissionHistory
<1> QED
  BY <1>2, <1>3, <1>4, <1>5, <1>6, <1>7, <1>8, <1>9, <1>10, <1>11, <1>12, <1>13, <1>14
  DEF PermissionNext, Deciding

\* The log only grows, and within an attempt so do its observations.
LEMMA NotedGrows ==
  ASSUME OnceInv, [PermissionNext]_permissionVars
  PROVE  noted \subseteq noted' /\ (~Retry => NotedHere \subseteq NotedHere')
<1>1. noted \subseteq noted'
  BY CallsStay
  DEF permissionLog, GuardianAllows, ChildGoesOn, Rule, RunTool, Finish, Note, Ask,
      UseGrant, AskChild, ResolveInPlace
<1>2. \A r \in noted : asked'[r] = asked[r]
  <2>1. \A r \in noted : r \in Requests /\ asked[r] # 0
    BY DEF OnceInv, PermissionTypeOK, Ahead, UnansweredIsUnrun
  <2>2. ASSUME NEW r \in Requests, Ask(r) \/ AskChild(r)
        PROVE  \A q \in noted : asked'[q] = asked[q]
    <3>1. asked' = [asked EXCEPT ![r] = task.attempt] /\ asked[r] = 0
      BY <2>2 DEF Ask, AskChild
    <3> QED
      BY <2>1, <3>1 DEF OnceInv, PermissionTypeOK
  <2>3. CASE UNCHANGED asked
    BY <2>3
  <2>4. CASE GuardianAllows \/ ChildGoesOn \/ Rule \/ RunTool \/ Finish \/ Note
    BY <2>3, <2>4
    DEF GuardianAllows, ChildGoesOn, Rule, RunTool, Finish, Note, permissionLog
  <2>5. ASSUME NEW r \in Requests, UseGrant(r) PROVE UNCHANGED asked
    BY <2>5 DEF UseGrant
  <2>6. ASSUME NEW r \in Requests, NEW decision \in Deciding, ResolveInPlace(r, decision)
        PROVE  UNCHANGED asked
    BY <2>6 DEF ResolveInPlace
  <2>7. ASSUME ~GuardianAllows, ~ChildGoesOn, ~Rule, ~RunTool, ~Finish, ~Note,
               \A r \in Requests : ~Ask(r) /\ ~UseGrant(r) /\ ~AskChild(r),
               \A r \in Requests, decision \in Deciding : ~ResolveInPlace(r, decision)
        PROVE  UNCHANGED asked
    BY <2>7, CallsStay DEF permissionLog
  <2> QED
    BY <2>2, <2>3, <2>4, <2>5, <2>6, <2>7
<1>3. ~Retry => task'.attempt = task.attempt
  BY AttemptStays DEF OnceInv
<1> QED
  BY <1>1, <1>2, <1>3 DEF NotedHere

\* A command at work on a run that has not ended finds its checkpoint.
LEMMA AnswerHasCheckpoint ==
  ASSUME MoveInv, owner = "answer", ~task.terminal
  PROVE  envelope # NoCheckpoint /\ task.status \in {"waiting", "paused"}
  BY TaskFields DEF MoveInv, OnceInv, PermissionTypeOK, StatusAgrees

\* Steps that leave the checkpoints alone keep what they say.
LEMMA CheckpointsStay ==
  ASSUME DenialInv, [PermissionNext]_permissionVars, ~Retry, ~RulesDenial,
         UNCHANGED <<envelope, snapshot, origin>>, task.terminal => task'.terminal,
         owner' = "loop" /\ loop'.at # "model" /\ ~cancelRaised' =>
            SnapshotMatches /\ snapshot.seen = noted',
         envelope = NoCheckpoint /\ ~task'.terminal =>
            \A r \in Requests \ ChildRequests : asked'[r] = task.attempt => ruling'[r] = "none"
  PROVE  SavedIsSeen' /\ ColdKnows'
<1>1. noted \subseteq noted' /\ NotedHere \subseteq NotedHere' /\ Kept' \subseteq Kept
      /\ task'.attempt = task.attempt
  BY NotedGrows, KeptShrinks, AttemptStays DEF DenialInv, MoveInv, OnceInv
<1>2. SavedIsSeen'
  BY <1>1 DEF DenialInv, SavedIsSeen, SnapshotMatches
<1>3. ColdKnows'
  BY <1>1 DEF DenialInv, ColdKnows, SnapshotMatches, Replayed
<1> QED
  BY <1>2, <1>3

\* A snapshot of a state that holds the denials may replace an older one.
LEMMA SnapshotIsTaken ==
  ASSUME DenialInv, [PermissionNext]_permissionVars, ~Retry, ~RulesDenial,
         UNCHANGED <<envelope, origin, noted, asked, ruling>>, task'.terminal = task.terminal,
         NEW k \in SUBSET Requests, task.terminal \/ Kept \subseteq k,
         snapshot' = SnapshotOf(k)
  PROVE  SavedIsSeen' /\ ColdKnows'
<1>1. NotedHere \subseteq NotedHere' /\ Kept' \subseteq Kept /\ task'.attempt = task.attempt
  BY NotedGrows, KeptShrinks, AttemptStays DEF DenialInv, MoveInv, OnceInv
<1>2. /\ snapshot' # NoCheckpoint /\ snapshot'.attempt = task.attempt
      /\ snapshot'.knows = k /\ snapshot'.seen = noted
  BY SnapshotFacts DEF DenialInv, MoveInv, OnceInv
<1>3. task.attempt \in Nat
  BY TaskFields DEF DenialInv, MoveInv, OnceInv, PermissionTypeOK
<1>4. SavedIsSeen'
  BY <1>1, <1>2, <1>3 DEF DenialInv, SavedIsSeen, SnapshotMatches
<1>5. ColdKnows'
  BY <1>1, <1>2 DEF DenialInv, ColdKnows, SnapshotMatches, Replayed
<1> QED
  BY <1>4, <1>5

\* A loop that leaves saves what it knows, and keeps it in memory.
LEMMA LoopLeaves ==
  ASSUME DenialInv, Park \/ PauseLoop
  PROVE  SavedIsSeen' /\ ColdKnows' /\ HotKnows'
<1>0. /\ [PermissionNext]_permissionVars /\ ~Retry /\ ~RulesDenial
      /\ PermissionTypeOK /\ task \in TaskRecords
      /\ owner = "loop" /\ ~cancelRaised /\ owner' = "none"
      /\ UNCHANGED <<noted, asked, ruling, origin, resolver>> /\ suspended' = loop.knows
  BY DEF Park, PauseLoop, PermissionNext, LoopAt, LeaveLoop, Retry, RulesDenial, Rule,
         ResolverAt, permissionLog, permissionHistory, DenialInv, MoveInv, OnceInv,
         PermissionTypeOK
<1>1. NotedHere \subseteq NotedHere' /\ Kept' \subseteq Kept /\ task'.attempt = task.attempt
  BY <1>0, NotedGrows, KeptShrinks, AttemptStays DEF DenialInv, MoveInv, OnceInv
<1>2. /\ envelope' # NoCheckpoint /\ envelope'.knows = loop.knows /\ envelope'.seen = noted
  BY <1>0, LeavingFacts DEF Park, PauseLoop
<1>3. resolver.at = "idle" /\ Kept \subseteq loop.knows
  BY <1>0 DEF PermissionTypeOK, DenialInv, DenialIsRemembered, Kept
<1>4. \/ snapshot' = NoCheckpoint
      \/ snapshot' = snapshot /\ (SnapshotMatches => snapshot.seen = noted)
  BY <1>0 DEF Park, PauseLoop, LoopAt, DenialInv, SavedIsSeen
<1>5. SavedIsSeen'
  BY <1>0, <1>1, <1>2, <1>4 DEF DenialInv, SavedIsSeen, SnapshotMatches
<1>6. ~task.terminal
  BY <1>0 DEF DenialInv, MoveInv, StatusAgrees
<1>7. ColdKnows'
  BY <1>0, <1>1, <1>2, <1>3, <1>4, <1>6
  DEF DenialInv, ColdKnows, SnapshotMatches, Replayed
<1>8. HotKnows'
  BY <1>0, <1>1, <1>3 DEF HotKnows
<1> QED
  BY <1>5, <1>7, <1>8

\* A denial is noted as it is written, so that checkpoints saved before replay
\* it; one that is paused has no replay and forgets it.
LEMMA RuleIsNoted ==
  ASSUME DenialInv, Rule
  PROVE  SavedIsSeen' /\ ColdKnows' /\ HotKnows'
<1> DEFINE r == resolver.request
<1>0. OnceInv /\ owner = "answer" /\ resolver.at = "rule" /\ owner' = "answer"
  BY RuleFacts DEF DenialInv, MoveInv, Rule, ResolverAt
<1>1. CASE resolver.decision # "deny"
  <2>1. /\ [PermissionNext]_permissionVars /\ ~Retry /\ ~RulesDenial
    BY <1>0, <1>1 DEF PermissionNext, Retry, RulesDenial
  <2>2. /\ UNCHANGED <<envelope, snapshot, origin, suspended>>
        /\ task'.terminal = task.terminal /\ resolver'.at = "run"
    BY <1>0, <1>1, RuleFacts
  <2>3. SavedIsSeen' /\ ColdKnows'
    BY <1>0, <2>1, <2>2, AnswerHasCheckpoint, CheckpointsStay DEF DenialInv
  <2>4. Kept' \subseteq Kept
    BY <1>0, <2>1, KeptShrinks
  <2>5. HotKnows'
    BY <1>0, <2>2, <2>4 DEF HotKnows, DenialInv
  <2> QED
    BY <2>3, <2>5
<1>2. CASE resolver.decision = "deny"
  <2>1. /\ UNCHANGED <<envelope, snapshot, origin, suspended, asked>>
        /\ task'.terminal = task.terminal /\ task'.attempt = task.attempt
        /\ resolver'.at = "list" /\ resolver'.decision = "deny"
        /\ resolver'.done = resolver.done \cup {r}
        /\ r \in Requests /\ asked[r] = task.attempt /\ r \notin noted
        /\ noted' = noted \cup {r}
        /\ ruling' = [ruling EXCEPT ![r] = "deny"]
        /\ forgotten' = IF envelope # NoCheckpoint /\ envelope.state = "paused"
                        THEN forgotten \cup {r} ELSE forgotten
    BY <1>0, <1>2, RuleFacts
  <2> HIDE DEF r
  <2>2. NotedHere' = NotedHere \cup {r}
    BY <2>1 DEF NotedHere
  <2>3. /\ Kept' \subseteq Kept \cup {r}
        /\ envelope # NoCheckpoint /\ envelope.state = "paused" => Kept' \subseteq Kept
    BY <1>0, <2>1 DEF Kept, DueDenials, OnceInv, PermissionTypeOK
  <2>4. SavedIsSeen'
    <3>1. ~task.terminal => envelope # NoCheckpoint
      BY <1>0, AnswerHasCheckpoint DEF DenialInv
    <3> QED
      BY <1>0, <2>1, <3>1 DEF DenialInv, SavedIsSeen, SnapshotMatches
  <2>5. ColdKnows'
    <3>1. /\ envelope # NoCheckpoint => r \notin envelope.seen
          /\ snapshot # NoCheckpoint => r \notin snapshot.seen
      BY <2>1 DEF DenialInv, SavedIsSeen
    <3> QED
      BY <2>1, <2>2, <2>3, <3>1 DEF DenialInv, ColdKnows, SnapshotMatches, Replayed
  <2>6. HotKnows'
    BY <1>0, <2>1, <2>3 DEF HotKnows, DenialInv
  <2> QED
    BY <2>4, <2>5, <2>6
<1> QED
  BY <1>1, <1>2

\* A command that fails pauses the run at what was saved last, and forgets the
\* denials that only a replay would have given it.
LEMMA FailSavesDenials ==
  ASSUME DenialInv, Fail, [PermissionNext]_permissionVars, ~Retry, ~RulesDenial,
         owner = "answer", UNCHANGED <<permissionLog, snapshot, origin>>
  PROVE  SavedIsSeen' /\ ColdKnows'
<1>0. PermissionTypeOK /\ NotedHere \subseteq NotedHere' /\ Kept' \subseteq Kept
      /\ task'.attempt = task.attempt /\ UNCHANGED <<asked, ruling, noted>>
      /\ owner' = "none"
  BY NotedGrows, KeptShrinks, AttemptStays, FailFacts
  DEF DenialInv, MoveInv, OnceInv, permissionLog
<1>1. CASE ~FailPauses
  <2>1. UNCHANGED <<task, envelope>>
    BY <1>0, <1>1, FailFacts
  <2> QED
    BY <1>0, <2>1, CheckpointsStay DEF DenialInv, SavedIsSeen
<1>2. CASE FailPauses
  <2>1. /\ task'.terminal = task.terminal /\ ~task.terminal
        /\ envelope' # NoCheckpoint /\ envelope'.state = "paused"
        /\ envelope'.knows = FailSaved.knows /\ envelope'.seen = FailSaved.seen
        /\ forgotten' = forgotten \cup
             {r \in NotedHere \ FailSaved.seen : ruling[r] = "deny"}
        /\ envelope # NoCheckpoint /\ envelope.state # "paused"
    BY <1>0, <1>2, FailFacts DEF FailPauses
  <2>2. FailSaved = IF SnapshotMatches THEN snapshot ELSE envelope
    BY DEF FailSaved
  <2>3. Kept \subseteq Replayed(FailSaved)
    BY <2>1, <2>2 DEF DenialInv, ColdKnows
  <2>4. Kept' \subseteq FailSaved.knows
    <3>1. ASSUME NEW r \in Kept' PROVE r \in FailSaved.knows
      <4>1. r \in Kept /\ ruling[r] = "deny" /\ r \notin forgotten'
        BY <1>0, <3>1 DEF Kept, DueDenials
      <4> QED
        BY <2>1, <2>3, <4>1 DEF Replayed
    <3> QED
      BY <3>1
  <2>5. SavedIsSeen'
    BY <1>0, <2>1, <2>2 DEF DenialInv, SavedIsSeen, SnapshotMatches
  <2>6. ColdKnows'
    BY <1>0, <2>1, <2>4 DEF DenialInv, ColdKnows, SnapshotMatches, Replayed
  <2> QED
    BY <2>5, <2>6
<1> QED
  BY <1>1, <1>2

\* A restart saves a state that holds every denial, unless the attempt has
\* neither a snapshot nor a checkpoint.
LEMMA ReconciledKnows ==
  ASSUME DenialInv, ~task.terminal
  PROVE  /\ ReconciledState.seen \subseteq noted
         /\ (envelope = NoCheckpoint /\ ~SnapshotMatches) \/ Kept \subseteq ReconciledState.knows
<1> DEFINE denied == IF envelope = NoCheckpoint THEN {}
                     ELSE {r \in NotedHere \ envelope.seen : ruling[r] = "deny"}
<1>1. \A r \in Kept : r \in Requests \ ChildRequests /\ ruling[r] = "deny"
  BY DEF Kept, DueDenials
<1>2. \A r \in NotedHere : asked[r] = task.attempt
  BY DEF NotedHere
<1>3. CASE SnapshotMatches /\ denied \subseteq snapshot.knows
  <2>1. ReconciledState = snapshot
    BY <1>3 DEF ReconciledState
  <2>2. snapshot # NoCheckpoint
    BY <1>3 DEF SnapshotMatches
  <2>3. Kept \subseteq snapshot.knows \cup (NotedHere \ snapshot.seen)
    BY <1>3 DEF DenialInv, ColdKnows, Replayed
  <2>4. CASE envelope = NoCheckpoint
    BY <1>1, <1>2, <2>1, <2>2, <2>3, <2>4 DEF DenialInv, SavedIsSeen
  <2>5. CASE envelope # NoCheckpoint
    BY <1>1, <1>3, <2>1, <2>2, <2>3, <2>5 DEF DenialInv, SavedIsSeen
  <2> QED
    BY <2>4, <2>5
<1>4. CASE ~(SnapshotMatches /\ denied \subseteq snapshot.knows) /\ envelope # NoCheckpoint
  <2>1. ReconciledState = IF denied = {} THEN envelope
                          ELSE [knows |-> envelope.knows \cup denied, seen |-> noted]
    BY <1>4 DEF ReconciledState
  <2>2. Kept \subseteq envelope.knows \cup denied
    BY <1>1, <1>4 DEF DenialInv, ColdKnows, Replayed
  <2>3. envelope.seen \subseteq noted
    BY <1>4 DEF DenialInv, SavedIsSeen
  <2> HIDE DEF denied
  <2> QED
    BY <2>1, <2>2, <2>3
<1>5. CASE ~(SnapshotMatches /\ denied \subseteq snapshot.knows) /\ envelope = NoCheckpoint
  BY <1>5 DEF ReconciledState, NoState
<1> QED
  BY <1>3, <1>4, <1>5

\* The process dies and reconciles.
LEMMA RestartKeepsDenials ==
  ASSUME DenialInv, Restart
  PROVE  SavedIsSeen' /\ ColdKnows'
<1>0. /\ [PermissionNext]_permissionVars /\ ~RulesDenial /\ PermissionTypeOK
      /\ owner' = "none" /\ UNCHANGED <<asked, ruling, noted, origin>> /\ suspended' = NoRun
  BY DEF PermissionNext, Retry, RulesDenial, Rule, Restart, ResolverAt, permissionLog,
         DenialInv, MoveInv, OnceInv
<1>1. Kept' \subseteq Kept /\ task'.attempt = task.attempt /\ NotedHere' = NotedHere
  BY <1>0, KeptShrinks, RestartFacts DEF DenialInv, MoveInv, OnceInv, NotedHere
<1>2. CASE ~task.open
  <2>1. UNCHANGED <<task, envelope, snapshot>>
    BY <1>0, <1>2, RestartFacts
  <2> QED
    BY <1>0, <1>1, <2>1 DEF DenialInv, SavedIsSeen, ColdKnows, SnapshotMatches, Replayed
<1>3. CASE task.open /\ task.waitIsLast
  <2>1. snapshot' = NoCheckpoint /\ UNCHANGED <<task, envelope>>
    BY <1>0, <1>3, RestartFacts
  <2> QED
    BY <1>0, <1>1, <2>1 DEF DenialInv, SavedIsSeen, ColdKnows, SnapshotMatches, Replayed
<1>4. CASE task.open /\ ~task.waitIsLast
  <2>1. /\ snapshot' = NoCheckpoint /\ envelope' # NoCheckpoint
        /\ envelope'.knows = ReconciledState.knows
        /\ envelope'.seen = ReconciledState.seen
        /\ forgotten' = IF envelope = NoCheckpoint /\ ~SnapshotMatches
                        THEN forgotten \cup DueDenials ELSE forgotten
    BY <1>0, <1>4, RestartFacts
  <2>2. ~task.terminal
    BY <1>4 DEF DenialInv, MoveInv, StatusAgrees
  <2>3. Kept' \subseteq envelope'.knows /\ envelope'.seen \subseteq noted
    <3>1. CASE envelope = NoCheckpoint /\ ~SnapshotMatches
      <4>1. DueDenials' = DueDenials
        BY <1>0 DEF DueDenials
      <4>2. Kept' = {}
        BY <2>1, <3>1, <4>1 DEF Kept
      <4> QED
        BY <2>1, <2>2, <4>2, ReconciledKnows
    <3>2. CASE ~(envelope = NoCheckpoint /\ ~SnapshotMatches)
      BY <1>1, <2>1, <2>2, <3>2, ReconciledKnows
    <3> QED
      BY <3>1, <3>2
  <2> QED
    BY <1>0, <1>1, <2>1, <2>3 DEF DenialInv, SavedIsSeen, ColdKnows, SnapshotMatches, Replayed
<1> QED
  BY <1>2, <1>3, <1>4, TaskFields

\* The checkpoints hold the denials after every step.
LEMMA CheckpointsStep ==
  ASSUME DenialInv, [PermissionNext]_permissionVars
  PROVE  SavedIsSeen' /\ ColdKnows'
<1>0. /\ PermissionTypeOK /\ UnansweredIsUnrun /\ loop \in Loops /\ resolver \in Resolvers
      /\ task \in TaskRecords /\ task.attempt \in Nat /\ ~(0 = task.attempt)
      /\ asked \in [Requests -> 0..MaxAttempts] /\ ruling \in [Requests -> Answers]
  BY TaskFields DEF DenialInv, MoveInv, OnceInv, PermissionTypeOK, Ahead
<1>s. /\ SavedIsSeen /\ StatusAgrees
  BY DEF DenialInv, MoveInv
<1>1. CASE TakeTurn
  <2>1. /\ ~Retry /\ ~RulesDenial /\ snapshot' = SnapshotOf(loop.knows)
        /\ UNCHANGED <<envelope, origin, noted, asked, ruling, task>>
        /\ owner = "loop" /\ ~cancelRaised
    BY <1>1 DEF TakeTurn, LoopAt, Retry, RulesDenial, Rule, ResolverAt, permissionLog,
                permissionHistory
  <2>2. loop.knows \in SUBSET Requests /\ Kept \subseteq loop.knows
    BY <1>0, <2>1, LoopFields DEF DenialInv, DenialIsRemembered, Kept
  <2> QED
    BY <2>1, <2>2, SnapshotIsTaken
<1>2. CASE GuardianAllows \/ \E r \in Requests : UseGrant(r)
  <2>1. /\ ~Retry /\ ~RulesDenial
        /\ UNCHANGED <<envelope, origin, noted, asked, ruling, task, owner, cancelRaised>>
        /\ owner = "loop" /\ loop.at # "model"
        /\ cancelRaised => snapshot' = snapshot
        /\ ~cancelRaised => snapshot' = SnapshotOf(loop.knows)
    BY <1>2 DEF GuardianAllows, UseGrant, LoopAt, Retry, RulesDenial, Rule, ResolverAt,
                permissionMemory
  <2>2. CASE cancelRaised
    BY <1>s, <2>1, <2>2, CheckpointsStay DEF SavedIsSeen
  <2>3. CASE ~cancelRaised
    <3>1. loop.knows \in SUBSET Requests /\ Kept \subseteq loop.knows
      BY <1>0, <2>1, <2>3, LoopFields DEF DenialInv, DenialIsRemembered, Kept
    <3> QED
      BY <2>1, <2>3, <3>1, SnapshotIsTaken
  <2> QED
    BY <2>2, <2>3
<1>3. CASE GuardianDefers \/ ChildGoesOn \/ EndBatch
  <2>1. /\ ~Retry /\ ~RulesDenial
        /\ UNCHANGED <<envelope, snapshot, origin, noted, asked, ruling, task, owner,
                       cancelRaised>>
        /\ owner = "loop" /\ loop.at # "model"
    BY <1>3 DEF GuardianDefers, ChildGoesOn, EndBatch, LoopAt, Retry, RulesDenial, Rule,
                ResolverAt, permissionLog, permissionHistory
  <2> QED
    BY <1>s, <2>1, CheckpointsStay DEF SavedIsSeen
<1>4. ASSUME NEW r \in Requests, Ask(r) \/ AskChild(r) PROVE SavedIsSeen' /\ ColdKnows'
  <2>1. /\ ~Retry /\ ~RulesDenial
        /\ UNCHANGED <<envelope, snapshot, origin, noted, ruling, task, owner, cancelRaised>>
        /\ owner = "loop" /\ loop.at # "model"
        /\ asked' = [asked EXCEPT ![r] = task.attempt] /\ asked[r] = 0
    BY <1>4 DEF Ask, AskChild, LoopAt, Retry, RulesDenial, Rule, ResolverAt,
                permissionHistory
  <2>2. envelope = NoCheckpoint /\ ~task'.terminal =>
          \A q \in Requests \ ChildRequests : asked'[q] = task.attempt => ruling'[q] = "none"
    BY <1>0, <1>s, <2>1 DEF SavedIsSeen, UnansweredIsUnrun
  <2> QED
    BY <1>s, <2>1, <2>2, CheckpointsStay DEF SavedIsSeen
<1>5. CASE Park \/ PauseLoop
  BY <1>5, LoopLeaves
<1>6. CASE LoopStops
  <2>1. /\ ~Retry /\ ~RulesDenial /\ owner' = "none"
        /\ UNCHANGED <<envelope, snapshot, origin, noted, asked, ruling, task>>
    BY <1>6 DEF LoopStops, LeaveLoop, LoopAt, Retry, RulesDenial, Rule, ResolverAt,
                permissionLog, permissionHistory
  <2> QED
    BY <1>s, <2>1, CheckpointsStay DEF SavedIsSeen
<1>7. CASE Complete \/ (CancelTask /\ ~task.terminal)
  <2>1. /\ task'.terminal /\ task'.attempt = task.attempt /\ snapshot' = NoCheckpoint
        /\ UNCHANGED <<envelope, noted, origin>>
        /\ ~(owner' = "loop" /\ ~cancelRaised')
    BY <1>0, <1>7, TaskEnds DEF Complete, CancelTask, LeaveLoop, permissionLog,
                                permissionHistory
  <2> QED
    BY <1>s, <2>1 DEF SavedIsSeen, ColdKnows, SnapshotMatches
<1>8. CASE CancelTask /\ task.terminal
  <2>1. /\ ~RulesDenial \/ UNCHANGED <<ruling, noted>>
        /\ UNCHANGED <<task, envelope, snapshot, noted, origin, asked, ruling, owner>>
        /\ ~(owner' = "loop" /\ ~cancelRaised')
    BY <1>8 DEF CancelTask, permissionLog, permissionHistory
  <2> QED
    BY <1>s, <1>8, <2>1 DEF SavedIsSeen, ColdKnows, SnapshotMatches
<1>9. ASSUME NEW r \in Requests, NEW decision \in Deciding, BeginAnswer(r, decision)
      PROVE  SavedIsSeen' /\ ColdKnows'
  <2>1. /\ ~RulesDenial /\ owner' = "answer" /\ ~Retry
        /\ UNCHANGED <<envelope, snapshot, origin, noted, asked, ruling, task>>
    BY <1>9 DEF BeginAnswer, Retry, RulesDenial, Rule, ResolverAt,
                permissionLog, permissionHistory
  <2> QED
    BY <1>s, <2>1, CheckpointsStay DEF SavedIsSeen
<1>10. ASSUME NEW r \in Requests, NEW decision \in Deciding, ResolveInPlace(r, decision)
       PROVE  SavedIsSeen' /\ ColdKnows'
  <2>1. /\ UNCHANGED <<envelope, snapshot, origin, noted, asked, owner, loop, cancelRaised,
                       resolver, forgotten>>
        /\ ruling' = [ruling EXCEPT ![r] = decision] /\ r \in ChildRequests
    BY <1>10 DEF ResolveInPlace, permissionMemory, permissionHistory
  <2>2. task'.terminal = task.terminal /\ task'.attempt = task.attempt
    BY <1>0, <1>10, TaskAnswered DEF ResolveInPlace
  <2>3. Kept' \subseteq Kept /\ NotedHere' = NotedHere
    BY <1>0, <2>1, <2>2 DEF Kept, DueDenials, NotedHere
  <2>4. SavedIsSeen'
    BY <1>0, <1>s, <2>1, <2>2 DEF SavedIsSeen, SnapshotMatches
  <2>5. ColdKnows'
    BY <2>1, <2>2, <2>3 DEF DenialInv, ColdKnows, SnapshotMatches, Replayed
  <2> QED
    BY <2>4, <2>5
<1>11. CASE Rule
  BY <1>11, RuleIsNoted
<1>12. CASE \/ RunTool \/ Finish \/ Note \/ ListSiblings \/ ApplyHot \/ TakeSuspended
            \/ \E r \in Requests : AnswerSibling(r)
  <2>1. /\ ~RulesDenial /\ ~Retry /\ owner' = "answer"
        /\ UNCHANGED <<envelope, snapshot, origin, asked, ruling, task>>
    BY <1>12 DEF RunTool, Finish, Note, ListSiblings, ApplyHot, TakeSuspended, AnswerSibling,
                 Retry, RulesDenial, Rule, ResolverAt, permissionLog, permissionHistory
  <2> QED
    BY <1>s, <2>1, CheckpointsStay DEF SavedIsSeen
<1>13. CASE CheckPending
  <2>1. /\ ~RulesDenial /\ ~Retry /\ owner = "answer"
        /\ UNCHANGED <<permissionLog, snapshot, origin>>
        /\ Fail \/ (UNCHANGED <<task, envelope>> /\ owner' \in {"none", "answer"})
    BY <1>13 DEF CheckPending, Retry, RulesDenial, Rule, ResolverAt, LeaveResolver
  <2>2. CASE Fail
    BY <2>1, <2>2, FailSavesDenials
  <2>3. CASE UNCHANGED <<task, envelope>> /\ owner' \in {"none", "answer"}
    BY <1>s, <2>1, <2>3, CheckpointsStay DEF SavedIsSeen, permissionLog
  <2> QED
    BY <2>1, <2>2, <2>3
<1>14. CASE Restore
  <2>1. /\ ~RulesDenial /\ ~Retry /\ owner' = "answer" /\ resolver.at = "restore"
        /\ UNCHANGED <<envelope, origin, noted, asked, ruling, task>>
        /\ snapshot' = snapshot \/ snapshot' = SnapshotOf(resolver.knows)
    BY <1>14 DEF Restore, Retry, RulesDenial, Rule, ResolverAt, permissionLog,
                 permissionHistory
  <2>2. CASE snapshot' = snapshot
    BY <1>s, <2>1, <2>2, CheckpointsStay DEF SavedIsSeen
  <2>3. CASE snapshot' = SnapshotOf(resolver.knows)
    <3>1. resolver.knows \in SUBSET Requests /\ (task.terminal \/ Kept \subseteq resolver.knows)
      BY <1>0, <2>1, ResolverFields DEF DenialInv, ResolverKnows
    <3> QED
      BY <2>1, <2>3, <3>1, SnapshotIsTaken
  <2> QED
    BY <2>1, <2>2, <2>3
<1>15. CASE Claim
  <2>1. /\ ~RulesDenial /\ ~Retry /\ owner = "answer"
        /\ UNCHANGED <<permissionLog, snapshot, origin>>
    BY <1>15 DEF Claim, Claiming, Retry, RulesDenial, Rule, ResolverAt
  <2>2. CASE Fail
    BY <2>1, <2>2, FailSavesDenials
  <2>3. CASE ~Fail
    <3>1. /\ envelope' = envelope \/ (Peek("blocked") = "some"
                                       /\ envelope' = [envelope EXCEPT !.state = "resuming"])
          /\ owner' = "loop" /\ UNCHANGED <<cancelRaised, forgotten>>
          /\ loop' = LoopFrom(resolver.knows)
      BY <1>15, <2>3 DEF Claim
    <3>2. task'.attempt = task.attempt /\ task'.terminal = task.terminal
      BY <1>0, <1>15, <2>3, TaskResumes DEF Claim
    <3>3. loop'.at = "model"
      BY <1>0, <3>1, ResolverFields, LoopBegins
    <3>4. \/ envelope' = envelope
          \/ /\ envelope # NoCheckpoint /\ envelope.state = "blocked"
             /\ envelope' # NoCheckpoint /\ envelope'.state = "resuming"
             /\ envelope'.knows = envelope.knows /\ envelope'.seen = envelope.seen
      <4>1. CASE Peek("blocked") = "some" /\ envelope' = [envelope EXCEPT !.state = "resuming"]
        <5>1. envelope # NoCheckpoint /\ envelope.state = "blocked" /\ envelope \in Envelopes
          BY <1>0, <4>1, PeekFacts DEF PermissionTypeOK
        <5>2. /\ envelope' \in Envelopes /\ envelope'.state = "resuming"
              /\ envelope'.knows = envelope.knows /\ envelope'.seen = envelope.seen
          BY <4>1, <5>1 DEF Envelopes
        <5> QED
          BY <5>1, <5>2, NoCheckpointAssumption
      <4> QED
        BY <3>1, <4>1
    <3>5. Kept' = Kept /\ NotedHere' = NotedHere /\ UNCHANGED <<asked, ruling, noted>>
      BY <2>1, <3>1, <3>2 DEF Kept, DueDenials, NotedHere, permissionLog
    <3>6. SavedIsSeen'
      BY <1>s, <2>1, <3>2, <3>3, <3>4, <3>5 DEF SavedIsSeen, SnapshotMatches
    <3>7. ColdKnows'
      BY <2>1, <3>2, <3>4, <3>5 DEF DenialInv, ColdKnows, SnapshotMatches, Replayed
    <3> QED
      BY <3>6, <3>7
  <2> QED
    BY <2>2, <2>3
<1>16. CASE StoreFails
  <2>1. /\ ~RulesDenial /\ ~Retry /\ owner = "answer" /\ Fail
        /\ UNCHANGED <<permissionLog, snapshot, origin>>
    BY <1>16, FailFacts DEF StoreFails, Retry, RulesDenial, Rule, permissionLog, Fail, LeaveResolver
  <2> QED
    BY <2>1, FailSavesDenials
<1>17. CASE Retry
  <2>1. /\ task'.attempt = task.attempt + 1 /\ envelope' = NoCheckpoint
        /\ UNCHANGED <<snapshot, asked, ruling, noted>>
        /\ origin' = origin \/ origin' = task.attempt + 1
    BY <1>17 DEF Retry, permissionLog
  <2>2. /\ owner' = "loop" /\ loop'.at = "model"
    <3>1. suspended # NoRun => suspended \in SUBSET Requests
      BY <1>0 DEF PermissionTypeOK
    <3>2. envelope # NoCheckpoint => envelope.knows \in SUBSET Requests
      BY <1>0 DEF PermissionTypeOK, Envelopes
    <3> QED
      BY <1>17 DEF Retry, LoopFrom, IdleLoop
  <2>3. ~SnapshotMatches'
    BY <1>0, <1>s, <2>1 DEF SavedIsSeen, SnapshotMatches, PermissionTypeOK, Snapshots
  <2>4. \A r \in Requests : asked[r] # task.attempt + 1
    BY <1>0 DEF UnansweredIsUnrun
  <2>5. SavedIsSeen'
    BY <1>0, <1>s, <2>1, <2>2, <2>3, <2>4 DEF SavedIsSeen, PermissionTypeOK, Snapshots
  <2>6. ColdKnows'
    BY <2>1, <2>3 DEF ColdKnows
  <2> QED
    BY <2>5, <2>6
<1>18. CASE RetryFails \/ Evict \/ UNCHANGED permissionVars
  <2>1. /\ UNCHANGED <<envelope, snapshot, origin, noted, asked, ruling, task, owner, loop,
                       cancelRaised, forgotten>>
    BY <1>18 DEF RetryFails, Evict, permissionVars, permissionLog, permissionMemory,
                 permissionHistory
  <2> QED
    BY <1>s, <2>1 DEF DenialInv, SavedIsSeen, ColdKnows, SnapshotMatches, Replayed, Kept,
                      DueDenials, NotedHere
<1>19. CASE Restart
  BY <1>19, RestartKeepsDenials
<1> QED
  BY <1>1, <1>2, <1>3, <1>4, <1>5, <1>6, <1>7, <1>8, <1>9, <1>10, <1>11, <1>12, <1>13,
     <1>14, <1>15, <1>16, <1>17, <1>18, <1>19
  DEF PermissionNext, Deciding

\* The suspended run and the answering command hold them too.
LEMMA MemoryStep ==
  ASSUME DenialInv, [PermissionNext]_permissionVars
  PROVE  HotKnows' /\ ResolverKnows'
<1>0. /\ PermissionTypeOK /\ OnceInv /\ MoveInv /\ resolver \in Resolvers
      /\ (owner = "answer") = (resolver.at # "idle")
      /\ ResolverIsAhead /\ HotKnows /\ ResolverKnows
  BY DEF DenialInv, MoveInv, OnceInv, PermissionTypeOK, Ahead
<1>k. ~RulesDenial => Kept' \subseteq Kept
  BY <1>0, KeptShrinks
<1>i. IdleResolver.at = "idle"
  BY ResolverIdle
<1>1. CASE UNCHANGED <<suspended, resolver>> /\ ~RulesDenial /\ owner # "answer"
  BY <1>0, <1>1, <1>k DEF HotKnows, ResolverKnows
<1>2. CASE TakeTurn \/ GuardianAllows \/ GuardianDefers \/ ChildGoesOn \/ EndBatch
  BY <1>1, <1>2 DEF TakeTurn, GuardianAllows, GuardianDefers, ChildGoesOn, EndBatch, LoopAt,
                    RulesDenial, Rule, ResolverAt
<1>3. ASSUME NEW r \in Requests, Ask(r) \/ AskChild(r) \/ UseGrant(r)
      PROVE  HotKnows' /\ ResolverKnows'
  BY <1>1, <1>3 DEF Ask, AskChild, UseGrant, LoopAt, RulesDenial, Rule, ResolverAt,
                    permissionMemory
<1>4. CASE Park \/ PauseLoop
  <2>1. resolver'.at = "idle"
    BY <1>0, <1>4 DEF Park, PauseLoop, LeaveLoop, LoopAt
  <2> QED
    BY <1>4, <2>1, LoopLeaves DEF ResolverKnows
<1>5. CASE LoopStops \/ Complete \/ Retry \/ RetryFails
  <2>1. suspended' = NoRun /\ resolver'.at = "idle"
    BY <1>0, <1>5 DEF LoopStops, Complete, Retry, RetryFails, LeaveLoop, LoopAt
  <2> QED
    BY <2>1 DEF HotKnows, ResolverKnows
<1>6. CASE Restart
  BY <1>6, <1>i DEF Restart, HotKnows, ResolverKnows
<1>7. CASE CancelTask \/ Evict
  <2>1. /\ suspended' = NoRun /\ UNCHANGED <<resolver, ruling, asked, noted, origin, forgotten>>
        /\ task.terminal => task'.terminal
    BY <1>7 DEF CancelTask, Evict, permissionLog, permissionHistory
  <2>2. Kept' = Kept /\ task'.attempt = task.attempt
    <3>1. task'.attempt = task.attempt
      BY <1>0, <1>7, TaskEnds DEF CancelTask, Evict, PermissionTypeOK
    <3> QED
      BY <2>1, <3>1 DEF Kept, DueDenials
  <2>3. NotedHere' = NotedHere
    BY <2>1, <2>2 DEF NotedHere
  <2> QED
    BY <1>0, <2>1, <2>2, <2>3 DEF HotKnows, ResolverKnows, Replayed
<1>8. ASSUME NEW r \in Requests, NEW decision \in Deciding, BeginAnswer(r, decision)
      PROVE  HotKnows' /\ ResolverKnows'
  <2>1. ~RulesDenial /\ resolver.at = "idle" /\ UNCHANGED suspended
    BY <1>0, <1>8 DEF BeginAnswer, RulesDenial, Rule, ResolverAt
  <2>2. resolver'.at = "rule"
    BY <1>8 DEF BeginAnswer, IdleResolver
  <2> QED
    BY <1>0, <1>k, <2>1, <2>2 DEF HotKnows, ResolverKnows
<1>9. ASSUME NEW r \in Requests, NEW decision \in Deciding, ResolveInPlace(r, decision)
      PROVE  HotKnows' /\ ResolverKnows'
  <2>1. /\ UNCHANGED <<suspended, resolver, asked, noted, origin, forgotten>>
        /\ ruling' = [ruling EXCEPT ![r] = decision] /\ r \in ChildRequests
    BY <1>9 DEF ResolveInPlace, permissionMemory, permissionHistory
  <2>2. task'.terminal = task.terminal /\ task'.attempt = task.attempt
    BY <1>0, <1>9, TaskAnswered DEF ResolveInPlace, PermissionTypeOK
  <2>3. Kept' \subseteq Kept /\ NotedHere' = NotedHere
    BY <1>0, <2>1, <2>2 DEF Kept, DueDenials, NotedHere, PermissionTypeOK
  <2> QED
    BY <1>0, <2>1, <2>2, <2>3 DEF HotKnows, ResolverKnows, Replayed
<1>10. CASE Rule
  <2>1. resolver'.at \in {"list", "run"}
    BY <1>0, <1>10, RuleFacts
  <2> QED
    BY <1>10, <2>1, RuleIsNoted DEF ResolverKnows
<1>11. CASE RunTool \/ Finish
  <2>1. /\ ~RulesDenial /\ UNCHANGED suspended /\ resolver.at \in {"run", "finish"}
        /\ resolver'.at \in {"finish", "note"}
    BY <1>0, <1>11, ResolverMoves DEF RunTool, Finish, ResolverAt, RulesDenial, Rule
  <2> QED
    BY <1>0, <1>k, <2>1 DEF HotKnows, ResolverKnows
<1>12. CASE Note
  <2>1. /\ ~RulesDenial /\ UNCHANGED suspended /\ resolver.at = "note"
        /\ resolver.decision # "deny" /\ resolver.request \in Requests
    BY <1>0, <1>12 DEF Note, ResolverAt, RulesDenial, Rule, ResolverIsAhead
  <2>2. resolver'.at = "list" /\ resolver'.decision = resolver.decision
    BY <1>0, <1>12, <2>1, ResolverNotes DEF Note
  <2> QED
    BY <1>0, <1>k, <2>1, <2>2 DEF HotKnows, ResolverKnows
<1>13. CASE ListSiblings
  <2>1. ~RulesDenial /\ UNCHANGED suspended /\ resolver.at = "list"
    BY <1>13 DEF ListSiblings, ResolverAt, RulesDenial, Rule
  <2>2. /\ resolver'.at = "next" /\ resolver'.decision = resolver.decision
        /\ resolver'.done = resolver.done
    BY <1>0, <1>13 DEF ListSiblings, Resolvers
  <2> QED
    BY <1>0, <1>k, <2>1, <2>2 DEF HotKnows, ResolverKnows
<1>14. ASSUME NEW r \in Requests, AnswerSibling(r) PROVE HotKnows' /\ ResolverKnows'
  <2>1. /\ ~RulesDenial /\ UNCHANGED suspended /\ resolver.at = "next"
        /\ resolver.decision # "deny"
    BY <1>0, <1>14 DEF AnswerSibling, ResolverAt, RulesDenial, Rule, ResolverIsAhead
  <2>2. resolver'.at = "rule"
    BY <1>0, <1>14 DEF AnswerSibling, Resolvers
  <2> QED
    BY <1>0, <1>k, <2>1, <2>2 DEF HotKnows, ResolverKnows
<1>15. CASE ApplyHot
  <2>1. /\ ~RulesDenial /\ resolver.at = "next"
        /\ suspended' = IF suspended = NoRun THEN NoRun ELSE suspended \cup resolver.done
    BY <1>15 DEF ApplyHot, ResolverAt, RulesDenial, Rule
  <2>2. resolver'.at = "check"
    BY <1>0, <1>15 DEF ApplyHot, Resolvers
  <2> QED
    BY <1>0, <1>k, <2>1, <2>2 DEF HotKnows, ResolverKnows
<1>16. ASSUME Fail, PutBack \/ (UNCHANGED suspended /\ resolver.at = "check"),
              owner = "answer", ~RulesDenial,
              resolver.at \in {"list", "next"} => resolver.decision # "deny"
       PROVE  HotKnows' /\ ResolverKnows'
  <2>1. resolver'.at = "idle"
    BY <1>0, <1>16, <1>i, FailFacts
  <2>2. \/ suspended' = suspended
        \/ suspended' = resolver.knows /\ resolver.at = "claim hot"
    BY <1>16 DEF PutBack
  <2> QED
    BY <1>0, <1>16, <1>k, <2>1, <2>2 DEF HotKnows, ResolverKnows
<1>17. CASE StoreFails
  BY <1>16, <1>17 DEF StoreFails, RulesDenial, Rule, Fail, LeaveResolver
<1>18. CASE CheckPending
  <2>1. /\ ~RulesDenial /\ UNCHANGED <<suspended, permissionLog>> /\ resolver.at = "check"
        /\ owner = "answer"
    BY <1>18 DEF CheckPending, ResolverAt, RulesDenial, Rule
  <2>2. CASE Fail
    BY <1>16, <2>1, <2>2
  <2>3. CASE LeaveResolver
    BY <1>0, <1>k, <1>i, <2>1, <2>3 DEF LeaveResolver, HotKnows, ResolverKnows
  <2>4. CASE ~Fail /\ ~LeaveResolver
    <3> DEFINE peeked == Peek("blocked")
               base == IF peeked = "some"
                       THEN [knows |-> envelope.knows, seen |-> envelope.seen] ELSE NoState
    <3>1. /\ resolver' = [resolver EXCEPT !.at = "take", !.keyed = task.keyed \/ peeked = "some",
                                          !.base = base]
          /\ UNCHANGED <<task, envelope>> /\ peeked # "error"
      BY <1>18, <2>4 DEF CheckPending
    <3>2. peeked = "some" \/ peeked = "none"
      BY <3>1, PeekFacts
    <3>3. resolver'.at = "take" /\ resolver'.base = base
      <4> HIDE DEF base, peeked
      <4> QED
        BY <1>0, <3>1 DEF Resolvers
    <3>4. NotedHere' = NotedHere
      BY <2>1, <3>1 DEF NotedHere, permissionLog
    <3>5. CASE peeked = "some"
      <4>1. /\ envelope # NoCheckpoint /\ envelope.state = "blocked"
        BY <3>5, PeekFacts
      <4>2. resolver'.base.knows = envelope.knows /\ resolver'.base.seen = envelope.seen
        BY <3>3, <3>5
      <4>3. task.terminal \/ Kept \subseteq Replayed(envelope)
        BY <4>1 DEF DenialInv, ColdKnows
      <4>4. task'.terminal \/ Kept' \subseteq Replayed(resolver.base)'
        BY <1>k, <2>1, <3>1, <3>4, <4>2, <4>3 DEF Replayed
      <4> QED
        BY <1>0, <1>k, <2>1, <3>3, <4>4 DEF HotKnows, ResolverKnows
    <3>6. CASE peeked = "none"
      <4>1. task.terminal
        BY <1>0, <2>1, <3>6, PeekFacts, AnswerHasCheckpoint
      <4> QED
        BY <1>0, <1>k, <2>1, <3>1, <3>3, <4>1 DEF HotKnows, ResolverKnows
    <3> QED
      BY <3>2, <3>5, <3>6
  <2> QED
    BY <2>2, <2>3, <2>4
<1>19. CASE TakeSuspended
  <2>1. /\ ~RulesDenial /\ resolver.at = "take" /\ suspended' = NoRun /\ UNCHANGED task
    BY <1>19 DEF TakeSuspended, ResolverAt, RulesDenial, Rule
  <2>2. CASE suspended # NoRun
    <3>1. resolver'.at = "claim hot" /\ resolver'.knows = suspended
      BY <1>0, <1>19, <2>2 DEF TakeSuspended, Resolvers
    <3> QED
      BY <1>0, <1>k, <2>1, <2>2, <3>1 DEF HotKnows, ResolverKnows
  <2>3. CASE suspended = NoRun
    <3>1. resolver'.at = "restore" /\ resolver'.knows = Rebuilt(resolver.base)
      BY <1>0, <1>19, <2>3 DEF TakeSuspended, Resolvers
    <3>2. Rebuilt(resolver.base) = Replayed(resolver.base)
      BY DEF Rebuilt, Replayed
    <3> QED
      BY <1>0, <1>k, <2>1, <3>1, <3>2 DEF HotKnows, ResolverKnows
  <2> QED
    BY <2>2, <2>3
<1>20. CASE Restore
  <2>1. /\ ~RulesDenial /\ resolver.at = "restore" /\ UNCHANGED <<suspended, task>>
    BY <1>20 DEF Restore, ResolverAt, RulesDenial, Rule
  <2>2. resolver'.at = "claim cold" /\ resolver'.knows = resolver.knows
    BY <1>0, <1>20, ResolverMoves DEF Restore
  <2> QED
    BY <1>0, <1>k, <2>1, <2>2 DEF HotKnows, ResolverKnows
<1>21. CASE Claim
  <2>1. /\ ~RulesDenial /\ owner = "answer" /\ resolver.at \in {"claim hot", "claim cold"}
    BY <1>21 DEF Claim, Claiming, ResolverAt, RulesDenial, Rule
  <2>2. CASE Fail /\ PutBack
    BY <1>16, <2>1, <2>2
  <2>3. CASE ~(Fail /\ PutBack)
    <3>1. resolver' = IdleResolver /\ UNCHANGED suspended
      BY <1>21, <2>3 DEF Claim
    <3> QED
      BY <1>0, <1>k, <1>i, <2>1, <3>1 DEF HotKnows, ResolverKnows
  <2> QED
    BY <2>2, <2>3
<1>22. CASE UNCHANGED permissionVars
  <2>1. UNCHANGED <<suspended, resolver, task, ruling, asked, noted, origin, forgotten>>
    BY <1>22 DEF permissionVars, permissionLog, permissionMemory, permissionHistory
  <2> QED
    BY <1>0, <2>1 DEF HotKnows, ResolverKnows, Replayed, Kept, DueDenials, NotedHere
<1> QED
  BY <1>2, <1>3, <1>4, <1>5, <1>6, <1>7, <1>8, <1>9, <1>10, <1>11, <1>12, <1>13, <1>14,
     <1>15, <1>17, <1>18, <1>19, <1>20, <1>21, <1>22
  DEF PermissionNext, Deciding

\* And so does the loop, from the moment it begins or goes on.
LEMMA LoopKnowsStep ==
  ASSUME DenialInv, [PermissionNext]_permissionVars
  PROVE  DenialIsRemembered'
<1>0. /\ PermissionTypeOK /\ OnceInv /\ MoveInv /\ resolver \in Resolvers /\ loop \in Loops
      /\ StatusAgrees /\ UnansweredIsUnrun /\ HotKnows /\ ResolverKnows /\ ColdKnows
      /\ asked \in [Requests -> 0..MaxAttempts] /\ task.attempt \in Nat
      /\ (owner = "answer") = (resolver.at # "idle")
  BY TaskFields DEF DenialInv, MoveInv, OnceInv, PermissionTypeOK, Ahead
<1>1. CASE owner' # "loop"
  BY <1>1 DEF DenialIsRemembered
<1>2. CASE owner = "loop" /\ owner' = "loop" /\ loop'.knows = loop.knows
           /\ (cancelRaised => cancelRaised')
  <2>1. ~RulesDenial
    BY <1>2 DEF RulesDenial, Rule, ResolverAt
  <2>2. Kept' \subseteq Kept
    BY <1>0, <2>1, KeptShrinks
  <2> QED
    BY <1>2, <2>2 DEF DenialInv, DenialIsRemembered, Kept
<1>3. CASE TakeTurn \/ GuardianAllows \/ GuardianDefers \/ ChildGoesOn \/ EndBatch
  <2>1. owner = "loop" /\ UNCHANGED <<owner, cancelRaised>>
    BY <1>3 DEF TakeTurn, GuardianAllows, GuardianDefers, ChildGoesOn, EndBatch, LoopAt
  <2>2. loop'.knows = loop.knows
    BY <1>0, <1>3 DEF TakeTurn, GuardianAllows, GuardianDefers, ChildGoesOn, EndBatch, Loops
  <2> QED
    BY <1>2, <2>1, <2>2
<1>4. ASSUME NEW r \in Requests, Ask(r) \/ AskChild(r) \/ UseGrant(r)
      PROVE  DenialIsRemembered'
  <2>1. owner = "loop" /\ UNCHANGED <<owner, cancelRaised>>
    BY <1>4 DEF Ask, AskChild, UseGrant, LoopAt, permissionMemory
  <2>2. loop'.knows = loop.knows
    BY <1>0, <1>4 DEF Ask, AskChild, UseGrant, permissionMemory, Loops
  <2> QED
    BY <1>2, <2>1, <2>2
<1>5. CASE Park \/ PauseLoop \/ LoopStops \/ Complete \/ Restart
  BY <1>1, <1>5 DEF Park, PauseLoop, LoopStops, Complete, LeaveLoop, Restart
<1>6. CASE CancelTask \/ RetryFails \/ Evict
  <2>1. /\ UNCHANGED <<owner, loop>>
        /\ cancelRaised' = (cancelRaised \/ owner # "none") \/ UNCHANGED cancelRaised
    BY <1>6 DEF CancelTask, RetryFails, Evict
  <2>2. cancelRaised => cancelRaised'
    BY <1>0, <2>1 DEF PermissionTypeOK
  <2> QED
    BY <1>1, <1>2, <2>1, <2>2
<1>7. ASSUME NEW r \in Requests, NEW decision \in Deciding,
             BeginAnswer(r, decision) \/ ResolveInPlace(r, decision)
      PROVE  DenialIsRemembered'
  <2>1. owner' = "answer" \/ UNCHANGED <<owner, loop, cancelRaised>>
    BY <1>7 DEF BeginAnswer, ResolveInPlace, permissionMemory
  <2> QED
    BY <1>1, <1>2, <2>1
<1>8. CASE \/ Rule \/ RunTool \/ Finish \/ Note \/ ListSiblings \/ ApplyHot \/ TakeSuspended
           \/ Restore \/ CheckPending \/ StoreFails \/ \E r \in Requests : AnswerSibling(r)
  <2>1. owner' # "loop"
    BY <1>8 DEF Rule, RunTool, Finish, Note, ListSiblings, ApplyHot, TakeSuspended, Restore,
                CheckPending, StoreFails, AnswerSibling, ResolverAt, Fail, LeaveResolver
  <2> QED
    BY <1>1, <2>1
<1>9. CASE Claim
  <2>1. /\ owner = "answer" /\ resolver.at \in {"claim hot", "claim cold"}
        /\ ~RulesDenial /\ UNCHANGED cancelRaised
    BY <1>9 DEF Claim, Claiming, ResolverAt, RulesDenial, Rule, Fail, LeaveResolver
  <2>2. CASE owner' = "loop" /\ ~cancelRaised'
    <3>1. loop' = LoopFrom(resolver.knows)
      BY <1>9, <2>2 DEF Claim, Fail, LeaveResolver
    <3>2. loop'.knows = resolver.knows
      BY <1>0, <3>1, ResolverFields, LoopBegins
    <3>3. ~task.terminal
      BY <1>0, <2>1, <2>2 DEF StatusAgrees
    <3>4. Kept \subseteq resolver.knows
      BY <1>0, <2>1, <3>3 DEF ResolverKnows
    <3>5. Kept' \subseteq Kept
      BY <1>0, <2>1, KeptShrinks
    <3> QED
      BY <3>2, <3>4, <3>5 DEF DenialIsRemembered, Kept
  <2> QED
    BY <2>2 DEF DenialIsRemembered
<1>10. CASE Retry
  <2>1. /\ owner = "none" /\ ~RulesDenial /\ resolver.at = "idle"
    BY <1>0, <1>10 DEF Retry, RulesDenial, Rule, ResolverAt
  <2>2. Kept' \subseteq Kept
    BY <1>0, <2>1, KeptShrinks
  <2>3. CASE suspended # NoRun
    <3>1. loop'.knows = suspended
      BY <1>10, <2>3 DEF Retry, LoopFrom, IdleLoop
    <3> QED
      BY <1>0, <2>1, <2>2, <2>3, <3>1 DEF HotKnows, DenialIsRemembered, Kept
  <2>4. CASE suspended = NoRun /\ Peek("paused") = "some"
    <3>1. loop'.knows = envelope.knows
      BY <1>10, <2>4 DEF Retry, LoopFrom, IdleLoop
    <3>2. /\ envelope # NoCheckpoint /\ envelope.state = "paused"
          /\ task.status \in {"paused", "waiting"}
      BY <2>4, PeekFacts
    <3>3. ~task.terminal
      BY <1>0, <3>2 DEF StatusAgrees
    <3> QED
      BY <1>0, <2>2, <3>1, <3>2, <3>3 DEF ColdKnows, DenialIsRemembered, Kept
  <2>5. CASE suspended = NoRun /\ Peek("paused") # "some"
    <3>1. origin' = task.attempt + 1 /\ UNCHANGED asked
      BY <1>10, <2>5 DEF Retry, permissionLog
    <3>2. DueDenials' = {}
      BY <1>0, <3>1 DEF DueDenials, UnansweredIsUnrun
    <3> QED
      BY <3>2 DEF DenialIsRemembered
  <2> QED
    BY <2>3, <2>4, <2>5
<1>11. CASE UNCHANGED permissionVars
  BY <1>1, <1>2, <1>11 DEF permissionVars, permissionMemory
<1> QED
  BY <1>3, <1>4, <1>5, <1>6, <1>7, <1>8, <1>9, <1>10, <1>11 DEF PermissionNext, Deciding

\* No denial is due when a session begins.
LEMMA DenialInitial == PermissionInit => DenialInv
<1> SUFFICES ASSUME PermissionInit PROVE DenialInv
  OBVIOUS
<1>1. MoveInv
  BY MoveInitial
<1>2. Kept = {} /\ NotedHere = {}
  BY DEF PermissionInit, Kept, DueDenials, NotedHere
<1>3. SavedIsSeen
  BY DEF PermissionInit, SavedIsSeen, SnapshotMatches, LoopFrom, IdleLoop
<1>4. HotKnows /\ ColdKnows /\ DenialIsRemembered
  BY <1>2 DEF PermissionInit, HotKnows, ColdKnows, SnapshotMatches, DenialIsRemembered, Kept
<1>5. ResolverKnows
  BY DEF PermissionInit, ResolverKnows, IdleResolver
<1> QED
  BY <1>1, <1>3, <1>4, <1>5 DEF DenialInv

\* No step takes the invariant away.
LEMMA DenialStep == DenialInv /\ [PermissionNext]_permissionVars => DenialInv'
<1> SUFFICES ASSUME DenialInv, [PermissionNext]_permissionVars PROVE DenialInv'
  OBVIOUS
<1>1. MoveInv'
  BY MoveStep DEF DenialInv
<1> QED
  BY <1>1, CheckpointsStep, MemoryStep, LoopKnowsStep DEF DenialInv

\* Whichever way a run goes on - hot, rebuilt from a checkpoint, reconciled after
\* a crash or retried - it holds the denials its task was given, but for those of
\* the three known losses.
THEOREM DenialIsAlwaysRemembered == PermissionSpec => []DenialIsRemembered
<1>1. DenialInv => DenialIsRemembered
  BY DEF DenialInv
<1> QED
  BY <1>1, DenialInitial, DenialStep, PTL DEF PermissionSpec

=============================================================================
