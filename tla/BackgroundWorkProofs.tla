------------------------- MODULE BackgroundWorkProofs -------------------------
(***************************************************************************)
(* Proofs about WorkspaceUndo and ScheduledRuns, for every number of       *)
(* files, contents, recorded changes, threads, messages and commands, and  *)
(* any number of crashes and failed saves.                                 *)
(*                                                                         *)
(*   UndoInv      a call has written one part of its group and has the     *)
(*                other part left, without a file in both; each file of    *)
(*                the group is at the goal if it was written and at the    *)
(*                origin if not.  That is what makes both the commit and   *)
(*                the rollback leave files that agree with the registry.   *)
(*   ScheduleInv  what a thread carries between its locks is true of the   *)
(*                log and stays true, since the log only goes on; the      *)
(*                thread that keeps the lock over a queue write finds no   *)
(*                active record when it comes back; and while nothing      *)
(*                failed, an active record that was not overwritten is     *)
(*                the last one and, when it waits after its last attempt,  *)
(*                a dispatch that carries its message is between that      *)
(*                attempt and the write that ends the run.                 *)
(***************************************************************************)
EXTENDS WorkspaceUndo, ScheduledRuns, SequenceTheorems, FiniteSetTheorems,
        WellFoundedInduction, TLAPS

Values == Contents \cup {Absent}
Entries ==
  UNION {[old : [F -> Values], new : [F -> Contents], created : BOOLEAN] :
         F \in SUBSET UndoFiles}

Calls ==
  [at : {"idle", "writing", "load", "commit", "rollback"}, redo : BOOLEAN, id : Nat,
   left : SUBSET UndoFiles, written : Seq(UndoFiles), attempt : 0..CommitAttempts,
   stale : BOOLEAN]

UndoTypes ==
  /\ content \in [UndoFiles -> Values] /\ expected \in [UndoFiles -> Values]
  /\ entries \in Seq(Entries)
  /\ toolWrite = <<>> \/ \E e \in Entries : toolWrite = <<e>>
  /\ undone \in Seq(DOMAIN entries)
  /\ before \subseteq DOMAIN entries /\ after \subseteq DOMAIN entries
  /\ call \in Calls
  /\ disturbed \subseteq {"outside", "raced", "crashed", "rollback"}
  /\ incidents \in Nat

StackIsSet == \A j, k \in DOMAIN undone : undone[j] = undone[k] => j = k

Group == DOMAIN entries[call.id].old
IsWritten(f) == \E k \in DOMAIN call.written : call.written[k] = f

\* A call works on a recorded group: what it has written and what is left make up
\* the group, and nothing is left when it turns to the registry.
CallIsSound ==
  IF ~Calling THEN call = NoCall
  ELSE /\ call.id \in DOMAIN entries
       /\ \A k \in DOMAIN call.written : call.written[k] \in Group
       /\ \A j, k \in DOMAIN call.written : call.written[j] = call.written[k] => j = k
       /\ call.left \subseteq Group
       /\ call.at = "writing" => \A f \in Group : f \in call.left <=> ~IsWritten(f)
       /\ call.at \in {"load", "commit"} => \A f \in Group : IsWritten(f)

\* While a call is under way the group is where it was, up to what was written.
FilesFollowCall ==
  disturbed \subseteq {"outside"} =>
    IF ~Calling THEN content = expected
    ELSE /\ \A f \in UndoFiles \ Group : content[f] = expected[f]
         /\ \A f \in Group :
              /\ expected[f] = Origin(f)
              /\ content[f] = IF IsWritten(f) THEN Goal(f) ELSE Origin(f)

UndoInv == UndoTypes /\ StackIsSet /\ CallIsSound /\ FilesFollowCall

-----------------------------------------------------------------------------
\* A recorded change has the old and the new content of the same files.
LEMMA EntryFields ==
  ASSUME NEW e \in Entries
  PROVE  /\ DOMAIN e.old \subseteq UndoFiles /\ DOMAIN e.new = DOMAIN e.old
         /\ \A f \in DOMAIN e.old : e.old[f] \in Values /\ e.new[f] \in Values
         /\ e.created \in BOOLEAN
<1>1. PICK F \in SUBSET UndoFiles :
        e \in [old : [F -> Values], new : [F -> Contents], created : BOOLEAN]
  BY DEF Entries
<1> QED
  BY <1>1 DEF Values

\* The group of a call under way, and what its files held and shall hold.
LEMMA GroupFacts ==
  ASSUME UndoTypes, CallIsSound, Calling
  PROVE  /\ entries[call.id] \in Entries /\ Group \subseteq UndoFiles
         /\ \A f \in Group : Goal(f) \in Values /\ Origin(f) \in Values
<1>1. call.id \in DOMAIN entries
  BY DEF CallIsSound
<1>2. entries[call.id] \in Entries
  BY <1>1 DEF UndoTypes
<1> QED
  BY <1>2, EntryFields DEF Group, Goal, Origin

\* The invariant holds at first.
LEMMA UndoStart == UndoInit => UndoInv
<1> SUFFICES ASSUME UndoInit PROVE UndoInv
  OBVIOUS
<1>1. ~Calling
  BY DEF UndoInit, NoCall, Calling
<1>2. call \in Calls
  BY UndoBounds DEF UndoInit, NoCall, Calls
<1>3. UndoTypes
  BY <1>2 DEF UndoInit, UndoTypes, Values, NoToolWrite
<1> QED
  BY <1>1, <1>3 DEF UndoInit, UndoInv, StackIsSet, CallIsSound, FilesFollowCall

\* What a call knows of its files does not change when another writer keeps
\* off its group, or is noted as racing it.
LEMMA OtherWriter ==
  ASSUME UndoInv, NEW files \in SUBSET UndoFiles, NEW new \in [files -> Values],
         UNCHANGED <<entries, call>>,
         content' = [f \in UndoFiles |-> IF f \in files THEN new[f] ELSE content[f]],
         expected' = [f \in UndoFiles |-> IF f \in files THEN new[f] ELSE expected[f]],
         disturbed \cup Races(files) \subseteq disturbed'
  PROVE  CallIsSound' /\ FilesFollowCall'
         /\ content' \in [UndoFiles -> Values] /\ expected' \in [UndoFiles -> Values]
<1>0. UndoTypes /\ CallIsSound /\ FilesFollowCall
  BY DEF UndoInv
<1>1. Calling' = Calling /\ Group' = Group
  BY DEF Calling, Group
<1>2. CallIsSound'
  BY <1>0, <1>1 DEF CallIsSound, IsWritten
<1>3. FilesFollowCall'
  <2> SUFFICES ASSUME disturbed' \subseteq {"outside"}
               PROVE  IF ~Calling THEN content' = expected'
                      ELSE /\ \A f \in UndoFiles \ Group : content'[f] = expected'[f]
                           /\ \A f \in Group :
                                /\ expected'[f] = Origin(f)
                                /\ content'[f] = IF IsWritten(f) THEN Goal(f) ELSE Origin(f)
    BY <1>1 DEF FilesFollowCall, Origin, Goal, IsWritten
  <2>1. disturbed \subseteq {"outside"}
    OBVIOUS
  <2>2. CASE ~Calling
    BY <1>0, <2>1, <2>2 DEF FilesFollowCall
  <2>3. CASE Calling
    <3>1. files \cap Group = {}
      BY <2>3 DEF Races, Group
    <3>2. Group \subseteq UndoFiles
      BY <1>0, <2>3, GroupFacts
    <3> QED
      BY <1>0, <2>1, <2>3, <3>1, <3>2 DEF FilesFollowCall
  <2> QED
    BY <2>2, <2>3
<1>4. content' \in [UndoFiles -> Values] /\ expected' \in [UndoFiles -> Values]
  BY <1>0 DEF UndoTypes
<1> QED
  BY <1>2, <1>3, <1>4

\* A tool's write is what the files are expected to be; one that races a call is
\* noted.
LEMMA ToolWritesStep ==
  ASSUME UndoInv, NEW files \in SUBSET UndoFiles, NEW new \in [files -> Contents],
         ToolWrites(files, new)
  PROVE  UndoInv'
<1>1. new \in [files -> Values]
  BY DEF Values
<1>2. CallIsSound' /\ FilesFollowCall'
         /\ content' \in [UndoFiles -> Values] /\ expected' \in [UndoFiles -> Values]
  BY <1>1, OtherWriter DEF ToolWrites, undoStore
<1>3. \E e \in Entries : toolWrite' = <<e>>
  <2> DEFINE old == [f \in files |-> content[f]]
             e == [old |-> old, new |-> new, created |-> \E f \in files : old[f] = Absent]
  <2>1. old \in [files -> Values]
    BY DEF UndoInv, UndoTypes
  <2>2. e \in [old : [files -> Values], new : [files -> Contents], created : BOOLEAN]
    BY <2>1
  <2>3. e \in Entries
    BY <2>2 DEF Entries
  <2>4. toolWrite' = <<e>>
    BY DEF ToolWrites
  <2> QED
    BY <2>3, <2>4
<1>4. disturbed' \subseteq {"outside", "raced", "crashed", "rollback"}
  BY DEF ToolWrites, Races, UndoInv, UndoTypes
<1>5. UndoTypes'
  BY <1>2, <1>3, <1>4 DEF ToolWrites, UndoInv, UndoTypes, undoStore
<1> QED
  BY <1>2, <1>5 DEF ToolWrites, UndoInv, StackIsSet, undoStore

\* So is an edit from outside.
LEMMA OutsideEditStep ==
  ASSUME UndoInv, NEW f \in UndoFiles, NEW c \in Contents \cup {Absent}, OutsideEdit(f, c)
  PROVE  UndoInv'
<1> DEFINE new == [g \in {f} |-> c]
<1>1. new \in [{f} -> Values]
  BY DEF Values
<1>2. content' = [g \in UndoFiles |-> IF g \in {f} THEN new[g] ELSE content[g]]
  BY DEF OutsideEdit, UndoInv, UndoTypes
<1>3. expected' = [g \in UndoFiles |-> IF g \in {f} THEN new[g] ELSE expected[g]]
  BY DEF OutsideEdit, UndoInv, UndoTypes
<1>4. disturbed \cup Races({f}) \subseteq disturbed' /\ UNCHANGED <<entries, call>>
  BY DEF OutsideEdit, undoStore
<1> HIDE DEF new
<1>5. CallIsSound' /\ FilesFollowCall'
         /\ content' \in [UndoFiles -> Values] /\ expected' \in [UndoFiles -> Values]
  BY <1>1, <1>2, <1>3, <1>4, OtherWriter
<1>6. disturbed' \subseteq {"outside", "raced", "crashed", "rollback"}
  BY DEF OutsideEdit, Races, UndoInv, UndoTypes
<1>7. incidents' \in Nat /\ UNCHANGED <<before, after, entries, undone, call, toolWrite>>
  BY DEF OutsideEdit, Incident, UndoInv, UndoTypes, undoStore
<1>8. UndoTypes'
  BY <1>5, <1>6, <1>7 DEF UndoInv, UndoTypes
<1> QED
  BY <1>5, <1>7, <1>8 DEF UndoInv, StackIsSet

\* Recording a change appends it; the entries a call refers to stay.
LEMMA ToolRecordsStep ==
  ASSUME UndoInv, ToolRecords
  PROVE  UndoInv'
<1>1. PICK e \in Entries : toolWrite = <<e>>
  BY DEF UndoInv, UndoTypes, ToolRecords, NoToolWrite
<1>2. /\ entries' \in Seq(Entries) /\ Len(entries') \in DOMAIN entries'
      /\ DOMAIN entries \subseteq DOMAIN entries'
  BY <1>1 DEF ToolRecords, UndoInv, UndoTypes
<1>3. undone \in Seq(DOMAIN entries')
  BY <1>2, SeqMonotonic DEF UndoInv, UndoTypes
<1>4. before' \subseteq DOMAIN entries' /\ after' \subseteq DOMAIN entries'
  BY <1>2 DEF ToolRecords, UndoInv, UndoTypes
<1>5. UndoTypes'
  BY <1>2, <1>3, <1>4 DEF ToolRecords, UndoInv, UndoTypes, NoToolWrite
<1>6. ~Calling /\ ~Calling'
  BY DEF ToolRecords, Calling
<1> QED
  BY <1>5, <1>6
     DEF ToolRecords, UndoInv, StackIsSet, CallIsSound, FilesFollowCall, NoCall

\* A step that leaves the files, the entries, the stack and what a call knows of
\* its group alone.
LEMMA QuietUndo ==
  ASSUME UndoInv, UNCHANGED <<content, expected, entries, undone>>,
         disturbed' = disturbed, Calling, Calling', CallIsSound',
         call'.redo = call.redo, call'.id = call.id, call'.written = call.written
  PROVE  StackIsSet' /\ FilesFollowCall'
<1>1. StackIsSet'
  BY DEF UndoInv, StackIsSet
<1>2. /\ Group' = Group
      /\ \A f : Goal(f)' = Goal(f) /\ Origin(f)' = Origin(f) /\ IsWritten(f)' = IsWritten(f)
  BY DEF Group, Goal, Origin, IsWritten
<1>3. FilesFollowCall'
  BY <1>2 DEF UndoInv, FilesFollowCall
<1> QED
  BY <1>1, <1>3

\* The sweep takes snapshots, never entries or files.
LEMMA SnapshotsExpireStep ==
  ASSUME UndoInv, NEW i \in DOMAIN entries, SnapshotsExpire(i)
  PROVE  UndoInv'
<1>1. incidents' \in Nat /\ before' \subseteq before /\ after' \subseteq after
  BY DEF SnapshotsExpire, Incident, UndoInv, UndoTypes
<1>2. UNCHANGED <<content, entries, undone, call, toolWrite, expected, disturbed>>
  BY DEF SnapshotsExpire, undoStore
<1>3. UndoTypes'
  BY <1>1, <1>2 DEF UndoInv, UndoTypes
<1>4. StackIsSet' /\ CallIsSound' /\ FilesFollowCall'
  BY <1>2 DEF UndoInv, StackIsSet, CallIsSound, FilesFollowCall, Calling, Group,
              IsWritten, Goal, Origin
<1> QED
  BY <1>3, <1>4 DEF UndoInv

\* Another process's commit makes the call's registry stale and no more.
LEMMA ForeignCommitStep ==
  ASSUME UndoInv, ForeignCommit
  PROVE  UndoInv'
<1>1. incidents' \in Nat /\ Calling
  BY DEF ForeignCommit, Incident, UndoInv, UndoTypes, Calling
<1>2. UNCHANGED <<content, before, after, entries, undone, toolWrite, expected, disturbed>>
  BY DEF ForeignCommit, undoDisk, undoStore
<1>3. /\ call'.at = call.at /\ call'.redo = call.redo /\ call'.id = call.id
      /\ call'.left = call.left /\ call'.written = call.written /\ Calling'
      /\ call' \in Calls
  BY <1>1 DEF ForeignCommit, UndoInv, UndoTypes, Calling, Calls
<1>4. UndoTypes'
  BY <1>1, <1>2, <1>3 DEF UndoInv, UndoTypes
<1>5. CallIsSound'
  BY <1>1, <1>2, <1>3 DEF UndoInv, CallIsSound, Group, IsWritten
<1>6. StackIsSet' /\ FilesFollowCall'
  BY <1>1, <1>2, <1>3, <1>5, QuietUndo
<1> QED
  BY <1>4, <1>5, <1>6 DEF UndoInv

\* Reloading the registry leads to another commit or to the rollback.
LEMMA LoadRegistryStep ==
  ASSUME UndoInv, LoadRegistry
  PROVE  UndoInv'
<1>1. Calling
  BY DEF LoadRegistry, Calling
<1>2. UNCHANGED <<content, before, after, entries, undone, toolWrite, expected, disturbed,
                  incidents>>
  BY DEF LoadRegistry, undoDisk, undoStore
<1>3. /\ call'.at \in {"rollback", "commit"} /\ call'.redo = call.redo
      /\ call'.id = call.id
      /\ call'.left = call.left /\ call'.written = call.written
      /\ call' \in Calls
  <2>1. CASE call.attempt = CommitAttempts
    BY <2>1 DEF LoadRegistry, UndoInv, UndoTypes, Calls
  <2>2. CASE call.attempt # CommitAttempts
    <3>1. call.attempt + 1 \in 0..CommitAttempts
      BY <2>2, UndoBounds DEF UndoInv, UndoTypes, Calls
    <3> QED
      BY <2>2, <3>1 DEF LoadRegistry, UndoInv, UndoTypes, Calls
  <2> QED
    BY <2>1, <2>2
<1>4. UndoTypes'
  BY <1>2, <1>3 DEF UndoInv, UndoTypes
<1>5. Calling' /\ CallIsSound'
  BY <1>1, <1>2, <1>3 DEF UndoInv, CallIsSound, Group, IsWritten, Calling, LoadRegistry
<1>6. StackIsSet' /\ FilesFollowCall'
  BY <1>1, <1>2, <1>3, <1>5, QuietUndo
<1> QED
  BY <1>4, <1>5, <1>6 DEF UndoInv

\* A call that begins has found its group as the entry, or its undo, left it.
LEMMA BeginStep ==
  ASSUME UndoInv, ~Calling, NEW i \in DOMAIN entries, NEW redo \in BOOLEAN, Begin(i, redo),
         \A f \in DOMAIN entries[i].old :
           content[f] = IF redo THEN entries[i].old[f] ELSE entries[i].new[f]
  PROVE  UndoInv'
<1>1. UNCHANGED <<content, before, after, entries, undone, toolWrite, expected, disturbed,
                  incidents>>
  BY DEF Begin, undoDisk, undoStore
<1>2. entries[i] \in Entries /\ i \in Nat
  BY DEF UndoInv, UndoTypes
<1>3. DOMAIN entries[i].old \subseteq UndoFiles
  BY <1>2, EntryFields
<1>4. /\ call'.at = "writing" /\ call'.redo = redo /\ call'.id = i
      /\ call'.left = DOMAIN entries[i].old /\ call'.written = <<>>
      /\ call' \in Calls
  BY <1>2, <1>3, UndoBounds DEF Begin, Calls
<1>5. UndoTypes' /\ StackIsSet'
  BY <1>1, <1>4 DEF UndoInv, UndoTypes, StackIsSet
<1>6. Calling' /\ Group' = DOMAIN entries[i].old /\ \A f : ~IsWritten(f)'
  BY <1>1, <1>4 DEF Calling, Group, IsWritten
<1>7. CallIsSound'
  BY <1>1, <1>4, <1>6 DEF CallIsSound
<1>8. FilesFollowCall'
  <2> SUFFICES ASSUME disturbed \subseteq {"outside"}
               PROVE  /\ \A f \in UndoFiles \ Group' : content[f] = expected[f]
                      /\ \A f \in Group' : expected[f] = Origin(f)' /\ content[f] = Origin(f)'
    BY <1>1, <1>6 DEF FilesFollowCall
  <2>1. content = expected
    BY DEF UndoInv, FilesFollowCall
  <2> QED
    BY <1>1, <1>4, <1>6, <2>1 DEF Origin
<1> QED
  BY <1>5, <1>7, <1>8 DEF UndoInv

\* An undo begins at the newest change that is not undone.
LEMMA BeginUndoStep ==
  ASSUME UndoInv, BeginUndo
  PROVE  UndoInv'
<1> DEFINE i == LatestApplied
<1>1. /\ ~Calling /\ \A f \in DOMAIN entries[i].new : content[f] = entries[i].new[f]
      /\ Begin(i, FALSE) /\ i \in after
  BY DEF BeginUndo
<1> HIDE DEF i
<1>2. i \in DOMAIN entries
  BY <1>1 DEF UndoInv, UndoTypes
<1>3. DOMAIN entries[i].new = DOMAIN entries[i].old
  BY <1>2, EntryFields DEF UndoInv, UndoTypes
<1> QED
  BY <1>1, <1>2, <1>3, BeginStep

\* A redo begins at the change that was undone last.
LEMMA BeginRedoStep ==
  ASSUME UndoInv, BeginRedo
  PROVE  UndoInv'
<1> DEFINE i == undone[Len(undone)]
<1>1. /\ ~Calling /\ \A f \in DOMAIN entries[i].old : content[f] = entries[i].old[f]
      /\ Begin(i, TRUE) /\ i \in after
  BY DEF BeginRedo
<1> HIDE DEF i
<1>2. i \in DOMAIN entries
  BY <1>1 DEF UndoInv, UndoTypes
<1> QED
  BY <1>1, <1>2, BeginStep

\* The file that is written next is in front of the others.
LEMMA WrittenNext ==
  ASSUME UndoTypes, NEW f \in UndoFiles, call'.written = <<f>> \o call.written
  PROVE  /\ call'.written \in Seq(UndoFiles)
         /\ Len(call'.written) = Len(call.written) + 1
         /\ \A k \in DOMAIN call'.written :
              call'.written[k] = IF k = 1 THEN f ELSE call.written[k - 1]
         /\ \A g : IsWritten(g)' <=> (g = f \/ IsWritten(g))
<1>1. call.written \in Seq(UndoFiles)
  BY DEF UndoTypes, Calls
<1>2. /\ call'.written \in Seq(UndoFiles)
      /\ Len(call'.written) = Len(call.written) + 1
      /\ \A k \in DOMAIN call'.written :
           call'.written[k] = IF k = 1 THEN f ELSE call.written[k - 1]
  BY <1>1
<1>3. DOMAIN call'.written = 1..(Len(call.written) + 1) /\ DOMAIN call.written = 1..Len(call.written)
  BY <1>1, <1>2
<1>4. ASSUME NEW g PROVE IsWritten(g)' <=> (g = f \/ IsWritten(g))
  <2>1. ASSUME IsWritten(g)' PROVE g = f \/ IsWritten(g)
    <3>1. PICK k \in DOMAIN call'.written : call'.written[k] = g
      BY <2>1 DEF IsWritten
    <3>2. k # 1 => k - 1 \in DOMAIN call.written
      BY <1>1, <1>3
    <3> QED
      BY <1>2, <3>1, <3>2 DEF IsWritten
  <2>2. ASSUME g = f \/ IsWritten(g) PROVE IsWritten(g)'
    <3>1. CASE g = f
      <4>1. 1 \in DOMAIN call'.written /\ call'.written[1] = f
        BY <1>1, <1>2, <1>3
      <4> QED
        BY <3>1, <4>1 DEF IsWritten
    <3>2. CASE IsWritten(g)
      <4>1. PICK k \in DOMAIN call.written : call.written[k] = g
        BY <3>2 DEF IsWritten
      <4>2. k + 1 \in DOMAIN call'.written /\ k + 1 # 1 /\ (k + 1) - 1 = k
        BY <1>1, <1>3
      <4>3. call'.written[k + 1] = g
        BY <1>2, <4>1, <4>2
      <4> QED
        BY <4>2, <4>3 DEF IsWritten
    <3> QED
      BY <2>2, <3>1, <3>2
  <2> QED
    BY <2>1, <2>2
<1> QED
  BY <1>2, <1>4

\* A file written is at its goal; a failed write turns the call back.
LEMMA WriteFileStep ==
  ASSUME UndoInv, NEW f \in UndoFiles, WriteFile(f)
  PROVE  UndoInv'
<1>0. UndoTypes /\ StackIsSet /\ CallIsSound /\ FilesFollowCall
  BY DEF UndoInv
<1>1. Calling /\ call.at = "writing" /\ f \in call.left
  BY DEF WriteFile, Calling
<1>2. UNCHANGED <<before, after, entries, undone, toolWrite, expected, disturbed, incidents>>
  BY DEF WriteFile, undoStore
<1>3. /\ f \in Group /\ ~IsWritten(f) /\ Group \subseteq UndoFiles
      /\ \A g \in Group : Goal(g) \in Values /\ Origin(g) \in Values
  BY <1>0, <1>1, GroupFacts DEF CallIsSound
<1>4. call \in Calls
  BY <1>0 DEF UndoTypes
<1>5. CASE /\ call' = [call EXCEPT !.at = "rollback"] /\ UNCHANGED content
  <2>1. /\ call'.at = "rollback" /\ call'.redo = call.redo /\ call'.id = call.id
        /\ call'.left = call.left /\ call'.written = call.written /\ call' \in Calls
    BY <1>4, <1>5 DEF Calls
  <2>2. UndoTypes' /\ Calling'
    BY <1>0, <1>2, <1>5, <2>1 DEF UndoTypes, Calling
  <2>3. CallIsSound'
    BY <1>0, <1>1, <1>2, <2>1, <2>2 DEF CallIsSound, Group, IsWritten
  <2>4. StackIsSet' /\ FilesFollowCall'
    BY <1>1, <1>2, <1>5, <2>1, <2>2, <2>3, QuietUndo
  <2> QED
    BY <2>2, <2>3, <2>4 DEF UndoInv
<1>6. CASE /\ content' = [content EXCEPT ![f] = Goal(f)]
           /\ call' = [call EXCEPT !.left = @ \ {f}, !.written = <<f>> \o @,
                                   !.at = IF call.left = {f} THEN "load" ELSE "writing"]
  <2>1. /\ call'.at = IF call.left = {f} THEN "load" ELSE "writing"
        /\ call'.redo = call.redo /\ call'.id = call.id
        /\ call'.left = call.left \ {f} /\ call'.written = <<f>> \o call.written
    BY <1>4, <1>6 DEF Calls
  <2>2. /\ call'.written \in Seq(UndoFiles)
        /\ Len(call'.written) = Len(call.written) + 1
        /\ \A k \in DOMAIN call'.written :
             call'.written[k] = IF k = 1 THEN f ELSE call.written[k - 1]
        /\ \A g : IsWritten(g)' <=> (g = f \/ IsWritten(g))
    BY <1>0, <2>1, WrittenNext
  <2>3. call' \in Calls
    <3>1. call.left \ {f} \in SUBSET UndoFiles
      BY <1>4 DEF Calls
    <3>2. <<f>> \o call.written \in Seq(UndoFiles)
      BY <2>1, <2>2
    <3> QED
      BY <1>4, <1>6, <3>1, <3>2 DEF Calls
  <2>4. /\ content' \in [UndoFiles -> Values] /\ content'[f] = Goal(f)
        /\ \A g \in UndoFiles \ {f} : content'[g] = content[g]
    BY <1>0, <1>3, <1>6 DEF UndoTypes
  <2>5. UndoTypes' /\ StackIsSet'
    BY <1>0, <1>2, <2>3, <2>4 DEF UndoTypes, StackIsSet
  <2>6. /\ Calling' /\ Group' = Group
        /\ \A g : Goal(g)' = Goal(g) /\ Origin(g)' = Origin(g)
    BY <1>2, <2>1 DEF Calling, Group, Goal, Origin
  <2>7. ASSUME NEW j \in DOMAIN call'.written, NEW k \in DOMAIN call'.written,
               call'.written[j] = call'.written[k]
        PROVE  j = k
    <3>1. /\ j \in Nat /\ k \in Nat
          /\ j # 1 => j - 1 \in DOMAIN call.written
          /\ k # 1 => k - 1 \in DOMAIN call.written
      BY <1>4, <2>2 DEF Calls
    <3>2. \A g \in DOMAIN call.written : call.written[g] # f
      BY <1>3 DEF IsWritten
    <3>3. j # 1 /\ k # 1 => j - 1 = k - 1
      BY <1>0, <1>1, <2>2, <2>7, <3>1 DEF CallIsSound
    <3>4. j = 1 <=> k = 1
      BY <2>2, <2>7, <3>1, <3>2
    <3> QED
      BY <3>1, <3>3, <3>4
  <2>8. \A k \in DOMAIN call'.written : call'.written[k] \in Group
    <3> SUFFICES ASSUME NEW k \in DOMAIN call'.written PROVE call'.written[k] \in Group
      OBVIOUS
    <3>1. k # 1 => k - 1 \in DOMAIN call.written
      BY <1>4, <2>2 DEF Calls
    <3> QED
      BY <1>0, <1>1, <1>3, <2>2, <3>1 DEF CallIsSound
  <2>9. CallIsSound'
    <3>1. call'.left \subseteq Group
      BY <1>0, <1>1, <2>1 DEF CallIsSound
    <3>2. \A g \in Group : g \in call'.left <=> ~IsWritten(g)'
      BY <1>0, <1>1, <2>1, <2>2 DEF CallIsSound
    <3>3. call'.at # "writing" => \A g \in Group : IsWritten(g)'
      BY <2>1, <3>2
    <3>4. call'.id \in DOMAIN entries'
      BY <1>0, <1>1, <1>2, <2>1 DEF CallIsSound
    <3> QED
      BY <2>6, <2>7, <2>8, <3>1, <3>2, <3>3, <3>4 DEF CallIsSound
  <2>10. FilesFollowCall'
    BY <1>0, <1>1, <1>2, <1>3, <2>2, <2>4, <2>6 DEF FilesFollowCall
  <2> QED
    BY <2>5, <2>9, <2>10 DEF UndoInv
<1> QED
  BY <1>5, <1>6 DEF WriteFile

\* Filtering a stack leaves a stack.
LEMMA WithoutFacts ==
  ASSUME NEW S, NEW stack \in Seq(S), NEW i,
         \A j, k \in DOMAIN stack : stack[j] = stack[k] => j = k
  PROVE  /\ Without(stack, i) \in Seq(S)
         /\ \A j, k \in DOMAIN Without(stack, i) :
              Without(stack, i)[j] = Without(stack, i)[k] => j = k
<1>1. CASE ~\E j \in DOMAIN stack : stack[j] = i
  BY <1>1 DEF Without
<1>2. CASE \E j \in DOMAIN stack : stack[j] = i
  <2> DEFINE k == CHOOSE k \in DOMAIN stack : stack[k] = i
             low == SubSeq(stack, 1, k - 1)
             high == SubSeq(stack, k + 1, Len(stack))
             out == low \o high
  <2>1. k \in 1..Len(stack) /\ Len(stack) \in Nat
    BY <1>2
  <2>2. Without(stack, i) = out
    BY <1>2 DEF Without
  <2> HIDE DEF k
  <2>3. low \in Seq(S) /\ Len(low) = k - 1 /\ \A j \in 1..(k - 1) : low[j] = stack[j]
    BY <2>1
  <2>4. /\ high \in Seq(S) /\ Len(high) = Len(stack) - k
        /\ \A j \in 1..(Len(stack) - k) : high[j] = stack[k + j]
    BY <2>1
  <2> HIDE DEF low, high
  <2>5. /\ out \in Seq(S) /\ Len(out) = Len(stack) - 1
        /\ \A j \in 1..(Len(stack) - 1) : out[j] = IF j < k THEN low[j] ELSE high[j - (k - 1)]
    <3>1. Len(low) + Len(high) = Len(stack) - 1
      BY <2>1, <2>3, <2>4
    <3>2. out \in Seq(S) /\ Len(out) = Len(stack) - 1
      BY <2>3, <2>4, <3>1, ConcatProperties
    <3>3. \A j \in 1..(Len(stack) - 1) :
            out[j] = IF j <= Len(low) THEN low[j] ELSE high[j - Len(low)]
      BY <2>3, <2>4, <3>1, ConcatProperties
    <3>4. \A j \in 1..(Len(stack) - 1) : j < k <=> j <= Len(low)
      BY <2>1, <2>3
    <3> QED
      BY <2>3, <3>2, <3>3, <3>4
  <2>6. \A j \in 1..(Len(stack) - 1) : out[j] = IF j < k THEN stack[j] ELSE stack[j + 1]
    <3> SUFFICES ASSUME NEW j \in 1..(Len(stack) - 1)
                 PROVE  out[j] = IF j < k THEN stack[j] ELSE stack[j + 1]
      OBVIOUS
    <3>1. CASE j < k
      BY <2>1, <2>3, <2>5, <3>1
    <3>2. CASE ~(j < k)
      <4>1. j - (k - 1) \in 1..(Len(stack) - k) /\ k + (j - (k - 1)) = j + 1
        BY <2>1, <3>2
      <4> QED
        BY <2>4, <2>5, <3>2, <4>1
    <3> QED
      BY <3>1, <3>2
  <2> HIDE DEF out
  <2>7. DOMAIN out = 1..(Len(stack) - 1) /\ DOMAIN stack = 1..Len(stack)
    BY <2>5
  <2>8. ASSUME NEW a \in DOMAIN out, NEW b \in DOMAIN out, out[a] = out[b]
        PROVE  a = b
    <3> DEFINE at(j) == IF j < k THEN j ELSE j + 1
    <3>1. at(a) \in DOMAIN stack /\ at(b) \in DOMAIN stack
      BY <2>1, <2>7
    <3>2. stack[at(a)] = stack[at(b)]
      BY <2>6, <2>7, <2>8
    <3>3. at(a) = at(b)
      BY <3>1, <3>2
    <3> QED
      BY <2>1, <2>7, <3>3
  <2> QED
    BY <2>2, <2>5, <2>8
<1> QED
  BY <1>1, <1>2

\* The commit comes when the whole group is at its goal, so the registry and
\* the files change their agreement together.
LEMMA CommitRegistryStep ==
  ASSUME UndoInv, CommitRegistry
  PROVE  UndoInv'
<1>0. UndoTypes /\ StackIsSet /\ CallIsSound /\ FilesFollowCall
  BY DEF UndoInv
<1>1. Calling /\ call.at = "commit" /\ call.id \in DOMAIN entries
  BY <1>0 DEF CommitRegistry, Calling, CallIsSound
<1>2. UNCHANGED <<content, before, after, entries, toolWrite, disturbed, incidents>>
  BY DEF CommitRegistry, undoDisk
<1>3. /\ Group \subseteq UndoFiles
      /\ \A g \in Group : IsWritten(g) /\ Goal(g) \in Values
  BY <1>0, <1>1, GroupFacts DEF CallIsSound
<1>4. call \in Calls
  BY <1>0 DEF UndoTypes
<1>5. CASE /\ undone' = DesiredStack
           /\ expected' = [f \in UndoFiles |->
                IF f \in DOMAIN entries[call.id].old THEN Goal(f) ELSE expected[f]]
           /\ call' = NoCall
  <2>1. undone' \in Seq(DOMAIN entries) /\ StackIsSet'
    <3>1. CASE call.redo
      BY <1>0, <1>5, <3>1, WithoutFacts DEF UndoTypes, StackIsSet, DesiredStack
    <3>2. CASE ~call.redo /\ IsUndone(call.id)
      BY <1>0, <1>5, <3>2 DEF UndoTypes, StackIsSet, DesiredStack
    <3>3. CASE ~call.redo /\ ~IsUndone(call.id)
      <4>1. undone' = Append(undone, call.id)
        BY <1>5, <3>3 DEF DesiredStack
      <4>2. /\ undone' \in Seq(DOMAIN entries) /\ Len(undone') = Len(undone) + 1
            /\ undone'[Len(undone) + 1] = call.id
            /\ \A j \in 1..Len(undone) : undone'[j] = undone[j]
        BY <1>0, <1>1, <4>1 DEF UndoTypes
      <4>3. \A j \in 1..Len(undone) : undone[j] # call.id
        BY <1>0, <3>3 DEF UndoTypes, IsUndone
      <4>4. DOMAIN undone = 1..Len(undone) /\ DOMAIN undone' = 1..(Len(undone) + 1)
            /\ Len(undone) \in Nat
        BY <1>0, <4>2 DEF UndoTypes
      <4>5. ASSUME NEW j \in DOMAIN undone', NEW k \in DOMAIN undone', undone'[j] = undone'[k]
            PROVE  j = k
        BY <1>0, <4>2, <4>3, <4>4, <4>5 DEF StackIsSet
      <4> QED
        BY <4>2, <4>5 DEF StackIsSet
    <3> QED
      BY <3>1, <3>2, <3>3
  <2>2. ~Calling' /\ CallIsSound' /\ call' \in Calls
    BY <1>5, UndoBounds DEF Calling, CallIsSound, NoCall, Calls
  <2>3. expected' \in [UndoFiles -> Values]
    BY <1>0, <1>3, <1>5 DEF UndoTypes, Group
  <2>4. UndoTypes'
    BY <1>0, <1>2, <2>1, <2>2, <2>3 DEF UndoTypes
  <2>5. FilesFollowCall'
    <3> SUFFICES ASSUME disturbed \subseteq {"outside"} PROVE content = expected'
      BY <1>2, <2>2 DEF FilesFollowCall
    <3>1. \A f \in UndoFiles : content[f] = expected'[f]
      BY <1>0, <1>1, <1>3, <1>5 DEF FilesFollowCall, Group
    <3> QED
      BY <1>0, <2>3, <3>1 DEF UndoTypes
  <2> QED
    BY <2>1, <2>2, <2>4, <2>5 DEF UndoInv
<1>6. CASE /\ \E at \in {"load", "rollback"} : call' = [call EXCEPT !.at = at]
           /\ UNCHANGED <<undone, expected>>
  <2>1. /\ call'.at \in {"load", "rollback"} /\ call'.redo = call.redo /\ call'.id = call.id
        /\ call'.left = call.left /\ call'.written = call.written /\ call' \in Calls
    BY <1>4, <1>6 DEF Calls
  <2>2. UndoTypes' /\ Calling'
    BY <1>0, <1>2, <1>6, <2>1 DEF UndoTypes, Calling
  <2>3. CallIsSound'
    BY <1>0, <1>1, <1>2, <2>1, <2>2 DEF CallIsSound, Group, IsWritten
  <2>4. StackIsSet' /\ FilesFollowCall'
    BY <1>1, <1>2, <1>6, <2>1, <2>2, <2>3, QuietUndo
  <2> QED
    BY <2>2, <2>3, <2>4 DEF UndoInv
<1> QED
  BY <1>5, <1>6 DEF CommitRegistry

\* A file taken back is at its origin again; one that cannot be is noted.
LEMMA RollBackFileStep ==
  ASSUME UndoInv, RollBackFile
  PROVE  UndoInv'
<1> DEFINE f == Head(call.written)
<1>0. UndoTypes /\ StackIsSet /\ CallIsSound /\ FilesFollowCall
  BY DEF UndoInv
<1>1. Calling /\ call.at = "rollback" /\ call \in Calls /\ call.written # <<>>
  BY <1>0 DEF RollBackFile, Calling, UndoTypes
<1>2. UNCHANGED <<before, after, entries, undone, toolWrite, expected, incidents>>
  BY DEF RollBackFile, undoStore
<1>3. /\ call'.at = "rollback" /\ call'.redo = call.redo /\ call'.id = call.id
      /\ call'.left = call.left /\ call'.written = Tail(call.written) /\ call' \in Calls
  <2>1. call' = [call EXCEPT !.written = Tail(@)] /\ Tail(call.written) \in Seq(UndoFiles)
    BY <1>1 DEF RollBackFile, Calls
  <2> QED
    BY <1>1, <2>1 DEF Calls
<1>4. /\ Len(call.written) \in Nat \ {0} /\ f = call.written[1]
      /\ DOMAIN call.written = 1..Len(call.written)
      /\ DOMAIN call'.written = 1..(Len(call.written) - 1)
      /\ \A k \in 1..(Len(call.written) - 1) : call'.written[k] = call.written[k + 1]
  BY <1>1, <1>3 DEF Calls
<1>5. /\ f \in Group /\ Group \subseteq UndoFiles
      /\ \A g \in Group : Goal(g) \in Values /\ Origin(g) \in Values
  BY <1>0, <1>1, <1>4, GroupFacts DEF CallIsSound
<1> HIDE DEF f
<1>6. \A g : IsWritten(g)' <=> (g # f /\ IsWritten(g))
  <2> SUFFICES ASSUME NEW g PROVE IsWritten(g)' <=> (g # f /\ IsWritten(g))
    OBVIOUS
  <2>1. ASSUME IsWritten(g)' PROVE g # f /\ IsWritten(g)
    <3>1. PICK k \in DOMAIN call'.written : call'.written[k] = g
      BY <2>1 DEF IsWritten
    <3>2. k + 1 \in DOMAIN call.written /\ 1 \in DOMAIN call.written /\ k + 1 # 1
          /\ call.written[k + 1] = g
      BY <1>4, <3>1
    <3>3. call.written[k + 1] # call.written[1]
      BY <1>0, <1>1, <3>2 DEF CallIsSound
    <3> QED
      BY <1>4, <3>2, <3>3 DEF IsWritten
  <2>2. ASSUME g # f, IsWritten(g) PROVE IsWritten(g)'
    <3>1. PICK k \in DOMAIN call.written : call.written[k] = g
      BY <2>2 DEF IsWritten
    <3>2. k # 1
      BY <1>4, <2>2, <3>1
    <3>3. k - 1 \in DOMAIN call'.written /\ (k - 1) + 1 = k
      BY <1>4, <3>2
    <3>4. call'.written[k - 1] = g
      BY <1>4, <3>1, <3>3
    <3> QED
      BY <3>3, <3>4 DEF IsWritten
  <2> QED
    BY <2>1, <2>2
<1>7. /\ Calling' /\ Group' = Group
      /\ \A g : Goal(g)' = Goal(g) /\ Origin(g)' = Origin(g)
  BY <1>2, <1>3 DEF Calling, Group, Goal, Origin
<1>8. CallIsSound'
  <2>1. \A k \in DOMAIN call'.written : call'.written[k] \in Group
    <3> SUFFICES ASSUME NEW k \in DOMAIN call'.written PROVE call'.written[k] \in Group
      OBVIOUS
    <3>1. k + 1 \in DOMAIN call.written /\ call'.written[k] = call.written[k + 1]
      BY <1>4
    <3> QED
      BY <1>0, <1>1, <3>1 DEF CallIsSound
  <2>2. ASSUME NEW j \in DOMAIN call'.written, NEW k \in DOMAIN call'.written,
               call'.written[j] = call'.written[k]
        PROVE  j = k
    <3>1. /\ j + 1 \in DOMAIN call.written /\ k + 1 \in DOMAIN call.written
          /\ call.written[j + 1] = call.written[k + 1]
      BY <1>4, <2>2
    <3>2. j + 1 = k + 1
      BY <1>0, <1>1, <3>1 DEF CallIsSound
    <3> QED
      BY <1>4, <3>2
  <2>3. call'.left \subseteq Group /\ call'.id \in DOMAIN entries'
    BY <1>0, <1>1, <1>2, <1>3 DEF CallIsSound
  <2> QED
    BY <1>3, <1>7, <2>1, <2>2, <2>3 DEF CallIsSound
<1>9. CASE content' = [content EXCEPT ![f] = Origin(f)] /\ UNCHANGED disturbed
  <2>1. /\ content' \in [UndoFiles -> Values] /\ content'[f] = Origin(f)
        /\ \A g \in UndoFiles \ {f} : content'[g] = content[g]
    BY <1>0, <1>5, <1>9 DEF UndoTypes
  <2>2. UndoTypes' /\ StackIsSet'
    BY <1>0, <1>2, <1>3, <1>9, <2>1 DEF UndoTypes, StackIsSet
  <2>3. FilesFollowCall'
    BY <1>0, <1>1, <1>2, <1>5, <1>6, <1>7, <1>9, <2>1 DEF FilesFollowCall
  <2> QED
    BY <1>8, <2>2, <2>3 DEF UndoInv
<1>10. CASE UNCHANGED content /\ disturbed' = disturbed \cup {"rollback"}
  <2>1. UndoTypes' /\ StackIsSet'
    BY <1>0, <1>2, <1>3, <1>10 DEF UndoTypes, StackIsSet
  <2>2. FilesFollowCall'
    BY <1>10 DEF FilesFollowCall
  <2> QED
    BY <1>8, <2>1, <2>2 DEF UndoInv
<1> QED
  BY <1>9, <1>10 DEF RollBackFile, f

\* A call that has written nothing, or has taken everything back, left no trace.
LEMMA CallEnds ==
  ASSUME UndoInv, call' = NoCall, UNCHANGED <<content, before, after, entries, undone, expected>>,
         toolWrite' \in {toolWrite, NoToolWrite}, incidents' \in Nat,
         disturbed \subseteq disturbed',
         disturbed' \subseteq {"outside", "raced", "crashed", "rollback"},
         call.written # <<>> => "crashed" \in disturbed'
  PROVE  UndoInv'
<1>0. UndoTypes /\ StackIsSet /\ CallIsSound /\ FilesFollowCall
  BY DEF UndoInv
<1>1. ~Calling' /\ CallIsSound' /\ call' \in Calls
  BY UndoBounds DEF Calling, CallIsSound, NoCall, Calls
<1>2. UndoTypes' /\ StackIsSet'
  BY <1>0, <1>1 DEF UndoTypes, StackIsSet, NoToolWrite
<1>3. FilesFollowCall'
  <2> SUFFICES ASSUME disturbed' \subseteq {"outside"} PROVE content = expected
    BY <1>1 DEF FilesFollowCall
  <2>1. disturbed \subseteq {"outside"} /\ call.written = <<>>
    <3>1. "crashed" \notin {"outside"}
      OBVIOUS
    <3> QED
      BY <3>1
  <2>2. CASE ~Calling
    BY <1>0, <2>1, <2>2 DEF FilesFollowCall
  <2>3. CASE Calling
    <3>1. \A f : ~IsWritten(f)
      BY <2>1 DEF IsWritten
    <3>2. \A f \in UndoFiles : content[f] = expected[f]
      BY <1>0, <2>1, <2>3, <3>1 DEF FilesFollowCall
    <3> QED
      BY <1>0, <3>2 DEF UndoTypes
  <2> QED
    BY <2>2, <2>3
<1> QED
  BY <1>1, <1>2, <1>3 DEF UndoInv

\* Every step of the workspace keeps the invariant.
LEMMA UndoStep == UndoInv /\ [UndoNext]_undoVars => UndoInv'
<1> SUFFICES ASSUME UndoInv, [UndoNext]_undoVars PROVE UndoInv'
  OBVIOUS
<1>1. ASSUME NEW files \in SUBSET UndoFiles, NEW new \in [files -> Contents],
             ToolWrites(files, new)
      PROVE  UndoInv'
  BY <1>1, ToolWritesStep
<1>2. CASE ToolRecords
  BY <1>2, ToolRecordsStep
<1>3. ASSUME NEW f \in UndoFiles, NEW c \in Contents \cup {Absent}, OutsideEdit(f, c)
      PROVE  UndoInv'
  BY <1>3, OutsideEditStep
<1>4. ASSUME NEW i \in DOMAIN entries, SnapshotsExpire(i)
      PROVE  UndoInv'
  BY <1>4, SnapshotsExpireStep
<1>5. CASE ForeignCommit
  BY <1>5, ForeignCommitStep
<1>6. CASE BeginUndo
  BY <1>6, BeginUndoStep
<1>7. CASE BeginRedo
  BY <1>7, BeginRedoStep
<1>8. ASSUME NEW f \in UndoFiles, WriteFile(f)
      PROVE  UndoInv'
  BY <1>8, WriteFileStep
<1>9. CASE LoadRegistry
  BY <1>9, LoadRegistryStep
<1>10. CASE CommitRegistry
  BY <1>10, CommitRegistryStep
<1>11. CASE RollBackFile
  BY <1>11, RollBackFileStep
<1>12. CASE ReportFailure
  <2>1. /\ call' = NoCall /\ UNCHANGED <<content, before, after, entries, undone, expected>>
        /\ toolWrite' \in {toolWrite, NoToolWrite} /\ incidents' \in Nat
        /\ disturbed \subseteq disturbed' /\ call.written = <<>>
        /\ disturbed' \subseteq {"outside", "raced", "crashed", "rollback"}
    BY <1>12 DEF ReportFailure, undoDisk, undoStore, UndoInv, UndoTypes
  <2> QED
    BY <2>1, CallEnds, Zenon
<1>13. CASE UndoCrash
  <2>1. /\ call' = NoCall /\ UNCHANGED <<content, before, after, entries, undone, expected>>
        /\ toolWrite' \in {toolWrite, NoToolWrite} /\ incidents' \in Nat
        /\ disturbed' = disturbed \cup (IF call.written # <<>> THEN {"crashed"} ELSE {})
    BY <1>13 DEF UndoCrash, Incident, undoDisk, undoStore, UndoInv, UndoTypes
  <2>2. /\ disturbed \subseteq disturbed' /\ (call.written # <<>> => "crashed" \in disturbed')
        /\ disturbed' \subseteq {"outside", "raced", "crashed", "rollback"}
    BY <2>1 DEF UndoInv, UndoTypes
  <2> QED
    BY <2>1, <2>2, CallEnds, Zenon
<1>14. CASE UNCHANGED undoVars
  BY <1>14 DEF undoVars, undoDisk, undoStore, UndoInv, UndoTypes, StackIsSet, CallIsSound,
               FilesFollowCall, Calling, Group, IsWritten, Goal, Origin
<1> QED
  BY <1>1, <1>2, <1>3, <1>4, <1>5, <1>6, <1>7, <1>8, <1>9, <1>10, <1>11, <1>12, <1>13, <1>14
     DEF UndoNext

\* The invariant holds for every set of files and contents and any number of
\* changes, undos, redos, races and crashes of workspace_undo_runtime.rs.
THEOREM UndoInvariant == UndoSpec => []UndoInv
<1> QED
  BY UndoStart, UndoStep, PTL DEF UndoSpec

\* Between calls, and unless a tool raced one, a crash cut one short or a
\* rollback failed, the files are what the undo registry says: undo and redo write
\* the files first and the registry second, and a failure between the two is
\* rolled back.
THEOREM WorkspaceAlwaysFollowsRegistry == UndoSpec => []WorkspaceFollowsRegistry
<1>1. UndoInv => WorkspaceFollowsRegistry
  <2> SUFFICES ASSUME UndoInv PROVE WorkspaceFollowsRegistry
    OBVIOUS
  <2>1. UndoTypeOK
    <3>1. {content, expected} \subseteq [UndoFiles -> Contents \cup {Absent}]
      BY DEF UndoInv, UndoTypes, Values
    <3>2. \A k \in DOMAIN undone : undone[k] \in DOMAIN entries
      BY DEF UndoInv, UndoTypes
    <3>3. call.at \in {"idle", "writing", "load", "commit", "rollback"}
          /\ call.attempt <= CommitAttempts
      BY UndoBounds DEF UndoInv, UndoTypes, Calls
    <3>4. Calling => call.id \in DOMAIN entries
      BY DEF UndoInv, CallIsSound
    <3> QED
      BY <3>1, <3>2, <3>3, <3>4 DEF UndoInv, UndoTypes, StackIsSet, UndoTypeOK
  <2> QED
    BY <2>1 DEF UndoInv, FilesFollowCall, WorkspaceFollowsRegistry
<1> QED
  BY <1>1, UndoInvariant, PTL

-----------------------------------------------------------------------------
(* ScheduledRuns.                                                          *)

Schedules ==
  [exists : BOOLEAN, enabled : BOOLEAN, next : {"none", "later", "due", "missed"},
   runs : Seq(RunRecords)]
Logs == [Items -> {"absent", "queued", "running", "deleted"} \cup Ended]

Reconciling == {"reconcile", "progress", "overwrite"}
Retiring == {"exhausted", "delete", "mark"}
ActorRecords ==
  [at : {"idle", "scan", "list", "trigger", "record", "head", "decide", "lease", "attempt",
         "start", "await", "release", "target", "stop", "removing", "toggling"}
        \cup Reconciling \cup Retiring,
   job : {"none", "poll", "dispatch", "settle", "cancel", "remove", "toggle", "now"},
   run : Nat, copy : Items \cup {NoItem}, seen : {"none"} \cup ActiveStatus \cup Ended,
   item : Items \cup {NoItem}]

Known(q, log) == q # NoItem => log[q] # "absent"
Begun(q, log) == q # NoItem /\ log[q] \notin {"queued", "absent"}

\* What a thread carries is true of the log, and stays true.
ActorOK(a, log) ==
  /\ a \in ActorRecords
  /\ Known(a.copy, log) /\ Known(a.item, log)
  /\ a.at \in Reconciling => a.job \notin {"none", "now"}
  /\ a.job = "settle" => a.at \in Reconciling \cup Retiring
  /\ a.at # "overwrite" => a.seen = "none"
  /\ a.seen \notin {"none", "queued"} => Begun(a.copy, log)

RecordsOK(s, log) ==
  s \in Schedules /\ \A i \in DOMAIN s.runs : Known(s.runs[i].item, log)

LogIsFilled(log) ==
  \E n \in 0..MaxItems : \A q \in Items : log[q] # "absent" <=> q <= n

\* Whoever keeps the lock while its message is queued found no active record.
LockOK ==
  \A t \in Actors :
    actor[t].at = "record" => scheduleLock = {t} /\ ActiveRuns(schedule) = {}

\* An active record that tells what the log said of its own message.
Alive(r) == r.status \in ActiveStatus /\ ~r.overwritten
Stuck(r, log) ==
  /\ Alive(r) /\ r.status = "queued" /\ r.attempts >= DispatchCap
  /\ r.item # NoItem /\ log[r.item] = "queued"
Settles(a) == a.at \in {"start", "await", "release"} \cup Retiring \/ a.job = "settle"

\* Such a record is the last, "running" is in the log, and while it waits after
\* its last attempt a dispatch with its message is on its way to retire it.
RetireOK(s, log, who) ==
  /\ \A i \in DOMAIN s.runs : Alive(s.runs[i]) => i = Len(s.runs)
  /\ \A i \in DOMAIN s.runs :
       Alive(s.runs[i]) /\ s.runs[i].status = "running" => Begun(s.runs[i].item, log)
  /\ \A i \in DOMAIN s.runs :
       Stuck(s.runs[i], log) =>
         \E t \in DispatchThreads : Settles(who[t]) /\ who[t].item = s.runs[i].item

NoFaults == scheduleCrashes = 0 /\ failedSaves = 0

ScheduleInv ==
  /\ itemLog \in Logs /\ LogIsFilled(itemLog)
  /\ RecordsOK(schedule, itemLog) /\ RecordsOK(scheduleFile, itemLog)
  /\ actor = [t \in Actors |-> actor[t]]
  /\ \A t \in Actors : ActorOK(actor[t], itemLog)
  /\ sessionLease \in BOOLEAN /\ scheduleLock \subseteq Actors /\ spawned \in Nat
  /\ scheduleCrashes \in Nat /\ failedSaves \in Nat
  /\ LockOK
  /\ NoFaults => RetireOK(schedule, itemLog, actor)

-----------------------------------------------------------------------------
(* The newest record and the head of the queue.                            *)

\* A bounded set of numbers has a least and a greatest element.
LEMMA LeastOfNumbers ==
  ASSUME NEW S, S \subseteq Nat, S # {}
  PROVE  \E x \in S : \A y \in S : x <= y
<1>1. \E x \in S : \A y \in S : ~(<<y, x>> \in OpToRel(<, Nat))
  BY WFMin, NatLessThanWellFounded
<1>2. \A x, y \in Nat : ~(<<y, x>> \in OpToRel(<, Nat)) => x <= y
  BY DEF OpToRel
<1> QED
  BY <1>1, <1>2

\* A bounded set of numbers has a greatest element.
LEMMA GreatestOfNumbers ==
  ASSUME NEW n \in Nat, NEW S, S \subseteq 1..n, S # {}
  PROVE  \E x \in S : \A y \in S : y <= x
<1> DEFINE T == {n - x : x \in S}
<1>1. T \subseteq Nat /\ T # {}
  <2>1. \A x \in S : x \in 1..n
    OBVIOUS
  <2>2. \A x \in S : n - x \in Nat
    BY <2>1
  <2> QED
    BY <2>2
<1>2. PICK m \in T : \A k \in T : m <= k
  BY <1>1, LeastOfNumbers
<1>3. PICK x \in S : m = n - x
  OBVIOUS
<1>4. \A y \in S : n - x <= n - y
  BY <1>2, <1>3
<1>5. \A y \in S : y <= x
  BY <1>4
<1> QED
  BY <1>5

\* The active record is one of the schedule's, and there is one if any is active.
LEMMA ActiveFacts ==
  ASSUME NEW s \in Schedules
  PROVE  /\ ActiveRun(s) = 0 <=> ActiveRuns(s) = {}
         /\ ActiveRun(s) # 0 =>
              /\ ActiveRun(s) \in DOMAIN s.runs /\ ActiveRun(s) \in Nat
              /\ s.runs[ActiveRun(s)].status \in ActiveStatus
              /\ s.runs[ActiveRun(s)] \in RunRecords
<1>1. ActiveRuns(s) \subseteq 1..Len(s.runs) /\ Len(s.runs) \in Nat
      /\ DOMAIN s.runs = 1..Len(s.runs)
  BY DEF ActiveRuns, Schedules
<1>2. CASE ActiveRuns(s) = {}
  BY <1>2 DEF ActiveRun
<1>3. CASE ActiveRuns(s) # {}
  <2>1. \E i \in ActiveRuns(s) : \A j \in ActiveRuns(s) : j <= i
    BY <1>1, <1>3, GreatestOfNumbers
  <2>2. ActiveRun(s) \in ActiveRuns(s)
    BY <1>3, <2>1 DEF ActiveRun
  <2>3. ActiveRun(s) # 0
    BY <1>1, <2>2
  <2> QED
    BY <1>1, <1>3, <2>2, <2>3 DEF ActiveRuns, Schedules
<1> QED
  BY <1>2, <1>3

\* The newest record with a message has it, and is the last one if that has it.
LEMMA HolderFacts ==
  ASSUME NEW s \in Schedules, NEW q
  PROVE  /\ RunOfItem(s, q) # 0 =>
              /\ RunOfItem(s, q) \in DOMAIN s.runs
              /\ s.runs[RunOfItem(s, q)].item = q
         /\ Len(s.runs) \in DOMAIN s.runs /\ s.runs[Len(s.runs)].item = q =>
              RunOfItem(s, q) = Len(s.runs) /\ RunOfItem(s, q) # 0
<1> DEFINE holders == {i \in DOMAIN s.runs : s.runs[i].item = q}
<1>1. holders \subseteq 1..Len(s.runs) /\ Len(s.runs) \in Nat
      /\ DOMAIN s.runs = 1..Len(s.runs)
  BY DEF Schedules
<1>2. RunOfItem(s, q) = IF holders = {} THEN 0
                        ELSE CHOOSE i \in holders : \A j \in holders : j <= i
  BY DEF RunOfItem
<1>3. ASSUME holders # {}
      PROVE  /\ RunOfItem(s, q) \in holders /\ RunOfItem(s, q) # 0
             /\ \A j \in holders : j <= RunOfItem(s, q)
  <2>1. \E i \in holders : \A j \in holders : j <= i
    BY <1>1, <1>3, GreatestOfNumbers
  <2> HIDE DEF holders
  <2>2. RunOfItem(s, q) \in holders /\ \A j \in holders : j <= RunOfItem(s, q)
    BY <1>2, <1>3, <2>1
  <2> QED
    BY <1>1, <2>2
<1>4. ASSUME Len(s.runs) \in DOMAIN s.runs, s.runs[Len(s.runs)].item = q
      PROVE  RunOfItem(s, q) = Len(s.runs) /\ RunOfItem(s, q) # 0
  <2>1. Len(s.runs) \in holders /\ holders # {}
    BY <1>4
  <2>2. /\ RunOfItem(s, q) \in holders /\ RunOfItem(s, q) # 0
        /\ \A j \in holders : j <= RunOfItem(s, q)
    BY <1>3, <2>1
  <2> HIDE DEF holders
  <2>3. RunOfItem(s, q) \in 1..Len(s.runs) /\ Len(s.runs) <= RunOfItem(s, q)
    BY <1>1, <2>1, <2>2
  <2> QED
    BY <1>1, <2>2, <2>3
<1>5. ASSUME RunOfItem(s, q) # 0
      PROVE  RunOfItem(s, q) \in DOMAIN s.runs /\ s.runs[RunOfItem(s, q)].item = q
  BY <1>2, <1>3, <1>5
<1> QED
  BY <1>4, <1>5

\* The head of the queue is a queued message.
LEMMA HeadFacts ==
  ASSUME Pending # {}
  PROVE  HeadItem \in Items /\ itemLog[HeadItem] = "queued"
<1>1. Pending \subseteq Nat
  BY DEF Pending, Items
<1>2. \E q \in Pending : \A p \in Pending : q <= p
  BY <1>1, LeastOfNumbers
<1>3. HeadItem \in Pending
  BY <1>2 DEF HeadItem
<1> QED
  BY <1>3 DEF Pending

\* A new message gets a name the log does not have.
LEMMA NextFacts ==
  ASSUME itemLog \in Logs, LogIsFilled(itemLog), NextItem \in Items
  PROVE  /\ itemLog[NextItem] = "absent"
         /\ LogIsFilled([itemLog EXCEPT ![NextItem] = "queued"])
<1>1. PICK n \in 0..MaxItems : \A q \in Items : itemLog[q] # "absent" <=> q <= n
  BY DEF LogIsFilled
<1>2. {q \in Items : itemLog[q] # "absent"} = 1..n
  BY <1>1, ScheduleAssumption DEF Items
<1>3. Cardinality(1..n) = n
  BY <1>1, ScheduleAssumption, FS_Interval
<1>4. NextItem = n + 1
  BY <1>2, <1>3 DEF NextItem
<1>5. n + 1 \in 0..MaxItems /\ n + 1 \in Items
  BY <1>1, <1>4, ScheduleAssumption DEF Items
<1>6. itemLog[n + 1] = "absent"
  BY <1>1, <1>5
<1>7. ASSUME NEW q \in Items
      PROVE  [itemLog EXCEPT ![n + 1] = "queued"][q] # "absent" <=> q <= n + 1
  <2>1. q \in Nat /\ (q <= n + 1 <=> q <= n \/ q = n + 1)
    BY <1>1 DEF Items
  <2> QED
    BY <1>1, <1>7, <2>1 DEF Logs
<1> QED
  BY <1>4, <1>5, <1>6, <1>7 DEF LogIsFilled

-----------------------------------------------------------------------------
(* The log only goes on.                                                   *)

Grown(log, new) ==
  \A q \in Items : /\ log[q] # "absent" => new[q] # "absent"
                   /\ log[q] \notin {"queued", "absent"} => new[q] \notin {"queued", "absent"}

\* What was known of a message and whether it has begun remain true.
LEMMA GrownFacts ==
  ASSUME NEW log, NEW new, Grown(log, new), NEW q \in Items \cup {NoItem}
  PROVE  /\ Known(q, log) => Known(q, new)
         /\ Begun(q, log) => Begun(q, new)
         /\ Known(q, log) /\ q # NoItem /\ new[q] = "queued" => log[q] = "queued"
  BY DEF Grown, Known, Begun

\* What a thread carries stays true as the log goes on.
LEMMA ActorStaysOK ==
  ASSUME NEW log, NEW new, Grown(log, new), NEW a, ActorOK(a, log)
  PROVE  ActorOK(a, new)
<1>1. a.copy \in Items \cup {NoItem} /\ a.item \in Items \cup {NoItem}
  BY DEF ActorOK, ActorRecords
<1> QED
  BY <1>1, GrownFacts DEF ActorOK

\* And so does what the records name.
LEMMA RecordsStayOK ==
  ASSUME NEW log, NEW new, Grown(log, new), NEW s, RecordsOK(s, log)
  PROVE  RecordsOK(s, new)
<1>1. \A i \in DOMAIN s.runs : s.runs[i] \in RunRecords
  BY ElementOfSeq DEF RecordsOK, Schedules
<1>2. \A i \in DOMAIN s.runs : s.runs[i].item \in Items \cup {NoItem}
  BY <1>1 DEF RunRecords
<1> QED
  BY <1>2, GrownFacts DEF RecordsOK

\* A thread at rest carries nothing.
LEMMA IdleFacts ==
  ASSUME NEW log
  PROVE  ActorOK(IdleActor, log) /\ ~Settles(IdleActor) /\ IdleActor.at # "record"
<1>1. IdleActor \in ActorRecords
  BY DEF IdleActor, ActorRecords
<1> QED
  BY <1>1 DEF IdleActor, ActorOK, Known, Begun, Settles, Reconciling, Retiring

-----------------------------------------------------------------------------
(* What one thread's step leaves of the invariant.                         *)

\* Only thread t moves.
Moves(t) ==
  /\ actor' = [u \in Actors |-> actor'[u]]
  /\ \A u \in Actors \ {t} : actor'[u] = actor[u]

\* A thread that becomes a moves alone.
LEMMA BecomeFacts ==
  ASSUME ScheduleInv, NEW t \in Actors, NEW STATE a, Become(t, a)
  PROVE  Moves(t) /\ actor'[t] = a
<1>1. actor = [u \in Actors |-> actor[u]]
  BY DEF ScheduleInv
<1>2. actor' = [actor EXCEPT ![t] = a]
  BY DEF Become
<1> QED
  BY <1>1, <1>2 DEF Moves

\* A thread that settles goes on doing so, with its message.
KeepsSettling(t) ==
  Settles(actor[t]) => Settles(actor'[t]) /\ actor'[t].item = actor[t].item

\* When nobody keeps the lock, nobody is between queueing and recording.
LEMMA FreeFacts ==
  ASSUME ScheduleInv, ScheduleIsFree
  PROVE  \A u \in Actors : actor[u].at # "record"
  BY DEF ScheduleInv, LockOK, ScheduleIsFree

\* The fields of a thread.
LEMMA ActorFacts ==
  ASSUME ScheduleInv, NEW t \in Actors
  PROVE  ActorOK(actor[t], itemLog) /\ actor[t] \in ActorRecords
  BY DEF ScheduleInv, ActorOK

\* The records of the schedule.
LEMMA RecordFacts ==
  ASSUME NEW s, NEW log, RecordsOK(s, log)
  PROVE  /\ s \in Schedules /\ Len(s.runs) \in Nat /\ DOMAIN s.runs = 1..Len(s.runs)
         /\ \A i \in DOMAIN s.runs :
              /\ s.runs[i] \in RunRecords /\ s.runs[i].item \in Items \cup {NoItem}
              /\ s.runs[i].attempts \in Nat
<1>1. s \in Schedules /\ s.runs \in Seq(RunRecords)
  BY DEF RecordsOK, Schedules
<1>2. Len(s.runs) \in Nat /\ DOMAIN s.runs = 1..Len(s.runs)
  BY <1>1
<1>3. \A i \in DOMAIN s.runs : s.runs[i] \in RunRecords
  BY <1>1, ElementOfSeq
<1> QED
  BY <1>1, <1>2, <1>3 DEF RunRecords

\* While the records stay and settling threads go on, a run at the cap is
\* retired as before.
LEMMA CarriedOn ==
  ASSUME ScheduleInv, NEW t \in Actors, RetireOK(schedule, itemLog, actor),
         schedule'.runs = schedule.runs, Grown(itemLog, itemLog'), Moves(t), KeepsSettling(t)
  PROVE  RetireOK(schedule', itemLog', actor')
<1>1. RecordsOK(schedule, itemLog)
  BY DEF ScheduleInv
<1>2. \A i \in DOMAIN schedule.runs :
        /\ schedule.runs[i].item \in Items \cup {NoItem}
        /\ Known(schedule.runs[i].item, itemLog)
  BY <1>1, RecordFacts DEF RecordsOK
<1>3. ASSUME NEW i \in DOMAIN schedule.runs, Stuck(schedule.runs[i], itemLog')
      PROVE  \E u \in DispatchThreads :
               Settles(actor'[u]) /\ actor'[u].item = schedule.runs[i].item
  <2>1. itemLog[schedule.runs[i].item] = "queued"
    BY <1>2, <1>3, GrownFacts DEF Stuck
  <2>2. Stuck(schedule.runs[i], itemLog)
    BY <1>3, <2>1 DEF Stuck
  <2>3. PICK u \in DispatchThreads :
          Settles(actor[u]) /\ actor[u].item = schedule.runs[i].item
    BY <2>2 DEF RetireOK
  <2>4. u \in Actors
    BY DEF Actors
  <2>5. u # t => actor'[u] = actor[u]
    BY <2>4 DEF Moves
  <2> QED
    BY <2>3, <2>5 DEF KeepsSettling
<1>4. \A i \in DOMAIN schedule.runs :
        Alive(schedule.runs[i]) /\ schedule.runs[i].status = "running"
          => Begun(schedule.runs[i].item, itemLog')
  BY <1>2, GrownFacts DEF RetireOK
<1> QED
  BY <1>3, <1>4 DEF RetireOK

\* A step of thread t that leaves the records alone.
LEMMA MoveStep ==
  ASSUME ScheduleInv, NEW t \in Actors, Moves(t),
         UNCHANGED <<schedule, scheduleFile, scheduleCrashes, failedSaves>>,
         itemLog' \in Logs, LogIsFilled(itemLog'), Grown(itemLog, itemLog'),
         sessionLease' \in BOOLEAN, spawned' \in Nat, scheduleLock' \subseteq Actors,
         ActorOK(actor'[t], itemLog'), LockOK',
         NoFaults => RetireOK(schedule, itemLog', actor')
  PROVE  ScheduleInv'
<1>1. RecordsOK(schedule, itemLog') /\ RecordsOK(scheduleFile, itemLog')
  BY RecordsStayOK DEF ScheduleInv
<1>2. ASSUME NEW u \in Actors PROVE ActorOK(actor'[u], itemLog')
  <2>1. CASE u = t
    BY <2>1
  <2>2. CASE u # t
    BY <2>2, ActorStaysOK DEF ScheduleInv, Moves
  <2> QED
    BY <2>1, <2>2
<1>3. actor' = [u \in Actors |-> actor'[u]]
  BY DEF Moves
<1>4. scheduleCrashes' \in Nat /\ failedSaves' \in Nat /\ (NoFaults' => NoFaults)
  BY DEF ScheduleInv, NoFaults
<1> QED
  BY <1>1, <1>2, <1>3, <1>4 DEF ScheduleInv

\* One that leaves the log alone, too.
LEMMA QuietStep ==
  ASSUME ScheduleInv, NEW t \in Actors, Moves(t),
         UNCHANGED <<schedule, scheduleFile, itemLog, scheduleLock, scheduleCrashes,
                     failedSaves>>,
         sessionLease' \in BOOLEAN, spawned' \in Nat,
         ActorOK(actor'[t], itemLog), actor'[t].at # "record", KeepsSettling(t)
  PROVE  ScheduleInv'
<1>1. Grown(itemLog, itemLog')
  BY DEF Grown
<1>2. LockOK'
  BY DEF ScheduleInv, LockOK, Moves
<1>3. NoFaults => RetireOK(schedule, itemLog', actor')
  BY <1>1, CarriedOn DEF ScheduleInv
<1>4. /\ itemLog' \in Logs /\ LogIsFilled(itemLog') /\ scheduleLock' \subseteq Actors
      /\ ActorOK(actor'[t], itemLog')
  BY DEF ScheduleInv
<1> QED
  BY <1>1, <1>2, <1>3, <1>4, MoveStep

\* A step of thread t that writes records.
LEMMA WriteStep ==
  ASSUME ScheduleInv, NEW t \in Actors, Moves(t),
         UNCHANGED <<itemLog, scheduleCrashes>>,
         RecordsOK(schedule', itemLog), scheduleFile' \in {scheduleFile, schedule'},
         sessionLease' \in BOOLEAN, spawned' \in Nat, scheduleLock' \subseteq Actors,
         ActorOK(actor'[t], itemLog), actor'[t].at # "record",
         \A u \in Actors \ {t} : actor[u].at # "record",
         failedSaves' \in {failedSaves, failedSaves + 1},
         NoFaults /\ failedSaves' = failedSaves => RetireOK(schedule', itemLog, actor')
  PROVE  ScheduleInv'
<1>1. RecordsOK(scheduleFile', itemLog)
  BY DEF ScheduleInv
<1>2. ASSUME NEW u \in Actors PROVE ActorOK(actor'[u], itemLog)
  <2>1. CASE u = t
    BY <2>1
  <2>2. CASE u # t
    BY <2>2 DEF ScheduleInv, Moves
  <2> QED
    BY <2>1, <2>2
<1>3. actor' = [u \in Actors |-> actor'[u]] /\ LockOK'
  BY DEF Moves, LockOK
<1>4. /\ scheduleCrashes' \in Nat /\ failedSaves' \in Nat
      /\ NoFaults' => NoFaults /\ failedSaves' = failedSaves
  BY DEF ScheduleInv, NoFaults
<1> QED
  BY <1>1, <1>2, <1>3, <1>4 DEF ScheduleInv

\* A record appended while none is active is not at the cap.
LEMMA AppendRun ==
  ASSUME RecordsOK(schedule, itemLog), ActiveRuns(schedule) = {}, NEW STATE r,
         r \in RunRecords, Known(r.item, itemLog),
         Alive(r) => r.status = "queued" /\ r.attempts = 0,
         schedule' \in [exists : BOOLEAN, enabled : BOOLEAN,
                        next : {"none", "later", "due", "missed"}, runs : {schedule'.runs}],
         schedule'.runs = Append(schedule.runs, r)
  PROVE  /\ RecordsOK(schedule', itemLog)
         /\ RetireOK(schedule', itemLog, actor')
<1> DEFINE n == Len(schedule.runs)
<1>1. schedule.runs \in Seq(RunRecords) /\ n \in Nat /\ DOMAIN schedule.runs = 1..n
  BY RecordFacts DEF RecordsOK, Schedules
<1>2. /\ schedule'.runs \in Seq(RunRecords) /\ Len(schedule'.runs) = n + 1
      /\ DOMAIN schedule'.runs = 1..(n + 1) /\ schedule'.runs[n + 1] = r
      /\ \A i \in 1..n : schedule'.runs[i] = schedule.runs[i]
  BY <1>1, AppendProperties
<1>3. \A i \in 1..n : ~Alive(schedule.runs[i])
  BY <1>1 DEF ActiveRuns, Alive
<1>4. RecordsOK(schedule', itemLog)
  <2>1. schedule' \in Schedules
    BY <1>2 DEF Schedules
  <2>2. \A i \in 1..n : Known(schedule.runs[i].item, itemLog)
    BY <1>1 DEF RecordsOK
  <2>3. \A i \in 1..(n + 1) : i = n + 1 \/ i \in 1..n
    BY <1>1
  <2> QED
    BY <1>2, <2>1, <2>2, <2>3 DEF RecordsOK
<1>5. \A i \in DOMAIN schedule'.runs : Alive(schedule'.runs[i]) =>
        /\ i = Len(schedule'.runs) /\ schedule'.runs[i].status = "queued"
        /\ schedule'.runs[i].attempts = 0
  <2>1. \A i \in 1..(n + 1) : i = n + 1 \/ i \in 1..n
    BY <1>1
  <2> QED
    BY <1>2, <1>3, <2>1
<1>6. ~(0 >= DispatchCap)
  BY ScheduleAssumption
<1>7. RetireOK(schedule', itemLog, actor')
  BY <1>5, <1>6 DEF RetireOK, Stuck
<1> QED
  BY <1>4, <1>7

\* One record is changed.
LEMMA ChangeRun ==
  ASSUME RecordsOK(schedule, itemLog), NEW STATE i, i \in DOMAIN schedule.runs,
         schedule'.runs = [schedule.runs EXCEPT ![i] = schedule'.runs[i]],
         schedule' \in [exists : BOOLEAN, enabled : BOOLEAN,
                        next : {"none", "later", "due", "missed"}, runs : {schedule'.runs}],
         schedule'.runs[i] \in RunRecords, Known(schedule'.runs[i].item, itemLog)
  PROVE  /\ RecordsOK(schedule', itemLog)
         /\ DOMAIN schedule'.runs = DOMAIN schedule.runs
         /\ Len(schedule'.runs) = Len(schedule.runs)
         /\ \A j \in DOMAIN schedule.runs : j # i => schedule'.runs[j] = schedule.runs[j]
<1>1. schedule.runs \in Seq(RunRecords)
  BY DEF RecordsOK, Schedules
<1>2. /\ schedule'.runs \in Seq(RunRecords) /\ DOMAIN schedule'.runs = DOMAIN schedule.runs
      /\ Len(schedule'.runs) = Len(schedule.runs)
      /\ \A j \in DOMAIN schedule.runs : j # i => schedule'.runs[j] = schedule.runs[j]
  BY <1>1, ExceptSeq
<1>3. schedule' \in Schedules
  BY <1>2 DEF Schedules
<1> QED
  BY <1>2, <1>3 DEF RecordsOK

\* One record is changed by a thread that keeps its message: a record that
\* comes to the cap has a thread to retire it.
LEMMA ChangeRetires ==
  ASSUME RetireOK(schedule, itemLog, actor), NEW STATE i, i \in DOMAIN schedule.runs,
         DOMAIN schedule'.runs = DOMAIN schedule.runs,
         Len(schedule'.runs) = Len(schedule.runs),
         \A j \in DOMAIN schedule.runs : j # i => schedule'.runs[j] = schedule.runs[j],
         Alive(schedule'.runs[i]) => Alive(schedule.runs[i]),
         Alive(schedule'.runs[i]) /\ schedule'.runs[i].status = "running"
           => Begun(schedule'.runs[i].item, itemLog),
         NEW t \in Actors, Moves(t), KeepsSettling(t),
         Stuck(schedule'.runs[i], itemLog) =>
           \/ Stuck(schedule.runs[i], itemLog) /\ schedule'.runs[i].item = schedule.runs[i].item
           \/ /\ t \in DispatchThreads /\ Settles(actor'[t])
              /\ actor'[t].item = schedule'.runs[i].item
  PROVE  RetireOK(schedule', itemLog, actor')
<1>1. ASSUME NEW j \in DOMAIN schedule.runs, Stuck(schedule'.runs[j], itemLog)
      PROVE  \E u \in DispatchThreads :
               Settles(actor'[u]) /\ actor'[u].item = schedule'.runs[j].item
  <2>1. CASE Stuck(schedule.runs[j], itemLog) /\ schedule'.runs[j].item = schedule.runs[j].item
    <3>1. PICK u \in DispatchThreads :
            Settles(actor[u]) /\ actor[u].item = schedule.runs[j].item
      BY <2>1 DEF RetireOK
    <3>2. u \in Actors
      BY DEF Actors
    <3>3. u # t => actor'[u] = actor[u]
      BY <3>2 DEF Moves
    <3> QED
      BY <2>1, <3>1, <3>3 DEF KeepsSettling
  <2>2. CASE j = i /\ t \in DispatchThreads /\ Settles(actor'[t])
             /\ actor'[t].item = schedule'.runs[i].item
    BY <2>2
  <2> QED
    BY <1>1, <2>1, <2>2
<1> QED
  BY <1>1 DEF RetireOK

-----------------------------------------------------------------------------
(* Reconciliation.                                                         *)

\* Reconciliation copies the active record, which names the log's messages.
LEMMA ReconcileReadStep ==
  ASSUME ScheduleInv, NEW t \in Actors, ReconcileRead(t)
  PROVE  ScheduleInv'
<1> DEFINE a == actor[t]
           i == ActiveRun(schedule)
<1>0. ActorOK(a, itemLog) /\ a \in ActorRecords /\ a.at = "reconcile"
  BY ActorFacts DEF ReconcileRead
<1>1. RecordsOK(schedule, itemLog) /\ schedule \in Schedules
  BY RecordFacts DEF ScheduleInv
<1>2. CASE i = 0
  <2>1. Become(t, [a EXCEPT !.at = AfterReconcile(a.job)])
    BY <1>2 DEF ReconcileRead, Step
  <2>2. Moves(t) /\ actor'[t] = [a EXCEPT !.at = AfterReconcile(a.job)]
    BY <2>1, BecomeFacts
  <2>3. /\ AfterReconcile(a.job) \in {"scan", "head", "exhausted", "target", "removing",
                                      "toggling"}
        /\ a.job = "settle" => AfterReconcile(a.job) = "exhausted"
    BY <1>0 DEF ActorOK, ActorRecords, AfterReconcile, Reconciling
  <2>4. ActorOK(actor'[t], itemLog) /\ actor'[t].at # "record"
    BY <1>0, <2>2, <2>3 DEF ActorOK, ActorRecords, Reconciling, Retiring
  <2>5. KeepsSettling(t)
    BY <1>0, <2>2, <2>3 DEF ActorRecords, KeepsSettling, Settles, Retiring
  <2> QED
    BY <2>2, <2>4, <2>5, QuietStep DEF ReconcileRead, ScheduleInv
<1>3. CASE i # 0
  <2> DEFINE q == schedule.runs[i].item
             b == [a EXCEPT !.at = "progress", !.run = i, !.copy = q]
  <2>1. i \in DOMAIN schedule.runs /\ i \in Nat
    BY <1>1, <1>3, ActiveFacts
  <2>2. q \in Items \cup {NoItem} /\ Known(q, itemLog)
    BY <1>1, <2>1, RecordFacts DEF RecordsOK
  <2>3. Become(t, b)
    BY <1>3 DEF ReconcileRead
  <2>4. Moves(t) /\ actor'[t] = b
    BY <2>3, BecomeFacts
  <2> HIDE DEF i, q
  <2>5. ActorOK(b, itemLog) /\ b.at # "record"
    BY <1>0, <2>1, <2>2 DEF ActorOK, ActorRecords, Reconciling, Retiring
  <2>6. KeepsSettling(t)
    BY <1>0, <2>4 DEF ActorRecords, KeepsSettling, Settles, Retiring
  <2> QED
    BY <2>4, <2>5, <2>6, QuietStep DEF ReconcileRead, ScheduleInv
<1> QED
  BY <1>2, <1>3

\* What the log says of the copied message is kept with it.
LEMMA ReconcileProgressStep ==
  ASSUME ScheduleInv, NEW t \in Actors, ReconcileProgress(t)
  PROVE  ScheduleInv'
<1> DEFINE a == actor[t]
           seen == QueueProgress(a.copy)
           b == [a EXCEPT !.at = "overwrite", !.seen = seen]
<1>0. ActorOK(a, itemLog) /\ a \in ActorRecords /\ a.at = "progress"
  BY ActorFacts DEF ReconcileProgress
<1>1. Moves(t) /\ actor'[t] = b
  BY BecomeFacts DEF ReconcileProgress
<1>2. /\ seen \in {"none"} \cup ActiveStatus \cup Ended
      /\ seen \notin {"none", "queued"} => Begun(a.copy, itemLog)
  <2>1. a.copy \in Items \cup {NoItem} /\ (a.copy # NoItem => itemLog[a.copy] # "absent")
    BY <1>0 DEF ActorOK, ActorRecords, Known
  <2>2. a.copy # NoItem =>
          itemLog[a.copy] \in {"absent", "queued", "running", "deleted"} \cup Ended
    BY <2>1 DEF ScheduleInv, Logs
  <2> QED
    BY <2>1, <2>2 DEF QueueProgress, ActiveStatus, Ended, Begun
<1> HIDE DEF seen
<1>3. ActorOK(b, itemLog) /\ b.at # "record"
  <2>1. /\ b \in ActorRecords /\ b.at = "overwrite" /\ b.seen = seen
        /\ b.copy = a.copy /\ b.item = a.item /\ b.job = a.job
    BY <1>0, <1>2 DEF ActorRecords, Reconciling
  <2>2. Known(a.copy, itemLog) /\ Known(a.item, itemLog) /\ a.job \notin {"none", "now"}
    BY <1>0 DEF ActorOK, Reconciling
  <2> HIDE DEF a, b
  <2> QED
    BY <1>2, <2>1, <2>2 DEF ActorOK, Reconciling
<1>4. KeepsSettling(t)
  BY <1>0, <1>1 DEF ActorRecords, KeepsSettling, Settles, Retiring
<1> QED
  BY <1>1, <1>3, <1>4, QuietStep DEF ReconcileProgress, ScheduleInv

\* What a save leaves of the schedule, its file and the count of failures.
LEMMA SaveFacts ==
  ASSUME ScheduleInv, NEW t \in Actors, NEW STATE s, NEW STATE a, NEW STATE b,
         SaveSchedule(t, s, a, b)
  PROVE  /\ schedule' = s /\ scheduleFile' \in {scheduleFile, schedule'} /\ Moves(t)
         /\ actor'[t] \in {a, b} /\ failedSaves' \in {failedSaves, failedSaves + 1}
         /\ failedSaves' = failedSaves => actor'[t] = a
<1>1. CASE scheduleFile' = s /\ Become(t, a) /\ UNCHANGED failedSaves
  BY <1>1, BecomeFacts DEF SaveSchedule
<1>2. CASE failedSaves' = failedSaves + 1 /\ Become(t, b) /\ UNCHANGED scheduleFile
  <2>1. failedSaves' # failedSaves
    BY <1>2 DEF ScheduleInv
  <2> QED
    BY <1>2, <2>1, BecomeFacts DEF SaveSchedule
<1> QED
  BY <1>1, <1>2 DEF SaveSchedule

\* The record that reconciliation writes is of the log, unless it is marked.
LEMMA ReconcileWriteStep ==
  ASSUME ScheduleInv, NEW t \in Actors, ReconcileWrite(t)
  PROVE  ScheduleInv'
<1> DEFINE a == actor[t]
           r == schedule.runs[a.run]
           done == [a EXCEPT !.at = AfterReconcile(a.job), !.run = 0, !.copy = NoItem,
                             !.seen = "none"]
           over == r.status \notin ActiveStatus
           started == a.seen # "queued"
           n == [r EXCEPT !.status = a.seen, !.started = started,
                          !.overwritten = @ \/ over \/ r.item # a.copy]
           s == [schedule EXCEPT !.runs[a.run] = n]
           failed == IF a.job = "toggle" \/ a.job = "remove" THEN done ELSE IdleActor
<1>0. /\ ActorOK(a, itemLog) /\ a \in ActorRecords /\ a.at = "overwrite" /\ ScheduleIsFree
      /\ \A u \in Actors : actor[u].at # "record"
      /\ UNCHANGED <<itemLog, sessionLease, scheduleLock, spawned, commands, scheduleCrashes>>
  BY ActorFacts, FreeFacts DEF ReconcileWrite
<1>1. RecordsOK(schedule, itemLog) /\ schedule \in Schedules
  BY RecordFacts DEF ScheduleInv
<1>2. /\ AfterReconcile(a.job) \in {"scan", "head", "exhausted", "target", "removing",
                                    "toggling"}
      /\ a.job = "settle" => AfterReconcile(a.job) = "exhausted"
  BY <1>0 DEF ActorOK, ActorRecords, AfterReconcile, Reconciling
<1>3. ActorOK(done, itemLog) /\ done.at # "record"
  BY <1>0, <1>2 DEF ActorOK, ActorRecords, Reconciling, Retiring, Known
<1>4. Settles(a) => Settles(done) /\ done.item = a.item
  BY <1>0, <1>2 DEF ActorRecords, Settles, Retiring
<1>5. ActorOK(failed, itemLog) /\ failed.at # "record"
  BY <1>3, IdleFacts
<1>6. sessionLease' \in BOOLEAN /\ spawned' \in Nat /\ scheduleLock' \subseteq Actors
  BY <1>0 DEF ScheduleInv
<1>7. CASE Become(t, done) /\ UNCHANGED <<schedule, scheduleFile, failedSaves>>
  <2>1. Moves(t) /\ actor'[t] = done
    BY <1>7, BecomeFacts
  <2> HIDE DEF done
  <2>2. KeepsSettling(t)
    BY <1>4, <2>1 DEF KeepsSettling
  <2> QED
    BY <1>0, <1>3, <1>6, <1>7, <2>1, <2>2, QuietStep
<1>8. CASE a.run \in DOMAIN schedule.runs /\ a.seen # "none" /\ SaveSchedule(t, s, done, failed)
  <2>1. /\ schedule' = s /\ scheduleFile' \in {scheduleFile, schedule'} /\ Moves(t)
        /\ actor'[t] \in {done, failed} /\ failedSaves' \in {failedSaves, failedSaves + 1}
        /\ failedSaves' = failedSaves => actor'[t] = done
    BY <1>8, SaveFacts
  <2>2. r \in RunRecords /\ Known(r.item, itemLog)
    BY <1>1, <1>8, RecordFacts DEF RecordsOK
  <2>3. /\ n \in RunRecords /\ n.item = r.item /\ n.status = a.seen
        /\ n.attempts = r.attempts
        /\ ~n.overwritten => ~r.overwritten /\ ~over /\ r.item = a.copy
    <3>1. a.seen \in ActiveStatus \cup Ended
      BY <1>0, <1>8 DEF ActorRecords
    <3>2. (r.overwritten \/ over \/ r.item # a.copy) \in BOOLEAN /\ started \in BOOLEAN
      BY <2>2 DEF RunRecords
    <3> HIDE DEF over, started, a, r
    <3> QED
      BY <2>2, <3>1, <3>2 DEF RunRecords
  <2> HIDE DEF n
  <2>4. /\ schedule'.runs = [schedule.runs EXCEPT ![a.run] = n]
        /\ schedule' \in [exists : BOOLEAN, enabled : BOOLEAN,
                          next : {"none", "later", "due", "missed"}, runs : {schedule'.runs}]
    BY <1>1, <2>1 DEF Schedules
  <2>5. schedule'.runs[a.run] = n
    BY <1>1, <1>8, <2>4 DEF Schedules
  <2>6. /\ RecordsOK(schedule', itemLog)
        /\ DOMAIN schedule'.runs = DOMAIN schedule.runs
        /\ Len(schedule'.runs) = Len(schedule.runs)
        /\ \A j \in DOMAIN schedule.runs : j # a.run => schedule'.runs[j] = schedule.runs[j]
    BY <1>1, <1>8, <2>2, <2>3, <2>4, <2>5, ChangeRun
  <2>7. ASSUME NoFaults, failedSaves' = failedSaves
        PROVE  RetireOK(schedule', itemLog, actor')
    <3>1. RetireOK(schedule, itemLog, actor)
      BY <2>7 DEF ScheduleInv
    <3>2. KeepsSettling(t)
      BY <1>4, <2>1, <2>7 DEF KeepsSettling
    <3>3. Alive(n) => Alive(r)
      BY <2>3 DEF Alive
    <3>4. Alive(n) /\ n.status = "running" => Begun(n.item, itemLog)
      BY <1>0, <2>3 DEF ActorOK, Alive
    <3>5. Stuck(n, itemLog) => Stuck(r, itemLog)
      <4> SUFFICES ASSUME Stuck(n, itemLog) PROVE Stuck(r, itemLog)
        OBVIOUS
      <4>1. Alive(r) /\ r.attempts >= DispatchCap /\ r.item # NoItem
            /\ itemLog[r.item] = "queued"
        BY <2>3, <3>3 DEF Stuck
      <4>2. r.status # "running"
        BY <1>8, <3>1, <4>1 DEF RetireOK, Begun
      <4> QED
        BY <4>1, <4>2 DEF Stuck, Alive, ActiveStatus
    <3> QED
      BY <1>8, <2>1, <2>3, <2>5, <2>6, <3>1, <3>2, <3>3, <3>4, <3>5, ChangeRetires
  <2>8. ActorOK(actor'[t], itemLog) /\ actor'[t].at # "record"
    BY <1>3, <1>5, <2>1
  <2> QED
    BY <1>0, <1>6, <2>1, <2>6, <2>7, <2>8, WriteStep
<1> QED
  BY <1>7, <1>8 DEF ReconcileWrite

-----------------------------------------------------------------------------
(* Steps that only move a thread.                                          *)

\* Only a dispatch from its start to its last write settles.
LEMMA NotSettling ==
  ASSUME NEW log, NEW a, ActorOK(a, log),
         a.at \notin Reconciling \cup Retiring \cup {"start", "await", "release"}
  PROVE  ~Settles(a)
  BY DEF ActorOK, Settles

\* A job that begins carries nothing but its name.
LEMMA JobFacts ==
  ASSUME NEW log, NEW at \in {"reconcile", "trigger"},
         NEW job \in {"poll", "dispatch", "cancel", "remove", "toggle", "now"},
         at = "reconcile" => job # "now"
  PROVE  /\ ActorOK([IdleActor EXCEPT !.at = at, !.job = job], log)
         /\ [IdleActor EXCEPT !.at = at, !.job = job].at # "record"
<1> DEFINE b == [IdleActor EXCEPT !.at = at, !.job = job]
<1>1. /\ b \in ActorRecords /\ b.at = at /\ b.job = job /\ b.copy = NoItem
      /\ b.item = NoItem /\ b.seen = "none"
  BY DEF IdleActor, ActorRecords, Reconciling
<1> HIDE DEF b
<1>2. ActorOK(b, log) /\ b.at # "record"
  BY <1>1 DEF ActorOK, Known, Begun, Reconciling
<1> QED
  BY <1>2 DEF b

\* A thread at rest begins a job.
LEMMA BeginJobStep ==
  ASSUME ScheduleInv, NEW t \in Actors, actor[t].at = "idle",
         NEW at \in {"reconcile", "trigger"},
         NEW job \in {"poll", "dispatch", "cancel", "remove", "toggle", "now"},
         at = "reconcile" => job # "now",
         Become(t, [IdleActor EXCEPT !.at = at, !.job = job]), spawned' \in Nat,
         UNCHANGED <<schedule, scheduleFile, itemLog, sessionLease, scheduleLock,
                     scheduleCrashes, failedSaves>>
  PROVE  ScheduleInv'
<1>1. Moves(t) /\ actor'[t] = [IdleActor EXCEPT !.at = at, !.job = job]
  BY BecomeFacts
<1>2. ActorOK(actor'[t], itemLog) /\ actor'[t].at # "record"
  BY <1>1, JobFacts
<1>3. KeepsSettling(t)
  BY ActorFacts, NotSettling DEF KeepsSettling, Reconciling, Retiring
<1> QED
  BY <1>1, <1>2, <1>3, QuietStep DEF ScheduleInv

\* A thread ends its job without having anything to settle.
LEMMA EndJobStep ==
  ASSUME ScheduleInv, NEW t \in Actors,
         actor[t].at \notin Reconciling \cup Retiring \cup {"start", "await", "release"},
         Finish(t), sessionLease' \in BOOLEAN, spawned' \in Nat,
         UNCHANGED <<schedule, scheduleFile, itemLog, scheduleLock, scheduleCrashes,
                     failedSaves>>
  PROVE  ScheduleInv'
<1>1. Moves(t) /\ actor'[t] = IdleActor
  BY BecomeFacts DEF Finish
<1>2. ActorOK(actor'[t], itemLog) /\ actor'[t].at # "record"
  BY <1>1, IdleFacts
<1>3. KeepsSettling(t)
  BY ActorFacts, NotSettling DEF KeepsSettling
<1> QED
  BY <1>1, <1>2, <1>3, QuietStep DEF ScheduleInv

\* A thread goes on to another place outside reconciliation and retirement, or
\* from one place of a dispatch that settles to the next.
LEMMA GoOnStep ==
  ASSUME ScheduleInv, NEW t \in Actors, NEW at, Step(t, at),
         \/ /\ actor[t].at \notin Reconciling \cup Retiring \cup {"start", "await", "release"}
            /\ at \in {"scan", "list", "trigger", "head", "decide", "lease", "attempt"}
         \/ /\ actor[t].at \in {"start", "await"} /\ at \in {"await", "release"}
         \/ actor[t].at = "exhausted" /\ at = "delete",
         sessionLease' \in BOOLEAN, spawned' \in Nat,
         UNCHANGED <<schedule, scheduleFile, itemLog, scheduleLock, scheduleCrashes,
                     failedSaves>>
  PROVE  ScheduleInv'
<1> DEFINE b == [actor[t] EXCEPT !.at = at]
<1>0. ActorOK(actor[t], itemLog) /\ actor[t] \in ActorRecords
  BY ActorFacts
<1>1. Moves(t) /\ actor'[t] = b
  BY BecomeFacts DEF Step
<1>2. /\ b \in ActorRecords /\ b.at = at /\ b.job = actor[t].job /\ b.copy = actor[t].copy
      /\ b.item = actor[t].item /\ b.seen = actor[t].seen
  BY <1>0 DEF ActorRecords, Retiring
<1> HIDE DEF b
<1>3. ActorOK(b, itemLog) /\ b.at # "record"
  BY <1>0, <1>2 DEF ActorOK, Reconciling, Retiring
<1>4. Settles(actor[t]) => Settles(b)
  BY <1>0, <1>2, NotSettling DEF Settles, Retiring
<1>5. KeepsSettling(t)
  BY <1>1, <1>2, <1>4 DEF KeepsSettling
<1> QED
  BY <1>1, <1>3, <1>5, QuietStep DEF ScheduleInv

\* The threads.
LEMMA RunnerIsActor == Runner \in Actors /\ DispatchThreads \subseteq Actors
                       /\ CommandThreads \subseteq Actors
  BY DEF Actors

\* A poll begins.
LEMMA PollStep ==
  ASSUME ScheduleInv, Poll
  PROVE  ScheduleInv'
  BY RunnerIsActor, BeginJobStep DEF Poll, ScheduleInv

\* A poll ends, with or without a dispatch.
LEMMA ListQueuedStep ==
  ASSUME ScheduleInv, ListQueued
  PROVE  ScheduleInv'
<1>1. spawned' \in Nat /\ sessionLease' \in BOOLEAN /\ actor[Runner].at = "list"
  BY DEF ListQueued, ScheduleInv
<1> QED
  BY <1>1, RunnerIsActor, EndJobStep DEF ListQueued, Reconciling, Retiring

\* A trigger that finds an active run ends.
LEMMA TriggerFailsStep ==
  ASSUME ScheduleInv, NEW t \in Actors, TriggerFails(t)
  PROVE  ScheduleInv'
<1>1. /\ spawned' \in Nat /\ sessionLease' \in BOOLEAN /\ actor[t].at = "trigger"
      /\ actor[t].at \notin Reconciling \cup Retiring \cup {"start", "await", "release"}
  BY DEF TriggerFails, ScheduleInv, Reconciling, Retiring
<1>2. CASE Step(t, "list")
  BY <1>1, <1>2, GoOnStep DEF TriggerFails
<1>3. CASE Finish(t)
  BY <1>1, <1>3, EndJobStep DEF TriggerFails
<1> QED
  BY <1>2, <1>3 DEF TriggerFails

\* A spawned dispatch begins.
LEMMA BeginDispatchStep ==
  ASSUME ScheduleInv, NEW t \in DispatchThreads, BeginDispatch(t)
  PROVE  ScheduleInv'
<1>1. spawned' \in Nat
  BY DEF BeginDispatch, ScheduleInv
<1> QED
  BY <1>1, RunnerIsActor, BeginJobStep DEF BeginDispatch

\* A dispatch takes a message that is in the log.
LEMMA ReadHeadStep ==
  ASSUME ScheduleInv, NEW t \in DispatchThreads, ReadHead(t)
  PROVE  ScheduleInv'
<1>0. t \in Actors
  BY RunnerIsActor
<1>1. /\ spawned' \in Nat /\ sessionLease' \in BOOLEAN /\ actor[t].at = "head"
      /\ actor[t].at \notin Reconciling \cup Retiring \cup {"start", "await", "release"}
  BY DEF ReadHead, ScheduleInv, Reconciling, Retiring
<1>2. CASE Finish(t)
  BY <1>0, <1>1, <1>2, EndJobStep DEF ReadHead
<1>3. CASE Pending # {} /\ Become(t, [actor[t] EXCEPT !.at = "decide", !.item = HeadItem])
  <2> DEFINE b == [actor[t] EXCEPT !.at = "decide", !.item = HeadItem]
  <2>0. ActorOK(actor[t], itemLog) /\ actor[t] \in ActorRecords
    BY <1>0, ActorFacts
  <2>1. Moves(t) /\ actor'[t] = b
    BY <1>0, <1>3, BecomeFacts
  <2>2. HeadItem \in Items /\ Known(HeadItem, itemLog)
    BY <1>3, HeadFacts DEF Known
  <2>3. /\ b \in ActorRecords /\ b.at = "decide" /\ b.job = actor[t].job
        /\ b.copy = actor[t].copy /\ b.item = HeadItem /\ b.seen = actor[t].seen
    BY <2>0, <2>2 DEF ActorRecords
  <2> HIDE DEF b
  <2>4. ActorOK(b, itemLog) /\ b.at # "record"
    BY <1>1, <2>0, <2>2, <2>3 DEF ActorOK, Reconciling, Retiring
  <2>5. KeepsSettling(t)
    BY <1>1, <2>0, NotSettling DEF KeepsSettling
  <2> QED
    BY <1>0, <1>1, <2>1, <2>4, <2>5, QuietStep DEF ReadHead
<1> QED
  BY <1>2, <1>3 DEF ReadHead

\* A dispatch goes on with the lease or ends without it.
LEMMA TakeSessionLeaseStep ==
  ASSUME ScheduleInv, NEW t \in DispatchThreads, TakeSessionLease(t)
  PROVE  ScheduleInv'
<1>0. t \in Actors
  BY RunnerIsActor
<1>1. /\ spawned' \in Nat /\ sessionLease' \in BOOLEAN
      /\ actor[t].at \notin Reconciling \cup Retiring \cup {"start", "await", "release"}
  BY DEF TakeSessionLease, ScheduleInv, Reconciling, Retiring
<1>2. CASE Finish(t)
  BY <1>0, <1>1, <1>2, EndJobStep DEF TakeSessionLease
<1>3. CASE Step(t, "attempt")
  BY <1>0, <1>1, <1>3, GoOnStep DEF TakeSessionLease
<1> QED
  BY <1>2, <1>3 DEF TakeSessionLease

\* A dispatch whose run is over goes on to settle.
LEMMA AwaitRunStep ==
  ASSUME ScheduleInv, NEW t \in DispatchThreads, AwaitRun(t)
  PROVE  ScheduleInv'
<1>0. t \in Actors /\ spawned' \in Nat /\ sessionLease' \in BOOLEAN
  BY RunnerIsActor DEF AwaitRun, ScheduleInv
<1> QED
  BY <1>0, GoOnStep DEF AwaitRun

\* It reconciles with its message in hand.
LEMMA ReleaseSessionLeaseStep ==
  ASSUME ScheduleInv, NEW t \in DispatchThreads, ReleaseSessionLease(t)
  PROVE  ScheduleInv'
<1> DEFINE b == [actor[t] EXCEPT !.at = "reconcile", !.job = "settle"]
<1>0. /\ t \in Actors /\ spawned' \in Nat /\ sessionLease' \in BOOLEAN
      /\ actor[t].at = "release"
  BY RunnerIsActor DEF ReleaseSessionLease, ScheduleInv
<1>1. ActorOK(actor[t], itemLog) /\ actor[t] \in ActorRecords
  BY <1>0, ActorFacts
<1>2. Moves(t) /\ actor'[t] = b
  BY <1>0, BecomeFacts DEF ReleaseSessionLease
<1>3. /\ b \in ActorRecords /\ b.at = "reconcile" /\ b.job = "settle"
      /\ b.copy = actor[t].copy /\ b.item = actor[t].item /\ b.seen = actor[t].seen
  BY <1>1 DEF ActorRecords, Reconciling
<1> HIDE DEF b
<1>4. ActorOK(b, itemLog) /\ b.at # "record"
  BY <1>0, <1>1, <1>3 DEF ActorOK, Reconciling
<1>5. KeepsSettling(t)
  BY <1>2, <1>3 DEF KeepsSettling, Settles
<1> QED
  BY <1>0, <1>2, <1>4, <1>5, QuietStep DEF ReleaseSessionLease

\* A command begins.
LEMMA UserCommandStep ==
  ASSUME ScheduleInv, NEW t \in CommandThreads,
         RunNow(t) \/ CancelRun(t) \/ RemoveSchedule(t) \/ ToggleSchedule(t)
  PROVE  ScheduleInv'
<1>0. t \in Actors
  BY RunnerIsActor
<1>1. ASSUME NEW at \in {"reconcile", "trigger"},
             NEW job \in {"poll", "dispatch", "cancel", "remove", "toggle", "now"},
             at = "reconcile" => job # "now",
             UserCommand(t, at, job)
      PROVE  ScheduleInv'
  <2>1. spawned' \in Nat
    BY <1>1 DEF UserCommand, ScheduleInv
  <2> QED
    BY <1>0, <1>1, <2>1, BeginJobStep DEF UserCommand
<1> QED
  BY <1>1 DEF RunNow, CancelRun, RemoveSchedule, ToggleSchedule

\* A cancellation takes the active record's message.
LEMMA CancelTargetStep ==
  ASSUME ScheduleInv, NEW t \in CommandThreads, CancelTarget(t)
  PROVE  ScheduleInv'
<1> DEFINE i == ActiveRun(schedule)
           q == schedule.runs[i].item
<1>0. /\ t \in Actors /\ spawned' \in Nat /\ sessionLease' \in BOOLEAN
      /\ actor[t].at = "target"
      /\ actor[t].at \notin Reconciling \cup Retiring \cup {"start", "await", "release"}
  BY RunnerIsActor DEF CancelTarget, ScheduleInv, Reconciling, Retiring
<1>1. CASE Finish(t)
  BY <1>0, <1>1, EndJobStep DEF CancelTarget
<1>2. ASSUME i # 0, NEW at \in {"delete", "stop"},
             Become(t, [actor[t] EXCEPT !.at = at, !.item = q])
      PROVE  ScheduleInv'
  <2> DEFINE b == [actor[t] EXCEPT !.at = at, !.item = q]
  <2>0. ActorOK(actor[t], itemLog) /\ actor[t] \in ActorRecords
    BY <1>0, ActorFacts
  <2>1. Moves(t) /\ actor'[t] = b
    BY <1>0, <1>2, BecomeFacts
  <2>2. q \in Items \cup {NoItem} /\ Known(q, itemLog)
    BY <1>2, ActiveFacts, RecordFacts DEF RecordsOK, ScheduleInv
  <2> HIDE DEF q, i
  <2>3. /\ b \in ActorRecords /\ b.at = at /\ b.job = actor[t].job
        /\ b.copy = actor[t].copy /\ b.item = q /\ b.seen = actor[t].seen
    BY <2>0, <2>2 DEF ActorRecords, Retiring
  <2> HIDE DEF b
  <2>4. ActorOK(b, itemLog) /\ b.at # "record"
    BY <1>0, <2>0, <2>2, <2>3 DEF ActorOK, Reconciling, Retiring
  <2>5. KeepsSettling(t)
    BY <1>0, <2>0, NotSettling DEF KeepsSettling
  <2> QED
    BY <1>0, <2>1, <2>4, <2>5, QuietStep DEF CancelTarget
<1> QED
  BY <1>1, <1>2 DEF CancelTarget

\* A dispatch that finds its run exhausted goes on to retire it; if it does not,
\* the last record is none that waits for it.
LEMMA CheckExhaustedStep ==
  ASSUME ScheduleInv, NEW t \in DispatchThreads, CheckExhausted(t)
  PROVE  ScheduleInv'
<1> DEFINE i == RunOfItem(schedule, actor[t].item)
<1>0. /\ t \in Actors /\ spawned' \in Nat /\ sessionLease' \in BOOLEAN
      /\ actor[t].at = "exhausted" /\ \A u \in Actors : actor[u].at # "record"
      /\ UNCHANGED <<schedule, scheduleFile, itemLog, scheduleLock, scheduleCrashes,
                     failedSaves>>
  BY RunnerIsActor, FreeFacts DEF CheckExhausted, ScheduleInv
<1>1. CASE Step(t, "delete")
  BY <1>0, <1>1, GoOnStep
<1>2. CASE /\ Finish(t)
           /\ ~(/\ i # 0 /\ schedule.runs[i].status = "queued"
                /\ schedule.runs[i].attempts >= DispatchCap)
  <2>1. Moves(t) /\ actor'[t] = IdleActor
    BY <1>0, <1>2, BecomeFacts DEF Finish
  <2>2. ActorOK(actor'[t], itemLog) /\ LockOK'
    BY <1>0, <2>1, IdleFacts DEF LockOK, Moves
  <2>3. ASSUME NoFaults PROVE RetireOK(schedule, itemLog, actor')
    <3>1. RetireOK(schedule, itemLog, actor) /\ schedule \in Schedules
      BY <2>3, RecordFacts DEF ScheduleInv
    <3>2. ASSUME NEW j \in DOMAIN schedule.runs, Stuck(schedule.runs[j], itemLog)
          PROVE  \E u \in DispatchThreads :
                   Settles(actor'[u]) /\ actor'[u].item = schedule.runs[j].item
      <4>1. PICK u \in DispatchThreads :
              Settles(actor[u]) /\ actor[u].item = schedule.runs[j].item
        BY <3>1, <3>2 DEF RetireOK
      <4>2. j = Len(schedule.runs)
        BY <3>1, <3>2 DEF RetireOK, Stuck
      <4>3. u # t
        <5> SUFFICES ASSUME u = t PROVE FALSE
          OBVIOUS
        <5>1. i = Len(schedule.runs) /\ i # 0
          BY <3>1, <3>2, <4>1, <4>2, HolderFacts
        <5> QED
          BY <1>2, <3>2, <4>2, <5>1 DEF Stuck
      <4>4. u \in Actors
        BY RunnerIsActor
      <4> QED
        BY <2>1, <4>1, <4>3, <4>4 DEF Moves
    <3> QED
      BY <3>1, <3>2 DEF RetireOK
  <2>4. itemLog' \in Logs /\ LogIsFilled(itemLog') /\ Grown(itemLog, itemLog')
        /\ scheduleLock' \subseteq Actors
    BY <1>0 DEF ScheduleInv, Grown
  <2> QED
    BY <1>0, <2>1, <2>2, <2>3, <2>4, MoveStep
<1> QED
  BY <1>1, <1>2 DEF CheckExhausted

-----------------------------------------------------------------------------
(* Steps that write the log.                                               *)

\* A message in the log goes on to another place in it.
LEMMA LogGoesOn ==
  ASSUME ScheduleInv, NEW q \in Items, itemLog[q] # "absent",
         NEW place \in {"running", "deleted"} \cup Ended,
         itemLog' = [itemLog EXCEPT ![q] = place]
  PROVE  itemLog' \in Logs /\ LogIsFilled(itemLog') /\ Grown(itemLog, itemLog')
<1>1. itemLog \in Logs /\ place \notin {"absent", "queued"}
  BY DEF ScheduleInv, Ended
<1>2. /\ itemLog' \in Logs /\ itemLog'[q] = place
      /\ \A p \in Items \ {q} : itemLog'[p] = itemLog[p]
  BY <1>1 DEF Logs
<1>3. \A p \in Items : itemLog'[p] # "absent" <=> itemLog[p] # "absent"
  BY <1>1, <1>2
<1>4. LogIsFilled(itemLog')
  BY <1>3 DEF ScheduleInv, LogIsFilled
<1>5. Grown(itemLog, itemLog')
  BY <1>1, <1>2 DEF Grown
<1> QED
  BY <1>2, <1>4, <1>5

\* A thread that keeps its message goes on after a write to the log.
LEMMA LogStep ==
  ASSUME ScheduleInv, NEW t \in Actors, NEW at, Step(t, at),
         actor[t].at \in {"start", "stop"} \cup Retiring,
         at \in {"await", "mark"}, actor[t].job = "settle" => at = "mark",
         UNCHANGED <<schedule, scheduleFile, sessionLease, scheduleLock, spawned,
                     scheduleCrashes, failedSaves>>,
         itemLog' \in Logs, LogIsFilled(itemLog'), Grown(itemLog, itemLog')
  PROVE  ScheduleInv'
<1> DEFINE b == [actor[t] EXCEPT !.at = at]
<1>0. ActorOK(actor[t], itemLog) /\ ActorOK(actor[t], itemLog') /\ actor[t] \in ActorRecords
  BY ActorFacts, ActorStaysOK
<1>1. Moves(t) /\ actor'[t] = b
  BY BecomeFacts DEF Step
<1>2. /\ b \in ActorRecords /\ b.at = at /\ b.job = actor[t].job /\ b.copy = actor[t].copy
      /\ b.item = actor[t].item /\ b.seen = actor[t].seen
  BY <1>0 DEF ActorRecords, Retiring
<1> HIDE DEF b
<1>3. ActorOK(b, itemLog') /\ b.at # "record"
  BY <1>0, <1>2 DEF ActorOK, Reconciling, Retiring
<1>4. KeepsSettling(t)
  BY <1>1, <1>2 DEF KeepsSettling, Settles, Retiring
<1>5. LockOK'
  BY <1>1, <1>3 DEF ScheduleInv, LockOK, Moves
<1>6. NoFaults => RetireOK(schedule, itemLog', actor')
  BY <1>1, <1>4, CarriedOn DEF ScheduleInv
<1>7. sessionLease' \in BOOLEAN /\ spawned' \in Nat /\ scheduleLock' \subseteq Actors
  BY DEF ScheduleInv
<1> QED
  BY <1>1, <1>3, <1>5, <1>6, <1>7, MoveStep

\* The message is in the log before its record is in the schedule.
LEMMA TriggerEnqueueStep ==
  ASSUME ScheduleInv, NEW t \in Actors, TriggerEnqueue(t)
  PROVE  ScheduleInv'
<1> DEFINE b == [actor[t] EXCEPT !.at = "record", !.item = NextItem]
<1>0. /\ actor[t].at = "trigger" /\ NextItem \in Items /\ ActiveRun(schedule) = 0
      /\ itemLog' = [itemLog EXCEPT ![NextItem] = "queued"] /\ scheduleLock' = {t}
      /\ UNCHANGED <<schedule, scheduleFile, sessionLease, spawned, commands,
                     scheduleCrashes, failedSaves>>
      /\ \A u \in Actors : actor[u].at # "record"
  BY FreeFacts DEF TriggerEnqueue
<1>1. itemLog \in Logs /\ LogIsFilled(itemLog) /\ schedule \in Schedules
  BY RecordFacts DEF ScheduleInv
<1>2. itemLog[NextItem] = "absent" /\ LogIsFilled(itemLog')
  BY <1>0, <1>1, NextFacts
<1>3. itemLog' \in Logs /\ itemLog'[NextItem] = "queued" /\ Grown(itemLog, itemLog')
  BY <1>0, <1>1, <1>2 DEF Logs, Grown
<1>4. ActorOK(actor[t], itemLog') /\ actor[t] \in ActorRecords /\ ~Settles(actor[t])
  BY <1>0, <1>3, ActorFacts, ActorStaysOK, NotSettling DEF Reconciling, Retiring
<1>5. Moves(t) /\ actor'[t] = b
  BY BecomeFacts DEF TriggerEnqueue
<1>6. /\ b \in ActorRecords /\ b.at = "record" /\ b.job = actor[t].job
      /\ b.copy = actor[t].copy /\ b.item = NextItem /\ b.seen = actor[t].seen
  BY <1>0, <1>4 DEF ActorRecords
<1> HIDE DEF b
<1>7. ActorOK(b, itemLog')
  BY <1>0, <1>3, <1>4, <1>6 DEF ActorOK, Known, Reconciling, Retiring
<1>8. LockOK'
  <2>1. ActiveRuns(schedule) = {}
    BY <1>0, <1>1, ActiveFacts
  <2> QED
    BY <1>0, <1>5, <2>1 DEF LockOK, Moves
<1>9. NoFaults => RetireOK(schedule, itemLog', actor')
  <2>1. KeepsSettling(t)
    BY <1>4 DEF KeepsSettling
  <2> QED
    BY <1>0, <1>3, <1>5, <2>1, CarriedOn DEF ScheduleInv
<1>10. sessionLease' \in BOOLEAN /\ spawned' \in Nat /\ scheduleLock' \subseteq Actors
  BY <1>0 DEF ScheduleInv
<1> QED
  BY <1>0, <1>2, <1>3, <1>5, <1>7, <1>8, <1>9, <1>10, MoveStep

\* A start moves the head of the queue and keeps the dispatch on its message.
LEMMA StartHeadStep ==
  ASSUME ScheduleInv, NEW t \in DispatchThreads, StartHead(t)
  PROVE  ScheduleInv'
<1>0. /\ t \in Actors /\ spawned' \in Nat /\ sessionLease' \in BOOLEAN
      /\ actor[t].at = "start"
      /\ UNCHANGED <<schedule, scheduleFile, sessionLease, scheduleLock, spawned,
                     scheduleCrashes, failedSaves>>
  BY RunnerIsActor DEF StartHead, ScheduleInv
<1>1. CASE /\ Pending # {} /\ itemLog' = [itemLog EXCEPT ![HeadItem] = "running"]
           /\ Step(t, "await")
  <2>1. HeadItem \in Items /\ itemLog[HeadItem] = "queued"
    BY <1>1, HeadFacts
  <2>2. itemLog' \in Logs /\ LogIsFilled(itemLog') /\ Grown(itemLog, itemLog')
    BY <1>1, <2>1, LogGoesOn
  <2>3. actor[t].job # "settle"
    BY <1>0, ActorFacts DEF ActorOK, Reconciling, Retiring
  <2> QED
    BY <1>0, <1>1, <2>2, <2>3, LogStep
<1>2. CASE Step(t, "release") /\ UNCHANGED itemLog
  BY <1>0, <1>2, GoOnStep
<1> QED
  BY <1>1, <1>2 DEF StartHead

\* A message that is not pending is left alone.
LEMMA DeleteItemStep ==
  ASSUME ScheduleInv, NEW t \in Actors, DeleteItem(t)
  PROVE  ScheduleInv'
<1> DEFINE q == actor[t].item
<1>0. /\ actor[t].at = "delete" /\ Step(t, "mark")
      /\ UNCHANGED <<schedule, scheduleFile, sessionLease, scheduleLock, spawned,
                     scheduleCrashes, failedSaves>>
  BY DEF DeleteItem
<1>1. CASE q \in Pending /\ itemLog' = [itemLog EXCEPT ![q] = "deleted"]
  <2>1. q \in Items /\ itemLog[q] # "absent"
    BY <1>1 DEF Pending
  <2>2. itemLog' \in Logs /\ LogIsFilled(itemLog') /\ Grown(itemLog, itemLog')
    BY <1>1, <2>1, LogGoesOn
  <2> QED
    BY <1>0, <2>2, LogStep DEF Retiring
<1>2. CASE itemLog' = itemLog
  <2>1. itemLog' \in Logs /\ LogIsFilled(itemLog') /\ Grown(itemLog, itemLog')
    BY <1>2 DEF ScheduleInv, Grown
  <2> QED
    BY <1>0, <2>1, LogStep DEF Retiring
<1> QED
  BY <1>1, <1>2 DEF DeleteItem

\* Only the run the session is on is cancelled.
LEMMA CancelAgentStep ==
  ASSUME ScheduleInv, NEW t \in CommandThreads, CancelAgent(t)
  PROVE  ScheduleInv'
<1> DEFINE q == actor[t].item
<1>0. /\ t \in Actors /\ actor[t].at = "stop"
      /\ UNCHANGED <<schedule, scheduleFile, sessionLease, scheduleLock, spawned,
                     scheduleCrashes, failedSaves>>
  BY RunnerIsActor DEF CancelAgent
<1>1. CASE /\ q # NoItem /\ itemLog' = [itemLog EXCEPT ![q] = "cancelled"]
           /\ Step(t, "mark")
  <2>1. ActorOK(actor[t], itemLog) /\ actor[t] \in ActorRecords
    BY <1>0, ActorFacts
  <2>2. q \in Items /\ itemLog[q] # "absent" /\ actor[t].job # "settle"
    BY <1>0, <1>1, <2>1 DEF ActorOK, ActorRecords, Known, Reconciling, Retiring
  <2>3. itemLog' \in Logs /\ LogIsFilled(itemLog') /\ Grown(itemLog, itemLog')
    <3>1. "cancelled" \in {"running", "deleted"} \cup Ended
      BY DEF Ended
    <3> QED
      BY <1>1, <2>2, <3>1, LogGoesOn
  <2> QED
    BY <1>0, <1>1, <2>2, <2>3, LogStep
<1>2. CASE Finish(t) /\ UNCHANGED itemLog
  <2>1. /\ sessionLease' \in BOOLEAN /\ spawned' \in Nat
        /\ actor[t].at \notin Reconciling \cup Retiring \cup {"start", "await", "release"}
    BY <1>0 DEF ScheduleInv, Reconciling, Retiring
  <2> QED
    BY <1>0, <1>2, <2>1, EndJobStep
<1> QED
  BY <1>1, <1>2 DEF CancelAgent

-----------------------------------------------------------------------------
(* Steps that write the records.                                           *)

\* A save by thread t, whether or not the file takes it.
LEMMA SaveStep ==
  ASSUME ScheduleInv, NEW t \in Actors, NEW STATE s, NEW STATE a, NEW STATE b,
         SaveSchedule(t, s, a, b), \A u \in Actors \ {t} : actor[u].at # "record",
         UNCHANGED <<itemLog, scheduleCrashes>>,
         sessionLease' \in BOOLEAN, spawned' \in Nat, scheduleLock' \subseteq Actors,
         ActorOK(a, itemLog), ActorOK(b, itemLog), a.at # "record", b.at # "record",
         RecordsOK(schedule', itemLog),
         NoFaults /\ Moves(t) /\ actor'[t] = a => RetireOK(schedule', itemLog, actor')
  PROVE  ScheduleInv'
<1>1. /\ scheduleFile' \in {scheduleFile, schedule'} /\ Moves(t)
      /\ actor'[t] \in {a, b} /\ failedSaves' \in {failedSaves, failedSaves + 1}
      /\ failedSaves' = failedSaves => actor'[t] = a
  BY SaveFacts
<1>2. ActorOK(actor'[t], itemLog) /\ actor'[t].at # "record"
  BY <1>1
<1> QED
  BY <1>1, <1>2, WriteStep

\* Setting the clock of a schedule leaves its records alone.
LEMMA TimedFacts ==
  ASSUME NEW s \in Schedules, NEW z \in AdvanceChoices(s) \cup Retimed(s) \cup {s}
  PROVE  z \in Schedules /\ z.runs = s.runs
<1>1. s.exists \in BOOLEAN /\ s.enabled \in BOOLEAN /\ s.runs \in Seq(RunRecords)
      /\ s.next \in {"none", "later", "due", "missed"}
  BY DEF Schedules
<1> QED
  BY <1>1 DEF AdvanceChoices, Retimed, Schedules

\* A record is appended and saved while none is active.
LEMMA AppendStep ==
  ASSUME ScheduleInv, NEW t \in Actors, NEW z \in AdvanceChoices(schedule) \cup {schedule},
         NEW STATE r, NEW STATE a, NEW STATE b,
         SaveSchedule(t, [z EXCEPT !.runs = Append(@, r)], a, b),
         \A u \in Actors \ {t} : actor[u].at # "record",
         UNCHANGED <<itemLog, scheduleCrashes>>,
         sessionLease' \in BOOLEAN, spawned' \in Nat, scheduleLock' \subseteq Actors,
         ActorOK(a, itemLog), ActorOK(b, itemLog), a.at # "record", b.at # "record",
         ActiveRuns(schedule) = {}, r \in RunRecords, Known(r.item, itemLog),
         Alive(r) => r.status = "queued" /\ r.attempts = 0
  PROVE  ScheduleInv'
<1>1. RecordsOK(schedule, itemLog) /\ schedule \in Schedules
  BY RecordFacts DEF ScheduleInv
<1>2. z \in Schedules /\ z.runs = schedule.runs
  BY <1>1, TimedFacts
<1>3. schedule' = [z EXCEPT !.runs = Append(@, r)]
  BY SaveFacts
<1>4. /\ schedule'.runs = Append(schedule.runs, r)
      /\ schedule' \in [exists : BOOLEAN, enabled : BOOLEAN,
                        next : {"none", "later", "due", "missed"}, runs : {schedule'.runs}]
  BY <1>2, <1>3 DEF Schedules
<1>5. RecordsOK(schedule', itemLog) /\ RetireOK(schedule', itemLog, actor')
  BY <1>1, <1>4, AppendRun
<1> QED
  BY <1>5, SaveStep

\* The records a trigger and a poll append.
LEMMA NewRecord ==
  ASSUME NEW item \in Items \cup {NoItem}, NEW status \in {"queued", "skipped", "failed"}
  PROVE  /\ RunRecord(item, status) \in RunRecords /\ RunRecord(item, status).item = item
         /\ Alive(RunRecord(item, status)) =>
              RunRecord(item, status).status = "queued" /\ RunRecord(item, status).attempts = 0
  BY DEF RunRecord, RunRecords, Alive, ActiveStatus, Ended

\* A thread outside reconciliation and retirement that goes to another such place.
LEMMA PlaceFacts ==
  ASSUME ScheduleInv, NEW t \in Actors,
         actor[t].at \notin Reconciling \cup Retiring \cup {"start", "await", "release"},
         NEW at \in {"list", "trigger", "lease", "start", "release"}
  PROVE  /\ ActorOK([actor[t] EXCEPT !.at = at], itemLog)
         /\ [actor[t] EXCEPT !.at = at].at = at
         /\ [actor[t] EXCEPT !.at = at].item = actor[t].item
<1> DEFINE b == [actor[t] EXCEPT !.at = at]
<1>0. ActorOK(actor[t], itemLog) /\ actor[t] \in ActorRecords
  BY ActorFacts
<1>1. /\ b \in ActorRecords /\ b.at = at /\ b.job = actor[t].job /\ b.copy = actor[t].copy
      /\ b.item = actor[t].item /\ b.seen = actor[t].seen
  BY <1>0 DEF ActorRecords
<1> HIDE DEF b
<1>2. ActorOK(b, itemLog)
  BY <1>0, <1>1 DEF ActorOK, Reconciling, Retiring
<1> QED
  BY <1>1, <1>2 DEF b

\* A missed occurrence is recorded while no run is active.
LEMMA ScanForDueStep ==
  ASSUME ScheduleInv, ScanForDue
  PROVE  ScheduleInv'
<1> DEFINE list == [actor[Runner] EXCEPT !.at = "list"]
<1>0. /\ Runner \in Actors /\ spawned' \in Nat /\ sessionLease' \in BOOLEAN
      /\ actor[Runner].at = "scan" /\ ScheduleIsFree /\ scheduleLock' \subseteq Actors
      /\ actor[Runner].at \notin Reconciling \cup Retiring \cup {"start", "await", "release"}
      /\ UNCHANGED <<itemLog, sessionLease, scheduleLock, spawned, scheduleCrashes>>
  BY RunnerIsActor DEF ScanForDue, ScheduleInv, Reconciling, Retiring
<1>1. ASSUME NEW at \in {"list", "trigger"}, Step(Runner, at),
             UNCHANGED <<schedule, scheduleFile, failedSaves>>
      PROVE  ScheduleInv'
  BY <1>0, <1>1, GoOnStep
<1>2. ASSUME NEW z \in AdvanceChoices(schedule), ActiveRun(schedule) = 0,
             SaveSchedule(Runner, [z EXCEPT !.runs = Append(@, RunRecord(NoItem, "skipped"))],
                          list, IdleActor)
      PROVE  ScheduleInv'
  <2>1. ActiveRuns(schedule) = {}
    BY <1>2, ActiveFacts, RecordFacts DEF ScheduleInv
  <2>2. ActorOK(list, itemLog) /\ list.at # "record"
    BY <1>0, PlaceFacts
  <2>3. ActorOK(IdleActor, itemLog) /\ IdleActor.at # "record"
    BY IdleFacts
  <2>4. /\ RunRecord(NoItem, "skipped") \in RunRecords
        /\ Known(RunRecord(NoItem, "skipped").item, itemLog)
        /\ Alive(RunRecord(NoItem, "skipped")) =>
             RunRecord(NoItem, "skipped").status = "queued"
             /\ RunRecord(NoItem, "skipped").attempts = 0
    BY NewRecord DEF Known
  <2>5. \A u \in Actors : actor[u].at # "record"
    BY <1>0, FreeFacts
  <2> HIDE DEF list
  <2> QED
    BY <1>0, <1>2, <2>1, <2>2, <2>3, <2>4, <2>5, AppendStep
<1> QED
  BY <1>1, <1>2 DEF ScanForDue, Step

\* A message that could not be queued leaves an ended record.
LEMMA TriggerNotQueuedStep ==
  ASSUME ScheduleInv, NEW t \in Actors, TriggerNotQueued(t)
  PROVE  ScheduleInv'
<1> DEFINE resting == IF t = Runner THEN [actor[t] EXCEPT !.at = "list"] ELSE IdleActor
           r == RunRecord(NoItem, "failed")
<1>0. /\ spawned' \in Nat /\ sessionLease' \in BOOLEAN
      /\ actor[t].at = "trigger" /\ ScheduleIsFree /\ scheduleLock' \subseteq Actors
      /\ actor[t].at \notin Reconciling \cup Retiring \cup {"start", "await", "release"}
      /\ UNCHANGED <<itemLog, scheduleCrashes>> /\ ActiveRun(schedule) = 0
  BY DEF TriggerNotQueued, ScheduleInv, Reconciling, Retiring
<1>1. PICK z \in AdvanceChoices(schedule) \cup {schedule} :
        SaveSchedule(t, [z EXCEPT !.runs = Append(@, r)], resting, resting)
  BY DEF TriggerNotQueued
<1>2. ActiveRuns(schedule) = {}
  BY <1>0, ActiveFacts, RecordFacts DEF ScheduleInv
<1>3. ActorOK(resting, itemLog) /\ resting.at # "record"
  <2>1. ActorOK([actor[t] EXCEPT !.at = "list"], itemLog)
        /\ [actor[t] EXCEPT !.at = "list"].at # "record"
    BY <1>0, PlaceFacts
  <2> QED
    BY <2>1, IdleFacts
<1>4. /\ r \in RunRecords /\ Known(r.item, itemLog)
      /\ Alive(r) => r.status = "queued" /\ r.attempts = 0
  BY NewRecord DEF Known
<1>5. \A u \in Actors : actor[u].at # "record"
  BY <1>0, FreeFacts
<1> HIDE DEF resting, r
<1> QED
  BY <1>0, <1>1, <1>2, <1>3, <1>4, <1>5, AppendStep

\* The trigger that kept the lock finds the records as it left them.
LEMMA TriggerRecordStep ==
  ASSUME ScheduleInv, NEW t \in Actors, TriggerRecord(t)
  PROVE  ScheduleInv'
<1> DEFINE a == actor[t]
           resting == IF t = Runner THEN [a EXCEPT !.at = "list", !.item = NoItem] ELSE IdleActor
           r == RunRecord(a.item, "queued")
<1>0. /\ sessionLease' \in BOOLEAN /\ a.at = "record" /\ scheduleLock' \subseteq Actors
      /\ UNCHANGED <<itemLog, scheduleCrashes>> /\ spawned' \in Nat
  BY DEF TriggerRecord, ScheduleInv
<1>1. PICK z \in AdvanceChoices(schedule) \cup {schedule} :
        SaveSchedule(t, [z EXCEPT !.runs = Append(@, r)], resting, resting)
  BY DEF TriggerRecord
<1>2. ActiveRuns(schedule) = {} /\ \A u \in Actors \ {t} : actor[u].at # "record"
  BY <1>0 DEF ScheduleInv, LockOK
<1>3. ActorOK(a, itemLog) /\ a \in ActorRecords
  BY ActorFacts
<1>4. ActorOK(resting, itemLog) /\ resting.at # "record"
  <2> DEFINE b == [a EXCEPT !.at = "list", !.item = NoItem]
  <2>1. /\ b \in ActorRecords /\ b.at = "list" /\ b.job = a.job /\ b.copy = a.copy
        /\ b.item = NoItem /\ b.seen = a.seen
    BY <1>3 DEF ActorRecords
  <2> HIDE DEF b
  <2>2. ActorOK(b, itemLog) /\ b.at # "record"
    BY <1>0, <1>3, <2>1 DEF ActorOK, Known, Reconciling, Retiring
  <2> QED
    BY <2>2, IdleFacts DEF b
<1>5. /\ r \in RunRecords /\ Known(r.item, itemLog)
      /\ Alive(r) => r.status = "queued" /\ r.attempts = 0
  BY <1>3, NewRecord DEF ActorOK, ActorRecords
<1> HIDE DEF resting, r
<1> QED
  BY <1>0, <1>1, <1>2, <1>4, <1>5, AppendStep

\* A thread that settles nothing yet saves a change of one record; if the record
\* is now at the cap, the thread goes on with its message.
LEMMA ChangeStep ==
  ASSUME ScheduleInv, ScheduleIsFree, NEW t \in Actors, ~Settles(actor[t]),
         NEW STATE s, NEW STATE a, NEW STATE b, SaveSchedule(t, s, a, b),
         NEW STATE i, i \in DOMAIN schedule.runs, NEW STATE r,
         s.runs = [schedule.runs EXCEPT ![i] = r],
         s \in [exists : BOOLEAN, enabled : BOOLEAN,
                next : {"none", "later", "due", "missed"}, runs : {s.runs}],
         r \in RunRecords, Known(r.item, itemLog),
         Alive(r) => /\ Alive(schedule.runs[i])
                     /\ \/ r.status = "queued"
                        \/ r.status = schedule.runs[i].status /\ r.item = schedule.runs[i].item,
         Stuck(r, itemLog) => t \in DispatchThreads /\ Settles(a) /\ a.item = r.item,
         UNCHANGED <<itemLog, sessionLease, scheduleLock, spawned, scheduleCrashes>>,
         ActorOK(a, itemLog), ActorOK(b, itemLog), a.at # "record", b.at # "record"
  PROVE  ScheduleInv'
<1>1. RecordsOK(schedule, itemLog)
  BY DEF ScheduleInv
<1>2. schedule' = s
  BY SaveFacts
<1>3. schedule'.runs[i] = r
  BY <1>2
<1>4. /\ RecordsOK(schedule', itemLog)
      /\ DOMAIN schedule'.runs = DOMAIN schedule.runs
      /\ Len(schedule'.runs) = Len(schedule.runs)
      /\ \A j \in DOMAIN schedule.runs : j # i => schedule'.runs[j] = schedule.runs[j]
  BY <1>1, <1>2, <1>3, ChangeRun
<1>5. ASSUME NoFaults, Moves(t), actor'[t] = a
      PROVE  RetireOK(schedule', itemLog, actor')
  <2>1. RetireOK(schedule, itemLog, actor)
    BY <1>5 DEF ScheduleInv
  <2>2. Alive(r) /\ r.status = "running" => Begun(r.item, itemLog)
    BY <2>1 DEF RetireOK
  <2>3. KeepsSettling(t)
    BY DEF KeepsSettling
  <2> QED
    BY <1>3, <1>4, <1>5, <2>1, <2>2, <2>3, ChangeRetires
<1>6. \A u \in Actors : actor[u].at # "record"
  BY FreeFacts
<1>7. sessionLease' \in BOOLEAN /\ spawned' \in Nat /\ scheduleLock' \subseteq Actors
  BY DEF ScheduleInv
<1> QED
  BY <1>4, <1>5, <1>6, <1>7, SaveStep

\* Adopting the head makes a record without attempts wait for it; a mismatch
\* counts an attempt and ends the record that comes to the cap.
LEMMA DecideStep ==
  ASSUME ScheduleInv, NEW t \in DispatchThreads, Decide(t)
  PROVE  ScheduleInv'
<1> DEFINE a == actor[t]
           i == ActiveRun(schedule)
           old == schedule.runs[i]
           lease == [a EXCEPT !.at = "lease"]
           counted == old.attempts + 1
           retired == IF counted >= DispatchCap THEN "failed" ELSE "queued"
<1>0. /\ t \in Actors /\ a.at = "decide" /\ ScheduleIsFree
      /\ UNCHANGED <<itemLog, sessionLease, scheduleLock, spawned, scheduleCrashes>>
      /\ spawned' \in Nat /\ sessionLease' \in BOOLEAN
      /\ a.at \notin Reconciling \cup Retiring \cup {"start", "await", "release"}
  BY RunnerIsActor DEF Decide, ScheduleInv, Reconciling, Retiring
<1>1. ActorOK(a, itemLog) /\ a \in ActorRecords /\ ~Settles(a)
  BY <1>0, ActorFacts, NotSettling
<1>2. ActorOK(lease, itemLog) /\ lease.at # "record"
  BY <1>0, PlaceFacts
<1>3. ActorOK(IdleActor, itemLog) /\ IdleActor.at # "record"
  BY IdleFacts
<1>4. RecordsOK(schedule, itemLog) /\ schedule \in Schedules
  BY RecordFacts DEF ScheduleInv
<1>5. CASE Finish(t) /\ UNCHANGED <<schedule, scheduleFile, failedSaves>>
  BY <1>0, <1>5, EndJobStep
<1>6. CASE Become(t, lease) /\ UNCHANGED <<schedule, scheduleFile, failedSaves>>
  BY <1>0, <1>6, GoOnStep DEF Step
<1>7. ASSUME Decision(a.item) \in {"adopt", "mismatch"}
      PROVE  /\ i \in DOMAIN schedule.runs /\ old \in RunRecords /\ Known(old.item, itemLog)
             /\ old.status = "queued" /\ ~(old.attempts >= DispatchCap)
             /\ Decision(a.item) = "adopt" => old.attempts = 0
  <2>1. i # 0 /\ old.status = "queued" /\ ~(old.attempts >= DispatchCap)
        /\ (Decision(a.item) = "adopt" => old.attempts = 0)
    BY <1>7 DEF Decision
  <2>2. i \in DOMAIN schedule.runs
    BY <1>4, <2>1, ActiveFacts
  <2> HIDE DEF i
  <2> QED
    BY <1>4, <2>1, <2>2, RecordFacts DEF RecordsOK
<1>8. CASE /\ Decision(a.item) = "adopt"
           /\ SaveSchedule(t, [schedule EXCEPT !.runs[i].item = a.item], lease, IdleActor)
  <2> DEFINE s == [schedule EXCEPT !.runs[i].item = a.item]
             r == [old EXCEPT !.item = a.item]
  <2>1. /\ i \in DOMAIN schedule.runs /\ old \in RunRecords /\ old.status = "queued"
        /\ old.attempts = 0
    BY <1>7, <1>8
  <2>2. a.item \in Items \cup {NoItem} /\ Known(a.item, itemLog)
    BY <1>1 DEF ActorOK, ActorRecords
  <2>3. /\ s.runs = [schedule.runs EXCEPT ![i] = r]
        /\ s \in [exists : BOOLEAN, enabled : BOOLEAN,
                  next : {"none", "later", "due", "missed"}, runs : {s.runs}]
    BY <1>4, <2>1 DEF Schedules
  <2>4. /\ r \in RunRecords /\ r.item = a.item /\ r.status = "queued" /\ r.attempts = 0
        /\ r.overwritten = old.overwritten
    BY <2>1, <2>2 DEF RunRecords
  <2>5. SaveSchedule(t, s, lease, IdleActor)
    BY <1>8
  <2> HIDE DEF s, r, i, lease
  <2>6. ~Stuck(r, itemLog) /\ (Alive(r) => Alive(old))
    BY <2>1, <2>4, ScheduleAssumption DEF Stuck, Alive
  <2> QED
    BY <1>0, <1>1, <1>2, <1>3, <2>1, <2>2, <2>3, <2>4, <2>5, <2>6, ChangeStep
<1>9. CASE /\ Decision(a.item) = "mismatch"
           /\ SaveSchedule(t, [schedule EXCEPT !.runs[i].attempts = counted,
                                               !.runs[i].backoff = TRUE,
                                               !.runs[i].status = retired],
                           IdleActor, IdleActor)
  <2> DEFINE s == [schedule EXCEPT !.runs[i].attempts = counted,
                                   !.runs[i].backoff = TRUE,
                                   !.runs[i].status = retired]
             r == [old EXCEPT !.attempts = counted, !.backoff = TRUE, !.status = retired]
  <2>1. /\ i \in DOMAIN schedule.runs /\ old \in RunRecords /\ old.status = "queued"
        /\ Known(old.item, itemLog)
    BY <1>7, <1>9
  <2>2. counted \in Nat /\ retired \in ActiveStatus \cup Ended
    BY <2>1 DEF RunRecords, ActiveStatus, Ended
  <2>3. retired = "queued" => ~(counted >= DispatchCap)
    OBVIOUS
  <2>4. retired \in {"queued", "failed"}
    OBVIOUS
  <2>5. SaveSchedule(t, s, IdleActor, IdleActor)
    BY <1>9
  <2> HIDE DEF counted, retired
  <2>6. /\ s.runs = [schedule.runs EXCEPT ![i] = r]
        /\ s \in [exists : BOOLEAN, enabled : BOOLEAN,
                  next : {"none", "later", "due", "missed"}, runs : {s.runs}]
    BY <1>4, <2>1 DEF Schedules
  <2>7. /\ r \in RunRecords /\ r.item = old.item /\ r.status = retired
        /\ r.attempts = counted /\ r.overwritten = old.overwritten
    BY <2>1, <2>2 DEF RunRecords
  <2> HIDE DEF s, r, i
  <2>8. /\ ~Stuck(r, itemLog)
        /\ Alive(r) => Alive(old) /\ r.status = "queued"
    BY <2>1, <2>3, <2>4, <2>7 DEF Stuck, Alive, ActiveStatus
  <2> QED
    BY <1>0, <1>1, <1>3, <2>1, <2>5, <2>6, <2>7, <2>8, ChangeStep
<1>10. Decision(a.item) \in {"skip", "dispatch", "adopt", "mismatch"}
  BY DEF Decision
<1> QED
  BY <1>5, <1>6, <1>8, <1>9, <1>10 DEF Decide

\* The dispatch that counts the last attempt is the one that will retire the run.
LEMMA CountAttemptStep ==
  ASSUME ScheduleInv, NEW t \in DispatchThreads, CountAttempt(t)
  PROVE  ScheduleInv'
<1> DEFINE a == actor[t]
           i == RunOfItem(schedule, a.item)
           old == schedule.runs[i]
           start == [a EXCEPT !.at = "start"]
           settle == [a EXCEPT !.at = "release"]
           s == [schedule EXCEPT !.runs[i].attempts = @ + 1, !.runs[i].backoff = TRUE]
           r == [old EXCEPT !.attempts = @ + 1, !.backoff = TRUE]
<1>0. /\ t \in Actors /\ a.at = "attempt" /\ ScheduleIsFree
      /\ UNCHANGED <<itemLog, sessionLease, scheduleLock, spawned, scheduleCrashes>>
      /\ spawned' \in Nat /\ sessionLease' \in BOOLEAN
      /\ a.at \notin Reconciling \cup Retiring \cup {"start", "await", "release"}
  BY RunnerIsActor DEF CountAttempt, ScheduleInv, Reconciling, Retiring
<1>1. ~Settles(a)
  BY <1>0, ActorFacts, NotSettling
<1>2. /\ ActorOK(start, itemLog) /\ start.at = "start" /\ start.item = a.item
      /\ ActorOK(settle, itemLog) /\ settle.at = "release"
  BY <1>0, PlaceFacts
<1>3. RecordsOK(schedule, itemLog) /\ schedule \in Schedules
  BY RecordFacts DEF ScheduleInv
<1>4. CASE Become(t, settle) /\ UNCHANGED <<schedule, scheduleFile, failedSaves>>
  <2>1. Moves(t) /\ actor'[t] = settle
    BY <1>0, <1>4, BecomeFacts
  <2>2. KeepsSettling(t)
    BY <1>1 DEF KeepsSettling
  <2> HIDE DEF settle
  <2>3. actor'[t].at # "record"
    BY <1>2, <2>1
  <2> QED
    BY <1>0, <1>2, <1>4, <2>1, <2>2, <2>3, QuietStep
<1>5. CASE i # 0 /\ SaveSchedule(t, s, start, settle)
  <2>1. i \in DOMAIN schedule.runs /\ old.item = a.item
    BY <1>3, <1>5, HolderFacts
  <2> HIDE DEF i
  <2>2. old \in RunRecords /\ old.attempts \in Nat /\ Known(old.item, itemLog)
    BY <1>3, <2>1, RecordFacts DEF RecordsOK
  <2>3. /\ s.runs = [schedule.runs EXCEPT ![i] = r]
        /\ s \in [exists : BOOLEAN, enabled : BOOLEAN,
                  next : {"none", "later", "due", "missed"}, runs : {s.runs}]
    BY <1>3, <2>1 DEF Schedules
  <2>4. /\ r \in RunRecords /\ r.item = old.item /\ r.status = old.status
        /\ r.overwritten = old.overwritten
    <3>1. old.attempts + 1 \in Nat
      BY <2>2
    <3> HIDE DEF old
    <3> QED
      BY <2>2, <3>1 DEF RunRecords
  <2> HIDE DEF s, r, start, settle
  <2>5. (Alive(r) => Alive(old)) /\ Settles(start) /\ start.item = r.item
    BY <1>2, <2>1, <2>4 DEF Alive, Settles
  <2>6. start.at # "record" /\ settle.at # "record"
    BY <1>2
  <2> QED
    BY <1>0, <1>1, <1>2, <1>5, <2>1, <2>2, <2>3, <2>4, <2>5, <2>6, ChangeStep
<1> QED
  BY <1>4, <1>5 DEF CountAttempt

\* The last write ends the record with the thread's message, so a thread may go
\* to rest: a record that still waits has another message.
LEMMA MarkRunStep ==
  ASSUME ScheduleInv, NEW t \in Actors, MarkRun(t)
  PROVE  ScheduleInv'
<1> DEFINE a == actor[t]
           i == RunOfItem(schedule, a.item)
           old == schedule.runs[i]
           status == IF a.job = "cancel" THEN "cancelled" ELSE "failed"
           s == IF i = 0 THEN schedule ELSE [schedule EXCEPT !.runs[i].status = status]
           r == [old EXCEPT !.status = status]
<1>0. /\ ScheduleIsFree /\ SaveSchedule(t, s, IdleActor, IdleActor)
      /\ UNCHANGED <<itemLog, sessionLease, scheduleLock, spawned, scheduleCrashes>>
      /\ \A u \in Actors : actor[u].at # "record"
  BY FreeFacts DEF MarkRun
<1>1. RecordsOK(schedule, itemLog) /\ schedule \in Schedules
  BY RecordFacts DEF ScheduleInv
<1>2. ActorOK(IdleActor, itemLog) /\ IdleActor.at # "record"
  BY IdleFacts
<1>3. schedule' = s
  BY <1>0, SaveFacts
<1>4. sessionLease' \in BOOLEAN /\ spawned' \in Nat /\ scheduleLock' \subseteq Actors
  BY <1>0 DEF ScheduleInv
<1>5. /\ RecordsOK(schedule', itemLog) /\ DOMAIN schedule'.runs = DOMAIN schedule.runs
      /\ Len(schedule'.runs) = Len(schedule.runs)
      /\ \A j \in DOMAIN schedule.runs : j # i => schedule'.runs[j] = schedule.runs[j]
      /\ i # 0 => ~Alive(schedule'.runs[i])
      /\ i \in DOMAIN schedule.runs => i # 0
  <2>1. i \in DOMAIN schedule.runs => i # 0
    BY <1>1, RecordFacts
  <2>2. CASE i = 0
    BY <1>1, <1>3, <2>1, <2>2
  <2>3. CASE i # 0
    <3>1. i \in DOMAIN schedule.runs
      BY <1>1, <2>3, HolderFacts
    <3>2. status \in {"cancelled", "failed"}
      OBVIOUS
    <3> HIDE DEF i, status
    <3>3. old \in RunRecords /\ Known(old.item, itemLog)
      BY <1>1, <3>1, RecordFacts DEF RecordsOK
    <3>4. r \in RunRecords /\ r.item = old.item /\ r.status = status
      BY <3>2, <3>3 DEF RunRecords, Ended
    <3>5. /\ schedule'.runs = [schedule.runs EXCEPT ![i] = r]
          /\ schedule' \in [exists : BOOLEAN, enabled : BOOLEAN,
                            next : {"none", "later", "due", "missed"}, runs : {schedule'.runs}]
      BY <1>1, <1>3, <2>3, <3>1 DEF Schedules
    <3> HIDE DEF r
    <3>6. schedule'.runs[i] = r
      BY <3>1, <3>5
    <3>7. ~Alive(r)
      BY <3>2, <3>4 DEF Alive, ActiveStatus
    <3> QED
      BY <1>1, <2>1, <3>1, <3>3, <3>4, <3>5, <3>6, <3>7, ChangeRun
  <2> QED
    BY <2>2, <2>3
<1>6. ASSUME NoFaults, Moves(t), actor'[t] = IdleActor
      PROVE  RetireOK(schedule', itemLog, actor')
  <2>1. RetireOK(schedule, itemLog, actor)
    BY <1>6 DEF ScheduleInv
  <2>2. \A j \in DOMAIN schedule'.runs :
          Alive(schedule'.runs[j]) => j # i /\ schedule'.runs[j] = schedule.runs[j]
    BY <1>5
  <2>3. ASSUME NEW j \in DOMAIN schedule'.runs, Stuck(schedule'.runs[j], itemLog)
        PROVE  \E u \in DispatchThreads :
                 Settles(actor'[u]) /\ actor'[u].item = schedule'.runs[j].item
    <3>1. j # i /\ schedule'.runs[j] = schedule.runs[j] /\ j \in DOMAIN schedule.runs
      BY <1>5, <2>2, <2>3 DEF Stuck
    <3>2. PICK u \in DispatchThreads :
            Settles(actor[u]) /\ actor[u].item = schedule.runs[j].item
      BY <2>1, <2>3, <3>1 DEF RetireOK
    <3>3. j = Len(schedule.runs)
      BY <2>1, <2>3, <3>1 DEF RetireOK, Stuck
    <3>4. u # t
      BY <1>1, <3>1, <3>2, <3>3, HolderFacts
    <3>5. u \in Actors
      BY RunnerIsActor
    <3> QED
      BY <1>6, <3>1, <3>2, <3>4, <3>5 DEF Moves
  <2> HIDE DEF i
  <2> QED
    BY <1>5, <2>1, <2>2, <2>3 DEF RetireOK
<1> HIDE DEF s
<1> QED
  BY <1>0, <1>2, <1>4, <1>5, <1>6, SaveStep

\* A removed schedule has no records.
LEMMA RemoveIfIdleStep ==
  ASSUME ScheduleInv, NEW t \in CommandThreads, RemoveIfIdle(t)
  PROVE  ScheduleInv'
<1> DEFINE s == [exists |-> FALSE, enabled |-> FALSE, next |-> "none", runs |-> <<>>]
<1>0. /\ t \in Actors /\ actor[t].at = "removing" /\ ScheduleIsFree
      /\ UNCHANGED <<itemLog, sessionLease, scheduleLock, spawned, scheduleCrashes>>
      /\ sessionLease' \in BOOLEAN /\ spawned' \in Nat /\ scheduleLock' \subseteq Actors
      /\ actor[t].at \notin Reconciling \cup Retiring \cup {"start", "await", "release"}
  BY RunnerIsActor DEF RemoveIfIdle, ScheduleInv, Reconciling, Retiring
<1>1. CASE Finish(t) /\ UNCHANGED <<schedule, scheduleFile, failedSaves>>
  BY <1>0, <1>1, EndJobStep
<1>2. CASE SaveSchedule(t, s, IdleActor, IdleActor)
  <2>1. schedule' = s
    BY <1>0, <1>2, SaveFacts
  <2>2. s \in Schedules /\ DOMAIN s.runs = {}
    BY DEF Schedules
  <2>3. RecordsOK(schedule', itemLog) /\ RetireOK(schedule', itemLog, actor')
    BY <2>1, <2>2 DEF RecordsOK, RetireOK
  <2>4. ActorOK(IdleActor, itemLog) /\ IdleActor.at # "record"
    BY IdleFacts
  <2>5. \A u \in Actors : actor[u].at # "record"
    BY <1>0, FreeFacts
  <2> HIDE DEF s
  <2> QED
    BY <1>0, <1>2, <2>3, <2>4, <2>5, SaveStep
<1> QED
  BY <1>1, <1>2 DEF RemoveIfIdle

\* A schedule is given another time by a thread that then rests.
LEMMA RetimeStep ==
  ASSUME ScheduleInv, ScheduleIsFree, NEW t \in Actors,
         actor[t].at \in {"toggling", "idle"}, NEW z \in Retimed(schedule),
         SaveSchedule(t, z, IdleActor, IdleActor),
         UNCHANGED <<itemLog, sessionLease, scheduleLock, spawned, scheduleCrashes>>
  PROVE  ScheduleInv'
<1>1. RecordsOK(schedule, itemLog) /\ schedule \in Schedules
  BY RecordFacts DEF ScheduleInv
<1>2. schedule' \in Schedules /\ schedule'.runs = schedule.runs
  BY <1>1, SaveFacts, TimedFacts
<1>3. RecordsOK(schedule', itemLog)
  BY <1>1, <1>2 DEF RecordsOK
<1>4. KeepsSettling(t)
  BY ActorFacts, NotSettling DEF KeepsSettling, Reconciling, Retiring
<1>5. ASSUME NoFaults, Moves(t) PROVE RetireOK(schedule', itemLog, actor')
  <2>1. Grown(itemLog, itemLog')
    BY DEF Grown
  <2>2. RetireOK(schedule', itemLog', actor')
    BY <1>2, <1>4, <1>5, <2>1, CarriedOn DEF ScheduleInv
  <2> QED
    BY <2>2
<1>6. ActorOK(IdleActor, itemLog) /\ IdleActor.at # "record"
  BY IdleFacts
<1>7. \A u \in Actors : actor[u].at # "record"
  BY FreeFacts
<1>8. sessionLease' \in BOOLEAN /\ spawned' \in Nat /\ scheduleLock' \subseteq Actors
  BY DEF ScheduleInv
<1> QED
  BY <1>3, <1>5, <1>6, <1>7, <1>8, SaveStep

\* Enabling and disabling change the time only.
LEMMA SetEnabledStep ==
  ASSUME ScheduleInv, NEW t \in CommandThreads, SetEnabled(t)
  PROVE  ScheduleInv'
<1>0. /\ t \in Actors /\ actor[t].at = "toggling" /\ ScheduleIsFree
      /\ UNCHANGED <<itemLog, sessionLease, scheduleLock, spawned, scheduleCrashes>>
      /\ sessionLease' \in BOOLEAN /\ spawned' \in Nat
      /\ actor[t].at \notin Reconciling \cup Retiring \cup {"start", "await", "release"}
  BY RunnerIsActor DEF SetEnabled, ScheduleInv, Reconciling, Retiring
<1>1. CASE Finish(t) /\ UNCHANGED <<schedule, scheduleFile, failedSaves>>
  BY <1>0, <1>1, EndJobStep
<1>2. CASE \E s \in Retimed(schedule) : SaveSchedule(t, s, IdleActor, IdleActor)
  BY <1>0, <1>2, RetimeStep
<1> QED
  BY <1>1, <1>2 DEF SetEnabled

\* So does an edit.
LEMMA UpsertScheduleStep ==
  ASSUME ScheduleInv, NEW t \in CommandThreads, UpsertSchedule(t)
  PROVE  ScheduleInv'
<1>0. /\ t \in Actors /\ actor[t].at = "idle" /\ ScheduleIsFree
      /\ UNCHANGED <<itemLog, sessionLease, scheduleLock, spawned, scheduleCrashes>>
      /\ \E s \in Retimed(schedule) : SaveSchedule(t, s, IdleActor, IdleActor)
  BY RunnerIsActor DEF UpsertSchedule
<1> QED
  BY <1>0, RetimeStep

-----------------------------------------------------------------------------
(* The clock, the agent run and the process.                               *)

\* A step that no thread takes and that rewrites the records.
LEMMA ClockStep ==
  ASSUME ScheduleInv, ScheduleIsFree,
         UNCHANGED <<itemLog, sessionLease, scheduleLock, actor, spawned, scheduleCrashes,
                     failedSaves>>,
         RecordsOK(schedule', itemLog), RecordsOK(scheduleFile', itemLog),
         NoFaults => RetireOK(schedule', itemLog, actor)
  PROVE  ScheduleInv'
<1>1. LockOK'
  BY FreeFacts DEF LockOK
<1>2. NoFaults' => NoFaults
  BY DEF NoFaults
<1> QED
  BY <1>1, <1>2 DEF ScheduleInv

\* So does the clock.
LEMMA TimePassesStep ==
  ASSUME ScheduleInv, TimePasses
  PROVE  ScheduleInv'
<1>1. /\ RecordsOK(schedule, itemLog) /\ RecordsOK(scheduleFile, itemLog)
      /\ schedule \in Schedules /\ scheduleFile \in Schedules
  BY RecordFacts DEF ScheduleInv
<1>2. /\ schedule' \in Schedules /\ schedule'.runs = schedule.runs
      /\ scheduleFile' \in Schedules /\ scheduleFile'.runs = scheduleFile.runs
  <2>1. PICK next \in {"due", "missed"} :
          /\ schedule' = [schedule EXCEPT !.next = next]
          /\ scheduleFile' \in {[scheduleFile EXCEPT !.next = next], scheduleFile}
    BY DEF TimePasses
  <2> QED
    BY <1>1, <2>1 DEF Schedules
<1>3. RecordsOK(schedule', itemLog) /\ RecordsOK(scheduleFile', itemLog)
  BY <1>1, <1>2 DEF RecordsOK
<1>4. NoFaults => RetireOK(schedule', itemLog, actor)
  BY <1>2 DEF ScheduleInv, RetireOK
<1> QED
  BY <1>3, <1>4, ClockStep DEF TimePasses

\* Ending the backoffs changes nothing else of the records.
LEMMA FreshFacts ==
  ASSUME NEW s, NEW log, RecordsOK(s, log), NEW new,
         new = [s EXCEPT !.runs = [i \in DOMAIN s.runs |-> [s.runs[i] EXCEPT !.backoff = FALSE]]]
  PROVE  /\ RecordsOK(new, log) /\ DOMAIN new.runs = DOMAIN s.runs
         /\ Len(new.runs) = Len(s.runs)
         /\ \A i \in DOMAIN s.runs :
              /\ new.runs[i].status = s.runs[i].status /\ new.runs[i].item = s.runs[i].item
              /\ new.runs[i].attempts = s.runs[i].attempts
              /\ new.runs[i].overwritten = s.runs[i].overwritten
<1> DEFINE runs == [i \in DOMAIN s.runs |-> [s.runs[i] EXCEPT !.backoff = FALSE]]
<1>1. /\ s \in Schedules /\ Len(s.runs) \in Nat /\ DOMAIN s.runs = 1..Len(s.runs)
      /\ \A i \in DOMAIN s.runs : s.runs[i] \in RunRecords /\ Known(s.runs[i].item, log)
  BY RecordFacts DEF RecordsOK
<1>2. ASSUME NEW i \in DOMAIN s.runs
      PROVE  /\ runs[i] \in RunRecords
             /\ runs[i].status = s.runs[i].status /\ runs[i].item = s.runs[i].item
             /\ runs[i].attempts = s.runs[i].attempts
             /\ runs[i].overwritten = s.runs[i].overwritten
  BY <1>1, <1>2 DEF RunRecords
<1>3. runs \in [1..Len(s.runs) -> RunRecords]
  BY <1>1, <1>2
<1> HIDE DEF runs
<1>4. runs \in Seq(RunRecords) /\ Len(runs) = Len(s.runs) /\ DOMAIN runs = DOMAIN s.runs
  BY <1>1, <1>3
<1>5. new.runs = runs /\ new \in Schedules
  BY <1>1, <1>4 DEF Schedules, runs
<1> QED
  BY <1>1, <1>2, <1>4, <1>5 DEF RecordsOK

\* A backoff that expires is all that changes of a record.
LEMMA BackoffExpiresStep ==
  ASSUME ScheduleInv, BackoffExpires
  PROVE  ScheduleInv'
<1>1. RecordsOK(schedule, itemLog) /\ RecordsOK(scheduleFile, itemLog)
  BY DEF ScheduleInv
<1>2. /\ RecordsOK(schedule', itemLog) /\ DOMAIN schedule'.runs = DOMAIN schedule.runs
      /\ Len(schedule'.runs) = Len(schedule.runs)
      /\ \A i \in DOMAIN schedule.runs :
           /\ schedule'.runs[i].status = schedule.runs[i].status
           /\ schedule'.runs[i].item = schedule.runs[i].item
           /\ schedule'.runs[i].attempts = schedule.runs[i].attempts
           /\ schedule'.runs[i].overwritten = schedule.runs[i].overwritten
  BY <1>1, FreshFacts DEF BackoffExpires
<1>3. RecordsOK(scheduleFile', itemLog)
  BY <1>1, FreshFacts DEF BackoffExpires
<1>4. ASSUME NoFaults PROVE RetireOK(schedule', itemLog, actor)
  <2>1. RetireOK(schedule, itemLog, actor)
    BY <1>4 DEF ScheduleInv
  <2>2. \A i \in DOMAIN schedule.runs :
          /\ Alive(schedule'.runs[i]) => Alive(schedule.runs[i])
          /\ Stuck(schedule'.runs[i], itemLog) => Stuck(schedule.runs[i], itemLog)
    BY <1>2 DEF Alive, Stuck
  <2> QED
    BY <1>2, <2>1, <2>2 DEF RetireOK
<1> QED
  BY <1>2, <1>3, <1>4, ClockStep DEF BackoffExpires

\* A run that ends has begun and has left the queue.
LEMMA AgentRunEndsStep ==
  ASSUME ScheduleInv, AgentRunEnds
  PROVE  ScheduleInv'
<1>1. PICK q \in Items, status \in {"completed", "failed"} :
        itemLog[q] = "running" /\ itemLog' = [itemLog EXCEPT ![q] = status]
  BY DEF AgentRunEnds
<1>2. itemLog' \in Logs /\ LogIsFilled(itemLog') /\ Grown(itemLog, itemLog')
  BY <1>1, LogGoesOn DEF Ended
<1>3. UNCHANGED <<schedule, scheduleFile, sessionLease, scheduleLock, actor, spawned,
                  scheduleCrashes, failedSaves>>
  BY DEF AgentRunEnds
<1>4. Runner \in Actors /\ Moves(Runner) /\ KeepsSettling(Runner)
  BY <1>3, RunnerIsActor DEF ScheduleInv, Moves, KeepsSettling
<1>5. NoFaults => RetireOK(schedule, itemLog', actor')
  BY <1>2, <1>3, <1>4, CarriedOn DEF ScheduleInv
<1>6. ActorOK(actor'[Runner], itemLog') /\ LockOK'
  BY <1>2, <1>3, <1>4, ActorFacts, ActorStaysOK DEF ScheduleInv, LockOK
<1>7. sessionLease' \in BOOLEAN /\ spawned' \in Nat /\ scheduleLock' \subseteq Actors
  BY <1>3 DEF ScheduleInv
<1> QED
  BY <1>2, <1>3, <1>4, <1>5, <1>6, <1>7, MoveStep

\* What a start finds in the file is in the log, whatever the crash cut short.
LEMMA CrashAndLoadStep ==
  ASSUME ScheduleInv, CrashAndLoad
  PROVE  ScheduleInv'
<1>1. /\ schedule' = scheduleFile /\ scheduleFile' = scheduleFile /\ scheduleLock' = {}
      /\ itemLog' = [q \in Items |->
                       IF itemLog[q] = "running" THEN "paused" ELSE itemLog[q]]
      /\ actor' = [t \in Actors |-> IdleActor] /\ spawned' = 0 /\ sessionLease' = FALSE
      /\ failedSaves' = failedSaves /\ scheduleCrashes' = scheduleCrashes + 1
  BY DEF CrashAndLoad
<1>2. itemLog \in Logs /\ RecordsOK(scheduleFile, itemLog)
  BY DEF ScheduleInv
<1>3. itemLog' \in Logs /\ Grown(itemLog, itemLog')
      /\ \A q \in Items : itemLog'[q] # "absent" <=> itemLog[q] # "absent"
  BY <1>1, <1>2 DEF Logs, Grown, Ended
<1>4. LogIsFilled(itemLog')
  BY <1>3 DEF ScheduleInv, LogIsFilled
<1>5. RecordsOK(schedule', itemLog') /\ RecordsOK(scheduleFile', itemLog')
  BY <1>1, <1>2, <1>3, RecordsStayOK
<1>6. \A t \in Actors : ActorOK(actor'[t], itemLog') /\ actor'[t].at # "record"
  BY <1>1, IdleFacts
<1>7. actor' = [t \in Actors |-> actor'[t]] /\ LockOK'
  BY <1>1, <1>6 DEF LockOK
<1>8. /\ scheduleCrashes' \in Nat /\ failedSaves' \in Nat /\ ~NoFaults'
      /\ sessionLease' \in BOOLEAN /\ spawned' \in Nat /\ scheduleLock' \subseteq Actors
  <2>1. /\ scheduleCrashes \in Nat /\ failedSaves' \in Nat
        /\ sessionLease' \in BOOLEAN /\ spawned' \in Nat
    BY <1>1 DEF ScheduleInv
  <2>2. scheduleCrashes' \in Nat /\ scheduleCrashes' # 0
    BY <1>1, <2>1
  <2> QED
    BY <1>1, <2>1, <2>2 DEF NoFaults
<1> QED
  BY <1>3, <1>4, <1>5, <1>6, <1>7, <1>8 DEF ScheduleInv

-----------------------------------------------------------------------------
(* The invariant and what it says.                                         *)

\* The first state has no records and an empty log.
LEMMA ScheduleStart == ScheduleInit => ScheduleInv
<1> SUFFICES ASSUME ScheduleInit PROVE ScheduleInv
  OBVIOUS
<1>1. /\ schedule \in Schedules /\ scheduleFile = schedule /\ DOMAIN schedule.runs = {}
      /\ schedule.runs = <<>>
  BY DEF ScheduleInit, Schedules
<1>2. RecordsOK(schedule, itemLog) /\ RecordsOK(scheduleFile, itemLog)
      /\ RetireOK(schedule, itemLog, actor)
  BY <1>1 DEF RecordsOK, RetireOK
<1>3. itemLog \in Logs /\ LogIsFilled(itemLog)
  <2>1. itemLog \in Logs /\ \A q \in Items : itemLog[q] = "absent"
    BY DEF ScheduleInit, Logs
  <2>2. 0 \in 0..MaxItems /\ \A q \in Items : ~(q <= 0)
    BY ScheduleAssumption DEF Items
  <2> QED
    BY <2>1, <2>2 DEF LogIsFilled
<1>4. \A t \in Actors : ActorOK(actor[t], itemLog) /\ actor[t].at # "record"
  BY IdleFacts DEF ScheduleInit
<1>5. actor = [t \in Actors |-> actor[t]] /\ LockOK
  BY <1>4 DEF ScheduleInit, LockOK
<1>6. sessionLease \in BOOLEAN /\ scheduleLock \subseteq Actors /\ spawned \in Nat
      /\ scheduleCrashes \in Nat /\ failedSaves \in Nat
  BY DEF ScheduleInit
<1> QED
  BY <1>2, <1>3, <1>4, <1>5, <1>6 DEF ScheduleInv

\* Every step of every thread keeps the invariant.
LEMMA ScheduleStep == ScheduleInv /\ [ScheduleNext]_scheduleVars => ScheduleInv'
<1> SUFFICES ASSUME ScheduleInv, [ScheduleNext]_scheduleVars PROVE ScheduleInv'
  OBVIOUS
<1>1. CASE Poll \/ ScanForDue \/ ListQueued
  BY <1>1, PollStep, ScanForDueStep, ListQueuedStep
<1>2. ASSUME NEW t \in Actors,
             ReconcileRead(t) \/ ReconcileProgress(t) \/ ReconcileWrite(t)
      PROVE  ScheduleInv'
  BY <1>2, ReconcileReadStep, ReconcileProgressStep, ReconcileWriteStep
<1>3. ASSUME NEW t \in Actors,
             TriggerFails(t) \/ TriggerNotQueued(t) \/ TriggerEnqueue(t) \/ TriggerRecord(t)
      PROVE  ScheduleInv'
  BY <1>3, TriggerFailsStep, TriggerNotQueuedStep, TriggerEnqueueStep, TriggerRecordStep
<1>4. ASSUME NEW t \in DispatchThreads,
             BeginDispatch(t) \/ ReadHead(t) \/ Decide(t) \/ TakeSessionLease(t)
      PROVE  ScheduleInv'
  BY <1>4, BeginDispatchStep, ReadHeadStep, DecideStep, TakeSessionLeaseStep
<1>5. ASSUME NEW t \in DispatchThreads,
             \/ CountAttempt(t) \/ StartHead(t) \/ AwaitRun(t) \/ ReleaseSessionLease(t)
             \/ CheckExhausted(t)
      PROVE  ScheduleInv'
  BY <1>5, CountAttemptStep, StartHeadStep, AwaitRunStep, ReleaseSessionLeaseStep,
     CheckExhaustedStep
<1>6. ASSUME NEW t \in DispatchThreads \cup CommandThreads, DeleteItem(t) \/ MarkRun(t)
      PROVE  ScheduleInv'
  <2>1. t \in Actors
    BY RunnerIsActor
  <2> QED
    BY <1>6, <2>1, DeleteItemStep, MarkRunStep
<1>7. ASSUME NEW t \in CommandThreads,
             RunNow(t) \/ CancelRun(t) \/ RemoveSchedule(t) \/ ToggleSchedule(t)
      PROVE  ScheduleInv'
  BY <1>7, UserCommandStep
<1>8. ASSUME NEW t \in CommandThreads,
             \/ CancelTarget(t) \/ CancelAgent(t) \/ RemoveIfIdle(t) \/ SetEnabled(t)
             \/ UpsertSchedule(t)
      PROVE  ScheduleInv'
  BY <1>8, CancelTargetStep, CancelAgentStep, RemoveIfIdleStep, SetEnabledStep,
     UpsertScheduleStep
<1>9. CASE TimePasses \/ BackoffExpires \/ AgentRunEnds \/ CrashAndLoad
  BY <1>9, TimePassesStep, BackoffExpiresStep, AgentRunEndsStep, CrashAndLoadStep
<1>10. CASE UNCHANGED scheduleVars
  BY <1>10 DEF scheduleVars, ScheduleInv, LockOK, NoFaults
<1> QED
  BY <1>1, <1>2, <1>3, <1>4, <1>5, <1>6, <1>7, <1>8, <1>9, <1>10 DEF ScheduleNext

\* The invariant holds however many threads, messages, commands and faults there
\* are: every thread of schedule_commands.rs carries what the log has said, and
\* while nothing failed a run at its last attempt has a dispatch that retires it.
THEOREM ScheduleInvariant == ScheduleSpec => []ScheduleInv
  BY ScheduleStart, ScheduleStep, PTL DEF ScheduleSpec

\* A run record, in memory or in the file, names only messages that the event
\* log has, through every crash and failed save: trigger_schedule_run queues
\* before it records.
THEOREM RecordsNameTheLog == ScheduleSpec => []QueuedRunIsInTheLog
<1>1. ScheduleInv => QueuedRunIsInTheLog
  <2> SUFFICES ASSUME ScheduleInv PROVE QueuedRunIsInTheLog
    OBVIOUS
  <2>1. RecordsOK(schedule, itemLog) /\ RecordsOK(scheduleFile, itemLog)
    BY DEF ScheduleInv
  <2>2. ScheduleTypeOK
    BY <2>1 DEF ScheduleInv, ScheduleTypeOK, RecordsOK, Schedules, Logs
  <2> QED
    BY <2>1, <2>2 DEF QueuedRunIsInTheLog, RecordsOK, Known
<1> QED
  BY <1>1, ScheduleInvariant, PTL

\* The bound of decide_scheduled_dispatch retires every run: while nothing
\* crashed, no save failed and no reconciliation wrote an old state back, a run
\* that waits after its last attempt has a dispatch that will end it.
THEOREM BoundRetiresRuns == ScheduleSpec => []RetiresWithoutFaults
<1>1. ScheduleInv => RetiresWithoutFaults
  <2> DEFINE i == ActiveRun(schedule)
             r == schedule.runs[i]
  <2> SUFFICES ASSUME ScheduleInv, scheduleCrashes + failedSaves = 0, i # 0,
                      ~r.overwritten, StuckAtCap(r)
               PROVE  FALSE
    BY DEF RetiresWithoutFaults, StuckRunRetires
  <2>1. NoFaults
    BY DEF ScheduleInv, NoFaults
  <2>2. RecordsOK(schedule, itemLog) /\ schedule \in Schedules
    BY RecordFacts DEF ScheduleInv
  <2>3. i \in DOMAIN schedule.runs /\ r.status \in ActiveStatus
    BY <2>2, ActiveFacts
  <2>4. r.item \in Items \cup {NoItem}
    BY <2>2, <2>3, RecordFacts
  <2>5. r.item # NoItem /\ itemLog[r.item] = "queued"
    BY <2>4 DEF StuckAtCap, QueueProgress
  <2> HIDE DEF i
  <2>6. Stuck(r, itemLog)
    BY <2>3, <2>5 DEF Stuck, Alive, StuckAtCap
  <2>7. PICK t \in DispatchThreads : Settles(actor[t])
    BY <2>1, <2>3, <2>6 DEF ScheduleInv, RetireOK
  <2>8. BeingSettled
    BY <2>7 DEF BeingSettled, Settles, Retiring
  <2> QED
    BY <2>8 DEF StuckAtCap
<1> QED
  BY <1>1, ScheduleInvariant, PTL
=============================================================================
