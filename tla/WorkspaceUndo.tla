---------------------------- MODULE WorkspaceUndo ----------------------------
(***************************************************************************)
(* Undo and redo of one session's file changes                             *)
(* (workspace_undo_runtime.rs).  A call selects an entry, checks every     *)
(* file of its group, writes the files one after the other and then        *)
(* commits the stack of undone entries; what cannot be finished is rolled  *)
(* back as far as possible.  The store lock serialises calls; file tools   *)
(* and other programs write files without it, and the retention sweep      *)
(* removes snapshots.  A file is known by its content.                     *)
(***************************************************************************)
EXTENDS Naturals, Sequences, FiniteSets

CONSTANTS UndoFiles,         \* files of the workspace
          Contents,          \* what a file may hold
          Absent,            \* no such file
          CommitAttempts,    \* the loop's 0..3
          MaxEntries,        \* bound: recorded tool calls
          MaxIncidents       \* bound: outside edits, registry writes over another
                             \* connection, expired snapshots and crashes

ASSUME UndoBounds == /\ Absent \notin Contents
                     /\ {CommitAttempts, MaxEntries, MaxIncidents} \subseteq Nat

VARIABLES
  content,    \* on disk: the content of each file
  entries,    \* durable: ToolCallFinished events of file tools, in order
  undone,     \* durable: the registry's stack of undone entries
  before,     \* on disk: entries whose undo snapshots exist
  after,      \* on disk: entries whose after-state artifacts exist
  call,       \* the undo or redo under way
  toolWrite,  \* a file tool that has written and not recorded: [files, entry]
  expected,   \* history: what the files hold after every finished step
  disturbed,  \* history: what has happened besides calls and tools
  incidents   \* what MaxIncidents counts

undoDisk == <<content, before, after>>
undoStore == <<entries, undone>>
undoVars == <<undoDisk, undoStore, call, toolWrite, expected, disturbed, incidents>>

NoCall == [at |-> "idle", redo |-> FALSE, id |-> 0, left |-> {}, written |-> <<>>,
           attempt |-> 0, stale |-> FALSE]
NoToolWrite == <<>>
Calling == call.at # "idle"

UndoInit ==
  /\ content \in [UndoFiles -> Contents \cup {Absent}]
  /\ entries = <<>> /\ undone = <<>>
  /\ before = {} /\ after = {}
  /\ call = NoCall /\ toolWrite = NoToolWrite
  /\ expected = content /\ disturbed = {}
  /\ incidents = 0

IsUndone(i) == \E k \in DOMAIN undone : undone[k] = i
Applied == {i \in DOMAIN entries : ~IsUndone(i)}
LatestApplied == CHOOSE i \in Applied : \A k \in Applied : k <= i

\* A write to files of a call under way, by anyone else.
Races(files) == IF Calling /\ files \cap DOMAIN entries[call.id].old # {}
                THEN {"raced"} ELSE {}

-----------------------------------------------------------------------------
(* file.write, file.patch and file.patch_batch change files and record it.  *)

\* The snapshots may not be captured.  A creation is a single file.
ToolWrites(files, new) ==
  LET old == [f \in files |-> content[f]]
      created == \E f \in files : old[f] = Absent
  IN
  /\ toolWrite = NoToolWrite /\ Len(entries) < MaxEntries
  /\ files # {}
  /\ created => Cardinality(files) = 1
  /\ \A f \in files : new[f] # old[f]
  /\ content' = [f \in UndoFiles |-> IF f \in files THEN new[f] ELSE content[f]]
  /\ expected' = [f \in UndoFiles |-> IF f \in files THEN new[f] ELSE expected[f]]
  /\ toolWrite' = <<[old |-> old, new |-> new, created |-> created]>>
  /\ disturbed' = disturbed \cup Races(files)
  /\ UNCHANGED <<before, after, undoStore, call, incidents>>

ToolRecords ==
  /\ toolWrite # NoToolWrite /\ ~Calling
  /\ entries' = entries \o toolWrite
  /\ toolWrite' = NoToolWrite
  /\ \/ before' = before \cup {Len(entries')}
     \/ UNCHANGED before
  /\ after' = after \cup {Len(entries')}
  /\ UNCHANGED <<content, undone, call, expected, disturbed, incidents>>

Incident == incidents < MaxIncidents /\ incidents' = incidents + 1

OutsideEdit(f, c) ==
  /\ Incident
  /\ content[f] # c
  /\ content' = [content EXCEPT ![f] = c]
  /\ expected' = [expected EXCEPT ![f] = c]
  /\ disturbed' = disturbed \cup {"outside"} \cup Races({f})
  /\ UNCHANGED <<before, after, undoStore, call, toolWrite>>

\* The retention sweep.
SnapshotsExpire(i) ==
  /\ Incident
  /\ i \in before \cup after
  /\ before' = before \ {i} /\ after' = after \ {i}
  /\ UNCHANGED <<content, undoStore, call, toolWrite, expected, disturbed>>

\* Another connection rewrites the row, with the same stack, after it was loaded.
ForeignCommit ==
  /\ call.at = "commit" /\ ~call.stale /\ Incident
  /\ call' = [call EXCEPT !.stale = TRUE]
  /\ UNCHANGED <<undoDisk, undoStore, toolWrite, expected, disturbed>>

-----------------------------------------------------------------------------
(* change_undo_stack: phase 1, the files.                                  *)

Begin(i, redo) ==
  /\ call' = [at |-> "writing", redo |-> redo, id |-> i,
              left |-> DOMAIN entries[i].old, written |-> <<>>,
              attempt |-> 0, stale |-> FALSE]
  /\ UNCHANGED <<undoDisk, undoStore, toolWrite, expected, disturbed,
                 incidents>>

\* entry_is_undoable, and require_applied_file_state of the whole group.
BeginUndo ==
  /\ ~Calling /\ Applied # {}
  /\ LET i == LatestApplied IN
     /\ entries[i].created \/ i \in before
     /\ i \in after
     /\ \A f \in DOMAIN entries[i].new : content[f] = entries[i].new[f]
     /\ Begin(i, FALSE)

\* apply_redo's validation: the state the undo left is still there.
BeginRedo ==
  /\ ~Calling /\ undone # <<>>
  /\ LET i == undone[Len(undone)] IN
     /\ i \in after
     /\ entries[i].created \/ i \in before
     /\ \A f \in DOMAIN entries[i].old : content[f] = entries[i].old[f]
     /\ Begin(i, TRUE)

Goal(f) == IF call.redo THEN entries[call.id].new[f] ELSE entries[call.id].old[f]
Origin(f) == IF call.redo THEN entries[call.id].old[f] ELSE entries[call.id].new[f]

\* undo_one_file or redo_one_file; its source may have expired since, and a
\* removal fails when the file is gone.
WriteFile(f) ==
  LET source == IF call.redo THEN call.id \in after
                ELSE entries[call.id].created \/ call.id \in before
  IN
  /\ call.at = "writing" /\ f \in call.left
  /\ \/ /\ source
        /\ Goal(f) = Absent => content[f] # Absent
        /\ content' = [content EXCEPT ![f] = Goal(f)]
        /\ call' = [call EXCEPT !.left = @ \ {f}, !.written = <<f>> \o @,
                                !.at = IF call.left = {f} THEN "load" ELSE "writing"]
     \/ /\ call' = [call EXCEPT !.at = "rollback"]
        /\ UNCHANGED content
  /\ UNCHANGED <<before, after, undoStore, toolWrite, expected, disturbed,
                 incidents>>

-----------------------------------------------------------------------------
(* Phase 2, the registry.                                                  *)

\* load_registry, in each attempt; a read that fails ends as a failed commit does.
LoadRegistry ==
  /\ call.at = "load"
  /\ call' = IF call.attempt = CommitAttempts THEN [call EXCEPT !.at = "rollback"]
             ELSE [call EXCEPT !.at = "commit", !.stale = FALSE, !.attempt = @ + 1]
  /\ UNCHANGED <<undoDisk, undoStore, toolWrite, expected, disturbed,
                 incidents>>

\* The filter of desired_undone_stack: the stack holds an entry at most once.
Without(stack, i) ==
  LET k == CHOOSE k \in DOMAIN stack : stack[k] = i
  IN IF \E j \in DOMAIN stack : stack[j] = i
     THEN SubSeq(stack, 1, k - 1) \o SubSeq(stack, k + 1, Len(stack)) ELSE stack

\* desired_undone_stack
DesiredStack ==
  IF call.redo THEN Without(undone, call.id)
  ELSE IF IsUndone(call.id) THEN undone ELSE Append(undone, call.id)

\* Fault: a commit that fails is reported, and nothing is rolled back.
CommitOrGiveUp ==
  /\ call.at = "commit"
  /\ \/ /\ ~call.stale
        /\ undone' = DesiredStack
        /\ expected' = [f \in UndoFiles |->
              IF f \in DOMAIN entries[call.id].old THEN Goal(f) ELSE expected[f]]
     \/ UNCHANGED <<undone, expected>>
  /\ call' = NoCall
  /\ UNCHANGED <<undoDisk, entries, toolWrite, disturbed, incidents>>

\* persist_registry: committed; lost to another writer; or failed.
CommitRegistry ==
  /\ call.at = "commit"
  /\ \/ /\ ~call.stale
        /\ undone' = DesiredStack
        /\ expected' = [f \in UndoFiles |->
              IF f \in DOMAIN entries[call.id].old THEN Goal(f) ELSE expected[f]]
        /\ call' = NoCall
     \/ /\ call.stale
        /\ call' = [call EXCEPT !.at = "load"]
        /\ UNCHANGED <<undone, expected>>
     \/ /\ call' = [call EXCEPT !.at = "rollback"]
        /\ UNCHANGED <<undone, expected>>
  /\ UNCHANGED <<undoDisk, entries, toolWrite, disturbed, incidents>>

\* rollback_applied_files: newest first; a failure is passed over.
RollBackFile ==
  /\ call.at = "rollback" /\ call.written # <<>>
  /\ LET f == Head(call.written)
         source == IF call.redo THEN entries[call.id].created \/ call.id \in before
                   ELSE call.id \in after
     IN
     /\ \/ /\ source
           /\ content' = [content EXCEPT ![f] = Origin(f)]
           /\ UNCHANGED disturbed
        \/ /\ UNCHANGED content
           /\ disturbed' = disturbed \cup {"rollback"}
     /\ call' = [call EXCEPT !.written = Tail(@)]
  /\ UNCHANGED <<before, after, undoStore, toolWrite, expected, incidents>>

ReportFailure ==
  /\ call.at = "rollback" /\ call.written = <<>>
  /\ call' = NoCall
  /\ UNCHANGED <<undoDisk, undoStore, toolWrite, expected, disturbed,
                 incidents>>

\* The process dies; a tool's unrecorded write stays on disk.
UndoCrash ==
  /\ Calling \/ toolWrite # NoToolWrite
  /\ disturbed' = disturbed \cup (IF call.written # <<>> THEN {"crashed"} ELSE {})
  /\ call' = NoCall /\ toolWrite' = NoToolWrite
  /\ Incident
  /\ UNCHANGED <<undoDisk, undoStore, expected>>

UndoNext ==
  \/ \E files \in SUBSET UndoFiles : \E new \in [files -> Contents] : ToolWrites(files, new)
  \/ ToolRecords
  \/ \E f \in UndoFiles, c \in Contents \cup {Absent} : OutsideEdit(f, c)
  \/ \E i \in DOMAIN entries : SnapshotsExpire(i)
  \/ ForeignCommit
  \/ BeginUndo \/ BeginRedo
  \/ \E f \in UndoFiles : WriteFile(f)
  \/ LoadRegistry \/ CommitRegistry \/ RollBackFile \/ ReportFailure
  \/ UndoCrash

UndoSpec == UndoInit /\ [][UndoNext]_undoVars

-----------------------------------------------------------------------------
(* Properties.                                                             *)

\* Types; the registry names recorded changes, each once (desired_undone_stack).
UndoTypeOK ==
  /\ {content, expected} \subseteq [UndoFiles -> Contents \cup {Absent}]
  /\ \A j, k \in DOMAIN undone : undone[j] = undone[k] => j = k
  /\ \A k \in DOMAIN undone : undone[k] \in DOMAIN entries
  /\ before \cup after \subseteq DOMAIN entries
  /\ call.at \in {"idle", "writing", "load", "commit", "rollback"}
  /\ Calling => call.id \in DOMAIN entries /\ call.attempt <= CommitAttempts
  /\ disturbed \subseteq {"outside", "raced", "crashed", "rollback"}

\* Between calls every file holds what the last tool, the last outside edit or
\* the last committed undo or redo left in it: a call that fails half-way, in
\* the group or at the registry, leaves no trace, and one that commits has
\* moved its whole group.  The exceptions are a crash within a call, a failing
\* rollback and a writer that comes between the check and the write.
WorkspaceFollowsRegistry ==
  /\ UndoTypeOK
  /\ ~Calling /\ disturbed \subseteq {"outside"} => content = expected

\* CURRENT.md: "so the panel and the workspace can never disagree about a
\* half-undone group".  When nobody else writes, the newest change that the
\* panel shows as applied is applied in all of its files or in none.
PanelAgreesWithWorkspace ==
  (/\ ~Calling /\ toolWrite = NoToolWrite /\ Applied # {}
   /\ disturbed \cap {"outside", "raced"} = {})
  => LET e == entries[LatestApplied] IN
     ~ \E f, g \in DOMAIN e.old : content[f] = e.old[f] /\ content[g] = e.new[g]
=============================================================================
