--------------------------- MODULE MCBackgroundWork ---------------------------
(***************************************************************************)
(* Four protocols of a project's background and workspace work, for TLC:   *)
(* scheduled runs, the memory vector refresh, knowledge generations and    *)
(* undo.  They share no variable, so a behaviour exercises one of them     *)
(* while the others rest, and their state spaces add up.                   *)
(***************************************************************************)
EXTENDS ScheduledRuns, VectorRefresh, KnowledgeGenerations, WorkspaceUndo, TLC

VARIABLE work  \* the protocol at work

Init == /\ work \in {"schedule", "vectors", "knowledge", "undo"}
        /\ ScheduleInit /\ VectorInit /\ KnowledgeInit /\ UndoInit
        /\ work # "undo" => content = [f \in UndoFiles |-> Absent]

Next ==
  /\ \/ /\ work = "schedule" /\ ScheduleNext
        /\ UNCHANGED <<vectorVars, knowledgeVars, undoVars>>
     \/ /\ work = "vectors" /\ VectorNext
        /\ UNCHANGED <<scheduleVars, knowledgeVars, undoVars>>
     \/ /\ work = "knowledge" /\ KnowledgeNext
        /\ UNCHANGED <<scheduleVars, vectorVars, undoVars>>
     \/ /\ work = "undo" /\ UndoNext
        /\ UNCHANGED <<scheduleVars, vectorVars, knowledgeVars>>
  /\ UNCHANGED work

vars == <<work, scheduleVars, vectorVars, knowledgeVars, undoVars>>

Spec == Init /\ [][Next]_vars

\* Threads, operations, files and contents are only compared.  The protocols
\* never meet, so they draw their names from the same two pairs.
Symmetry == Permutations(UndoFiles) \cup Permutations(Contents)
=============================================================================
