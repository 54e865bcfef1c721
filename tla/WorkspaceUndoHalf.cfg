\* A batch of two files, no other writer.
SPECIFICATION UndoSpec
CONSTANTS
  UndoFiles = {f1, f2}
  Contents = {x, y}
  Absent = Absent
  CommitAttempts = 3
  MaxEntries = 1
  MaxIncidents = 1
INVARIANT PanelAgreesWithWorkspace
CHECK_DEADLOCK FALSE
