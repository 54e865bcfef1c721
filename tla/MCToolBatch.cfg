\* Three actions, at most one identical action in a row, a window that drops
\* old actions, a budget that one and two extensions enlarge.
CONSTANTS
    Signatures = {x, y, z}
    MaxIdenticalActions = 1
    RecentWindow = 6
    ToolCallsPerExtension = 2
    MaxToolCalls = 7
    InitialToolCalls = 4
    MaxBatch = 3
    MaxProgress = 2
    MaxExternal = 1
    MaxSegments = 1
SPECIFICATION Spec
INVARIANTS BatchAgreesWithSerial NoCycleIsExecuted ToolHeadroomIsEarned
CHECK_DEADLOCK FALSE
SYMMETRY Symmetry
