\* Three model calls extended by goal deltas to a cap, a reserve of one call, one
\* repair, a deadline of two ticks, a tool call more patient than an idle run.
CONSTANTS
    InitialModelCalls = 3
    MaxModelCalls = 4
    ModelCallsPerExtension = 1
    InitialTurns = 1
    MaxTurns = 2
    TurnsPerExtension = 1
    MaxRepairAttempts = 1
    TerminalModelCallReserve = 1
    TerminalTimeReserve = 1
    MaxDuration = 2
    ModelCallTimeout = 2
    ToolCallTimeout = 2
    NoProgressTimeout = 1
    Classes = {"Synthesizer", "Actor", "Finalizer"}
    Receipts = {r1, r2}
    MaxActive = 1
SPECIFICATION FairSpec
PROPERTY RunEnds
INVARIANTS FinalizerIsNeverStarved HeadroomIsEarned
           ProgressIsCreditedOnce ContinueIsHonoured
CHECK_DEADLOCK FALSE
