SPECIFICATION Spec
CONSTANTS
    Uid <- MCUid
    Isolated <- MCIsolated
    ModuleCount = 2
    Version <- MCVersion
    Platform <- MCPlatform
    Borrowable <- MCBorrowable
    ForkMax = 2
    CallMax = 1
    ChangeMax = 1
CHECK_DEADLOCK FALSE
INVARIANTS
    UnmapsSafe
    PlatformKnowsFds
    PolicyOnlyWhileLoading
    DecisionOfOneMode
    RunsAsDecided
