SPECIFICATION LFairSpec
CONSTANTS
    Key <- FullKey
    Perm <- FullPerm
    Base <- FullBase
    FileReq <- FullFileReq
    ExecReq <- FullExecReq
    SlotOrder <- FullSlotOrder
    Holder = {h1, h2}
    Task = {t1}
    Caller = {c1}
    RuleMax = 2
    RefMax = 1
    EarlyMax = 1
    InjectMax = 2
    ArmMax = 1
    FailMax = 1
CHECK_DEADLOCK FALSE
INVARIANTS
    TypeOK
    FullTableSafe
PROPERTIES
    EventuallyGivenBack
