SPECIFICATION LSpec
CONSTANTS
    Key <- MCKey
    Perm <- MCPerm
    Base <- MCBase
    FileReq <- MCFileReq
    ExecReq <- MCExecReq
    SlotOrder <- MCSlotOrder
    Holder = {h1, h2}
    Task = {t1}
    Caller = {c1}
    RuleMax = 2
    RefMax = 3
    EarlyMax = 1
    InjectMax = 1
    ArmMax = 1
    FailMax = 0
INVARIANTS
    AllowancesTemporary
CHECK_DEADLOCK FALSE
