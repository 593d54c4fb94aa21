SPECIFICATION LSpec
CONSTANTS
    Key <- MCKey
    Perm <- MCPerm
    Base <- MCBase
    FileReq <- MCFileReq
    ExecReq <- MCExecReq
    SlotOrder <- MCSlotOrder
    Holder = {h1, h2, h3}
    Task = {t1, t2}
    Caller = {c1, c2}
    RuleMax = 2
    RefMax = 3
    EarlyMax = 0
    InjectMax = 2
    ArmMax = 2
    FailMax = 1
SYMMETRY ClientSymmetry
CHECK_DEADLOCK FALSE
INVARIANTS
    RefsExact
    PolicyExact
    PromisesKept
    HoldersSound
