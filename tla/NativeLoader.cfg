SPECIFICATION FairSpec
CONSTANTS
    A = A
    B = B
    p = p
    name = name
    path = path
    Dir = {A, B}
    Zygisk = {A}
    Line <- MCLine
    Target <- MCTarget
    TargetMax = 1
    Compat <- MCCompat
    WithCompanion <- MCWithCompanion
    FirstDisk = {{A}}
    Integrated = FALSE
    Zygote32 = FALSE
    EditMax = 1
    ReloadMax = 1
    FaultMax = 1
    None = None
    Proc = {p}
    Exe <- MCExe
    InitChild = {p}
    Snapshot <- MCSnapshot
    AttemptMax = 1
CONSTRAINT Apart
CHECK_DEADLOCK FALSE
INVARIANTS
    ReportsSound
    NoOrphanCompat
    AnnouncedIsSeen
PROPERTIES
    ReadyMeansPrepared
    EveryStartEnds
