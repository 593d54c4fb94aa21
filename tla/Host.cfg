SPECIFICATION HostSpec
CONSTANTS
    Proc = {e1}
    StaticCalls = TRUE
    PatchFailMax = 2
    App = {a1}
    Place <- MCPlace
    Below <- MCBelow
    MountMax = 4
    TargetMax = 2
    LinesRead = 3
    RequestMax = 1
    CaptureMax = 2
CHECK_DEADLOCK FALSE
INVARIANTS
    HookSound
    CleanupSound
    GoneMeansUnhooked
