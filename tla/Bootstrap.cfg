SPECIFICATION FairSpec
CONSTANTS
    Claimer = {d1, d2}
    Rooter = {y1}
    TryMax = 3
    FaultMax = 1
CHECK_DEADLOCK FALSE
INVARIANTS
    ModulePinned
    OneShot
    ReadyDisarmsUnlessFault
PROPERTIES
    FailClosedFinal
    GuardResolves
    ExitEnds
