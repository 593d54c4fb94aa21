SPECIFICATION FairSpec
CONSTANTS
    Pid = {p1, p2, p3}
    Uid <- BoundaryUids
    MaxChildren = 2
    RingSize = 3
    ForkMax = 4
CHECK_DEADLOCK FALSE
INVARIANTS
    ChildTableSound
    ExitQuiet
    WorkerAwake
PROPERTIES
    EventsDrain
    RingImplementsQueue
