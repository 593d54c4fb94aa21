SPECIFICATION Spec
CONSTANTS
    Claimer = {d1}
    Rooter = {}
    TryMax = 2
    FaultMax = 1
INVARIANT ReadyDisarmsGuard
CHECK_DEADLOCK FALSE
