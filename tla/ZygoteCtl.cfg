SPECIFICATION Spec
CONSTANTS
    p3 = p3
    Target = {p1, p2, p3}
    File = {f1, f2}
    Caller = {c1, c2}
    MaxPending = 2
    HandoffMax = 3
    LifeMax = 2
SYMMETRY BrokerSymmetry
CONSTRAINT ThirdLives
CHECK_DEADLOCK FALSE
INVARIANTS
    BrokerSound
    DeliveredToTarget
