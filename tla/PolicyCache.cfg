SPECIFICATION Spec
CONSTANTS
    Uid = {a, m}
    Manager = m
    Daemon = {d64, d32}
    Slot <- MCSlot
    EditMax = 1
    RequestMax = 1
    FailMax = 1
SYMMETRY MCSymmetry
CHECK_DEADLOCK FALSE
INVARIANTS
    CacheLifeSound
    DecisionsCurrent
