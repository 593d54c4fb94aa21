SPECIFICATION Spec
CONSTANTS
    Pid = {p1, p2}
    Zygote = {z1, z2}
    Native = {n1}
    Module = {m1}
    RecordMax = 2
    GuardMax = 1
    Threshold = 1
    LifeMax = 3
    BeginMax = 3
SYMMETRY RecordSymmetry
VIEW GenerationOrder
INVARIANTS
    RecordsTruthful
    CrashLoopStops
PROPERTIES
    RecordHeld
    GenerationMoves
