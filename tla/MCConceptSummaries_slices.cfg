SPECIFICATION Spec
CONSTANTS
    w1 = w1
    w2 = w2
    Workers <- TwoWorkers
    MaxFacts = 6
    Batch <- FallingTiers
    CallTime = 1
    Staleness = 1
    MaxFaults = 3
SYMMETRY WorkerSymmetry
INVARIANTS
    TypeOK
    SlicesDisjoint
    SynthesisAsked
PROPERTIES
    FrozenForever
    LogSpec
CHECK_DEADLOCK FALSE
