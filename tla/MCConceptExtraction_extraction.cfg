SPECIFICATION FairLoop
CONSTANTS
    p1 = p1
    p2 = p2
    Last = 4
    Empty <- Silent
    Poison <- Choking
    Passes = {p1, p2}
    WaveSize = 2
    ChunkSize = 1
    MaxAttempts = 2
    MaxSetbacks = 2
INVARIANTS
    LoopTypeOK
    NoneLeftToName
PROPERTIES
    LoopEnds
CHECK_DEADLOCK FALSE
