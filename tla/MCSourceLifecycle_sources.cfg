SPECIFICATION Spec
CONSTANTS
    a1 = a1
    a2 = a2
    Actors = {a1, a2}
    MaxEdition = 3
    ChunksOf <- MCChunks
    Wordless = {3}
    Unsegmented = {2}
    MaxRows = 2
    MaxRequests = 3
    MaxFaults = 1
SYMMETRY ActorSymmetry
INVARIANTS
    TypeOK
    ProcessedWholly
    SentencesMatch
    FetchEnds
CHECK_DEADLOCK FALSE
