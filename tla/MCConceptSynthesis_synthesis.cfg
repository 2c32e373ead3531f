SPECIFICATION Spec
CONSTANTS
    p1 = p1
    p2 = p2
    w1 = w1
    w2 = w2
    r1 = r1
    n1 = n1
    n2 = n2
    n3 = n3
    k1 = k1
    k2 = k2
    NoConn = none
    Procs = {p1, p2}
    Folders = {w1, w2}
    Refiners = {r1}
    Conns = {n1, n2, n3}
    Home <- MCHome
    GroupConcepts = {k1, k2}
    MaxSlices = 3
    MaxDepth = 2
    MaxFaults = 1
INVARIANTS
    TypeOK
    FoldsOfOneProcess
    EverySliceFolded
PROPERTIES
    NothingUnfolded
CHECK_DEADLOCK FALSE
