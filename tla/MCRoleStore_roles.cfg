SPECIFICATION Spec
CONSTANTS
    u1 = u1
    g1 = g1
    t1 = t1
    t2 = t2
    Users = {u1}
    Groups = {g1}
    Role = role
    Requests = {t1, t2}
    Nobody = nobody
    MaxFaults = 1
SYMMETRY RequestSymmetry
INVARIANTS
    TypeOK
    TableFollowsMemory
    LinksMatchMembers
    HangsOnlyInside
CHECK_DEADLOCK FALSE
