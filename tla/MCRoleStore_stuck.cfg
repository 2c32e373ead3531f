SPECIFICATION FairSpec
CONSTANTS
    u1 = u1
    g1 = g1
    t1 = t1
    t2 = t2
    Users = {u1}
    Groups = {g1}
    Role = role
    Requests = {t1, t2}
    Nobody = nobody
    MaxFaults = 0
PROPERTIES
    EnforceReturns
CHECK_DEADLOCK FALSE
