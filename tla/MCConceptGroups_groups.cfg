SPECIFICATION Spec
CONSTANTS
    A = A
    B = B
    name = name
    i1 = i1
    i2 = i2
    e1 = e1
    m1 = m1
    m2 = m2
    None = none
    Facts = {1, 2}
    Ids = {i1, i2}
    NameOf <- MCNameOf
    Contexts = {A, B}
    Extractors = {e1}
    Migrators = {m1, m2}
    From <- MCFrom
    To <- MCTo
    MaxConcepts <- MCMaxConcepts
    MaxFaults = 1
SYMMETRY GroupSymmetry
INVARIANTS
    TypeOK
    GroupsLive
    LinksSurvive
    ContextsDeclared
CHECK_DEADLOCK FALSE
