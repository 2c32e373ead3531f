SPECIFICATION Spec
CONSTANTS
    f1 = f1
    f2 = f2
    r1 = r1
    r2 = r2
    Facts = {f1, f2}
    Texts = {"a", "b", "x", "y"}
    Found <- MCFound
    Seeds <- MCSeeds
    Answers <- MCAnswers
    Extra <- MCExtra
    Refiners = {r1, r2}
    NoConcept = "-"
    MaxTasks = 1
    MaxFaults = 1
SYMMETRY RefinerSymmetry
INVARIANTS
    TypeOK
    NothingStranded
    OnlyLeftOpen
CHECK_DEADLOCK FALSE
