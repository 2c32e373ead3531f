SPECIFICATION Spec
CONSTANTS
    s1 = s1
    s2 = s2
    Sources <- TwoSources
    Texts <- MCTexts
    FactIds <- RetryIds
    TextOf <- RetryTextOf
    Yields <- RetryYields
    Score <- MCScore
    MaxFaults = 2
    WeekPasses = FALSE
SYMMETRY RetrySymmetry
INVARIANTS
    ProvenancePreserved
    EmbeddedHasVector
PROPERTIES
    StableIsFinal
CHECK_DEADLOCK FALSE
