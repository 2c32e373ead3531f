SPECIFICATION Spec
CONSTANTS
    s1 = s1
    s2 = s2
    Sources <- TwoSources
    Texts <- MCTexts
    FactIds <- OverlapIds
    TextOf <- OverlapTextOf
    Yields <- OverlapYields
    Score <- MCScore
    MaxFaults = 0
    WeekPasses = FALSE
INVARIANTS
    TypeOK
    CitationsOnKeepers
    DrainedFacts
    DrainedPoints
PROPERTIES
    LifecycleSpec
CHECK_DEADLOCK FALSE
