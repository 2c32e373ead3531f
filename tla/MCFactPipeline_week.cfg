SPECIFICATION FairSpec
CONSTANTS
    s1 = s1
    s2 = s2
    Sources <- OneSource
    Texts <- MCTexts
    FactIds <- WeekIds
    TextOf <- WeekTextOf
    Yields <- WeekYields
    Score <- MCScore
    MaxFaults = 1
    WeekPasses = TRUE
INVARIANTS
    EmbeddedHasVector
PROPERTIES
    FactsSettle
CHECK_DEADLOCK FALSE
