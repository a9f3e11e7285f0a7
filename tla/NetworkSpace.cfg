SPECIFICATION FairSpec
CONSTANTS
    Width = 3
    MaxIncluded = 2
    MaxExcluded = 2
INVARIANTS
    RoutesRight
    Disjoint
    LayeredAssertsHold
PROPERTIES
    Terminates
