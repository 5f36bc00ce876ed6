SPECIFICATION MCSpec
CONSTANTS
    Order = 4
    Keys = {1, 2, 3, 4}
    Records = {r1, r2}
    MaxPostings = 2
    AllocationFails = TRUE
INVARIANTS
    ValidAtRest
    ScanIsExact
PROPERTIES
    ImplementsPostingMap
