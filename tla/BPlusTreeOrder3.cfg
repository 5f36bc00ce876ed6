SPECIFICATION MCSpec
CONSTANTS
    Order = 3
    Keys = {1, 2, 3, 4, 5, 6}
    Records = {r1}
    MaxPostings = 1
    AllocationFails = TRUE
INVARIANTS
    TypeOK
    OneNodeInDebt
    NothingLeaks
    DeletedOnce
    ValidAtRest
    RangeAgreesWithSearch
PROPERTIES
    RestructuringIsInvisible
    ImplementsPostingMap
