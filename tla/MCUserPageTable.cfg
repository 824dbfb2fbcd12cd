SPECIFICATION PagetableSpec
CONSTANTS
    PageSize = 4
    PgdSize = 2
    PteSize = 2
    PageLevel = 3
    InitialCapacity = 2
    Mappings <- MCMappings
    Ats <- MCAts
    MaxCalls = 5
INVARIANTS
    ConcreteMap
    ConcreteDense
CHECK_DEADLOCK FALSE
