SPECIFICATION ClientSpec
CONSTANTS
    Word = 64
    PageSize = 2
    PgdSize = 2
    PageLevel = 3
    Vaddrs <- MCVaddrs
    Paddrs <- MCPaddrs
    Sizes <- MCSizes
    Memories <- MCMemories
    MaxCalls = 3
INVARIANTS
    TypeOK
    TreeShaped
    TablesReclaimable
PROPERTIES
    MapSpec
    CallsReturn
CHECK_DEADLOCK FALSE
