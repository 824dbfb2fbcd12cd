SPECIFICATION Spec
CONSTANTS
    Word = 64
    PageSize = 2
    PgdSize = 8
    PageLevel = 2
    TextStart = 8
    JumperStart = 9
    TextEnd = 11
    BssEnd = 13
    Boots <- MCBoots
    LoadAddrs = {8, 9, 14, 24, 32}
    PayloadSizes = {1, 4}
    BssSizes = {0, 3}
    HighVaddrs = {0, 30, 100, 101}
    Mb2Addrs = {2, 18, 20, 34}
    Mb2Sizes = {2, 3}
    Maps <- MCMaps
INVARIANTS
    NothingLost
    PayloadPresent
    PayloadMapped
    NoFault
PROPERTIES
    BootEnds
    GoodBootEnters
CHECK_DEADLOCK FALSE
