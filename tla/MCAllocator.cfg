SPECIFICATION Spec
CONSTANTS
    Word = 24
    Regions <- MCRegions
    Zones <- MCZones
    Sizes <- MCSizes
    Aligns <- MCAligns
    MaxZones = 3
    MaxBlocks = 4
INVARIANTS
    BlocksDisjoint
    BlocksInRegion
    BlocksAvoidZones
    ReclaimableBlock
    NoSpuriousFailure
PROPERTIES
    ReserveKeepsLargest
    PoolSpec
CHECK_DEADLOCK FALSE
