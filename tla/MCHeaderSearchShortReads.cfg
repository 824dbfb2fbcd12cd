SPECIFICATION Spec
CONSTANTS
    Word = 12
    Search = 5
    HeaderCells = 2
    Garbage <- MCGarbage
    Files <- LongFiles
    ShortReads = TRUE
INVARIANT FoundIsHeader
CHECK_DEADLOCK FALSE
