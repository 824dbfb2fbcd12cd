SPECIFICATION Spec
CONSTANTS
    Word = 12
    Search = 5
    HeaderCells = 2
    Garbage <- MCGarbage
    Files <- AllFiles
    ShortReads = FALSE
INVARIANT FirstFound
PROPERTY SearchEnds
CHECK_DEADLOCK FALSE
