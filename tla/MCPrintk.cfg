SPECIFICATION Spec
CONSTANTS
    Lines = 3
    Columns = 4
    TabSize = 2
    ByteSize = 5
    Glyphs <- MCGlyphs
    IntWord = 256
    Calls <- MCCalls
    MaxCalls = 3
INVARIANTS
    ScreenOK
    CursorShown
    OutputWhole
    FieldReadsBack
PROPERTIES
    PageSpec
    PrintReturns
CHECK_DEADLOCK FALSE
