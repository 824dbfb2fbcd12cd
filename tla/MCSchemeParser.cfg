SPECIFICATION ParserSpec
CONSTANTS
    Align = 2
    HeaderSize = 4
    TagSize = 2
    LengthEnd = 3
    Inputs <- MCInputs
INVARIANT SchemeRight
PROPERTY ParseReturns
CHECK_DEADLOCK FALSE
