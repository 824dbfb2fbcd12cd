SPECIFICATION Spec
CONSTANTS
    Align = 2
    Word = 64
    InfoSize = 2
    Addrs <- MCAddrs
    Infos <- MCInfos
    Cuts = {0, 1}
INVARIANT FirstOfType
PROPERTY SearchReturns
CHECK_DEADLOCK FALSE
