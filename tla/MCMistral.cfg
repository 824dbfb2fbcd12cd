SPECIFICATION Spec
CONSTANTS
    Word = 128
    SizeWord = 128
    PageSize = 4
    IoBuffer = 5
    MistralSize = 2
    HkaddrSize = 3
    HentrySize = 2
    MaxFaults = 2
    Align = 2
    HeaderSize = 2
    TagSize = 2
    LengthEnd = 1
    DefaultPath <- MCDefaultPath
    DefaultOutput = "a.bin"
    Machines <- MCMachines
    Inputs <- MCInputs
INVARIANTS
    ImageExact
    PayloadFound
    ExitRight
    FailureKeepsOutput
PROPERTY MainEnds
CHECK_DEADLOCK FALSE
