SPECIFICATION LiveSpec
CONSTANTS
    Streams <- OneWrite
    Half = 8
    MaxWr = 2
    BufSizes = {2}
    CqSize = 2
    IrdMax = 2
    OrdMax = 3
    Window = 1
    Regions <- OneRegion
CHECK_DEADLOCK FALSE
INVARIANT NoHoles
