CONSTANTS
    p1 = p1
    p2 = p2
    Procs = {p1, p2}
    Files <- SmallFiles
    Nics <- SomeNics
    Threads = 2
    MaxCreates = 2
    MaxFaults = 1
    UINT_MAX = 2147483647
    UINT16_MAX = 65535
SPECIFICATION LiveSpec
INVARIANTS  LcoresExact ConnectedToOwn 
PROPERTIES RequestsAnswered
CHECK_DEADLOCK FALSE
