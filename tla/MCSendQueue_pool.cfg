CONSTANTS
    MaxWr = 2
    CqSize = 3
    Window = 2
    OrdMax = 1
    Requests <- Mixed
    MaxRequests = 3
    Faults = {"fin", "close"}
SPECIFICATION Spec
INVARIANTS EntriesConserved CompletionsInOrder WireOrder FlushIsComplete
CHECK_DEADLOCK FALSE
