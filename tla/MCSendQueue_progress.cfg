CONSTANTS
    MaxWr = 3
    CqSize = 3
    Window = 2
    OrdMax = 1
    Requests <- Mixed
    MaxRequests = 3
    Faults = {}
SPECIFICATION LiveSpec
INVARIANTS OrdExact AckAssertion
PROPERTIES EveryRequestRetires
