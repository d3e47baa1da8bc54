CONSTANTS
    MaxWr = 3
    CqSize = 2
    Window = 2
    OrdMax = 1
    Requests <- SendAndRead
    MaxRequests = 2
    Faults = {"accl", "inline", "reject", "terminate", "timeout"}
SPECIFICATION Spec
INVARIANTS SuccessIsTruthful 
CHECK_DEADLOCK FALSE
