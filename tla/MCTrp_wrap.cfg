CONSTANTS
    A = A
    B = B
    Half = 16
    TxPendingSize = 4
    RetransmitMax = 0
    StartPsn = 30
    Load <- ThreeAndOne
    MaxLoad = 3
    StrayWords = {}
    Faults = {"dup", "reorder", "impatient"}
    Lossy = {}
    MaxLoss = 0
SPECIFICATION Spec
INVARIANTS Inv AckedWereDelivered
PROPERTIES ImplementsChannel
CHECK_DEADLOCK FALSE
