CONSTANTS
    A = A
    B = B
    Half = 8
    TxPendingSize = 2
    RetransmitMax = 1
    StartPsn = 0
    Load <- ThreeAndOne
    MaxLoad = 3
    StrayWords = {1}
    Faults = {"reorder", "nomem", "close", "terminate"}
    Lossy = {"data", "ack", "sack", "fin"}
    MaxLoss = 1
SPECIFICATION Spec
INVARIANTS WindowHasSlots NothingForgotten ReceiveStateExact
CHECK_DEADLOCK FALSE
