CONSTANTS
    A = A
    B = B
    Half = 16
    TxPendingSize = 4
    RetransmitMax = 2
    StartPsn = 30
    Load <- OneWay4
    MaxLoad = 4
    StrayWords = {}
    Faults = {}
    Lossy = {"data"}
    MaxLoss = 2
SPECIFICATION FairSpec
PROPERTIES EverythingAcked
CHECK_DEADLOCK FALSE
