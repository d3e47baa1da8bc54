CONSTANTS
    Clients = {"c1"}
    Children = {"s1"}
    Backlog = 1
    MaxDepth = 2
    ClientDepths <- AskedFor
    ServerDepths <- Granted
    MaxFaults = 1
    Failures = {"connect", "upcall", "send", "route", "accept"}
SPECIFICATION LiveSpec
INVARIANTS ReferencesExact  OneAnswer LockOrder
 
\* Nothing obliges an application to connect or to close.
CHECK_DEADLOCK FALSE
