SPECIFICATION LiveSpec
CONSTANTS
    Callers = {t1, t2}
    Ctx = ctx
    Pds = {p}
    Cqs = {c1, c2}
    Qps = {q}
    Limit <- Tight
    MaxNet = 4
    MaxFaults = 1
CHECK_DEADLOCK FALSE
INVARIANTS  LimitsHold DeviceExact
PROPERTIES TeardownEnds
