SPECIFICATION LiveSpec
CONSTANTS
    Qps = {q1, q2}
    Cqs = {"send_cq", "recv_cq"}
    Pairs <- TwoCqs
    UINT_MAX = 7
    MaxCreates = 2
    MaxFaults = 1
INVARIANTS RefsExact StatesExact
PROPERTIES TeardownEnds
CHECK_DEADLOCK FALSE
