SPECIFICATION Spec
CONSTANTS
    Threads = {t1, t2, t3, t4}
    Connections = {c1, c2}
    Null = null
    MaxRequests = 2
INVARIANTS
    TypeOK
    HandedOutOnce
    NoLostWakeup
PROPERTIES
    Served
    AllocatesExclusively
CHECK_DEADLOCK FALSE
