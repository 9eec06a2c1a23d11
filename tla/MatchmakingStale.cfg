SPECIFICATION Spec
CONSTANTS
    u1 = u1
    u2 = u2
    a1 = a1
    a2 = a2
    b = b
    w1 = w1
    w2 = w2
    None = none
    Users = {u1, u2}
    Clients = {a1, b}
    Conns = {w1, w2}
    UserOf <- OneEach
    MaxRequests = 4
    MaxRestarts = 0
PROPERTY
    FoundIsLatest
CHECK_DEADLOCK FALSE
