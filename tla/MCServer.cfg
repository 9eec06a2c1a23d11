SPECIFICATION Spec
CONSTANTS
    u1 = u1
    u2 = u2
    t1 = t1
    t2 = t2
    x = x
    None = none
    NoToken = notoken
    NotBearer = notbearer
    Bogus = bogus
    Idle = idle
    Users = {u1, u2}
    Conns = {c1, c2}
    Workers = {w1, w2}
    Passwords = {x}
    Tokens = {t1, t2}
    Requests <- MCRequests
INVARIANTS
    TypeOK
    OneOperation
    ActsAsOwner
    ParkedIsSubscribed
PROPERTIES
    RequestsServed
CHECK_DEADLOCK FALSE
