SPECIFICATION Spec
CONSTANTS
    P1 = p1
    P2 = p2
    c1 = c1
    c2 = c2
    m1 = m1
    m2 = m2
    Absent = absent
    Nullopt = nullopt
    NoMover = nomover
    Users = {p1, p2}
    Conns = {c1}
    Movers = {m1, m2}
    UserOf <- FirstUserOf
    PlayerOf <- MCPlayerOf
    MaxVersion = 2
PROPERTY
    WrongSessionIsTrue
CHECK_DEADLOCK FALSE
