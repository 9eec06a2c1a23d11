SPECIFICATION Spec
CONSTANTS
    P1 = p1
    P2 = p2
    c1 = c1
    c2 = c2
    m1 = m1
    m2 = m2
    Absent = absent
    Nullopt = nullopt
    NoMover = nomover
    Users = {p1, p2}
    Conns = {c1, c2}
    Movers = {m1, m2}
    UserOf <- MCUserOf
    PlayerOf <- MCPlayerOf
    MaxVersion = 2
INVARIANTS
    TypeOK
    OneMoveAtATime
    OneResult
    EventsReachable
    AnsweredOnce
    NoLostUpdate
PROPERTIES
    LastMoveFirst
    KeepsMailbox
    PollAnswered
    MoveAnswered
CHECK_DEADLOCK FALSE
