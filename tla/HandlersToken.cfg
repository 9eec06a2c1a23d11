SPECIFICATION Spec
CONSTANTS
    w1 = w1
    w2 = w2
    c1 = c1
    login = login
    long = long
    known = known
    unknown = unknown
    NoToken = NoToken
    NotBearer = NotBearer
    NoRequest = NoRequest
    Workers = {w1, w2}
    Subjects = {login, long}
    Connections = {c1}
    Known = {known}
    TooLong = {long}
    Requests <- MCRequests
    Methods <- HandlerMethods
    Program <- HandlerProgram
    Needs <- HandlerNeeds
    Level <- HandlerLevel
PROPERTY
    RemovedPersonIsTold
