CONSTANTS
    c1 = c1
    c2 = c2
    c3 = c3
    c4 = c4
    r1 = r1
    r2 = r2
    q1 = q1
    Conns = {c1,c2,c3,c4}
    None = None
    Reqs = {r1,r2,q1}
    Queries = {q1}
    ConnectionLimit = 1
    QueueLimit = 0
    MaxIdle = 1
    WaitForConnections = TRUE
    ResetOnRelease = TRUE
    GracefulEnd = TRUE
    Calls = {"release", "end"}
    TrailingError = FALSE
SPECIFICATION FairSpec
CHECK_DEADLOCK FALSE
PROPERTIES RequestAnswered  
