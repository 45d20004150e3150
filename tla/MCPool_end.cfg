CONSTANTS
    c1 = c1
    c2 = c2
    c3 = c3
    c4 = c4
    r1 = r1
    r2 = r2
    q1 = q1
    Conns = {c1,c2,c3,c4}
    None = None
    Reqs = {r1,r2,q1}
    Queries = {q1}
    ConnectionLimit = 2
    QueueLimit = 0
    MaxIdle = 1
    WaitForConnections = FALSE
    ResetOnRelease = FALSE
    GracefulEnd = FALSE
    Calls = {"release", "releaseConnection", "staleDestroy", "endConn", "end", "again"}
    TrailingError = FALSE
SPECIFICATION Spec
SYMMETRY Symmetry
INVARIANTS EndMeansEnded
