CONSTANTS
    r1 = r1
    q1 = q1
    None = None
    Ids <- MCIds
    Nodes = {1, 2, 3}
    Matches <- MCMatches
    Wants <- MCWants
    Reqs = {r1, q1}
    Queries = {q1}
    Options <- MCOptions
    Ends = {1, 2}
SPECIFICATION Spec
INVARIANTS CachesFresh OfflineAtLimit EndOnce
PROPERTIES AsksOnlineNode RetryUsesUp
CHECK_DEADLOCK FALSE
CONSTRAINT Bounded
