CONSTANTS
    Conns = {"a", "b"}
    Config <- MCConfig
    Tables <- MCTables
    Queries <- MCQueries
    LaterQueries <- MCLaterQueries
    MaxResults = 2
    MaxParsers = 2
    MaxCachedHours = 2
    Zones <- MCZones
    FirstZone = "X"
    Requests <- MCRequests
    LocalMinutes = 3
SPECIFICATION Spec
CHECK_DEADLOCK FALSE
INVARIANTS RowIsExact  ServerUnderstands 
