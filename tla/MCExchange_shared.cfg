CONSTANTS
    Conns = {"a", "d"}
    Config <- MCConfig
    Tables <- MCTables
    Queries <- MCSharedQueries
    LaterQueries <- MCSharedQueries
    MaxResults = 2
    MaxParsers = 2
    MaxCachedHours = 2
    Zones <- MCZones
    FirstZone = "X"
    Requests <- MCFewRequests
    LocalMinutes = 3
SPECIFICATION Spec
CHECK_DEADLOCK FALSE
INVARIANT ParserFits
