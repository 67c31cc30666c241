CONSTANTS
    Window = 3
    Interval = 1
    TokenLimit <- MCLimit
    NumChannels = 2
    Roles <- MCRoles
    Streaming = {2}
    NumWorkers = 2
    MaxInFlight <- MCInFlight
    NumChunks = 2
    ChunkTokens <- MCTokens
    AfterChunks <- MCAfter
    MaxCalls = 3
    MaxCost = 2
    ChunkCost <- MCCost
    MaxRetries = 1
    Threshold = 1
    MaxMishaps = 1
    EarlierCaches <- MCCaches
    Horizon = 0
SPECIFICATION RSpec
INVARIANTS QuotaKept  LoadAccounts
PROPERTY RunEnds
CHECK_DEADLOCK FALSE
