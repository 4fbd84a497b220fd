SPECIFICATION FairSpec
CONSTANTS
    NoNode = NoNode
    NoEntry = NoEntry
    Devices = {d1, d2}
    MCNames = {f}
    Path <- MCPath
    Names <- MCPaths
    Times = {1, 2}
    ConflictPath <- MCConflictPath
    MaxAttempts = 2
    MaxEdits = 2
    MaxFaults = 1
    MaxEvents = 2
    QuietSyncs = TRUE
PROPERTY Converges
