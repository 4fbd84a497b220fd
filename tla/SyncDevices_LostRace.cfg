SPECIFICATION Spec
CONSTANTS
    NoNode = NoNode
    NoEntry = NoEntry
    Devices = {d1, d2}
    MCNames = {f, g}
    Path <- MCPath
    Names <- MCPaths
    Times = {1}
    ConflictPath <- MCConflictPath
    MaxAttempts = 2
    MaxEdits = 3
    MaxFaults = 0
    MaxEvents = 3
    QuietSyncs = TRUE
PROPERTY UntouchedTakesServer
SYMMETRY MCSymmetry
