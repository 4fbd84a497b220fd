SPECIFICATION Spec
CONSTANTS
    NoNode = NoNode
    NoEntry = NoEntry
    Devices = {d1, d2}
    MCNames = {f}
    Path <- MCPath
    Names <- MCPaths
    Times = {1, 2}
    ConflictPath <- MCConflictPath
    MaxAttempts = 2
    MaxEdits = 2
    MaxFaults = 0
    MaxEvents = 3
    QuietSyncs = FALSE
INVARIANT EditsSurvive
SYMMETRY MCSymmetry
