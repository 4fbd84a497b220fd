SPECIFICATION Spec
CONSTANTS
    NoNode = NoNode
    NoEntry = NoEntry
    Devices = {d1, d2}
    MCNames = {f}
    Path <- MCPath
    Names <- MCPaths
    Times = {1, 2}
    ConflictPath <- MCConflictPath
    MaxAttempts = 2
    MaxEdits = 2
    MaxFaults = 1
    MaxEvents = 3
    QuietSyncs = TRUE
INVARIANTS
    TypeOK
    EditsSurvive
    CacheHonest
    BaseWasCommitted
PROPERTIES
    CommitNeverReverts
    KeepsTheLog
SYMMETRY MCSymmetry
