SPECIFICATION Spec
CONSTANTS
    NoNode = NoNode
    Requests = {r1, r2}
    MCNames = {f}
    Path <- MCPath
    Restored <- MCRestored
    Content = {a, b}
    History = 2
    MaxCommits = 3
    MaxCrashes = 0
    Serialised = TRUE
    TornHead = FALSE
    QuietPurges = FALSE
INVARIANT HistoryReadable
SYMMETRY MCSymmetry
