SPECIFICATION Spec
CONSTANTS
    NoNode = NoNode
    Requests = {r1, r2}
    MCNames = {f}
    Path <- MCPath
    Restored <- MCRestored
    Content = {a, b}
    History = 2
    MaxCommits = 2
    MaxCrashes = 0
    Serialised = FALSE
    TornHead = FALSE
    QuietPurges = TRUE
PROPERTY PushReplacesItsParent
SYMMETRY MCSymmetry
