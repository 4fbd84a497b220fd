SPECIFICATION Spec
CONSTANTS
    NoNode = NoNode
    Requests = {r1, r2}
    MCNames = {f}
    Path <- MCPath
    Restored <- MCRestored
    Content = {a, b}
    History = 2
    MaxCommits = 3
    MaxCrashes = 1
    Serialised = TRUE
    TornHead = TRUE
    QuietPurges = TRUE
PROPERTY OnlyNewVaultsAreEmpty
SYMMETRY MCSymmetry
