SPECIFICATION PartsSpec
CONSTANTS
    Person = {p}
    LoginName = {p, q}
    Nobody = Nobody
    AuthRequests = {r1}
    LOGIN_MAX_FAILURES = 2
    LOGIN_WINDOW = 2
    PENDING_LIFE = 1
    MaxTokens = 3
    MaxSecrets = 2
    MaxPending = 1
    MaxTime = 2
    User = {u1, u2}
    Vault = {v1, v2}
    NoUser = NoUser
    ShareRequests = {r1, r2}
    MaxLinks = 1
    n1 = "n1"
    n2 = "n2"
    n3 = "n3"
    DirNode = DirNode
    AnyPath <- MCPaths
    Photos <- MCPhotos
    FileContent = {c, d}
    RestoredName <- MCRestoredName
    GC_HISTORY = 2
    VersionLimit = 2
    MaxEdits = 4
    MaxLocks = 1
    SitePath <- MCSite
    VisitPath <- MCVisits
    SiteFile = {c}
    MaxSiteEdits = 3
    MaxSiteLinks = 1
    MaxSiteTime = 1
    NoNode = NoNode
    TreePath <- MCPaths
    MaxStamp = 3
    MaxTreeKills = 1
INVARIANT NothingDestroyed
CHECK_DEADLOCK FALSE
