SPECIFICATION TransferSpec
CONSTANTS
    Size = 3
    ChunkBytes = 2
    MaxKills = 2
    MaxLost = 2
    MaxTries = 2
    Shot = {1, 2, 3}
    AddedAt <- MCAddedAt
    Oversize = {2}
    BackupRun = {r1, r2}
    LEDGER_BATCH = 2
    MaxFails = 2
    GuiVault = {v1, v2}
    NoPick = NoPick
    Folder = {d1}
    Top = Top
    Cell = {c1, c2}
    MAX_THUMB_JOBS = 1
    MaxClicks = 4
    ObjectWriter = {w1, w2}
    MaxFiles = 3
    Byte = {1, 2}
    GEAR <- MCGear
    HASH_BITS = 3
    AVG_CHUNK_BITS = 2
    MIN_CHUNK = 2
    MAX_CHUNK = 4
    STREAM_BUF = 5
    MaxBytes = 7
INVARIANTS
    TransferTypeOK
    WholeFiles
    RecordedIsStored
    NothingSkipped
    LedgerTruthful
    ThumbsBounded
    ListingBelongs
    PhotosBelong
    ObjectsWhole
    StreamedIsSliced
PROPERTIES
    
    BackupCatchesUp
    ToolbarComesBack
CHECK_DEADLOCK FALSE
