\* Two uploads, a restart at any point, failing writes, two stash uploads.
SPECIFICATION BackupSpec
CONSTANTS
    Backups = {b1, b2}
    Stashes = {s1, s2}
    MaxEdits = 0
    MaxAccounts = 1
    MaxLocks = 1
    MaxRestarts = 1
    WritesFail = TRUE
    ForeignTexts = {}
    MaxArgs = 1
    Repeats = FALSE
    NoRequest = NoRequest
    Empty = Empty
    ErrorText = ErrorText
    None = None
SYMMETRY Symmetry
INVARIANTS
    SyncedHasCid
    RecordedCidIsQueued
    QueueIsSet
