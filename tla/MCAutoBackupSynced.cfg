\* A note saved while an upload is under way.
SPECIFICATION BackupSpec
CONSTANTS
    Backups = {b1, b2}
    Stashes = {}
    MaxEdits = 1
    MaxAccounts = 1
    MaxLocks = 0
    MaxRestarts = 0
    WritesFail = FALSE
    ForeignTexts = {}
    MaxArgs = 1
    Repeats = FALSE
    NoRequest = NoRequest
    Empty = Empty
    ErrorText = ErrorText
    None = None
INVARIANT SyncedIsCurrent
