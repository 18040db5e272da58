\* Two accounts and three uploads on a machine whose writes succeed; no stash
\* uploads.
SPECIFICATION BackupSpec
CONSTANTS
    Backups = {b1, b2, b3}
    Stashes = {}
    MaxEdits = 1
    MaxAccounts = 2
    MaxLocks = 2
    MaxRestarts = 0
    WritesFail = FALSE
    ForeignTexts = {}
    MaxArgs = 1
    Repeats = FALSE
    NoRequest = NoRequest
    Empty = Empty
    ErrorText = ErrorText
    None = None
SYMMETRY Symmetry
INVARIANTS
    BackupTypeOK
    DebounceOnlyInKeycard
    OwnCidUntilTimeout
    NoForeignCidUntilTimeout
    UploadingUnlessFenced
PROPERTY NeverOlderBackup
