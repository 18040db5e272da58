\* Two uploads, a lock and a restart, under the fairness of the event loop's timers.
SPECIFICATION FairBackupSpec
CONSTANTS
    Backups = {b1, b2}
    Stashes = {}
    MaxEdits = 1
    MaxAccounts = 1
    MaxLocks = 1
    MaxRestarts = 1
    WritesFail = FALSE
    ForeignTexts = {}
    MaxArgs = 1
    Repeats = FALSE
    NoRequest = NoRequest
    Empty = Empty
    ErrorText = ErrorText
    None = None
PROPERTY StartedUploadReported
