\* Two mnemonic imports and two cards; every statement may fail and the process
\* may die between any two.
SPECIFICATION AccountSpec
CONSTANTS
    Imports = {i1, i2}
    Cards = {c1, c2}
    BackupSize = 2
    MaxRows = 3
    StatementsFail = TRUE
    None = None
SYMMETRY Symmetry
INVARIANTS
    AccountTypeOK
    NotesReadable
    NothingBehindImport
    InitializedIsWhole
    NoteScreenIsSession
PROPERTY RestoredWhole
