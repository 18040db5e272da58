\* From no database or one of either older version; every statement may fail
\* and the process may die between any two.
SPECIFICATION StoreSpec
CONSTANTS
    Words = {v, w}
    Blanks = {b}
    Empty = Empty
    Unwritten = Unwritten
    MaxNotes = 2
    StatementsFail = TRUE
    None = None
SYMMETRY Symmetry
INVARIANTS
    StoreTypeOK
    SchemaHeals
    TitlesEncrypted
    OkIsWhole
PROPERTIES
    RestoreGivesBack
    KeepsNotebook
