\* Nothing fails: which notes does a backup leave out?
SPECIFICATION StoreSpec
CONSTANTS
    Words = {v, w}
    Blanks = {b}
    Empty = Empty
    Unwritten = Unwritten
    MaxNotes = 2
    StatementsFail = FALSE
    None = None
INVARIANT SkippedIsUnreadable
