\* Two uploads against two downloads; the module may repeat an announcement and
\* another consumer's events are seen.
SPECIFICATION ClientSpec
CONSTANTS
    Uploads = {u1, u2}
    Downloads = {d1, d2}
    ForeignTexts = {x}
    MaxArgs = 1
    Repeats = TRUE
    NoRequest = NoRequest
    Empty = Empty
    ErrorText = ErrorText
SYMMETRY Symmetry
INVARIANTS
    TypeOK
    ExactlyOnce
    NoOrphanTimer
PROPERTIES
    TimeoutIsOwn
    KeepsPromise
\* After the destructor there is nothing left to do.
CHECK_DEADLOCK FALSE
