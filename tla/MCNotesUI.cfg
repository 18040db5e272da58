\* Two notes, each written once over an empty or a restored text, two accounts,
\* and two calls that fail or handlers that run inside another.
SPECIFICATION UiSpec
CONSTANTS
    MaxNotes = 2
    MaxRestored = 1
    MaxVersion = 1
    MaxAccounts = 2
    MaxFaults = 2
INVARIANTS
    UiTypeOK
    OwnTextUnlessMisplaced
    EditsKept
PROPERTY KeyForItsScreen
