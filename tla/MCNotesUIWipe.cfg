\* No call fails and no handler runs inside another; an account is wiped and a
\* backup restored into the next one.
SPECIFICATION UiSpec
CONSTANTS
    MaxNotes = 2
    MaxRestored = 1
    MaxVersion = 1
    MaxAccounts = 2
    MaxFaults = 0
INVARIANT OwnText
