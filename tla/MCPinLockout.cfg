\* Three free attempts and a schedule of three lockouts, the last one repeated.
SPECIFICATION LockoutSpec
CONSTANTS
    MaxAttempts = 3
    Backoff <- MCBackoff
    MaxClock = 8
    MaxWrong = 6
INVARIANTS
    NoEarlyLockout
PROPERTY GuessesAreSpaced
