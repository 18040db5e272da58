----------------------------- MODULE PinLockout -----------------------------
(* The brute-force protection of NotesBackend::unlockWithPin                  *)
(* (src/core/NotesBackend.cpp, issue #2): after MAX_ATTEMPTS wrong PINs each  *)
(* further guess has to wait, longer every time.  The counter and the end of  *)
(* the lockout are kept in memory (m_failedAttempts, m_lockoutUntil) and in   *)
(* the rows pin_failed_attempts and pin_lockout_until of the database, which  *)
(* is written statement by statement; the constructor reads the rows, and a   *)
(* wipe removes them without touching the memory.                             *)
EXTENDS Naturals, Sequences

CONSTANTS
    MaxAttempts,    \* MAX_ATTEMPTS
    Backoff,        \* BACKOFF_SECS
    MaxClock,       \* bound: how far the clock runs
    MaxWrong        \* bound: m_failedAttempts, wrong PINs on an account

ASSUME LockoutAssumption ==
    /\ MaxAttempts \in Nat \ {0}
    /\ MaxClock \in Nat
    /\ MaxWrong \in Nat
    /\ Backoff \in Seq(Nat)
    /\ Backoff # <<>>
    /\ \A i, j \in 1..Len(Backoff) : i <= j => Backoff[i] <= Backoff[j]

VARIABLES
    now,            \* QDateTime::currentSecsSinceEpoch()
    account,        \* a wrapped key is in the database
    attempts,       \* m_failedAttempts
    until,          \* m_lockoutUntil; 0: no lockout
    diskAttempts,   \* meta row pin_failed_attempts; 0 when absent
    diskUntil,      \* meta row pin_lockout_until; 0 when absent
    wrong,          \* history: wrong PINs tried on the account since the last right one
    lastWrong,      \* history: when the last of them was tried
    torn,           \* history: the rows miss a write, by an error or a crash,
                    \* or were written from a misread counter
    misread,        \* history: the constructor could not read a row, and the
                    \* memory holds less than the rows say
    carried         \* history: the counter includes PINs of an account wiped since

lockoutVars == <<now, account, attempts, until, diskAttempts, diskUntil,
                 wrong, lastWrong, torn, misread, carried>>

LockoutInit ==
    /\ now = 0
    /\ account = FALSE
    /\ attempts = 0 /\ until = 0
    /\ diskAttempts = 0 /\ diskUntil = 0
    /\ wrong = 0 /\ lastWrong = 0
    /\ torn = FALSE /\ misread = FALSE /\ carried = FALSE

LockedOut == until > 0 /\ now < until

\* The lockout that follows the n-th wrong PIN: idx = qMin(n - MAX_ATTEMPTS,
\* BACKOFF_COUNT - 1), counted from 0.
Delay(n) ==
    LET i == n - MaxAttempts + 1
    IN Backoff[IF i < Len(Backoff) THEN i ELSE Len(Backoff)]

-----------------------------------------------------------------------------
\* unlockWithPin returns before it tries the PIN: too short, or no account.  An
\* expired lockout is forgotten first.  (During a lockout nothing happens.)
RefusedPin ==
    /\ ~LockedOut
    /\ until' = 0
    /\ UNCHANGED <<now, account, attempts, diskAttempts, diskUntil,
                   wrong, lastWrong, torn, misread, carried>>

\* A wrong PIN: counted, and from MAX_ATTEMPTS on followed by a lockout.  The
\* two rows are written one after the other, each write may fail.
WrongPin ==
    /\ account /\ ~LockedOut /\ attempts < MaxWrong /\ wrong < MaxWrong
    /\ LET counted == attempts + 1
           over == counted >= MaxAttempts
       IN \E attemptsOk, untilOk \in BOOLEAN :
            /\ attempts' = counted
            /\ diskAttempts' = IF attemptsOk THEN counted ELSE diskAttempts
            /\ until' = IF over THEN now + Delay(counted) ELSE 0
            /\ diskUntil' = IF over /\ untilOk THEN now + Delay(counted) ELSE diskUntil
            /\ torn' = (torn \/ misread \/ ~attemptsOk \/ (over /\ ~untilOk))
    /\ wrong' = wrong + 1 /\ lastWrong' = now
    /\ UNCHANGED <<now, account, misread, carried>>

\* Fault: the counter stays.
RightPinStillCounted ==
    /\ account /\ ~LockedOut
    /\ until' = 0
    /\ wrong' = 0
    /\ UNCHANGED <<now, account, attempts, diskAttempts, diskUntil, lastWrong,
                   torn, misread, carried>>

\* The right PIN: both are reset.
RightPin ==
    /\ account /\ ~LockedOut
    /\ attempts' = 0 /\ until' = 0
    /\ \E attemptsOk, untilOk \in BOOLEAN :
         /\ diskAttempts' = IF attemptsOk THEN 0 ELSE diskAttempts
         /\ diskUntil' = IF untilOk THEN 0 ELSE diskUntil
         /\ torn' = (torn \/ ~attemptsOk \/ ~untilOk)
    /\ wrong' = 0 /\ misread' = FALSE /\ carried' = FALSE
    /\ UNCHANGED <<now, account, lastWrong>>

-----------------------------------------------------------------------------
\* importMnemonic, when it succeeds: the rows and the memory stay as they are.
Import ==
    /\ ~account
    /\ account' = TRUE
    /\ UNCHANGED <<now, attempts, until, diskAttempts, diskUntil,
                   wrong, lastWrong, torn, misread, carried>>

\* resetAndWipe, and the rollback of a failed import: the database is removed.
\* (When its file cannot be, nothing here changes.)
Wipe ==
    /\ account' = FALSE
    /\ diskAttempts' = 0 /\ diskUntil' = 0
    /\ wrong' = 0 /\ torn' = FALSE /\ misread' = FALSE
    /\ carried' = (attempts > 0 \/ until > 0)
    /\ UNCHANGED <<now, attempts, until, lastWrong>>

\* Fault: the lockout is not restored.
RestartUnlocked ==
    /\ attempts' = diskAttempts /\ until' = 0
    /\ misread' = FALSE
    /\ carried' = (carried /\ diskAttempts > 0)
    /\ UNCHANGED <<now, account, diskAttempts, diskUntil, wrong, lastWrong, torn>>

\* The constructor of a new process restores the counter and the lockout.
\* loadMeta answers a query that fails as it answers an absent row: with the
\* default "0".
Restart ==
    /\ \E attemptsOk, untilOk \in BOOLEAN :
         /\ attempts' = IF attemptsOk THEN diskAttempts ELSE 0
         /\ until' = IF untilOk THEN diskUntil ELSE 0
    /\ misread' = (attempts' < diskAttempts \/ until' < diskUntil)
    /\ carried' = (carried /\ diskAttempts > 0)
    /\ UNCHANGED <<now, account, diskAttempts, diskUntil, wrong, lastWrong, torn>>

\* The process dies between a wrong PIN and the end of its writes.
CrashInWrongPin ==
    /\ account /\ ~LockedOut /\ attempts < MaxWrong /\ wrong < MaxWrong
    /\ \E counted \in {diskAttempts, attempts + 1} :
         /\ diskAttempts' = counted /\ attempts' = counted
    /\ until' = diskUntil
    /\ wrong' = wrong + 1 /\ lastWrong' = now
    /\ torn' = TRUE /\ misread' = FALSE
    /\ UNCHANGED <<now, account, diskUntil, carried>>

\* The process dies after the right PIN, between the two resets.  (Before the
\* first of them it is as if the PIN had not been tried.  That the next
\* constructor cannot read the rows is a Restart after this.)
CrashInRightPin ==
    /\ account /\ ~LockedOut
    /\ diskAttempts' = 0 /\ attempts' = 0
    /\ until' = diskUntil
    /\ wrong' = 0 /\ carried' = FALSE
    /\ torn' = (torn \/ misread) /\ misread' = FALSE
    /\ UNCHANGED <<now, account, diskUntil, lastWrong>>

Tick ==
    /\ now < MaxClock
    /\ now' = now + 1
    /\ UNCHANGED <<account, attempts, until, diskAttempts, diskUntil,
                   wrong, lastWrong, torn, misread, carried>>

LockoutNext ==
    \/ RefusedPin
    \/ WrongPin
    \/ RightPin
    \/ Import
    \/ Wipe
    \/ Restart
    \/ CrashInWrongPin
    \/ CrashInRightPin
    \/ Tick

LockoutSpec == LockoutInit /\ [][LockoutNext]_lockoutVars

-----------------------------------------------------------------------------
LockoutTypeOK ==
    /\ now \in Nat /\ lastWrong \in Nat
    /\ account \in BOOLEAN
    /\ attempts \in Nat /\ diskAttempts \in Nat /\ wrong \in Nat
    /\ until \in Nat /\ diskUntil \in Nat
    /\ torn \in BOOLEAN /\ misread \in BOOLEAN /\ carried \in BOOLEAN

\* README: "5 attempts, then exponential lockout".  Once MAX_ATTEMPTS wrong
\* PINs were tried on an account, each further one is tried only after the wait
\* that belongs to their number, whatever restarts, wipes of earlier accounts
\* and short PINs come between, as long as the rows could be written and the
\* last start could read them.  (A start that cannot gives the attempts back,
\* and the next wrong PIN writes the small counter over the rows: torn.)
TriesPin == account /\ account' /\ wrong' # wrong
GuessesAreSpaced ==
    [][(TriesPin /\ wrong >= MaxAttempts /\ ~torn /\ ~misread) =>
          now >= lastWrong + Delay(wrong)]_lockoutVars

\* Before the MAX_ATTEMPTS-th wrong PIN there is no lockout, unless PINs of an
\* account wiped since are still counted: resetAndWipe and the imports do not
\* reset m_failedAttempts and m_lockoutUntil.
NoEarlyLockout ==
    (wrong < MaxAttempts /\ ~torn /\ ~carried) => ~LockedOut
==============================================================================
