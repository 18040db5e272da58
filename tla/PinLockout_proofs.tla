-------------------------- MODULE PinLockout_proofs --------------------------
(* Proofs about PinLockout: guesses are spaced, and nobody is locked out       *)
(* early, for every schedule that does not shrink and every number of free     *)
(* attempts.                                                                   *)
EXTENDS PinLockout, TLAPS

\* The lockout after n wrong PINs is a number of seconds.
LEMMA DelayType ==
    ASSUME NEW n \in Nat, n >= MaxAttempts
    PROVE  Delay(n) \in Nat
  <1>1. Len(Backoff) \in Nat /\ Len(Backoff) > 0
    BY LockoutAssumption
  <1>2. n - MaxAttempts + 1 \in Nat \ {0}
    BY LockoutAssumption
  <1> QED
    BY <1>1, <1>2, LockoutAssumption DEF Delay

\* More wrong PINs never make the lockout shorter.
LEMMA DelayMonotone ==
    ASSUME NEW m \in Nat, NEW n \in Nat, MaxAttempts <= m, m <= n
    PROVE  Delay(m) <= Delay(n)
  <1> DEFINE place(k) == IF k - MaxAttempts + 1 < Len(Backoff)
                         THEN k - MaxAttempts + 1 ELSE Len(Backoff)
  <1>1. Len(Backoff) \in Nat /\ Len(Backoff) > 0
    BY LockoutAssumption
  <1>2. place(m) \in 1..Len(Backoff) /\ place(n) \in 1..Len(Backoff) /\ place(m) <= place(n)
    BY <1>1, LockoutAssumption
  <1>3. Delay(m) = Backoff[place(m)] /\ Delay(n) = Backoff[place(n)]
    BY DEF Delay
  <1> HIDE DEF place
  <1> QED
    BY <1>2, <1>3, LockoutAssumption

-----------------------------------------------------------------------------
\* Types, and the clock only moves forward.
Typed == LockoutTypeOK /\ lastWrong <= now

\* Rows and memory count at least the wrong PINs of the account; a wipe leaves
\* more in the memory than in the rows, a failed read less.
Counted == ~torn => wrong <= diskAttempts /\ (~misread => diskAttempts <= attempts)

\* While the account has used up its attempts, both places bar the next PIN
\* until its time has come; the memory may have forgotten a lockout that is over.
Barred ==
    (~torn /\ wrong >= MaxAttempts) =>
        /\ ~misread => until >= lastWrong + Delay(wrong) \/ now >= lastWrong + Delay(wrong)
        /\ diskUntil >= lastWrong + Delay(wrong)

\* A lockout in the rows is over, or it is the one in memory; it is over when
\* the row of the counter has not reached the limit.
RowsOver ==
    ~torn =>
        /\ ~misread => diskUntil <= now \/ diskUntil <= until
        /\ diskAttempts < MaxAttempts => diskUntil <= now

\* Without a wiped account's PINs the counters are exact.
Exact ==
    (~torn /\ ~carried) =>
        /\ diskAttempts = wrong
        /\ ~misread => attempts = wrong
        /\ wrong < MaxAttempts => until <= now

LockoutInv == Typed /\ Counted /\ Barred /\ RowsOver /\ Exact

-----------------------------------------------------------------------------
LEMMA TypedStep == Typed /\ [LockoutNext]_lockoutVars => Typed'
  <1> SUFFICES ASSUME Typed, [LockoutNext]_lockoutVars PROVE Typed'
    OBVIOUS
  <1> USE DEF Typed, LockoutTypeOK
  <1>1. CASE RefusedPin
    BY <1>1 DEF RefusedPin
  <1>2. CASE WrongPin
    <2>1. attempts + 1 >= MaxAttempts => now + Delay(attempts + 1) \in Nat
      BY DelayType
    <2> QED
      BY <1>2, <2>1 DEF WrongPin
  <1>3. CASE RightPin
    <2>1. torn' \in BOOLEAN
      BY <1>3 DEF RightPin
    <2>2. diskAttempts' \in Nat /\ diskUntil' \in Nat
      BY <1>3 DEF RightPin
    <2> QED
      BY <1>3, <2>1, <2>2 DEF RightPin
  <1>4. CASE Import
    BY <1>4 DEF Import
  <1>5. CASE Wipe
    BY <1>5 DEF Wipe
  <1>6. CASE Restart
    BY <1>6 DEF Restart
  <1>7. CASE CrashInWrongPin
    <2>1. torn' \in BOOLEAN /\ misread' \in BOOLEAN /\ carried' \in BOOLEAN /\ account' \in BOOLEAN
      BY <1>7 DEF CrashInWrongPin
    <2>2. diskAttempts' \in Nat /\ attempts' \in Nat
      BY <1>7 DEF CrashInWrongPin
    <2>3. /\ UNCHANGED <<now, diskUntil>> /\ until' = diskUntil
          /\ wrong' = wrong + 1 /\ lastWrong' = now
      BY <1>7 DEF CrashInWrongPin
    <2> QED
      BY <2>1, <2>2, <2>3
  <1>8. CASE CrashInRightPin
    BY <1>8 DEF CrashInRightPin
  <1>9. CASE Tick
    BY <1>9 DEF Tick
  <1>10. CASE UNCHANGED lockoutVars
    BY <1>10 DEF lockoutVars
  <1> QED
    BY <1>1, <1>2, <1>3, <1>4, <1>5, <1>6, <1>7, <1>8, <1>9, <1>10 DEF LockoutNext

\* One step keeps the rest of the invariant.
LEMMA LockoutStep == LockoutInv /\ [LockoutNext]_lockoutVars => LockoutInv'
  <1> SUFFICES ASSUME LockoutInv, [LockoutNext]_lockoutVars PROVE LockoutInv'
    OBVIOUS
  <1>0. Typed'
    BY TypedStep DEF LockoutInv
  <1>t. Typed /\ MaxAttempts \in Nat \ {0}
    BY LockoutAssumption DEF LockoutInv
  <1>a. wrong >= MaxAttempts => Delay(wrong) \in Nat
    BY <1>t, DelayType DEF Typed, LockoutTypeOK
  <1> USE DEF LockoutInv, Typed, LockoutTypeOK, Counted, Barred, RowsOver, Exact
  <1>1. CASE RefusedPin
    <2>1. until <= now
      BY <1>1, <1>t DEF RefusedPin, LockedOut
    <2> QED
      BY <1>0, <1>1, <1>a, <1>t, <2>1 DEF RefusedPin
  <1>2. CASE WrongPin
    <2> DEFINE over == attempts + 1 >= MaxAttempts
    <2>1. until <= now
      BY <1>2, <1>t DEF WrongPin, LockedOut
    <2>2. over => Delay(attempts + 1) \in Nat
      BY <1>t, DelayType
    <2>3. wrong <= attempts /\ wrong + 1 >= MaxAttempts =>
             Delay(wrong + 1) \in Nat /\ Delay(wrong + 1) <= Delay(attempts + 1)
      BY <1>t, DelayType, DelayMonotone
    <2>4. /\ attempts' = attempts + 1
          /\ until' = IF over THEN now + Delay(attempts + 1) ELSE 0
          /\ wrong' = wrong + 1 /\ lastWrong' = now
          /\ UNCHANGED <<now, account, misread, carried>>
      BY <1>2 DEF WrongPin
    <2>5. ~torn' => /\ ~torn /\ ~misread
                    /\ diskAttempts' = attempts + 1
                    /\ diskUntil' = IF over THEN now + Delay(attempts + 1) ELSE diskUntil
      BY <1>2 DEF WrongPin
    <2> HIDE DEF over
    <2>6. Counted'
      BY <2>4, <2>5, <1>t
    <2>7. Barred'
      <3> SUFFICES ASSUME ~torn', wrong' >= MaxAttempts
                   PROVE  until' >= lastWrong' + Delay(wrong') /\ diskUntil' >= lastWrong' + Delay(wrong')
        OBVIOUS
      <3>1. over /\ wrong <= attempts /\ wrong + 1 >= MaxAttempts
        BY <2>4, <2>5, <1>t DEF over
      <3>2. Delay(wrong') = Delay(wrong + 1)
        BY <2>4
      <3> QED
        BY <3>1, <3>2, <2>2, <2>3, <2>4, <2>5, <1>t
    <2>8. RowsOver'
      BY <2>1, <2>2, <2>4, <2>5, <1>t DEF over
    <2>9. Exact'
      BY <2>4, <2>5, <1>t DEF over
    <2> QED
      BY <1>0, <2>6, <2>7, <2>8, <2>9
  <1>3. CASE RightPin
    <2>1. /\ wrong' = 0 /\ attempts' = 0 /\ until' = 0
          /\ ~torn' => diskAttempts' = 0 /\ diskUntil' = 0
          /\ now' = now /\ ~misread'
      BY <1>3 DEF RightPin
    <2>2. ~(wrong' >= MaxAttempts)
      BY <2>1, <1>t
    <2> QED
      BY <1>0, <1>t, <2>1, <2>2
  <1>4. CASE Import
    BY <1>0, <1>4, <1>t DEF Import
  <1>5. CASE Wipe
    <2>1. /\ wrong' = 0 /\ diskAttempts' = 0 /\ diskUntil' = 0
          /\ UNCHANGED <<now, attempts, until>> /\ ~misread'
      BY <1>5 DEF Wipe
    <2>2. ~carried' => attempts = 0 /\ until = 0
      <3>1. carried' = (attempts > 0 \/ until > 0)
        BY <1>5 DEF Wipe
      <3>2. ~(attempts > 0 \/ until > 0) => attempts = 0 /\ until = 0
        OBVIOUS
      <3> QED
        BY <3>1, <3>2, Zenon
    <2>3. ~(wrong' >= MaxAttempts)
      BY <2>1, <1>t
    <2>4. Counted'
      BY <1>0, <2>1
    <2>5. Barred'
      BY <2>3
    <2>6. RowsOver'
      BY <1>0, <2>1
    <2>7. Exact'
      BY <1>0, <2>1, <2>2
    <2> QED
      BY <1>0, <2>4, <2>5, <2>6, <2>7
  <1>6. CASE Restart
    <2>1. /\ attempts' \in {diskAttempts, 0} /\ until' \in {diskUntil, 0}
          /\ UNCHANGED <<now, diskAttempts, diskUntil, wrong, lastWrong, torn>>
      BY <1>6 DEF Restart
    <2>2. misread' = (attempts' < diskAttempts \/ until' < diskUntil)
      BY <1>6 DEF Restart
    <2>3. attempts' <= diskAttempts /\ until' <= diskUntil
      BY <1>t, <2>1
    <2>4. ~misread' => attempts' = diskAttempts /\ until' = diskUntil
      <3>1. ~(attempts' < diskAttempts \/ until' < diskUntil) =>
               attempts' = diskAttempts /\ until' = diskUntil
        BY <1>t, <2>1
      <3> QED
        BY <2>2, <3>1, Zenon
    <2>5. ~carried' => ~carried \/ diskAttempts = 0
      <3>1. carried' = (carried /\ diskAttempts > 0)
        BY <1>6 DEF Restart
      <3>2. ~(diskAttempts > 0) => diskAttempts = 0
        BY <1>t
      <3> QED
        BY <3>1, <3>2, Zenon
    <2>6. Counted'
      BY <1>t, <2>1, <2>4
    <2>7. Barred'
      BY <1>a, <1>t, <2>1, <2>4
    <2>8. RowsOver'
      BY <1>t, <2>1, <2>4
    <2>9. Exact'
      <3>1. ~torn /\ diskAttempts = 0 => wrong = 0
        BY <1>t
      <3>2. (~torn' /\ ~carried') => diskAttempts' = wrong'
        BY <1>t, <2>1, <2>5, <3>1
      <3>3. (~torn' /\ ~carried' /\ wrong' < MaxAttempts) => until' <= now'
        <4>1. (~torn /\ wrong < MaxAttempts /\ diskAttempts = wrong) => diskUntil <= now
          BY <1>t
        <4>2. diskUntil <= now => until' <= now
          BY <1>t, <2>1
        <4> QED
          BY <2>1, <3>2, <4>1, <4>2
      <3> QED
        BY <2>1, <2>4, <3>2, <3>3
    <2> QED
      BY <1>0, <2>6, <2>7, <2>8, <2>9
  <1>7. CASE CrashInWrongPin
    BY <1>0, <1>7, <1>t DEF CrashInWrongPin
  <1>8. CASE CrashInRightPin
    <2>1. until <= now
      BY <1>8, <1>t DEF CrashInRightPin, LockedOut
    <2> QED
      BY <1>0, <1>8, <1>t, <2>1 DEF CrashInRightPin
  <1>9. CASE Tick
    BY <1>0, <1>9, <1>a, <1>t DEF Tick
  <1>10. CASE UNCHANGED lockoutVars
    BY <1>0, <1>10, <1>t DEF lockoutVars
  <1> QED
    BY <1>1, <1>2, <1>3, <1>4, <1>5, <1>6, <1>7, <1>8, <1>9, <1>10 DEF LockoutNext

\* The invariant holds throughout.
THEOREM LockoutInvariance == LockoutSpec => []LockoutInv
  <1>1. ASSUME LockoutInit PROVE LockoutInv
    <2>1. ~(wrong >= MaxAttempts)
      BY <1>1, LockoutAssumption DEF LockoutInit
    <2>2. Typed
      <3>1. account \in BOOLEAN /\ torn \in BOOLEAN /\ misread \in BOOLEAN /\ carried \in BOOLEAN
        BY <1>1 DEF LockoutInit
      <3> QED
        BY <1>1, <3>1 DEF LockoutInit, Typed, LockoutTypeOK
    <2>3. Counted /\ RowsOver /\ Exact
      BY <1>1 DEF LockoutInit, Counted, RowsOver, Exact
    <2>4. Barred
      BY <2>1 DEF Barred
    <2> QED
      BY <2>2, <2>3, <2>4 DEF LockoutInv
  <1> QED
    BY <1>1, LockoutStep, PTL DEF LockoutSpec

\* unlockWithPin: no lockout before MAX_ATTEMPTS wrong PINs, unless those of a
\* wiped account are still counted.
THEOREM NobodyLockedOutEarly == LockoutSpec => []NoEarlyLockout
  <1>1. LockoutInv => NoEarlyLockout
    BY LockoutAssumption DEF LockoutInv, Typed, LockoutTypeOK, Exact, NoEarlyLockout, LockedOut
  <1> QED
    BY <1>1, LockoutInvariance, PTL

\* unlockWithPin: from MAX_ATTEMPTS wrong PINs on, a PIN is tried only after
\* the wait that belongs to their number.
THEOREM GuessesSpaced == LockoutSpec => GuessesAreSpaced
  <1>1. ASSUME LockoutInv, LockoutNext, TriesPin, wrong >= MaxAttempts, ~torn, ~misread
        PROVE  now >= lastWrong + Delay(wrong)
    <2>1. WrongPin \/ RightPin \/ CrashInWrongPin \/ CrashInRightPin
      BY <1>1 DEF LockoutNext, TriesPin, RefusedPin, Import, Wipe, Restart, Tick
    <2>2. ~LockedOut
      BY <2>1 DEF WrongPin, RightPin, CrashInWrongPin, CrashInRightPin
    <2>3. Delay(wrong) \in Nat
      BY <1>1, DelayType DEF LockoutInv, Typed, LockoutTypeOK
    <2> QED
      BY <1>1, <2>2, <2>3 DEF LockoutInv, Typed, LockoutTypeOK, Barred, LockedOut
  <1>2. LockoutInv /\ [LockoutNext]_lockoutVars =>
          [(TriesPin /\ wrong >= MaxAttempts /\ ~torn /\ ~misread) => now >= lastWrong + Delay(wrong)]_lockoutVars
    BY <1>1
  <1> QED
    BY <1>2, LockoutInvariance, PTL DEF LockoutSpec, GuessesAreSpaced
==============================================================================
