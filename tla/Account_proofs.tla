---------------------------- MODULE Account_proofs ----------------------------
(* Proofs about Account: whatever statement fails and wherever the process    *)
(* dies, for any number of cards, imports and notes in a backup.              *)
EXTENDS Account, SequenceTheorems, TLAPS

ImportSteps == Rows \union {"open backup", "create note", "save note", "initialized"}
ImportRecords == [step : ImportSteps, source : Sources, key : Keys, backup : BOOLEAN,
                  restored : Nat, failed : Nat]

\* Types, with that of the import under way.
Typed ==
    /\ AccountTypeOK
    /\ import # NoImport =>
         /\ import \in ImportRecords
         /\ import.key \in IF import.source = "mnemonic" THEN Imports ELSE Cards
         /\ import.step \in {"wrapped_key", "mnemonic_kdf_salt"} => import.source = "mnemonic"
         /\ import.step = "key_source" => import.source = "keycard"

\* There is a session when the note screen is shown; an import has none before
\* it ends, and holds its key from the last row on.
Session ==
    IF import = NoImport
    THEN /\ screen = "note" <=> masterKey # None
         /\ screen = "note" <=> keySource # "none"
    ELSE /\ screen = "import" /\ keySource = "none"
         /\ masterKey = IF import.step \in Rows THEN None ELSE import.key

\* The rows that an import has written are its own, whatever was there before.
RowsWritten ==
    import # NoImport =>
        /\ import.source = "mnemonic" =>
             /\ import.step # "wrapped_key" => disk.wrapped = import.key
             /\ import.step \notin {"wrapped_key", "mnemonic_kdf_salt"} => disk.salt = import.key
        /\ import.source = "keycard" =>
             /\ import.step # "key_source" => disk.keySource = "keycard"
        /\ import.step \notin Rows => disk.fingerprint = import.key

\* An initialized account is whole, and not behind the import screen, unless
\* its file survived a wipe or it was overlooked.
WholeAccount ==
    (~kept /\ ~misread) =>
        /\ screen = "import" => ~disk.initialized
        /\ disk.initialized =>
             /\ disk.fingerprint # None
             /\ disk.keySource = None =>
                  disk.wrapped # None /\ disk.salt = disk.wrapped /\ disk.fingerprint = disk.wrapped

\* How far a restore has come: its counts, and the notes they count.
RestoreCounts ==
    /\ import.step \in Rows \union {"open backup"} => import.restored + import.failed = 0
    /\ import.step \in {"open backup", "create note", "save note"} => import.backup
    /\ import.restored + import.failed <= BackupSize
    /\ import.step = "save note" =>
         /\ Len(rows) > 0 /\ rows[Len(rows)] = BlankRow
         /\ import.restored + import.failed < BackupSize
    /\ import.step = "initialized" =>
         import.failed = 0 /\ (import.backup => import.restored = BackupSize)

RestoredRows ==
    import.failed = 0 =>
        \A b \in 1..import.restored :
            \E i \in DOMAIN rows : rows[i] = [key |-> import.key, body |-> b]

RestoreSoFar == import # NoImport => RestoreCounts /\ RestoredRows

\* What an import finds and leaves, if none was torn: nothing behind the import
\* screen, one account and its notes everywhere else.
Clean == ~torn /\ ~kept /\ ~misread

NothingLeft ==
    (import = NoImport /\ screen = "import") => disk = EmptyDisk /\ rows = <<>>

OwnRows ==
    import.failed = 0 =>
        \A i \in DOMAIN rows :
            rows[i].key = import.key \/ (import.step = "save note" /\ i = Len(rows))

OwnImport ==
    import # NoImport =>
        /\ ~disk.initialized
        /\ import.step \in {"wrapped_key", "key_source"} => disk = EmptyDisk
        /\ import.step \in Rows \union {"open backup"} => rows = <<>>
        /\ import.source = "mnemonic" => disk.keySource = None
        /\ OwnRows

OwnAccount ==
    (import = NoImport /\ screen # "import") =>
        /\ disk.initialized /\ UnlockKey # None
        /\ masterKey \in {None, UnlockKey}
        /\ \A i \in DOMAIN rows : rows[i].key = UnlockKey

OneAccount == Clean => NothingLeft /\ OwnImport /\ OwnAccount

AccountInv == Typed /\ Session /\ RowsWritten /\ WholeAccount /\ RestoreSoFar /\ OneAccount

-----------------------------------------------------------------------------
NoteRows == [key : Keys \union {None}, body : 0..BackupSize]

LEMMA RemoveAtProperties ==
    ASSUME NEW S, NEW s \in Seq(S), NEW i \in 1..Len(s)
    PROVE  /\ RemoveAt(s, i) \in Seq(S)
           /\ \A j \in 1..Len(RemoveAt(s, i)) : \E k \in 1..Len(s) : RemoveAt(s, i)[j] = s[k]
  <1> DEFINE l == SubSeq(s, 1, i - 1)
             r == SubSeq(s, i + 1, Len(s))
  <1>1. l \in Seq(S) /\ Len(l) = i - 1 /\ \A j \in 1..Len(l) : l[j] = s[j]
    BY SubSeqProperties
  <1>2. r \in Seq(S) /\ Len(r) = Len(s) - i /\ \A j \in 1..Len(r) : r[j] = s[i + j]
    BY SubSeqProperties
  <1> HIDE DEF l, r
  <1>3. /\ l \o r \in Seq(S) /\ Len(l \o r) = Len(s) - 1
        /\ \A j \in 1..Len(l \o r) : (l \o r)[j] = IF j <= Len(l) THEN l[j] ELSE r[j - Len(l)]
    <2>1. /\ l \o r \in Seq(S) /\ Len(l \o r) = Len(l) + Len(r)
          /\ \A j \in 1..Len(l) + Len(r) : (l \o r)[j] = IF j <= Len(l) THEN l[j] ELSE r[j - Len(l)]
      BY <1>1, <1>2, ConcatProperties
    <2> QED
      BY <1>1, <1>2, <2>1
  <1>4. ASSUME NEW j \in 1..Len(l \o r)
        PROVE  \E k \in 1..Len(s) : (l \o r)[j] = s[k]
    <2>1. CASE j <= Len(l)
      BY <1>1, <1>3, <2>1
    <2>2. CASE j > Len(l)
      <3>1. j - Len(l) \in 1..Len(r)
        BY <1>1, <1>2, <1>3, <2>2
      <3>2. (l \o r)[j] = s[i + (j - Len(l))] /\ i + (j - Len(l)) \in 1..Len(s)
        BY <1>1, <1>2, <1>3, <2>2, <3>1
      <3> QED
        BY <3>2
    <2> QED
      BY <2>1, <2>2, <1>1
  <1> QED
    BY <1>3, <1>4 DEF l, r, RemoveAt

LEMMA FrontProperties ==
    ASSUME NEW S, NEW s \in Seq(S), Len(s) > 0
    PROVE  /\ Front(s) \in Seq(S) /\ Len(Front(s)) = Len(s) - 1
           /\ \A i \in 1..Len(Front(s)) : Front(s)[i] = s[i]
  <1> DEFINE n == Len(s)
             f == SubSeq(s, 1, n - 1)
  <1>1. n \in Nat /\ n > 0 /\ \A i \in 1..n : s[i] \in S
    BY LenProperties, ElementOfSeq
  <1>2. Front(s) = f
    BY DEF Front
  <1> HIDE DEF n
  <1>3. /\ f \in Seq(S)
        /\ Len(f) = IF 1 <= n - 1 THEN n - 1 - 1 + 1 ELSE 0
        /\ \A i \in 1..n - 1 - 1 + 1 : f[i] = s[1 + i - 1]
    <2>1. 1 \in Int /\ n - 1 \in Int /\ \A i \in 1..n - 1 : s[i] \in S
      BY <1>1
    <2> QED
      BY <2>1, SubSeqProperties
  <1> HIDE DEF f
  <1>4. Len(f) = n - 1
    BY <1>1, <1>3
  <1>5. ASSUME NEW i \in 1..n - 1 PROVE f[i] = s[i]
    <2>1. i \in 1..n - 1 - 1 + 1 /\ 1 + i - 1 = i
      BY <1>1
    <2> QED
      BY <1>3, <2>1
  <1> QED
    BY <1>2, <1>3, <1>4, <1>5 DEF n

\* An import under way is not the one that is none.
LEMMA UnderWay == import \in ImportRecords => import # NoImport
  <1> SUFFICES ASSUME import \in ImportRecords, import = NoImport PROVE FALSE
    OBVIOUS
  <1>1. import.step # "none"
    BY DEF ImportRecords, ImportSteps, Rows
  <1> QED
    BY <1>1 DEF NoImport

\* The step of an import tells that there is one.
LEMMA StepOfImport ==
    ASSUME Typed, import.step # "none"
    PROVE  import \in ImportRecords /\ import # NoImport
  BY UnderWay DEF Typed, NoImport

LEMMA DoneIsBoolean == Done \subseteq BOOLEAN
  BY AccountAssumption DEF Done

LEMMA WipeTypes ==
    ASSUME Typed, WipeDatabase
    PROVE  /\ disk' \in [wrapped : Imports \union {None}, salt : Imports \union {None},
                         fingerprint : Keys \union {None}, keySource : {"keycard", None},
                         initialized : BOOLEAN]
           /\ rows' \in Seq(NoteRows)
           /\ {torn', kept', misread'} \subseteq BOOLEAN
  BY DEF Typed, AccountTypeOK, WipeDatabase, EmptyDisk, NoteRows, Done

LEMMA TypedStep == Typed /\ RestoreSoFar /\ [AccountNext]_accountVars => Typed'
  <1> SUFFICES ASSUME Typed, RestoreSoFar, [AccountNext]_accountVars PROVE Typed'
    OBVIOUS
  <1> USE AccountAssumption DEF Typed, AccountTypeOK, history
  <1>1. ASSUME NEW source \in Sources, NEW key \in Keys, NEW backup \in BOOLEAN,
               BeginImport(source, key, backup)
        PROVE  Typed'
    BY <1>1 DEF BeginImport, ImportRecords, ImportSteps, Rows, Sources
  <1>2. CASE WriteRow
    <2>1. import \in ImportRecords /\ import # NoImport
      BY <1>2, StepOfImport DEF WriteRow, Rows
    <2>2. /\ import' \in ImportRecords
          /\ import'.key \in IF import'.source = "mnemonic" THEN Imports ELSE Cards
          /\ import'.step \in {"wrapped_key", "mnemonic_kdf_salt"} => import'.source = "mnemonic"
          /\ import'.step = "key_source" => import'.source = "keycard"
      BY <1>2, <2>1 DEF WriteRow, ImportRecords, ImportSteps, Rows, Following
    <2>3. masterKey' \in Keys \union {None}
      BY <1>2, <2>1 DEF WriteRow, ImportRecords
    <2>4. import.step \in {"wrapped_key", "mnemonic_kdf_salt"} => import.key \in Imports
      BY <2>1, StepOfImport
    <2>5. disk' \in [wrapped : Imports \union {None}, salt : Imports \union {None},
                     fingerprint : Keys \union {None}, keySource : {"keycard", None},
                     initialized : BOOLEAN]
      BY <1>2, <2>1, <2>4 DEF WriteRow, Written, ImportRecords, Rows
    <2> QED
      BY <1>2, <2>2, <2>3, <2>5 DEF WriteRow
  <1>3. CASE WrappedKeyFails
    BY <1>3 DEF WrappedKeyFails
  <1>4. CASE RowFails
    BY <1>4, WipeTypes DEF RowFails, Rollback, NoteRows
  <1>5. CASE OpenBackup
    <2>1. import \in ImportRecords /\ import # NoImport
      BY <1>5, StepOfImport DEF OpenBackup
    <2> QED
      BY <1>5, <2>1 DEF OpenBackup, ImportRecords, ImportSteps, Rows, Following
  <1>6. CASE BackupUnreadable
    BY <1>6, WipeTypes DEF BackupUnreadable, Rollback, NoteRows
  <1>7. CASE RestoreCreates
    <2>1. import \in ImportRecords /\ import # NoImport
      BY <1>7, StepOfImport DEF RestoreCreates
    <2>2. BlankRow \in NoteRows
      BY DEF BlankRow, NoteRows
    <2>3. rows' \in Seq(NoteRows)
      <3>1. rows \in Seq(NoteRows)
        BY DEF NoteRows
      <3>2. rows' = rows \/ rows' = Append(rows, BlankRow)
        BY <1>7, DoneIsBoolean DEF RestoreCreates
      <3> QED
        BY <3>1, <3>2, <2>2, AppendProperties
    <2>4. \/ import' = [import EXCEPT !.step = "save note"]
          \/ import' = [import EXCEPT !.failed = @ + 1]
      BY <1>7, DoneIsBoolean DEF RestoreCreates
    <2>5. /\ import' \in ImportRecords
          /\ import'.key = import.key /\ import'.source = import.source
          /\ import'.step \notin Rows
      <3>1. CASE import' = [import EXCEPT !.step = "save note"]
        BY <2>1, <3>1 DEF ImportRecords, ImportSteps, Rows
      <3>2. CASE import' = [import EXCEPT !.failed = @ + 1]
        <4>1. import.failed + 1 \in Nat
          BY <2>1 DEF ImportRecords
        <4>2. import.step = "create note"
          BY <1>7 DEF RestoreCreates
        <4> QED
          BY <2>1, <3>2, <4>1, <4>2 DEF ImportRecords, Rows
      <3> QED
        BY <2>4, <3>1, <3>2
    <2> QED
      BY <1>7, <2>1, <2>3, <2>5 DEF RestoreCreates, Rows, NoteRows
  <1>8. CASE RestoreSaves
    <2>1. import \in ImportRecords /\ import # NoImport
      BY <1>8, StepOfImport DEF RestoreSaves
    <2> DEFINE written == [key |-> import.key, body |-> import.restored + import.failed + 1]
    <2>2. rows \in Seq(NoteRows)
      BY DEF NoteRows
    <2>3. \/ /\ rows' = [rows EXCEPT ![Len(rows)] = written]
             /\ import' = [import EXCEPT !.restored = @ + 1, !.step = "create note"]
          \/ /\ rows' \in {Front(rows), rows}
             /\ import' = [import EXCEPT !.failed = @ + 1, !.step = "create note"]
      BY <1>8, DoneIsBoolean DEF RestoreSaves
    <2>4. Len(rows) > 0 /\ written \in NoteRows
      <3>1. import.restored \in Nat /\ import.failed \in Nat /\ import.key \in Keys
        BY <2>1 DEF ImportRecords
      <3>2. Len(rows) > 0 /\ import.restored + import.failed < BackupSize
        BY <1>8, <2>1 DEF RestoreSaves, RestoreSoFar, RestoreCounts
      <3>3. import.restored + import.failed + 1 \in 0..BackupSize
        BY <3>1, <3>2
      <3> QED
        BY <3>1, <3>2, <3>3 DEF NoteRows
    <2> HIDE DEF written
    <2>5. rows' \in Seq(NoteRows)
      <3>1. Front(rows) \in Seq(NoteRows)
        BY <2>2, <2>4, FrontProperties
      <3>2. Len(rows) \in 1..Len(rows)
        BY <2>2, <2>4, LenProperties
      <3>3. [rows EXCEPT ![Len(rows)] = written] \in Seq(NoteRows)
        BY <2>2, <2>4, <3>2, ExceptSeq
      <3> QED
        BY <2>2, <2>3, <3>1, <3>3
    <2>6. /\ import' \in ImportRecords
          /\ import'.key = import.key /\ import'.source = import.source
          /\ import'.step \notin Rows
      <3>1. CASE import' = [import EXCEPT !.restored = @ + 1, !.step = "create note"]
        <4>1. import.restored + 1 \in Nat
          BY <2>1 DEF ImportRecords
        <4> QED
          BY <2>1, <3>1, <4>1 DEF ImportRecords, ImportSteps, Rows
      <3>2. CASE import' = [import EXCEPT !.failed = @ + 1, !.step = "create note"]
        <4>1. import.failed + 1 \in Nat
          BY <2>1 DEF ImportRecords
        <4> QED
          BY <2>1, <3>2, <4>1 DEF ImportRecords, ImportSteps, Rows
      <3> QED
        BY <2>3, <3>1, <3>2
    <2> QED
      BY <1>8, <2>1, <2>5, <2>6 DEF RestoreSaves, Rows, NoteRows
  <1>9. CASE RestoreEnds
    <2>1. import \in ImportRecords /\ import # NoImport
      BY <1>9, StepOfImport DEF RestoreEnds
    <2>2. CASE import.failed = 0
      BY <1>9, <2>1, <2>2 DEF RestoreEnds, ImportRecords, ImportSteps, Rows
    <2>3. CASE import.failed # 0
      BY <1>9, <2>3, WipeTypes DEF RestoreEnds, Rollback, NoteRows
    <2> QED
      BY <2>2, <2>3
  <1>10. CASE EndImport
    <2>1. import \in ImportRecords /\ import # NoImport
      BY <1>10, StepOfImport DEF EndImport
    <2>2. disk' \in [wrapped : Imports \union {None}, salt : Imports \union {None},
                     fingerprint : Keys \union {None}, keySource : {"keycard", None},
                     initialized : BOOLEAN]
      BY <1>10, DoneIsBoolean DEF EndImport
    <2> QED
      BY <1>10, <2>1, <2>2, DoneIsBoolean DEF EndImport, ImportRecords, Sources
  <1>11. CASE UnlockWithPin
    BY <1>11 DEF UnlockWithPin, Keys, Sources
  <1>12. ASSUME NEW card \in Cards, UnlockWithCard(card) PROVE Typed'
    BY <1>12 DEF UnlockWithCard, Keys, Sources
  <1>13. CASE AddNote
    <2>1. [key |-> masterKey, body |-> 0] \in NoteRows
      BY DEF NoteRows
    <2> QED
      BY <1>13, <2>1 DEF AddNote, NoteRows
  <1>14. CASE DeleteNote
    BY <1>14, RemoveAtProperties DEF DeleteNote
  <1>15. CASE Lock
    BY <1>15 DEF Lock
  <1>16. CASE ResetAndWipe
    BY <1>16, WipeTypes DEF ResetAndWipe, NoteRows
  <1>17. CASE Restart
    BY <1>17 DEF Restart, Done
  <1>18. CASE UNCHANGED accountVars
    BY <1>18 DEF accountVars
  <1> HIDE DEF Typed, AccountTypeOK, history
  <1> QED
    BY <1>1, <1>2, <1>3, <1>4, <1>5, <1>6, <1>7, <1>8, <1>9, <1>10, <1>11, <1>12, <1>13,
       <1>14, <1>15, <1>16, <1>17, <1>18 DEF AccountNext

-----------------------------------------------------------------------------
\* An import goes on: what becomes of its record.
Moves(from, to) ==
    /\ import # NoImport /\ import.step = from
    /\ import' # NoImport /\ import'.step = to
    /\ import'.source = import.source /\ import'.key = import.key
    /\ import'.backup = import.backup

NotCounting == import'.restored = import.restored /\ import'.failed = import.failed

AfterFingerprint == IF import.backup THEN "open backup" ELSE "initialized"

LEMMA StepIsNone == \A r : r.step # "none" => r # NoImport
  BY DEF NoImport

LEMMA WriteRowMoves ==
    ASSUME Typed, WriteRow
    PROVE  /\ NotCounting
           /\ \/ Moves("wrapped_key", "mnemonic_kdf_salt")
              \/ Moves("mnemonic_kdf_salt", "account_fingerprint")
              \/ Moves("key_source", "account_fingerprint")
              \/ Moves("account_fingerprint", AfterFingerprint)
  <1>1. import \in ImportRecords /\ import # NoImport
    BY StepOfImport DEF WriteRow, Rows
  <1>2. import' = [import EXCEPT !.step = Following(import.step)] /\ import.step \in Rows
    BY <1>1 DEF WriteRow
  <1>3. /\ import'.step = Following(import.step) /\ NotCounting
        /\ import'.source = import.source /\ import'.key = import.key
        /\ import'.backup = import.backup
    BY <1>1, <1>2 DEF ImportRecords, NotCounting
  <1>4. import.step = "wrapped_key" => Following(import.step) = "mnemonic_kdf_salt"
    BY DEF Following
  <1>5. import.step \in {"mnemonic_kdf_salt", "key_source"} =>
          Following(import.step) = "account_fingerprint"
    BY DEF Following
  <1>6. import.step = "account_fingerprint" => Following(import.step) = AfterFingerprint
    BY DEF Following, AfterFingerprint
  <1>7. AfterFingerprint # "none"
    BY DEF AfterFingerprint
  <1> QED
    BY <1>1, <1>2, <1>3, <1>4, <1>5, <1>6, <1>7, StepIsNone DEF Moves, Rows

LEMMA OpenBackupMoves ==
    ASSUME Typed, OpenBackup
    PROVE  NotCounting /\ Moves("open backup", "create note")
  <1>1. import \in ImportRecords /\ import # NoImport
    BY StepOfImport DEF OpenBackup
  <1> QED
    BY <1>1, StepIsNone DEF OpenBackup, Following, ImportRecords, NotCounting, Moves

\* createNote of a restore: a blank row, or one note more that failed.
LEMMA RestoreCreatesMoves ==
    ASSUME Typed, RestoreCreates
    PROVE  \/ /\ Moves("create note", "save note") /\ NotCounting
              /\ rows' = Append(rows, BlankRow)
           \/ /\ Moves("create note", "create note")
              /\ import'.restored = import.restored /\ import'.failed = import.failed + 1
              /\ rows' = rows
  <1>1. import \in ImportRecords /\ import # NoImport /\ import.step = "create note"
    BY StepOfImport DEF RestoreCreates
  <1>2. CASE rows' = Append(rows, BlankRow) /\ import' = [import EXCEPT !.step = "save note"]
    BY <1>1, <1>2, StepIsNone DEF ImportRecords, NotCounting, Moves
  <1>3. CASE rows' = rows /\ import' = [import EXCEPT !.failed = @ + 1]
    BY <1>1, <1>3, StepIsNone DEF ImportRecords, NotCounting, Moves
  <1> QED
    BY <1>2, <1>3, DoneIsBoolean DEF RestoreCreates

\* saveNote of a restore: the blank row is filled; or it failed, and the row is
\* gone or stays.
LEMMA RestoreSavesMoves ==
    ASSUME Typed, RestoreSaves
    PROVE  /\ Moves("save note", "create note")
           /\ \/ /\ import'.restored = import.restored + 1 /\ import'.failed = import.failed
                 /\ rows' = [rows EXCEPT ![Len(rows)] =
                              [key |-> import.key, body |-> import.restored + import.failed + 1]]
              \/ /\ import'.restored = import.restored /\ import'.failed = import.failed + 1
                 /\ rows' \in {rows, Front(rows)}
  <1>1. import \in ImportRecords /\ import # NoImport /\ import.step = "save note"
    BY StepOfImport DEF RestoreSaves
  <1>2. CASE /\ rows' = [rows EXCEPT ![Len(rows)] =
                          [key |-> import.key, body |-> import.restored + import.failed + 1]]
             /\ import' = [import EXCEPT !.restored = @ + 1, !.step = "create note"]
    BY <1>1, <1>2, StepIsNone DEF ImportRecords, Moves
  <1>3. CASE /\ rows' \in {rows, Front(rows)}
             /\ import' = [import EXCEPT !.failed = @ + 1, !.step = "create note"]
    BY <1>1, <1>3, StepIsNone DEF ImportRecords, Moves
  <1> QED
    BY <1>2, <1>3, DoneIsBoolean DEF RestoreSaves

LEMMA RestoreEndsMoves ==
    ASSUME Typed, RestoreEnds
    PROVE  \/ /\ Moves("create note", "initialized") /\ NotCounting
              /\ import.failed = 0 /\ import.restored + import.failed >= BackupSize
              /\ UNCHANGED <<disk, rows, masterKey, keySource, screen, used, history>>
           \/ Rollback
  <1>1. import \in ImportRecords /\ import # NoImport /\ import.step = "create note"
    BY StepOfImport DEF RestoreEnds
  <1>2. import.restored + import.failed >= BackupSize
    <2>1. import.restored \in Nat /\ import.failed \in Nat
      BY <1>1 DEF ImportRecords
    <2>2. ~(import.restored + import.failed < BackupSize)
      BY DEF RestoreEnds, MoreToRestore
    <2> QED
      BY <2>1, <2>2, AccountAssumption
  <1>3. CASE import.failed = 0
    BY <1>1, <1>2, <1>3, StepIsNone DEF RestoreEnds, ImportRecords, NotCounting, Moves
  <1> QED
    BY <1>3 DEF RestoreEnds

-----------------------------------------------------------------------------
LEMMA SessionStep ==
    ASSUME Typed, Session, [AccountNext]_accountVars
    PROVE  Session'
  <1> USE DEF Session
  <1>1. ASSUME NEW source \in Sources, NEW key \in Keys, NEW backup \in BOOLEAN,
               BeginImport(source, key, backup)
        PROVE  Session'
    BY <1>1, StepIsNone DEF BeginImport, Rows
  <1>2. CASE WriteRow
    <2>1. UNCHANGED <<screen, keySource>> /\ import # NoImport /\ import' # NoImport
      BY <1>2, WriteRowMoves DEF WriteRow, Moves
    <2>2. import.step # "account_fingerprint" => import'.step \in Rows
      BY <1>2, WriteRowMoves DEF Moves, Rows
    <2>3. import.step = "account_fingerprint" => import'.step \notin Rows /\ import'.key = import.key
      BY <1>2, WriteRowMoves DEF Moves, Rows, AfterFingerprint
    <2> QED
      BY <1>2, <2>1, <2>2, <2>3 DEF WriteRow
  <1>3. CASE WrappedKeyFails
    <2>1. import # NoImport /\ import.step \in Rows
      BY <1>3, StepIsNone DEF WrappedKeyFails, Rows
    <2> QED
      BY <1>3, <2>1 DEF WrappedKeyFails, Typed, AccountTypeOK
  <1>4. CASE Rollback /\ import # NoImport
    BY <1>4 DEF Rollback
  <1>5. CASE RowFails
    BY <1>4, <1>5, StepIsNone DEF RowFails, Rows
  <1>6. CASE OpenBackup
    BY <1>6, OpenBackupMoves DEF OpenBackup, Moves, Rows
  <1>7. CASE BackupUnreadable
    BY <1>4, <1>7, StepIsNone DEF BackupUnreadable
  <1>8. CASE RestoreCreates
    BY <1>8, RestoreCreatesMoves DEF RestoreCreates, Moves, Rows
  <1>9. CASE RestoreSaves
    BY <1>9, RestoreSavesMoves DEF RestoreSaves, Moves, Rows
  <1>10. CASE RestoreEnds
    <2>1. import # NoImport
      BY <1>10, StepIsNone DEF RestoreEnds
    <2> QED
      BY <1>4, <1>10, <2>1, RestoreEndsMoves DEF Moves, Rows
  <1>11. CASE EndImport
    <2>1. import \in ImportRecords /\ import # NoImport /\ import.step \notin Rows
      BY <1>11, StepOfImport DEF EndImport, Rows
    <2>2. masterKey # None /\ import.source # "none"
      BY <2>1, AccountAssumption DEF ImportRecords, Keys, Sources
    <2> QED
      BY <1>11, <2>1, <2>2 DEF EndImport
  <1>12. CASE UnlockWithPin
    BY <1>12 DEF UnlockWithPin
  <1>13. ASSUME NEW card \in Cards, UnlockWithCard(card) PROVE Session'
    BY <1>13, AccountAssumption DEF UnlockWithCard
  <1>14. CASE AddNote
    BY <1>14 DEF AddNote
  <1>15. CASE DeleteNote
    BY <1>15 DEF DeleteNote
  <1>16. CASE Lock
    BY <1>16 DEF Lock
  <1>17. CASE ResetAndWipe
    BY <1>17 DEF ResetAndWipe
  <1>18. CASE Restart
    BY <1>18 DEF Restart
  <1>19. CASE UNCHANGED accountVars
    BY <1>19 DEF accountVars
  <1> HIDE DEF Session
  <1> QED
    BY <1>1, <1>2, <1>3, <1>5, <1>6, <1>7, <1>8, <1>9, <1>10, <1>11, <1>12, <1>13, <1>14,
       <1>15, <1>16, <1>17, <1>18, <1>19 DEF AccountNext

-----------------------------------------------------------------------------
\* A wipe leaves nothing, or leaves the file and says so if there was anything.
LEMMA WipeLeaves ==
    ASSUME Typed, WipeDatabase
    PROVE  \/ disk' = EmptyDisk /\ rows' = <<>> /\ ~torn' /\ ~kept' /\ ~misread'
           \/ /\ UNCHANGED <<disk, rows, torn, misread>>
              /\ ~kept' => ~kept /\ disk = EmptyDisk /\ rows = <<>>
  <1>1. PICK removed \in Done :
          /\ disk' = IF removed THEN EmptyDisk ELSE disk
          /\ rows' = IF removed THEN <<>> ELSE rows
          /\ kept' = (~removed /\ (kept \/ disk # EmptyDisk \/ rows # <<>>))
          /\ torn' = (torn /\ ~removed)
          /\ misread' = (misread /\ ~removed)
    BY DEF WipeDatabase
  <1>2. CASE removed
    BY <1>1, <1>2
  <1>3. CASE ~removed
    BY <1>1, <1>3 DEF Typed, AccountTypeOK
  <1> QED
    BY <1>2, <1>3

\* The four rows: what each statement writes, and leaves alone.
LEMMA WhatIsWritten ==
    ASSUME Typed, WriteRow
    PROVE  /\ disk' = Written(import.step)
           /\ disk'.initialized = disk.initialized
           /\ disk'.wrapped = IF import.step = "wrapped_key" THEN import.key ELSE disk.wrapped
           /\ disk'.salt = IF import.step = "mnemonic_kdf_salt" THEN import.key ELSE disk.salt
           /\ disk'.keySource = IF import.step = "key_source" THEN "keycard" ELSE disk.keySource
           /\ disk'.fingerprint = IF import.step = "account_fingerprint" THEN import.key
                                  ELSE disk.fingerprint
           /\ UNCHANGED <<rows, screen, history>>
  <1>1. import.step \in Rows /\ disk' = Written(import.step) /\ UNCHANGED <<rows, screen, history>>
    BY DEF WriteRow
  <1>2. disk \in [wrapped : Imports \union {None}, salt : Imports \union {None},
                  fingerprint : Keys \union {None}, keySource : {"keycard", None},
                  initialized : BOOLEAN]
    BY DEF Typed, AccountTypeOK
  <1>3. CASE import.step = "wrapped_key"
    BY <1>1, <1>2, <1>3 DEF Written
  <1>4. CASE import.step = "mnemonic_kdf_salt"
    BY <1>1, <1>2, <1>4 DEF Written
  <1>5. CASE import.step = "key_source"
    BY <1>1, <1>2, <1>5 DEF Written
  <1>6. CASE import.step = "account_fingerprint"
    BY <1>1, <1>2, <1>6 DEF Written
  <1> QED
    BY <1>1, <1>3, <1>4, <1>5, <1>6 DEF Rows

\* The end of an import changes no row but "initialized".
LEMMA WhatEndWrites ==
    ASSUME Typed, EndImport
    PROVE  /\ disk'.wrapped = disk.wrapped /\ disk'.salt = disk.salt
           /\ disk'.keySource = disk.keySource /\ disk'.fingerprint = disk.fingerprint
           /\ disk.initialized => disk'.initialized
           /\ torn' \/ disk'.initialized
           /\ torn => torn'
           /\ screen' = "note" /\ import' = NoImport /\ UNCHANGED <<rows, masterKey, kept, misread>>
  <1>1. PICK ok \in BOOLEAN : /\ disk' = [disk EXCEPT !.initialized = @ \/ ok]
                              /\ torn' = (torn \/ (~ok /\ ~disk.initialized))
    BY DoneIsBoolean DEF EndImport
  <1>2. disk'.initialized = (disk.initialized \/ ok)
    BY <1>1 DEF Typed, AccountTypeOK
  <1> QED
    BY <1>1, <1>2 DEF EndImport, Typed, AccountTypeOK

-----------------------------------------------------------------------------
LEMMA RowsWrittenStep ==
    ASSUME Typed, RowsWritten, [AccountNext]_accountVars
    PROVE  RowsWritten'
  <1> USE DEF RowsWritten
  <1>1. ASSUME NEW source \in Sources, NEW key \in Keys, NEW backup \in BOOLEAN,
               BeginImport(source, key, backup)
        PROVE  RowsWritten'
    BY <1>1 DEF BeginImport, Rows, Sources
  <1>2. CASE WriteRow
    <2>1. /\ import.step = "wrapped_key" \/ import.step = "mnemonic_kdf_salt"
               => import.source = "mnemonic"
          /\ import.step = "key_source" => import.source = "keycard"
      BY StepOfImport DEF Typed
    <2>2. CASE Moves("wrapped_key", "mnemonic_kdf_salt")
      BY <1>2, <2>1, <2>2, WhatIsWritten DEF Moves, Rows
    <2>3. CASE Moves("mnemonic_kdf_salt", "account_fingerprint")
      BY <1>2, <2>1, <2>3, WhatIsWritten DEF Moves, Rows
    <2>4. CASE Moves("key_source", "account_fingerprint")
      BY <1>2, <2>1, <2>4, WhatIsWritten DEF Moves, Rows
    <2>5. CASE Moves("account_fingerprint", AfterFingerprint)
      BY <1>2, <2>1, <2>5, WhatIsWritten DEF Moves, Rows, AfterFingerprint
    <2> QED
      BY <1>2, <2>2, <2>3, <2>4, <2>5, WriteRowMoves
  <1>3. CASE import' = NoImport
    BY <1>3
  <1>4. CASE OpenBackup
    BY <1>4, OpenBackupMoves DEF OpenBackup, Moves, Rows
  <1>5. CASE RestoreCreates
    BY <1>5, RestoreCreatesMoves DEF RestoreCreates, Moves, Rows
  <1>6. CASE RestoreSaves
    BY <1>6, RestoreSavesMoves DEF RestoreSaves, Moves, Rows
  <1>7. CASE RestoreEnds
    <2>1. CASE Rollback
      BY <1>3, <2>1 DEF Rollback
    <2> QED
      BY <1>7, <2>1, RestoreEndsMoves DEF Moves, Rows
  <1>8. CASE UNCHANGED <<disk, import>>
    BY <1>8
  <1> HIDE DEF RowsWritten
  <1>9. WrappedKeyFails \/ RowFails \/ BackupUnreadable \/ EndImport \/ Restart => import' = NoImport
    BY DEF WrappedKeyFails, RowFails, BackupUnreadable, EndImport, Restart, Rollback
  <1>10. UnlockWithPin \/ AddNote \/ DeleteNote \/ Lock => UNCHANGED <<disk, import>>
    BY DEF UnlockWithPin, AddNote, DeleteNote, Lock
  <1>11. ASSUME NEW card \in Cards, UnlockWithCard(card) PROVE UNCHANGED <<disk, import>>
    BY <1>11 DEF UnlockWithCard
  <1>12. ResetAndWipe => import' = NoImport
    BY DEF ResetAndWipe
  <1>13. UNCHANGED accountVars => UNCHANGED <<disk, import>>
    BY DEF accountVars
  <1> QED
    BY <1>1, <1>2, <1>3, <1>4, <1>5, <1>6, <1>7, <1>8, <1>9, <1>10, <1>11, <1>12, <1>13
    DEF AccountNext

-----------------------------------------------------------------------------
LEMMA WholeAccountStep ==
    ASSUME Typed, Session, RowsWritten, WholeAccount, [AccountNext]_accountVars
    PROVE  WholeAccount'
  <1> USE DEF WholeAccount
  <1>1. CASE WriteRow
    <2>1. screen = "import"
      BY <1>1, WriteRowMoves DEF Session, Moves
    <2> QED
      BY <1>1, <2>1, WhatIsWritten DEF history
  <1>2. CASE WipeDatabase
    BY <1>2, WipeLeaves DEF EmptyDisk
  <1>3. CASE EndImport
    <2>1. /\ import \in ImportRecords /\ import # NoImport /\ import.step = "initialized"
      BY <1>3, StepOfImport DEF EndImport
    <2>2. import.key # None /\ import.source \in Sources
      BY <2>1, AccountAssumption DEF ImportRecords, Keys
    <2>3. /\ disk.fingerprint # None
          /\ disk.keySource = None =>
               disk.wrapped # None /\ disk.salt = disk.wrapped /\ disk.fingerprint = disk.wrapped
      BY <2>1, <2>2, AccountAssumption DEF RowsWritten, Rows, Sources
    <2> QED
      BY <1>3, <2>3, WhatEndWrites
  <1>4. CASE UNCHANGED <<disk, kept>> /\ (misread => misread') /\ (screen' = "import" => screen = "import")
    BY <1>4
  <1>5. CASE Restart
    BY <1>5, DoneIsBoolean DEF Restart
  <1> HIDE DEF WholeAccount
  <1>6. RowFails \/ BackupUnreadable \/ ResetAndWipe => WipeDatabase
    BY DEF RowFails, BackupUnreadable, ResetAndWipe, Rollback
  <1>7. ASSUME RestoreEnds PROVE WholeAccount'
    BY <1>2, <1>4, <1>7 DEF RestoreEnds, Rollback, history
  <1>8. ASSUME NEW source \in Sources, NEW key \in Keys, NEW backup \in BOOLEAN,
               BeginImport(source, key, backup)
        PROVE  WholeAccount'
    BY <1>4, <1>8 DEF BeginImport, history
  <1>9. ASSUME \/ WrappedKeyFails \/ OpenBackup \/ RestoreCreates \/ RestoreSaves
               \/ AddNote \/ DeleteNote
        PROVE  WholeAccount'
    <2>1. UNCHANGED <<disk, screen, kept, misread>>
      BY <1>9 DEF WrappedKeyFails, OpenBackup, RestoreCreates, RestoreSaves, AddNote, DeleteNote, history
    <2> QED
      BY <1>4, <2>1
  <1>10. ASSUME UnlockWithPin \/ Lock PROVE WholeAccount'
    BY <1>4, <1>10 DEF UnlockWithPin, Lock, history
  <1>11. ASSUME NEW card \in Cards, UnlockWithCard(card) PROVE WholeAccount'
    <2>1. /\ UNCHANGED <<disk, kept>> /\ screen' = "note" /\ (misread => misread')
      BY <1>11 DEF UnlockWithCard
    <2> QED
      BY <1>4, <2>1
  <1>12. ASSUME UNCHANGED accountVars PROVE WholeAccount'
    BY <1>4, <1>12 DEF accountVars, history
  <1> QED
    BY <1>1, <1>2, <1>3, <1>5, <1>6, <1>7, <1>8, <1>9, <1>10, <1>11, <1>12 DEF AccountNext

-----------------------------------------------------------------------------
\* What a restore does to the rows: the blank one is added at the end, then
\* replaced.
LEMMA BlankAtEnd ==
    ASSUME Typed, rows' = Append(rows, BlankRow)
    PROVE  /\ Len(rows') = Len(rows) + 1 /\ Len(rows') > 0 /\ rows'[Len(rows')] = BlankRow
           /\ DOMAIN rows = 1..Len(rows) /\ DOMAIN rows' = 1..Len(rows')
           /\ \A i \in DOMAIN rows : i \in DOMAIN rows' /\ rows'[i] = rows[i]
           /\ \A i \in DOMAIN rows' : i \in DOMAIN rows \/ i = Len(rows')
  <1> DEFINE n == Len(rows)
  <1>1. rows \in Seq(NoteRows) /\ BlankRow \in NoteRows
    BY AccountAssumption DEF Typed, AccountTypeOK, NoteRows, BlankRow
  <1>2. n \in Nat /\ DOMAIN rows = 1..n
    BY <1>1, LenProperties
  <1>3. /\ rows' \in Seq(NoteRows) /\ Len(rows') = n + 1
        /\ \A i \in 1..n : rows'[i] = rows[i]
        /\ rows'[n + 1] = BlankRow
    BY <1>1, AppendProperties
  <1>4. DOMAIN rows' = 1..Len(rows')
    BY <1>3, LenProperties
  <1> HIDE DEF n
  <1>5. \A i \in 1..n : i \in 1..n + 1
    BY <1>2
  <1>6. \A i \in 1..n + 1 : i \in 1..n \/ i = n + 1
    BY <1>2
  <1> QED
    BY <1>2, <1>3, <1>4, <1>5, <1>6 DEF n

LEMMA LastIsFilled ==
    ASSUME Typed, NEW note \in NoteRows, Len(rows) > 0, rows' = [rows EXCEPT ![Len(rows)] = note]
    PROVE  /\ Len(rows') = Len(rows) /\ Len(rows) \in DOMAIN rows /\ DOMAIN rows' = DOMAIN rows
           /\ rows'[Len(rows)] = note
           /\ \A i \in DOMAIN rows : i # Len(rows) => rows'[i] = rows[i]
  <1> DEFINE n == Len(rows)
  <1>1. rows \in Seq(NoteRows)
    BY DEF Typed, AccountTypeOK, NoteRows
  <1>2. n \in Nat /\ DOMAIN rows = 1..n
    BY <1>1, LenProperties
  <1>3. n \in 1..n
    BY <1>2
  <1>4. Len(rows') = n /\ DOMAIN rows' = DOMAIN rows
    <2>1. rows' \in Seq(NoteRows) /\ Len(rows') = n
      BY <1>1, <1>3, ExceptSeq
    <2> QED
      BY <1>2, <2>1, LenProperties
  <1> HIDE DEF n
  <1> QED
    BY <1>2, <1>3, <1>4 DEF n

LEMMA Zero == 0 + 0 = 0 /\ 1..0 = {} /\ \A n \in Nat : 0 <= n
  OBVIOUS

\* Before its first note a restore has counted none.
LEMMA NothingCounted ==
    ASSUME import'.restored = 0, import'.failed = 0,
           import'.step \in Rows \union {"open backup", "create note", "initialized"},
           import'.step \in {"open backup", "create note"} => import'.backup,
           import'.step = "initialized" => ~import'.backup
    PROVE  RestoreSoFar'
  <1>1. import'.restored + import'.failed = 0 /\ import'.restored + import'.failed <= BackupSize
    BY Zero, AccountAssumption, Zenon
  <1>2. RestoreCounts'
    BY <1>1 DEF RestoreCounts, Rows
  <1>3. 1..import'.restored = {}
    BY Zero, Zenon
  <1>4. RestoredRows'
    BY <1>3 DEF RestoredRows
  <1> QED
    BY <1>2, <1>4 DEF RestoreSoFar

\* The notes that a restore has counted: BackupSize of them when it ends.
LEMMA RestoreSoFarStep ==
    ASSUME Typed, RestoreSoFar, [AccountNext]_accountVars
    PROVE  RestoreSoFar'
  <1>0. BackupSize \in Nat
    BY AccountAssumption
  <1>1. ASSUME import # NoImport
        PROVE  import.restored \in Nat /\ import.failed \in Nat
    BY <1>1 DEF Typed, ImportRecords
  <1>2. ASSUME import # NoImport
        PROVE  import.key \in Keys /\ import.key # None
    BY <1>2, AccountAssumption DEF Typed, ImportRecords, Keys
  <1>3. ASSUME NEW source \in Sources, NEW key \in Keys, NEW backup \in BOOLEAN,
               BeginImport(source, key, backup)
        PROVE  RestoreSoFar'
    <2>1. import'.restored = 0 /\ import'.failed = 0 /\ import'.step \in {"wrapped_key", "key_source"}
      BY <1>3 DEF BeginImport
    <2> QED
      BY <2>1, NothingCounted DEF Rows
  <1>4. CASE WriteRow
    <2>1. /\ import # NoImport /\ import.step \in Rows /\ NotCounting
          /\ import'.step \in Rows \union {"open backup", "initialized"}
          /\ import'.step = "open backup" => import'.backup
          /\ import'.step = "initialized" => ~import'.backup
      BY <1>4, WriteRowMoves DEF Moves, Rows, AfterFingerprint
    <2>2. import.restored + import.failed = 0
      BY <2>1 DEF RestoreSoFar, RestoreCounts
    <2>3. import.restored \in Nat /\ import.failed \in Nat
      BY <1>1, <2>1
    <2>4. import.restored = 0 /\ import.failed = 0
      BY <2>2, <2>3
    <2> QED
      BY <2>1, <2>4, NothingCounted DEF NotCounting, Rows
  <1>5. CASE OpenBackup
    <2>1. import # NoImport /\ import.step = "open backup" /\ NotCounting /\ import'.step = "create note"
      BY <1>5, OpenBackupMoves DEF Moves
    <2>2. import.restored + import.failed = 0 /\ import'.backup
      BY <1>5, <2>1, OpenBackupMoves DEF RestoreSoFar, RestoreCounts, Moves
    <2>3. import.restored \in Nat /\ import.failed \in Nat
      BY <1>1, <2>1
    <2>4. import.restored = 0 /\ import.failed = 0
      BY <2>2, <2>3
    <2> QED
      BY <2>1, <2>2, <2>4, NothingCounted DEF NotCounting
  <1>6. CASE RestoreCreates
    <2>1. import # NoImport
      BY <1>6, StepIsNone DEF RestoreCreates
    <2>2. import.restored + import.failed < BackupSize
      BY <1>6 DEF RestoreCreates, MoreToRestore
    <2>3. import.restored \in Nat /\ import.failed \in Nat
      BY <1>1, <2>1
    <2>4. CASE /\ Moves("create note", "save note") /\ NotCounting
               /\ rows' = Append(rows, BlankRow)
      <3>1. /\ Len(rows') > 0 /\ rows'[Len(rows')] = BlankRow
            /\ \A i \in DOMAIN rows : i \in DOMAIN rows' /\ rows'[i] = rows[i]
        BY <2>4, BlankAtEnd
      <3>2. import'.restored = import.restored /\ import'.failed = import.failed
        BY <2>4 DEF NotCounting
      <3>3. /\ import'.restored + import'.failed < BackupSize
            /\ import'.restored + import'.failed <= BackupSize
        BY <1>0, <2>2, <2>3, <3>2
      <3>4. import'.step = "save note" /\ import'.key = import.key /\ import'.backup
        BY <2>1, <2>4 DEF Moves, RestoreSoFar, RestoreCounts
      <3>5. RestoreCounts'
        BY <3>1, <3>3, <3>4 DEF RestoreCounts, Rows
      <3>6. RestoredRows'
        BY <2>1, <3>1, <3>2, <3>4 DEF RestoreSoFar, RestoredRows
      <3> QED
        BY <3>5, <3>6 DEF RestoreSoFar
    <2>5. CASE /\ Moves("create note", "create note")
               /\ import'.restored = import.restored /\ import'.failed = import.failed + 1
      <3>1. import'.step = "create note" /\ import'.backup
        BY <2>1, <2>5 DEF Moves, RestoreSoFar, RestoreCounts
      <3>2. import'.restored = import.restored /\ import'.failed = import.failed + 1
        BY <2>5
      <3>3. import'.restored + import'.failed <= BackupSize /\ import'.failed # 0
        BY <1>0, <2>2, <2>3, <3>2
      <3>4. RestoreCounts'
        BY <3>1, <3>3 DEF RestoreCounts, Rows
      <3> QED
        BY <3>3, <3>4 DEF RestoreSoFar, RestoredRows
    <2> QED
      BY <1>6, <2>4, <2>5, RestoreCreatesMoves
  <1>7. CASE RestoreSaves
    <2>1. import # NoImport /\ import.step = "save note"
      BY <1>7, RestoreSavesMoves DEF Moves
    <2>2. Len(rows) > 0 /\ rows[Len(rows)] = BlankRow
      BY <2>1 DEF RestoreSoFar, RestoreCounts
    <2>3. import.restored + import.failed < BackupSize
      BY <2>1 DEF RestoreSoFar, RestoreCounts
    <2>4. import.restored \in Nat /\ import.failed \in Nat
      BY <1>1, <2>1
    <2>5. import'.step = "create note" /\ import'.backup /\ import'.key = import.key
      BY <1>7, <2>1, RestoreSavesMoves DEF Moves, RestoreSoFar, RestoreCounts
    <2>6. CASE import'.restored = import.restored /\ import'.failed = import.failed + 1
      <3>1. import'.restored + import'.failed <= BackupSize /\ import'.failed # 0
        BY <1>0, <2>3, <2>4, <2>6
      <3>2. RestoreCounts'
        BY <2>5, <3>1 DEF RestoreCounts, Rows
      <3> QED
        BY <3>1, <3>2 DEF RestoreSoFar, RestoredRows
    <2>7. CASE /\ import'.restored = import.restored + 1 /\ import'.failed = import.failed
               /\ rows' = [rows EXCEPT ![Len(rows)] =
                            [key |-> import.key, body |-> import.restored + import.failed + 1]]
      <3> DEFINE note == [key |-> import.key, body |-> import.restored + import.failed + 1]
      <3>1. note \in NoteRows
        <4>1. import.restored + import.failed + 1 \in 0..BackupSize
          BY <1>0, <2>3, <2>4
        <4> QED
          BY <1>2, <2>1, <4>1 DEF NoteRows
      <3>2. import.failed = 0 => note = [key |-> import.key, body |-> import.restored + 1]
        BY <2>4
      <3>3. rows' = [rows EXCEPT ![Len(rows)] = note]
        BY <2>7
      <3> HIDE DEF note
      <3>4. /\ Len(rows) \in DOMAIN rows /\ DOMAIN rows' = DOMAIN rows /\ rows'[Len(rows)] = note
            /\ \A i \in DOMAIN rows : i # Len(rows) => rows'[i] = rows[i]
        BY <2>2, <3>1, <3>3, LastIsFilled
      <3>5. ASSUME import.failed = 0, NEW b \in 1..import.restored + 1
            PROVE  \E i \in DOMAIN rows' : rows'[i] = [key |-> import.key, body |-> b]
        <4>1. CASE b = import.restored + 1
          BY <3>2, <3>4, <3>5, <4>1
        <4>2. CASE b # import.restored + 1
          <5>1. b \in 1..import.restored
            BY <2>4, <4>2
          <5>2. PICK i \in DOMAIN rows : rows[i] = [key |-> import.key, body |-> b]
            BY <2>1, <3>5, <5>1 DEF RestoreSoFar, RestoredRows
          <5>3. i # Len(rows)
            <6>1. import.key # None /\ BlankRow.key = None
              BY <1>2, <2>1 DEF BlankRow
            <6>2. rows[i].key # None
              BY <5>2, <6>1
            <6> QED
              BY <2>2, <6>1, <6>2
          <5> QED
            BY <3>4, <5>2, <5>3
        <4> QED
          BY <4>1, <4>2
      <3>6. import'.restored = import.restored + 1 /\ import'.failed = import.failed
        BY <2>7
      <3>7. import'.restored + import'.failed <= BackupSize
        BY <1>0, <2>3, <2>4, <3>6
      <3>8. RestoreCounts'
        BY <2>5, <3>7 DEF RestoreCounts, Rows
      <3>9. RestoredRows'
        BY <2>5, <3>5, <3>6 DEF RestoredRows
      <3> QED
        BY <3>8, <3>9 DEF RestoreSoFar
    <2> QED
      BY <1>7, <2>6, <2>7, RestoreSavesMoves
  <1>8. CASE import' = NoImport
    BY <1>8 DEF RestoreSoFar
  <1>9. CASE RestoreEnds
    <2>1. CASE Rollback
      BY <1>8, <2>1 DEF Rollback
    <2>2. CASE /\ Moves("create note", "initialized") /\ NotCounting
               /\ import.failed = 0 /\ import.restored + import.failed >= BackupSize
               /\ UNCHANGED <<disk, rows, masterKey, keySource, screen, used, history>>
      <3>1. import # NoImport /\ import.failed = 0
        BY <2>2 DEF Moves
      <3>2. import.restored \in Nat
        BY <1>1, <3>1
      <3>3. import.restored + import.failed <= BackupSize
        BY <3>1 DEF RestoreSoFar, RestoreCounts
      <3>4. import.restored + import.failed >= BackupSize
        BY <2>2
      <3>5. import.restored = BackupSize
        BY <1>0, <3>1, <3>2, <3>3, <3>4
      <3>6. /\ import'.step = "initialized" /\ import'.key = import.key
            /\ import'.restored = BackupSize /\ import'.failed = 0
        BY <2>2, <3>5 DEF Moves, NotCounting
      <3>7. import'.restored + import'.failed <= BackupSize
        BY <1>0, <3>6
      <3>8. RestoreCounts'
        BY <3>6, <3>7 DEF RestoreCounts, Rows
      <3>9. RestoredRows'
        BY <2>2, <3>1, <3>5, <3>6 DEF RestoreSoFar, RestoredRows
      <3> QED
        BY <3>8, <3>9 DEF RestoreSoFar
    <2> QED
      BY <1>9, <2>1, <2>2, RestoreEndsMoves
  <1>10. CASE UNCHANGED <<rows, import>>
    BY <1>10 DEF RestoreSoFar, RestoreCounts, RestoredRows
  <1>11. CASE import = NoImport /\ import' = import
    BY <1>8, <1>11
  <1>12. WrappedKeyFails \/ RowFails \/ BackupUnreadable \/ EndImport \/ Restart => import' = NoImport
    BY DEF WrappedKeyFails, RowFails, BackupUnreadable, EndImport, Restart, Rollback
  <1>13. UnlockWithPin \/ AddNote \/ DeleteNote \/ Lock \/ ResetAndWipe
           => import = NoImport /\ import' = import
    BY DEF UnlockWithPin, AddNote, DeleteNote, Lock, ResetAndWipe
  <1>14. ASSUME NEW card \in Cards, UnlockWithCard(card) PROVE import = NoImport /\ import' = import
    BY <1>14 DEF UnlockWithCard
  <1>15. UNCHANGED accountVars => UNCHANGED <<rows, import>>
    BY DEF accountVars
  <1> QED
    BY <1>3, <1>4, <1>5, <1>6, <1>7, <1>8, <1>9, <1>10, <1>11, <1>12, <1>13, <1>14, <1>15
    DEF AccountNext

-----------------------------------------------------------------------------
\* Where a wipe that leaves no account behind leads.
LEMMA WipeIsClean ==
    ASSUME Typed, WipeDatabase, screen' = "import", import' = NoImport
    PROVE  OneAccount'
  <1>1. ASSUME Clean' PROVE disk' = EmptyDisk /\ rows' = <<>>
    BY <1>1, WipeLeaves DEF Clean
  <1> QED
    BY <1>1 DEF OneAccount, NothingLeft, OwnImport, OwnAccount

LEMMA OneAccountStep ==
    ASSUME Typed, Session, RowsWritten, RestoreSoFar, OneAccount, [AccountNext]_accountVars
    PROVE  OneAccount'
  <1>0. ASSUME import # NoImport
        PROVE  import.key \in Keys /\ import.key # None /\ import.source \in Sources
    BY <1>0, AccountAssumption DEF Typed, ImportRecords, Keys
  <1>1. ASSUME NEW source \in Sources, NEW key \in Keys, NEW backup \in BOOLEAN,
               BeginImport(source, key, backup)
        PROVE  OneAccount'
    <2>1. import = NoImport /\ screen = "import" /\ UNCHANGED <<disk, rows, history>>
      BY <1>1 DEF BeginImport
    <2>2. import' # NoImport
      BY <1>1, StepIsNone DEF BeginImport
    <2>3. Clean => Clean /\ disk' = EmptyDisk /\ rows' = <<>>
      BY <2>1 DEF OneAccount, NothingLeft
    <2>4. Clean' => Clean
      BY <2>1 DEF Clean, history
    <2>5. ASSUME Clean' PROVE OwnImport'
      <3>1. rows' = <<>> /\ disk' = EmptyDisk
        BY <2>3, <2>4, <2>5
      <3>2. ~disk'.initialized /\ disk'.keySource = None
        BY <3>1 DEF EmptyDisk
      <3> QED
        BY <3>1, <3>2 DEF OwnImport, OwnRows
    <2> QED
      BY <2>2, <2>5 DEF OneAccount, NothingLeft, OwnAccount
  <1>2. CASE WriteRow
    <2>1. /\ import # NoImport /\ import' # NoImport /\ import.step \in Rows
          /\ import'.source = import.source /\ import'.key = import.key
          /\ import'.step \notin {"wrapped_key", "key_source"}
      BY <1>2, WriteRowMoves DEF Moves, Rows, AfterFingerprint
    <2>2. import.step = "key_source" => import.source # "mnemonic"
      BY <2>1 DEF Typed
    <2>3. ASSUME Clean' PROVE OwnImport'
      <3>1. Clean /\ OwnImport
        BY <1>2, <2>3, WhatIsWritten DEF Clean, history, OneAccount
      <3>2. rows' = <<>> /\ ~disk'.initialized
        BY <1>2, <2>1, <3>1, WhatIsWritten DEF OwnImport
      <3>3. import'.source = "mnemonic" => disk'.keySource = None
        BY <1>2, <2>1, <2>2, <3>1, WhatIsWritten DEF OwnImport
      <3> QED
        BY <2>1, <3>2, <3>3 DEF OwnImport, OwnRows
    <2> QED
      BY <2>1, <2>3 DEF OneAccount, NothingLeft, OwnAccount
  <1>3. CASE WrappedKeyFails
    <2>1. /\ import # NoImport /\ import.step = "wrapped_key" /\ import' = NoImport
          /\ UNCHANGED <<disk, rows, screen, history>>
      BY <1>3, StepIsNone DEF WrappedKeyFails
    <2>2. screen = "import"
      BY <2>1 DEF Session
    <2>3. Clean' => disk' = EmptyDisk /\ rows' = <<>>
      BY <2>1 DEF OneAccount, OwnImport, Clean, history, Rows
    <2> QED
      BY <2>1, <2>2, <2>3 DEF OneAccount, NothingLeft, OwnImport, OwnAccount
  <1>4. CASE Rollback
    BY <1>4, WipeIsClean DEF Rollback
  <1>5. CASE OpenBackup
    <2>1. /\ import # NoImport /\ import' # NoImport /\ import.step = "open backup"
          /\ import'.step = "create note"
          /\ import'.source = import.source /\ import'.key = import.key
      BY <1>5, OpenBackupMoves DEF Moves
    <2>2. UNCHANGED <<disk, rows, screen, history>>
      BY <1>5 DEF OpenBackup
    <2>3. ASSUME Clean' PROVE OwnImport'
      <3>1. Clean /\ OwnImport
        BY <2>2, <2>3 DEF Clean, history, OneAccount
      <3>2. rows' = <<>>
        BY <2>1, <2>2, <3>1 DEF OwnImport
      <3>3. ~disk'.initialized /\ (import'.source = "mnemonic" => disk'.keySource = None)
        BY <2>1, <2>2, <3>1 DEF OwnImport
      <3>4. OwnRows'
        <4>1. DOMAIN rows' = {}
          BY <3>2
        <4> QED
          BY <4>1 DEF OwnRows
      <3> QED
        BY <2>1, <3>2, <3>3, <3>4 DEF OwnImport
    <2> QED
      BY <2>1, <2>3 DEF OneAccount, NothingLeft, OwnAccount
  <1>6. ASSUME RestoreCreates \/ RestoreSaves, Clean',
               import # NoImport, import' # NoImport, import'.step \in {"create note", "save note"},
               import'.source = import.source, import'.key = import.key,
               OwnRows => OwnRows'
        PROVE  OneAccount'
    <2>1. UNCHANGED <<disk, screen, history>>
      BY <1>6 DEF RestoreCreates, RestoreSaves
    <2>2. OwnImport
      BY <1>6, <2>1 DEF Clean, history, OneAccount
    <2> QED
      BY <1>6, <2>1, <2>2 DEF OneAccount, NothingLeft, OwnImport, OwnAccount, Rows
  <1>7. CASE RestoreCreates
    <2>1. CASE /\ Moves("create note", "save note") /\ NotCounting
               /\ rows' = Append(rows, BlankRow)
      <3>1. /\ import # NoImport /\ import' # NoImport /\ import'.step = "save note"
            /\ import.step = "create note"
            /\ import'.source = import.source /\ import'.key = import.key
            /\ import'.failed = import.failed
        BY <2>1 DEF Moves, NotCounting
      <3>2. \A i \in DOMAIN rows' : i = Len(rows') \/ (i \in DOMAIN rows /\ rows'[i] = rows[i])
        BY <2>1, BlankAtEnd
      <3>3. OwnRows => OwnRows'
        BY <3>1, <3>2 DEF OwnRows
      <3> QED
        BY <1>6, <1>7, <3>1, <3>3 DEF OneAccount
    <2>2. CASE /\ Moves("create note", "create note")
               /\ import'.restored = import.restored /\ import'.failed = import.failed + 1
               /\ rows' = rows
      <3>1. /\ import # NoImport /\ import' # NoImport /\ import'.step = "create note"
            /\ import'.source = import.source /\ import'.key = import.key
        BY <2>2 DEF Moves
      <3>2. import.failed \in Nat
        BY <3>1 DEF Typed, ImportRecords
      <3>3. import'.failed # 0
        <4>1. import'.failed = import.failed + 1
          BY <2>2
        <4> QED
          BY <3>2, <4>1
      <3> QED
        BY <1>6, <1>7, <3>1, <3>3 DEF OneAccount, OwnRows
    <2> QED
      BY <1>7, <2>1, <2>2, RestoreCreatesMoves
  <1>8. CASE RestoreSaves
    <2>1. /\ import # NoImport /\ import' # NoImport /\ import'.step = "create note"
          /\ import.step = "save note"
          /\ import'.source = import.source /\ import'.key = import.key
      BY <1>8, RestoreSavesMoves DEF Moves
    <2>2. CASE /\ import'.restored = import.restored + 1 /\ import'.failed = import.failed
               /\ rows' = [rows EXCEPT ![Len(rows)] =
                            [key |-> import.key, body |-> import.restored + import.failed + 1]]
      <3> DEFINE note == [key |-> import.key, body |-> import.restored + import.failed + 1]
      <3>1. import.restored \in Nat /\ import.failed \in Nat
        BY <2>1 DEF Typed, ImportRecords
      <3>2. import.restored + import.failed < BackupSize
        BY <2>1 DEF RestoreSoFar, RestoreCounts
      <3>3. import.restored + import.failed + 1 \in 0..BackupSize
        BY <3>1, <3>2, AccountAssumption
      <3>4. note \in NoteRows /\ note.key = import.key
        BY <1>0, <2>1, <3>3 DEF NoteRows
      <3>5. rows' = [rows EXCEPT ![Len(rows)] = note] /\ Len(rows) > 0
        BY <2>1, <2>2 DEF RestoreSoFar, RestoreCounts
      <3> HIDE DEF note
      <3>6. \A i \in DOMAIN rows' :
              i \in DOMAIN rows /\ IF i = Len(rows) THEN rows'[i] = note ELSE rows'[i] = rows[i]
        BY <3>4, <3>5, LastIsFilled
      <3>7. OwnRows => OwnRows'
        BY <2>1, <2>2, <3>4, <3>6 DEF OwnRows
      <3> QED
        BY <1>6, <1>8, <2>1, <3>7 DEF OneAccount
    <2>3. CASE import'.restored = import.restored /\ import'.failed = import.failed + 1
      <3>1. import.failed \in Nat
        BY <2>1 DEF Typed, ImportRecords
      <3>2. import'.failed # 0
        BY <2>3, <3>1
      <3> QED
        BY <1>6, <1>8, <2>1, <3>2 DEF OneAccount, OwnRows
    <2> QED
      BY <1>8, <2>2, <2>3, RestoreSavesMoves
  <1>9. CASE RestoreEnds
    <2>1. CASE /\ Moves("create note", "initialized") /\ NotCounting
               /\ UNCHANGED <<disk, rows, masterKey, keySource, screen, used, history>>
      <3>1. /\ import # NoImport /\ import' # NoImport /\ import'.step = "initialized"
            /\ import.step = "create note"
            /\ import'.source = import.source /\ import'.key = import.key
            /\ import'.failed = import.failed
        BY <2>1 DEF Moves, NotCounting
      <3>2. UNCHANGED <<disk, rows, screen, history>>
        BY <2>1
      <3>3. ASSUME Clean' PROVE OwnImport'
        <4>1. OwnImport
          BY <3>2, <3>3 DEF Clean, history, OneAccount
        <4> QED
          BY <3>1, <3>2, <4>1 DEF OwnImport, OwnRows, Rows
      <3> QED
        BY <3>1, <3>3 DEF OneAccount, NothingLeft, OwnAccount
    <2> QED
      BY <1>4, <1>9, <2>1, RestoreEndsMoves
  <1>10. CASE EndImport
    <2>1. import # NoImport /\ import.step = "initialized"
      BY <1>10, StepIsNone DEF EndImport
    <2>2. ASSUME Clean' PROVE OwnAccount'
      <3>1. OwnImport /\ disk'.initialized
        BY <1>10, <2>2, WhatEndWrites DEF Clean, OneAccount
      <3>2. UnlockKey' = import.key
        <4>1. UnlockKey' = UnlockKey
          BY <1>10, WhatEndWrites DEF UnlockKey
        <4>2. CASE import.source = "mnemonic"
          <5>1. disk.keySource = None /\ disk.wrapped = import.key /\ None # "keycard"
            BY <2>1, <3>1, <4>2, AccountAssumption DEF OwnImport, RowsWritten
          <5> QED
            BY <4>1, <5>1 DEF UnlockKey
        <4>3. CASE import.source = "keycard"
          BY <2>1, <4>1, <4>3 DEF RowsWritten, UnlockKey, Rows
        <4> QED
          BY <1>0, <2>1, <4>2, <4>3 DEF Sources
      <3>3. masterKey' = import.key
        BY <1>10, <2>1, WhatEndWrites DEF Session, Rows
      <3>4. import.failed = 0
        BY <2>1 DEF RestoreSoFar, RestoreCounts
      <3>5. \A i \in DOMAIN rows' : rows'[i].key = import.key
        BY <1>10, <2>1, <3>1, <3>4, WhatEndWrites DEF OwnImport, OwnRows
      <3> QED
        BY <1>0, <2>1, <3>1, <3>2, <3>3, <3>5 DEF OwnAccount
    <2> QED
      BY <1>10, <2>2, WhatEndWrites DEF OneAccount, NothingLeft, OwnImport
  <1>11. ASSUME import = NoImport, import' = NoImport, screen # "import", screen' # "import",
                UNCHANGED disk, Clean' => Clean,
                Clean' => masterKey' \in {None, UnlockKey},
                \A i \in DOMAIN rows' : \/ \E j \in DOMAIN rows : rows'[i] = rows[j]
                                        \/ masterKey # None /\ rows'[i].key = masterKey
         PROVE  OneAccount'
    <2>1. UnlockKey' = UnlockKey
      BY <1>11 DEF UnlockKey
    <2>2. ASSUME Clean' PROVE OwnAccount'
      <3>1. OwnAccount
        BY <1>11, <2>2 DEF OneAccount
      <3> QED
        BY <1>11, <2>1, <2>2, <3>1 DEF OwnAccount
    <2> QED
      BY <1>11, <2>2 DEF OneAccount, NothingLeft, OwnImport
  <1>12. CASE UnlockWithPin
    <2>1. disk.keySource # "keycard" \/ misread'
      BY <1>12 DEF UnlockWithPin
    <2>2. Clean' => masterKey' = UnlockKey
      BY <1>12, <2>1 DEF UnlockWithPin, UnlockKey, Clean
    <2>3. Clean' => Clean
      BY <1>12 DEF UnlockWithPin, Clean
    <2> QED
      BY <1>11, <1>12, <2>2, <2>3 DEF UnlockWithPin
  <1>13. ASSUME NEW card \in Cards, UnlockWithCard(card) PROVE OneAccount'
    <2>1. Clean' => Clean
      BY <1>13 DEF UnlockWithCard, Clean
    <2>2. ASSUME Clean' PROVE masterKey' = UnlockKey
      <3>1. UnlockKey # None /\ UnlockKey = disk.fingerprint
        BY <1>13, <2>1, <2>2 DEF OneAccount, OwnAccount, UnlockWithCard, UnlockKey
      <3>2. disk.fingerprint \in {None, card} \/ disk.fingerprint = card
        BY <1>13, <2>2 DEF UnlockWithCard, Clean
      <3> QED
        BY <1>13, <3>1, <3>2 DEF UnlockWithCard
    <2> QED
      BY <1>11, <1>13, <2>1, <2>2 DEF UnlockWithCard
  <1>14. CASE AddNote
    <2> DEFINE note == [key |-> masterKey, body |-> 0]
               n == Len(rows)
    <2>1. rows \in Seq(NoteRows) /\ note \in NoteRows /\ note.key = masterKey
      BY <1>14, AccountAssumption DEF AddNote, Typed, AccountTypeOK, NoteRows
    <2>2. rows' = Append(rows, note) /\ masterKey # None
      BY <1>14 DEF AddNote
    <2> HIDE DEF note
    <2>3. n \in Nat /\ DOMAIN rows = 1..n
      BY <2>1, LenProperties
    <2>4. /\ rows' \in Seq(NoteRows) /\ Len(rows') = n + 1
          /\ \A i \in 1..n : rows'[i] = rows[i]
          /\ rows'[n + 1] = note
      BY <2>1, <2>2, AppendProperties
    <2>5. DOMAIN rows' = 1..n + 1
      BY <2>4, LenProperties
    <2> HIDE DEF n
    <2>6. ASSUME NEW i \in DOMAIN rows'
          PROVE  \/ \E j \in DOMAIN rows : rows'[i] = rows[j]
                 \/ masterKey # None /\ rows'[i].key = masterKey
      <3>1. i \in 1..n \/ i = n + 1
        BY <2>3, <2>5
      <3> QED
        BY <2>1, <2>2, <2>3, <2>4, <3>1
    <2>7. screen # "import" /\ import = NoImport
      BY <1>14 DEF AddNote, Session
    <2>8. UNCHANGED <<disk, masterKey, screen, import, history>>
      BY <1>14 DEF AddNote
    <2>9. (Clean' => Clean) /\ (Clean' => masterKey' \in {None, UnlockKey})
      BY <2>7, <2>8 DEF Clean, history, OneAccount, OwnAccount
    <2> QED
      BY <1>11, <2>6, <2>7, <2>8, <2>9
  <1>15. CASE DeleteNote
    <2>1. PICK k \in DOMAIN rows : rows' = RemoveAt(rows, k)
      BY <1>15 DEF DeleteNote
    <2>2. rows \in Seq(NoteRows) /\ DOMAIN rows = 1..Len(rows)
      BY LenProperties DEF Typed, AccountTypeOK, NoteRows
    <2>3. \A i \in DOMAIN rows' : \E j \in DOMAIN rows : rows'[i] = rows[j]
      <3>1. rows' \in Seq(NoteRows) /\ \A i \in 1..Len(rows') : \E j \in 1..Len(rows) : rows'[i] = rows[j]
        <4>1. k \in 1..Len(rows) /\ rows \in Seq(NoteRows)
          BY <2>2
        <4> HIDE DEF NoteRows
        <4> QED
          BY <2>1, <4>1, RemoveAtProperties
      <3>2. DOMAIN rows' = 1..Len(rows')
        BY <3>1, LenProperties
      <3> QED
        BY <2>2, <3>1, <3>2
    <2>4. screen # "import" /\ import = NoImport
      BY <1>15 DEF DeleteNote, Session
    <2>5. UNCHANGED <<disk, masterKey, screen, import, history>>
      BY <1>15 DEF DeleteNote
    <2>6. (Clean' => Clean) /\ (Clean' => masterKey' \in {None, UnlockKey})
      BY <2>4, <2>5 DEF Clean, history, OneAccount, OwnAccount
    <2> QED
      BY <1>11, <2>3, <2>4, <2>5, <2>6
  <1>16. CASE Lock
    BY <1>11, <1>16 DEF Lock, Clean, history
  <1>17. CASE ResetAndWipe
    BY <1>17, WipeIsClean DEF ResetAndWipe
  <1>18. CASE Restart
    <2>1. /\ masterKey' = None /\ import' = NoImport /\ UNCHANGED <<disk, rows, kept>>
          /\ torn' = (torn \/ (import # NoImport /\ disk # EmptyDisk))
      BY <1>18 DEF Restart
    <2>2. /\ screen' \in {"unlock", "import"}
          /\ misread => misread'
          /\ screen' = "unlock" => disk.initialized
          /\ screen' = "import" => ~disk.initialized \/ misread'
      BY <1>18, DoneIsBoolean DEF Restart
    <2>3. Clean' => Clean
      BY <2>1, <2>2 DEF Clean
    <2>4. UnlockKey' = UnlockKey
      BY <2>1 DEF UnlockKey
    <2>5. CASE import # NoImport
      <3>1. ASSUME Clean' PROVE disk = EmptyDisk /\ rows = <<>> /\ screen' = "import"
        <4>1. disk = EmptyDisk
          BY <2>1, <2>5, <3>1 DEF Clean
        <4>2. import.step \in {"wrapped_key", "key_source"}
          <5>1. import.key # None /\ None # "keycard"
            BY <1>0, <2>5, AccountAssumption
          <5>2. disk.wrapped = None /\ disk.keySource = None
            BY <4>1 DEF EmptyDisk
          <5> QED
            BY <1>0, <2>5, <5>1, <5>2 DEF RowsWritten, Sources
        <4>3. rows = <<>> /\ ~disk.initialized
          BY <2>3, <2>5, <3>1, <4>2 DEF OneAccount, OwnImport, Rows
        <4> QED
          BY <2>2, <4>1, <4>3
      <3> QED
        BY <2>1, <3>1 DEF OneAccount, NothingLeft, OwnImport, OwnAccount
    <2>6. CASE import = NoImport /\ screen = "import"
      <3>1. ASSUME Clean' PROVE disk = EmptyDisk /\ rows = <<>> /\ screen' = "import"
        BY <2>2, <2>3, <2>6, <3>1 DEF OneAccount, NothingLeft, EmptyDisk
      <3> QED
        BY <2>1, <3>1 DEF OneAccount, NothingLeft, OwnImport, OwnAccount
    <2>7. CASE import = NoImport /\ screen # "import"
      <3>1. ASSUME Clean' PROVE OwnAccount /\ screen' = "unlock"
        BY <2>2, <2>3, <2>7, <3>1 DEF OneAccount, OwnAccount, Clean
      <3> QED
        BY <2>1, <2>4, <2>7, <3>1 DEF OneAccount, NothingLeft, OwnImport, OwnAccount
    <2> QED
      BY <2>5, <2>6, <2>7
  <1>19. CASE UNCHANGED accountVars
    BY <1>19 DEF accountVars, history, OneAccount, Clean, NothingLeft, OwnImport, OwnRows, OwnAccount, UnlockKey
  <1> QED
    BY <1>1, <1>2, <1>3, <1>4, <1>5, <1>7, <1>8, <1>9, <1>10, <1>12, <1>13, <1>14, <1>15,
       <1>16, <1>17, <1>18, <1>19 DEF AccountNext, RowFails, BackupUnreadable

-----------------------------------------------------------------------------
LEMMA AccountInvInit == AccountInit => AccountInv
  <1> SUFFICES ASSUME AccountInit PROVE AccountInv
    OBVIOUS
  <1> USE DEF AccountInit
  <1>1. Typed
    BY EmptySeq DEF Typed, AccountTypeOK, EmptyDisk, Sources
  <1>2. Session /\ RowsWritten /\ RestoreSoFar
    BY DEF Session, RowsWritten, RestoreSoFar
  <1>3. WholeAccount
    BY DEF WholeAccount, EmptyDisk
  <1>4. OneAccount
    BY DEF OneAccount, NothingLeft, OwnImport, OwnAccount
  <1> QED
    BY <1>1, <1>2, <1>3, <1>4 DEF AccountInv

LEMMA AccountInvStep == AccountInv /\ [AccountNext]_accountVars => AccountInv'
  BY TypedStep, SessionStep, RowsWrittenStep, WholeAccountStep, RestoreSoFarStep, OneAccountStep
  DEF AccountInv

LEMMA AccountInvariance == AccountSpec => []AccountInv
  BY AccountInvInit, AccountInvStep, PTL DEF AccountSpec

\* NotesBackend and DatabaseManager, across imports, restores, unlocks, wipes
\* and restarts, keep to the types of Account.
THEOREM AccountTypes == AccountSpec => []AccountTypeOK
  <1>1. AccountInv => AccountTypeOK
    BY DEF AccountInv, Typed
  <1> QED
    BY <1>1, AccountInvariance, PTL

\* Every note in the table can be decrypted in the session, and after the next
\* unlock, unless an import was cut short, a wipe left the file behind, or a
\* row was misread: an import finds nothing behind its screen and writes its
\* rows and notes with one key, and every unlock gives that key.
THEOREM AllNotesReadable == AccountSpec => []NotesReadable
  <1>1. ASSUME AccountInv PROVE NotesReadable
    <2>1. CASE Clean /\ import = NoImport /\ screen = "import"
      <3>1. masterKey = None
        BY <1>1, <2>1 DEF AccountInv, Session
      <3> QED
        BY <2>1, <3>1 DEF NotesReadable
    <2>2. CASE Clean /\ import = NoImport /\ screen # "import"
      <3>1. OwnAccount
        BY <1>1, <2>2 DEF AccountInv, OneAccount
      <3> QED
        BY <2>2, <3>1 DEF NotesReadable, OwnAccount
    <2> QED
      BY <2>1, <2>2 DEF NotesReadable, Clean
  <1> QED
    BY <1>1, AccountInvariance, PTL

\* A failed import or restore rolls back completely: behind the import screen
\* there is no account, no note and no key.
THEOREM NothingIsBehindImport == AccountSpec => []NothingBehindImport
  <1>1. ASSUME AccountInv PROVE NothingBehindImport
    <2>1. CASE Clean /\ import = NoImport /\ screen = "import"
      <3>1. masterKey = None /\ disk = EmptyDisk /\ rows = <<>>
        BY <1>1, <2>1 DEF AccountInv, Session, OneAccount, NothingLeft
      <3> QED
        BY <3>1 DEF NothingBehindImport, EmptyDisk
    <2> QED
      BY <2>1 DEF NothingBehindImport, Clean
  <1> QED
    BY <1>1, AccountInvariance, PTL

\* What the constructor takes for an account has all its rows, whatever
\* statement failed or crash came before: "initialized" is written last.
THEOREM InitializedAccountIsWhole == AccountSpec => []InitializedIsWhole
  <1>1. AccountInv => InitializedIsWhole
    BY DEF AccountInv, WholeAccount, InitializedIsWhole
  <1> QED
    BY <1>1, AccountInvariance, PTL

\* The note screen, which NotesPlugin takes for the success of a call, is shown
\* exactly while a session holds a key.
THEOREM NoteScreenNeedsSession == AccountSpec => []NoteScreenIsSession
  <1>1. AccountInv => NoteScreenIsSession
    BY DEF AccountInv, Session, NoteScreenIsSession
  <1> QED
    BY <1>1, AccountInvariance, PTL

\* An import with a backup file that ends in a session has every note of the
\* file, under the session's key, however many notes the file has.
THEOREM EveryNoteRestored == AccountSpec => RestoredWhole
  <1>1. ASSUME AccountInv, [AccountNext]_accountVars,
               import # NoImport, import.backup, screen' = "note"
        PROVE  /\ masterKey' = import.key
               /\ \A b \in 1..BackupSize :
                    \E i \in DOMAIN rows' : rows'[i] = [key |-> import.key, body |-> b]
    <2>1. screen = "import"
      BY <1>1 DEF AccountInv, Session
    <2>2. EndImport
      <3>1. ASSUME NEW source \in Sources, NEW key \in Keys, NEW backup \in BOOLEAN,
                   BeginImport(source, key, backup)
            PROVE  FALSE
        BY <1>1, <3>1 DEF BeginImport
      <3>2. ASSUME NEW card \in Cards, UnlockWithCard(card) PROVE FALSE
        BY <1>1, <3>2 DEF UnlockWithCard
      <3>3. WriteRow \/ WrappedKeyFails \/ OpenBackup \/ RestoreCreates \/ RestoreSaves
              => screen' = screen
        BY DEF WriteRow, WrappedKeyFails, OpenBackup, RestoreCreates, RestoreSaves
      <3>4. RowFails \/ BackupUnreadable => screen' = "import"
        BY DEF RowFails, BackupUnreadable, Rollback
      <3>5. RestoreEnds => screen' = screen \/ screen' = "import"
        BY DEF RestoreEnds, Rollback
      <3>6. ~UnlockWithPin /\ ~AddNote /\ ~DeleteNote /\ ~Lock /\ ~ResetAndWipe
        BY <1>1 DEF UnlockWithPin, AddNote, DeleteNote, Lock, ResetAndWipe
      <3>7. Restart => screen' \in {"unlock", "import"}
        BY DEF Restart
      <3>8. UNCHANGED accountVars => screen' = screen
        BY DEF accountVars
      <3> QED
        BY <1>1, <2>1, <3>1, <3>2, <3>3, <3>4, <3>5, <3>6, <3>7, <3>8 DEF AccountNext
    <2>3. import.step = "initialized" /\ UNCHANGED <<rows, masterKey>>
      BY <2>2 DEF EndImport
    <2>4. masterKey' = import.key
      BY <1>1, <2>3 DEF AccountInv, Session, Rows
    <2>5. import.failed = 0 /\ import.restored = BackupSize
      BY <1>1, <2>3 DEF AccountInv, RestoreSoFar, RestoreCounts
    <2>6. RestoredRows
      BY <1>1 DEF AccountInv, RestoreSoFar
    <2> QED
      BY <2>3, <2>4, <2>5, <2>6 DEF RestoredRows
  <1>2. AccountInv /\ [AccountNext]_accountVars =>
          [(import # NoImport /\ import.backup /\ screen' = "note") =>
             /\ masterKey' = import.key
             /\ \A b \in 1..BackupSize :
                  \E i \in DOMAIN rows' : rows'[i] = [key |-> import.key, body |-> b]]_accountVars
    BY <1>1
  <1> QED
    BY <1>2, AccountInvariance, PTL DEF AccountSpec, RestoredWhole

==============================================================================
