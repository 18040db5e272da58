------------------------------- MODULE Account -------------------------------
(* How an account comes into the database and out of it: importMnemonic and   *)
(* importWithKeycardKey of NotesBackend with the restore of a backup file,    *)
(* the unlocks, lock and resetAndWipe, over DatabaseManager, which commits    *)
(* every statement on its own (src/core/NotesBackend.cpp,                     *)
(* src/core/DatabaseManager.cpp).                                             *)
(*                                                                            *)
(* An import is one handler, but its writes are separate commits, so it is    *)
(* taken statement by statement: any of them can fail, and the process can    *)
(* die after any of them.  Nothing else happens while one is under way.  A    *)
(* key stands for itself and for the fingerprint and the salt made with it.   *)
EXTENDS Naturals, Sequences, SequencesExt

CONSTANTS
    Imports,        \* importMnemonic calls; the salt is random, so each has its own key
    Cards,          \* keycards; a card has one key for ever
    BackupSize,     \* notes in a backup file
    MaxRows,        \* bound: rows of the notes table
    StatementsFail, \* may a statement, or the removal of the database file, fail?
    None

ASSUME AccountAssumption ==
    /\ Imports \intersect Cards = {}
    /\ None \notin Imports \union Cards \union {"keycard"}
    /\ BackupSize \in Nat /\ MaxRows \in Nat
    /\ StatementsFail \in BOOLEAN

VARIABLES
    disk,           \* wrapped_key and the meta rows
    rows,           \* the notes table: [key, body]
    masterKey,      \* KeyManager's key
    keySource,      \* m_keySource
    screen,         \* m_currentScreen
    import,         \* the import under way
    used,           \* importMnemonic calls made
    torn,           \* history: an import left its rows behind without "initialized"
    kept,           \* history: the database file could not be removed by a wipe
    misread         \* history: a read failed, and an account was overlooked or a
                    \* card or PIN taken for it that is not its own

history == <<torn, kept, misread>>
accountVars == <<disk, rows, masterKey, keySource, screen, import, used, history>>

Keys == Imports \union Cards
Sources == {"mnemonic", "keycard"}
NoImport == [step |-> "none"]
EmptyDisk == [wrapped |-> None, salt |-> None, fingerprint |-> None,
              keySource |-> None, initialized |-> FALSE]
BlankRow == [key |-> None, body |-> 0]

\* Outcomes of a statement.
Done == IF StatementsFail THEN BOOLEAN ELSE {TRUE}

AccountInit ==
    /\ disk = EmptyDisk /\ rows = <<>>
    /\ masterKey = None /\ keySource = "none" /\ screen = "import"
    /\ import = NoImport
    /\ used = {} /\ torn = FALSE /\ kept = FALSE /\ misread = FALSE

\* DatabaseManager::wipe ignores the result of QFile::remove: the file may
\* stay, and init opens it again.
WipeDatabase ==
    \E removed \in Done :
        /\ disk' = IF removed THEN EmptyDisk ELSE disk
        /\ rows' = IF removed THEN <<>> ELSE rows
        /\ kept' = (~removed /\ (kept \/ disk # EmptyDisk \/ rows # <<>>))
        /\ torn' = (torn /\ ~removed)
        /\ misread' = (misread /\ ~removed)

\* Fault: the key and the screen are reset, the database is not.
RollbackKeepsRows ==
    /\ masterKey' = None /\ screen' = "import" /\ import' = NoImport
    /\ UNCHANGED <<disk, rows, keySource, used, history>>

\* The rollback of a failed import.
Rollback ==
    /\ WipeDatabase
    /\ masterKey' = None /\ screen' = "import" /\ import' = NoImport
    /\ UNCHANGED <<keySource, used>>

-----------------------------------------------------------------------------
\* Fault: the keycard import goes on with the rows of a PIN account.
FollowingWithPin(step) ==
    CASE step = "key_source" -> "wrapped_key"
      [] step = "wrapped_key" -> "mnemonic_kdf_salt"
      [] step = "mnemonic_kdf_salt" -> "account_fingerprint"
      [] step = "account_fingerprint" -> IF import.backup THEN "open backup" ELSE "initialized"
      [] step = "open backup" -> "create note"

\* Both imports: which row is written when.
Following(step) ==
    CASE step = "wrapped_key" -> "mnemonic_kdf_salt"
      [] step \in {"mnemonic_kdf_salt", "key_source"} -> "account_fingerprint"
      [] step = "account_fingerprint" -> IF import.backup THEN "open backup" ELSE "initialized"
      [] step = "open backup" -> "create note"

\* importMnemonic with valid input, importWithKeycardKey.
BeginImport(source, key, backup) ==
    /\ import = NoImport /\ screen = "import"
    /\ key \in IF source = "mnemonic" THEN Imports \ used ELSE Cards
    /\ used' = used \union ({key} \intersect Imports)
    /\ import' = [step   |-> IF source = "mnemonic" THEN "wrapped_key" ELSE "key_source",
                  source |-> source, key |-> key, backup |-> backup,
                  restored |-> 0, failed |-> 0]
    /\ UNCHANGED <<disk, rows, masterKey, keySource, screen, history>>

Rows == {"wrapped_key", "mnemonic_kdf_salt", "key_source", "account_fingerprint"}

Written(step) ==
    CASE step = "wrapped_key" -> [disk EXCEPT !.wrapped = import.key]
      [] step = "mnemonic_kdf_salt" -> [disk EXCEPT !.salt = import.key]
      [] step = "key_source" -> [disk EXCEPT !.keySource = "keycard"]
      [] step = "account_fingerprint" -> [disk EXCEPT !.fingerprint = import.key]

\* saveWrappedKey, saveMetaBlob, saveMeta: the key is held in memory once the
\* last row is written.
WriteRow ==
    /\ import.step \in Rows
    /\ disk' = Written(import.step)
    /\ import' = [import EXCEPT !.step = Following(@)]
    /\ masterKey' = IF import.step = "account_fingerprint" THEN import.key ELSE masterKey
    /\ UNCHANGED <<rows, keySource, screen, used, history>>

\* The wrapped key is the first thing written: nothing to take back.
WrappedKeyFails ==
    /\ StatementsFail /\ import.step = "wrapped_key"
    /\ import' = NoImport
    /\ UNCHANGED <<disk, rows, masterKey, keySource, screen, used, history>>

\* Fault: saveMetaBlob's result is not looked at, the salt may be missing.
RowFailsUnnoticed ==
    /\ StatementsFail /\ import.step \in Rows \ {"wrapped_key"}
    /\ IF import.step # "mnemonic_kdf_salt" THEN Rollback
       ELSE /\ import' = [import EXCEPT !.step = Following(@)]
            /\ UNCHANGED <<disk, rows, masterKey, keySource, screen, used, history>>

RowFails ==
    /\ StatementsFail /\ import.step \in Rows \ {"wrapped_key"}
    /\ Rollback

-----------------------------------------------------------------------------
\* importBackup: the file is read and decrypted, or it is not.
OpenBackup ==
    /\ import.step = "open backup"
    /\ import' = [import EXCEPT !.step = Following(@)]
    /\ UNCHANGED <<disk, rows, masterKey, keySource, screen, used, history>>

BackupUnreadable ==
    /\ import.step = "open backup"
    /\ Rollback

MoreToRestore == import.restored + import.failed < BackupSize

\* createNote: an empty row, filled by the next statement.
RestoreCreates ==
    /\ import.step = "create note" /\ MoreToRestore /\ Len(rows) < MaxRows
    /\ \E ok \in Done :
         IF ok THEN /\ rows' = Append(rows, BlankRow)
                    /\ import' = [import EXCEPT !.step = "save note"]
         ELSE import' = [import EXCEPT !.failed = @ + 1] /\ UNCHANGED rows
    /\ UNCHANGED <<disk, masterKey, keySource, screen, used, history>>

\* saveNote; when it fails the empty row is deleted, if that succeeds.
RestoreSaves ==
    /\ import.step = "save note"
    /\ \E saved, deleted \in Done :
         IF saved
         THEN /\ rows' = [rows EXCEPT ![Len(rows)] =
                            [key |-> import.key, body |-> import.restored + import.failed + 1]]
              /\ import' = [import EXCEPT !.restored = @ + 1, !.step = "create note"]
         ELSE /\ rows' = IF deleted THEN Front(rows) ELSE rows
              /\ import' = [import EXCEPT !.failed = @ + 1, !.step = "create note"]
    /\ UNCHANGED <<disk, masterKey, keySource, screen, used, history>>

\* Fault: a restore that lost notes is good enough.
RestoreEndsAnyway ==
    /\ import.step = "create note" /\ ~MoreToRestore
    /\ import' = [import EXCEPT !.step = "initialized"]
    /\ UNCHANGED <<disk, rows, masterKey, keySource, screen, used, history>>

\* ok only if no note failed.
RestoreEnds ==
    /\ import.step = "create note" /\ ~MoreToRestore
    /\ IF import.failed = 0
       THEN /\ import' = [import EXCEPT !.step = "initialized"]
            /\ UNCHANGED <<disk, rows, masterKey, keySource, screen, used, history>>
       ELSE Rollback

\* setInitialized, whose result is ignored; then the session.
EndImport ==
    /\ import.step = "initialized"
    /\ \E ok \in Done :
         /\ disk' = [disk EXCEPT !.initialized = @ \/ ok]
         /\ torn' = (torn \/ (~ok /\ ~disk.initialized))
    /\ keySource' = import.source
    /\ screen' = "note" /\ import' = NoImport
    /\ UNCHANGED <<rows, masterKey, used, kept, misread>>

-----------------------------------------------------------------------------
\* unlockWithPin with the right PIN.  The unlock screen offers the flow that
\* getKeySource names: the PIN's, when the row cannot be read.
UnlockWithPin ==
    /\ import = NoImport /\ screen = "unlock"
    /\ disk.wrapped # None
    /\ \E read \in Done : read => disk.keySource # "keycard"
    /\ misread' = (misread \/ disk.keySource = "keycard")
    /\ masterKey' = disk.wrapped
    /\ keySource' = "mnemonic" /\ screen' = "note"
    /\ UNCHANGED <<disk, rows, import, used, torn, kept>>

\* Fault: the stored fingerprint is not compared.
UnlockWithAnyCard(card) ==
    /\ import = NoImport /\ screen = "unlock"
    /\ disk.keySource = "keycard"
    /\ masterKey' = card
    /\ keySource' = "keycard" /\ screen' = "note"
    /\ UNCHANGED <<disk, rows, import, used, history>>

\* unlockWithKeycardKey: only the card of the stored fingerprint, if there is
\* one that can be read.
UnlockWithCard(card) ==
    /\ import = NoImport /\ screen = "unlock"
    /\ disk.keySource = "keycard"
    /\ \E read \in Done :
         /\ read => disk.fingerprint \in {None, card}
         /\ misread' = (misread \/ (~read /\ disk.fingerprint # card))
    /\ masterKey' = card
    /\ keySource' = "keycard" /\ screen' = "note"
    /\ UNCHANGED <<disk, rows, import, used, torn, kept>>

\* createNote and saveNote.
AddNote ==
    /\ import = NoImport /\ masterKey # None /\ Len(rows) < MaxRows
    /\ rows' = Append(rows, [key |-> masterKey, body |-> 0])
    /\ UNCHANGED <<disk, masterKey, keySource, screen, import, used, history>>

DeleteNote ==
    /\ import = NoImport /\ masterKey # None
    /\ \E i \in DOMAIN rows : rows' = RemoveAt(rows, i)
    /\ UNCHANGED <<disk, masterKey, keySource, screen, import, used, history>>

\* Fault: the key stays in memory.
LockKeepsKey ==
    /\ import = NoImport /\ screen = "note"
    /\ keySource' = "none" /\ screen' = "unlock"
    /\ UNCHANGED <<disk, rows, masterKey, import, used, history>>

Lock ==
    /\ import = NoImport /\ screen = "note"
    /\ masterKey' = None /\ keySource' = "none" /\ screen' = "unlock"
    /\ UNCHANGED <<disk, rows, import, used, history>>

\* resetAndWipe, from the settings or from the unlock screen.
ResetAndWipe ==
    /\ import = NoImport /\ screen # "import"
    /\ WipeDatabase
    /\ masterKey' = None /\ keySource' = "none" /\ screen' = "import"
    /\ UNCHANGED <<import, used>>

\* The process ends, in the middle of an import or not; the constructor of the
\* next one chooses the screen, "import" when it cannot read "initialized".
Restart ==
    /\ masterKey' = None /\ keySource' = "none" /\ import' = NoImport
    /\ \E read \in Done :
         /\ screen' = IF disk.initialized /\ read THEN "unlock" ELSE "import"
         /\ misread' = (misread \/ (disk.initialized /\ ~read))
    /\ torn' = (torn \/ (import # NoImport /\ disk # EmptyDisk))
    /\ UNCHANGED <<disk, rows, used, kept>>

AccountNext ==
    \/ \E source \in Sources, key \in Keys, backup \in BOOLEAN :
         BeginImport(source, key, backup)
    \/ WriteRow
    \/ WrappedKeyFails
    \/ RowFails
    \/ OpenBackup
    \/ BackupUnreadable
    \/ RestoreCreates
    \/ RestoreSaves
    \/ RestoreEnds
    \/ EndImport
    \/ UnlockWithPin
    \/ \E card \in Cards : UnlockWithCard(card)
    \/ AddNote
    \/ DeleteNote
    \/ Lock
    \/ ResetAndWipe
    \/ Restart

AccountSpec == AccountInit /\ [][AccountNext]_accountVars

-----------------------------------------------------------------------------
\* The key that unlocking gives.
UnlockKey == IF disk.keySource = "keycard" THEN disk.fingerprint ELSE disk.wrapped

AccountTypeOK ==
    /\ disk \in [wrapped : Imports \union {None}, salt : Imports \union {None},
                 fingerprint : Keys \union {None}, keySource : {"keycard", None},
                 initialized : BOOLEAN]
    /\ rows \in Seq([key : Keys \union {None}, body : 0..BackupSize])
    /\ masterKey \in Keys \union {None}
    /\ keySource \in Sources \union {"none"}
    /\ screen \in {"import", "unlock", "note"}
    /\ used \subseteq Imports
    /\ {torn, kept, misread} \subseteq BOOLEAN

\* Every note in the table is readable in the session, and will be after the
\* next unlock, unless an import was cut short, a wipe left the file behind, or
\* an account was overlooked or opened with a card that is not its own because a
\* row could not be read.
NotesReadable ==
    (~torn /\ ~kept /\ ~misread /\ import = NoImport) =>
        /\ masterKey # None => \A i \in DOMAIN rows : rows[i].key = masterKey
        /\ screen # "import" => /\ UnlockKey # None
                                /\ \A i \in DOMAIN rows : rows[i].key = UnlockKey

\* docs/skills/lessons.md: "Failed restore must roll back completely".  Behind
\* the import screen there is no account and no note.
NothingBehindImport ==
    (screen = "import" /\ import = NoImport /\ ~torn /\ ~kept /\ ~misread) =>
        rows = <<>> /\ ~disk.initialized /\ masterKey = None

\* docs/skills/lessons.md: "setInitialized() must be called after successful
\* restore, not before".  What the constructor takes for an account has all its
\* rows, whatever crash came before it: a PIN account's key, salt and
\* fingerprint are those of one import.
InitializedIsWhole ==
    (disk.initialized /\ ~kept /\ ~misread /\ import = NoImport) =>
        /\ disk.fingerprint # None
        /\ disk.keySource = None =>
             disk.wrapped # None /\ disk.salt = disk.wrapped /\ disk.fingerprint = disk.wrapped

\* NotesPlugin takes the screen for the result of a call: the note screen is
\* shown when a key is held for the session, and only then.
NoteScreenIsSession ==
    import = NoImport =>
        /\ screen = "note" <=> masterKey # None
        /\ screen = "note" <=> keySource # "none"

\* docs/skills/lessons.md: "Failed restore must roll back completely".  An
\* import with a backup file that ends in a session has every note of the file,
\* under the session's key: importBackup reports ok only when no note failed.
RestoredWhole ==
    [][(import # NoImport /\ import.backup /\ screen' = "note") =>
          /\ masterKey' = import.key
          /\ \A b \in 1..BackupSize :
               \E i \in DOMAIN rows' : rows'[i] = [key |-> import.key, body |-> b]]_accountVars
==============================================================================
