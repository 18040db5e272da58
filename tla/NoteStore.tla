------------------------------ MODULE NoteStore ------------------------------
(* The notes in the database (src/core/DatabaseManager.cpp) and the calls of  *)
(* NotesBackend on them: create, save and delete, the titles, the backup file *)
(* and its restore.  Under them lies the schema, which init brings up to date *)
(* with one ALTER TABLE after the other at every start.                       *)
(*                                                                            *)
(* Every statement is a commit of its own and can fail, and the process can   *)
(* die between two.  NotesBackend's constructor ignores init's result: a      *)
(* process runs on whatever schema it has.  All notes are under the session's *)
(* key (see Account), and the order of the list is left out.                  *)
EXTENDS Naturals, Sequences, FiniteSets

CONSTANTS
    Words,          \* texts with a first line; each stands for its own title
    Blanks,         \* texts of white space: their title is empty
    Empty,          \* the empty text
    Unwritten,      \* no ciphertext in a column (X'')
    MaxNotes,       \* bound: numbers given to notes
    StatementsFail, \* may a statement or a file fail?
    None

Texts == Words \union Blanks \union {Empty}

ASSUME StoreAssumption ==
    /\ Words \intersect Blanks = {} /\ Empty \notin Words \union Blanks
    /\ Unwritten \notin Texts
    /\ MaxNotes \in Nat \ {0, 1}
    /\ StatementsFail \in BOOLEAN

VARIABLES
    columns,        \* of the table notes; {}: there is no table
    notes,          \* its rows: number -> [body, sealed, legacy]
    last,           \* sqlite_sequence: the highest number given
    step,           \* where the process is: "down", in init, "up"
    alter,          \* columns init is about to add
    session,        \* "locked", "migrating" (migratePlaintextTitles), "open"
    migrating,      \* notes whose title is still to be encrypted
    file,           \* the last backup file
    failed,         \* history: a statement failed since the process started
    cut             \* history: one ALTER of a pair was done and not the other

vars == <<columns, notes, last, step, alter, session, migrating, file, failed, cut>>
schemaVars == <<columns, step, alter, cut>>
noteVars == <<notes, last>>
sessionVars == <<session, migrating>>

Phase1 == <<"title", "updated_at">>
Phase15 == <<"title_ciphertext", "title_nonce">>
AllColumns == {"body", "title", "updated_at", "title_ciphertext", "title_nonce"}
SchemaWhole == columns = AllColumns

\* A row: the text, the encrypted title, the plain title of older versions.
Rows == [body : Texts \union {Unwritten}, sealed : Texts \union {Unwritten}, legacy : Texts]
Ids == 1..MaxNotes

TitleFromPlaintext(text) == IF text \in Words THEN text ELSE Empty

\* Outcomes of a statement.
Outcomes == IF StatementsFail THEN BOOLEAN ELSE {TRUE}

\* No database; that of version 0 (one note, no title); that of version 1
\* (titles in plain text).
StoreInit ==
    /\ \/ columns = {} /\ notes = <<>> /\ last = 0
       \/ /\ columns = {"body"} /\ last = 1
          /\ \E text \in Texts :
               notes = [n \in {1} |-> [body |-> text, sealed |-> Unwritten, legacy |-> Empty]]
       \/ /\ columns = {"body", "title", "updated_at"} /\ last = 2
          /\ \E f \in [{1, 2} -> Texts] :
               notes = [n \in {1, 2} |-> [body |-> f[n], sealed |-> Unwritten,
                                          legacy |-> TitleFromPlaintext(f[n])]]
    /\ step = "down" /\ alter = <<>>
    /\ session = "locked" /\ migrating = {}
    /\ file = None
    /\ failed = FALSE /\ cut = FALSE

-----------------------------------------------------------------------------
\* The process starts: NotesBackend's constructor calls init.
Start ==
    /\ step = "down"
    /\ step' = "create" /\ failed' = FALSE
    /\ UNCHANGED <<columns, noteVars, alter, sessionVars, file, cut>>

\* Fault: a database of version 1 is taken to be up to date.
CreateTablesOnly ==
    /\ step = "create"
    /\ columns' = columns \union {"body"}
    /\ IF "updated_at" \in columns THEN step' = "up" /\ UNCHANGED alter
                                   ELSE step' = "phase 1" /\ alter' = Phase1
    /\ UNCHANGED <<noteVars, sessionVars, file, failed, cut>>

\* CREATE TABLE IF NOT EXISTS, and which columns the first migration adds.
CreateTables ==
    /\ step = "create"
    /\ columns' = columns \union {"body"}
    /\ step' = "phase 1"
    /\ alter' = IF "updated_at" \in columns THEN <<>> ELSE Phase1
    /\ UNCHANGED <<noteVars, sessionVars, file, failed, cut>>

\* ALTER TABLE: fails on a column that is there already.
AddColumn ==
    /\ alter # <<>> /\ Head(alter) \notin columns
    /\ columns' = columns \union {Head(alter)}
    /\ alter' = Tail(alter)
    /\ UNCHANGED <<noteVars, step, sessionVars, file, failed, cut>>

NextPhase ==
    /\ step = "phase 1" /\ alter = <<>>
    /\ step' = "phase 1.5"
    /\ alter' = IF "title_ciphertext" \in columns THEN <<>> ELSE Phase15
    /\ UNCHANGED <<columns, noteVars, sessionVars, file, failed, cut>>

InitEnds ==
    /\ step = "phase 1.5" /\ alter = <<>>
    /\ step' = "up"
    /\ UNCHANGED <<columns, noteVars, alter, sessionVars, file, failed, cut>>

\* init returns false; the process goes on.
InitFails ==
    /\ \/ StatementsFail /\ step \in {"create", "phase 1", "phase 1.5"}
       \/ alter # <<>> /\ Head(alter) \in columns
    /\ step' = "up" /\ alter' = <<>>
    /\ failed' = TRUE
    /\ cut' = (cut \/ Len(alter) = 1)
    /\ UNCHANGED <<columns, noteVars, sessionVars, file>>

\* The process dies or is closed, at any point.
Crash ==
    /\ step # "down"
    /\ step' = "down" /\ alter' = <<>>
    /\ session' = "locked" /\ migrating' = {}
    /\ cut' = (cut \/ Len(alter) = 1)
    /\ UNCHANGED <<columns, noteVars, file, failed>>

-----------------------------------------------------------------------------
\* What the statements on notes need of the schema.
CanInsert == {"title", "updated_at"} \subseteq columns
CanUpdate == SchemaWhole
CanList == SchemaWhole

\* Fault: the plain title stays next to the encrypted one.
WrittenKeepsLegacy(n, body, title) ==
    notes' = [notes EXCEPT ![n].body = body, ![n].sealed = title]

\* DatabaseManager::saveNote(id, ...): body, encrypted title, no plain title.
Written(n, body, title) ==
    notes' = [notes EXCEPT ![n] = [body |-> body, sealed |-> title, legacy |-> Empty]]

\* An unlock that succeeded: migratePlaintextTitles lists the notes whose title
\* is plain, if it can list them.
Unlock ==
    /\ step = "up" /\ session = "locked"
    /\ session' = "migrating"
    /\ \E listed \in Outcomes :
         /\ migrating' = IF listed /\ CanList
                         THEN {n \in DOMAIN notes : /\ notes[n].sealed = Unwritten
                                                    /\ notes[n].legacy # Empty}
                         ELSE {}
         /\ failed' = (failed \/ ~listed)
    /\ UNCHANGED <<schemaVars, noteVars, file>>

\* Fault: the text is not passed through.
MigrateTitleDropsBody(n) ==
    /\ n \in migrating
    /\ migrating' = migrating \ {n}
    /\ Written(n, Unwritten, notes[n].legacy)
    /\ UNCHANGED <<schemaVars, last, session, file, failed>>

\* One title is encrypted, the text passed through; a failure leaves it plain.
MigrateTitle(n) ==
    /\ n \in migrating
    /\ migrating' = migrating \ {n}
    /\ \E ok \in Outcomes :
         /\ IF ok THEN Written(n, notes[n].body, notes[n].legacy) ELSE UNCHANGED notes
         /\ failed' = (failed \/ ~ok)
    /\ UNCHANGED <<schemaVars, last, session, file>>

UnlockEnds ==
    /\ session = "migrating" /\ migrating = {}
    /\ session' = "open"
    /\ UNCHANGED <<schemaVars, noteVars, migrating, file, failed>>

Lock ==
    /\ session = "open"
    /\ session' = "locked"
    /\ UNCHANGED <<schemaVars, noteVars, migrating, file, failed>>

-----------------------------------------------------------------------------
NewRow(n, row) == [m \in DOMAIN notes \union {n} |-> IF m = n THEN row ELSE notes[m]]
BlankRow == [body |-> Unwritten, sealed |-> Unwritten, legacy |-> Empty]

CreateNote ==
    /\ session = "open" /\ last < MaxNotes /\ CanInsert
    /\ last' = last + 1
    /\ notes' = NewRow(last', BlankRow)
    /\ UNCHANGED <<schemaVars, sessionVars, file, failed>>

SaveNote(n, text) ==
    /\ session = "open" /\ CanUpdate
    /\ n \in DOMAIN notes
    /\ Written(n, text, TitleFromPlaintext(text))
    /\ UNCHANGED <<schemaVars, last, sessionVars, file, failed>>

DeleteNote(n) ==
    /\ session = "open" /\ n \in DOMAIN notes
    /\ notes' = [m \in DOMAIN notes \ {n} |-> notes[m]]
    /\ UNCHANGED <<schemaVars, last, sessionVars, file, failed>>

\* Fault: the table is left as it is.
WipeKeepsRows ==
    /\ step = "up" /\ session # "migrating"
    /\ last' = 0 /\ step' = "create" /\ session' = "locked"
    /\ UNCHANGED <<columns, notes, alter, migrating, file, failed, cut>>

\* resetAndWipe: the database file goes, init makes a new one; a file that
\* cannot be removed is opened again as it is.
Wipe ==
    /\ step = "up" /\ session # "migrating"
    /\ step' = "create" /\ session' = "locked"
    /\ \E removed \in Outcomes :
         /\ IF removed THEN columns' = {} /\ notes' = <<>> /\ last' = 0 /\ cut' = FALSE
                       ELSE UNCHANGED <<columns, noteVars, cut>>
         /\ failed' = ~removed
    /\ UNCHANGED <<alter, migrating, file>>

-----------------------------------------------------------------------------
\* What loadNote gives for a row.
Shown(row) == IF row.body = Unwritten THEN Empty ELSE row.body

\* A note exportBackup leaves out: its text or its title could not be read, or
\* decrypts to nothing.
LeftOut(n, unread) == n \in unread \/ Empty \in {notes[n].body, notes[n].sealed}

\* Fault: a note that decrypts to nothing is passed over and not counted.
ExportBackupUncounted ==
    /\ session = "open"
    /\ \E unread \in IF StatementsFail THEN SUBSET DOMAIN notes ELSE {{}} :
         file' = [ok      |-> unread = {},
                  listed  |-> CanList,
                  texts   |-> [n \in DOMAIN notes |-> Shown(notes[n])],
                  unread  |-> unread,
                  entries |-> [n \in {m \in DOMAIN notes : ~LeftOut(m, unread)} |->
                                 [content |-> Shown(notes[n]), title |-> notes[n].sealed]]]
    /\ UNCHANGED <<schemaVars, noteVars, sessionVars, failed>>

\* exportBackup: "ok" when no listed note was left out.  A list that cannot be
\* read is an empty one.  texts and unread are kept for the properties.
ExportBackup ==
    /\ session = "open"
    /\ \E listed \in Outcomes,
          unread \in IF StatementsFail THEN SUBSET DOMAIN notes ELSE {{}} :
         LET ids == IF listed /\ CanList THEN DOMAIN notes ELSE {}
             left == {n \in ids : LeftOut(n, unread)}
         IN file' = [ok      |-> left = {},
                     listed  |-> listed /\ CanList,
                     texts   |-> [n \in DOMAIN notes |-> Shown(notes[n])],
                     unread  |-> unread,
                     entries |-> [n \in ids \ left |->
                                    [content |-> Shown(notes[n]),
                                     title   |-> IF notes[n].sealed = Unwritten THEN Empty
                                                 ELSE notes[n].sealed]]]
    /\ UNCHANGED <<schemaVars, noteVars, sessionVars, failed>>

\* What may become of an entry: a new row is filled; or there is no new row; or
\* it cannot be filled and is deleted again; or it stays empty, when that fails
\* too.
Fates == (IF CanUpdate THEN {"restored"} ELSE {})
         \union (IF StatementsFail \/ ~CanInsert THEN {"refused"} ELSE {})
         \union (IF StatementsFail \/ ~CanUpdate THEN {"deleted"} ELSE {})
         \union (IF StatementsFail THEN {"blank"} ELSE {})

\* Every new row has a number, the last note of the file the first one; the
\* entry of number i, among the entries that got a row.
RowsMade(fate) == {n \in DOMAIN fate : fate[n] # "refused"}
NewId(fate, n) == last + Cardinality({m \in RowsMade(fate) : m >= n})
EntryOf(fate, i) == CHOOSE n \in RowsMade(fate) : NewId(fate, n) = i

RestoredRow(entry) == [body |-> entry.content, sealed |-> entry.title, legacy |-> Empty]

\* Fault: a note without a text is not worth restoring.
RestoredWithoutEmpty(fate) ==
    {NewId(fate, n) : n \in {m \in RowsMade(fate) : file.entries[m].content # Empty
                                                    /\ fate[m] # "deleted"}}

\* The numbers of the rows that are there after the restore.
Restored(fate) == {NewId(fate, n) : n \in {m \in RowsMade(fate) : fate[m] # "deleted"}}

\* importBackup; ok: every entry was restored.
ImportBackup(ok) ==
    /\ session = "open" /\ file # None
    /\ last + Cardinality(DOMAIN file.entries) <= MaxNotes
    /\ \E fate \in [DOMAIN file.entries -> Fates] :
         /\ RowsMade(fate) # {} => CanInsert
         /\ ok <=> \A n \in DOMAIN fate : fate[n] = "restored"
         /\ last' = last + Cardinality(RowsMade(fate))
         /\ notes' = [i \in DOMAIN notes \union Restored(fate) |->
                        IF i <= last THEN notes[i]
                        ELSE LET n == EntryOf(fate, i)
                             IN IF fate[n] = "blank" THEN BlankRow
                                ELSE RestoredRow(file.entries[n])]
    /\ UNCHANGED <<schemaVars, sessionVars, file, failed>>

-----------------------------------------------------------------------------
StoreNext ==
    \/ Start
    \/ CreateTables
    \/ AddColumn
    \/ NextPhase
    \/ InitEnds
    \/ InitFails
    \/ Crash
    \/ Unlock
    \/ \E n \in migrating : MigrateTitle(n)
    \/ UnlockEnds
    \/ Lock
    \/ CreateNote
    \/ \E n \in Ids, text \in Texts : SaveNote(n, text)
    \/ \E n \in Ids : DeleteNote(n)
    \/ Wipe
    \/ ExportBackup
    \/ \E ok \in BOOLEAN : ImportBackup(ok)

StoreSpec == StoreInit /\ [][StoreNext]_vars

-----------------------------------------------------------------------------
StoreTypeOK ==
    /\ columns \subseteq AllColumns
    /\ last \in 0..MaxNotes
    /\ DOMAIN notes \subseteq 1..last
    /\ \A n \in DOMAIN notes : notes[n] \in Rows
    /\ step \in {"down", "create", "phase 1", "phase 1.5", "up"}
    /\ alter \in Seq(AllColumns)
    /\ session \in {"locked", "migrating", "open"}
    /\ migrating \subseteq DOMAIN notes
    /\ file # None => file.ok \in BOOLEAN /\ DOMAIN file.entries \subseteq DOMAIN file.texts
    /\ failed \in BOOLEAN /\ cut \in BOOLEAN

\* The migrations of init ("add ... columns if missing"): a process whose init
\* met no error runs on the whole schema, from whatever version, failure or
\* crash it starts, unless an earlier one was cut between the two columns of a
\* pair (the check looks at one of them only, so that is for good).
SchemaHeals == (step = "up" /\ ~failed /\ ~cut) => SchemaWhole

\* README: "Encrypted titles -- even metadata never touches disk as plaintext".
\* In an open session no title is left in plain text, if no statement failed.
TitlesEncrypted ==
    (session = "open" /\ ~failed /\ ~cut) => \A n \in DOMAIN notes : notes[n].legacy = Empty

\* test_backup.cpp takes "ok" of exportBackup for a complete backup: a file
\* made from a list that could be read holds every note with its text.
OkIsWhole ==
    (file # None /\ file.ok /\ file.listed) =>
        /\ DOMAIN file.entries = DOMAIN file.texts
        /\ \A n \in DOMAIN file.texts : file.entries[n].content = file.texts[n]

\* exportBackup: "skipped ... note(s) due to load failure".  A note that is
\* left out of a backup could not be read.
SkippedIsUnreadable ==
    (file # None /\ file.listed) =>
        DOMAIN file.texts \ DOMAIN file.entries \subseteq file.unread

HowMany(f, t) == Cardinality({n \in DOMAIN f : f[n] = t})

\* testMultiNoteRoundtripViaBackend, for any notes: what is restored from a
\* whole backup into an empty table reads as it did when it was exported.
RestoreGivesBack ==
    [][(/\ ImportBackup(TRUE) /\ DOMAIN notes = {}
        /\ file.ok /\ file.listed) =>
         \A t \in Texts : HowMany([n \in DOMAIN notes' |-> Shown(notes'[n])], t)
                            = HowMany(file.texts, t)]_vars

-----------------------------------------------------------------------------
Book == INSTANCE Notebook WITH
    open <- (session = "open"),
    book <- [n \in DOMAIN notes |-> Shown(notes[n])],
    Nothing <- Empty, NoteIds <- Ids

\* The store implements the notebook: migrations of the schema and of titles,
\* crashes, unlocks and exports leave the texts alone, and the calls of a
\* session do to them what they say.
KeepsNotebook == Book!BookSpec
==============================================================================
