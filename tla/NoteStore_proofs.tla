--------------------------- MODULE NoteStore_proofs ---------------------------
(* Proofs about NoteStore: the migrations of the schema and of the titles,    *)
(* the calls of a session and the backup file, whatever statement fails and   *)
(* wherever the process dies, for any number of notes and texts.              *)
EXTENDS NoteStore, FiniteSetTheorems, TLAPS

\* Types.  A backup file holds texts, of notes that had a number.
Steps == {"down", "create", "phase 1", "phase 1.5", "up"}

FileTyped ==
    file # None =>
        /\ file.ok \in BOOLEAN /\ file.listed \in BOOLEAN
        /\ DOMAIN file.texts \subseteq Ids
        /\ file.texts \in [DOMAIN file.texts -> Texts]
        /\ DOMAIN file.entries \subseteq DOMAIN file.texts
        /\ file.entries \in [DOMAIN file.entries -> [content : Texts, title : Texts]]

Typed ==
    /\ columns \subseteq AllColumns
    /\ last \in 0..MaxNotes
    /\ DOMAIN notes \subseteq 1..last
    /\ notes \in [DOMAIN notes -> Rows]
    /\ step \in Steps
    /\ session \in {"locked", "migrating", "open"}
    /\ migrating \subseteq DOMAIN notes
    /\ failed \in BOOLEAN /\ cut \in BOOLEAN

\* What init has still to add is a pair of columns, its second one, or nothing.
Pending ==
    /\ alter \in {<<>>, Phase1, <<"updated_at">>, Phase15, <<"title_nonce">>}
    /\ alter \in {Phase1, <<"updated_at">>} => step = "phase 1"
    /\ alter \in {Phase15, <<"title_nonce">>} => step = "phase 1.5"

\* A session is one of a running process, and migrates nothing once it is open.
Sessions ==
    /\ session # "locked" => step = "up"
    /\ session # "migrating" => migrating = {}

\* Each pair of columns is whole or missing, but for the one being added.
Paired ==
    /\ "title" \in columns <=> "updated_at" \in columns \/ alter = <<"updated_at">>
    /\ "title_ciphertext" \in columns <=> "title_nonce" \in columns \/ alter = <<"title_nonce">>

\* What init has done when it has come to a phase.
Progress ==
    /\ step \in {"phase 1", "phase 1.5"} => "body" \in columns
    /\ step = "phase 1" => ("updated_at" \in columns <=> alter = <<>>)
    /\ step = "phase 1.5" => /\ "updated_at" \in columns
                             /\ "title_nonce" \in columns <=> alter = <<>>
    /\ (step = "up" /\ ~failed) => SchemaWhole

Schema == ~cut => Paired /\ Progress

\* A plain title is that of a note that was never written in an encrypted form,
\* and the migration of an unlock has it on its list.
PlainTitles ==
    /\ \A n \in DOMAIN notes : notes[n].legacy # Empty => notes[n].sealed = Unwritten
    /\ (session # "locked" /\ ~failed /\ ~cut) =>
         \A n \in DOMAIN notes : notes[n].legacy # Empty => n \in migrating

StoreInv ==
    /\ Typed /\ FileTyped /\ Pending /\ Sessions /\ Schema /\ PlainTitles /\ OkIsWhole

-----------------------------------------------------------------------------
\* The pairs of columns, as init goes through them.
LEMMA Alters ==
    /\ Head(Phase1) = "title" /\ Tail(Phase1) = <<"updated_at">> /\ Phase1 # <<>>
    /\ Head(<<"updated_at">>) = "updated_at" /\ Tail(<<"updated_at">>) = <<>>
    /\ Head(Phase15) = "title_ciphertext" /\ Tail(Phase15) = <<"title_nonce">> /\ Phase15 # <<>>
    /\ Head(<<"title_nonce">>) = "title_nonce" /\ Tail(<<"title_nonce">>) = <<>>
    /\ <<"updated_at">> # <<>> /\ <<"title_nonce">> # <<>> /\ <<"updated_at">> # <<"title_nonce">>
    /\ Phase1 # <<"updated_at">> /\ Phase1 # <<"title_nonce">> /\ Phase1 # Phase15
    /\ Phase15 # <<"updated_at">> /\ Phase15 # <<"title_nonce">>
    /\ Len(<<"updated_at">>) = 1 /\ Len(<<"title_nonce">>) = 1
  BY DEF Phase1, Phase15

LEMMA OutcomesAreBoolean == Outcomes \subseteq BOOLEAN
  BY StoreAssumption DEF Outcomes

\* The texts that are not there: X'' and the empty one.
LEMMA NoTexts ==
    /\ Empty \in Texts /\ Unwritten \notin Texts /\ Unwritten # Empty
    /\ \A text \in Texts : TitleFromPlaintext(text) \in Texts
  BY StoreAssumption DEF Texts, TitleFromPlaintext

-----------------------------------------------------------------------------
\* The rows that a restore makes have numbers of their own, next to those given.
LEMMA RestoredNumbers ==
    ASSUME Typed, FileTyped, file # None, NEW fate \in [DOMAIN file.entries -> Fates]
    PROVE  /\ IsFiniteSet(RowsMade(fate))
           /\ Cardinality(RowsMade(fate)) \in Nat
           /\ Cardinality(RowsMade(fate)) <= Cardinality(DOMAIN file.entries)
           /\ Cardinality(DOMAIN file.entries) \in Nat
           /\ RowsMade(fate) \subseteq DOMAIN file.entries
           /\ \A n \in RowsMade(fate) : NewId(fate, n) \in last + 1 .. last + Cardinality(RowsMade(fate))
  <1> DEFINE entries == DOMAIN file.entries
             made == RowsMade(fate)
             above(n) == {m \in made : m >= n}
  <1>1. IsFiniteSet(entries) /\ entries \subseteq Nat
    <2>1. IsFiniteSet(1..MaxNotes)
      BY FS_Interval, StoreAssumption
    <2>2. entries \in SUBSET (1..MaxNotes)
      BY DEF FileTyped, Ids
    <2>3. entries \subseteq Nat
      BY <2>2, StoreAssumption
    <2> HIDE DEF entries
    <2> QED
      BY <2>1, <2>2, <2>3, FS_Subset
  <1>2. made \subseteq entries
    BY DEF RowsMade
  <1> HIDE DEF entries, made
  <1>3. /\ IsFiniteSet(made) /\ Cardinality(made) <= Cardinality(entries)
        /\ Cardinality(entries) \in Nat /\ Cardinality(made) \in Nat
    BY <1>1, <1>2, FS_Subset, FS_CardinalityType
  <1>4. ASSUME NEW n \in made
        PROVE  Cardinality(above(n)) \in 1..Cardinality(made)
    <2>1. above(n) \subseteq made
      OBVIOUS
    <2>2. n \in above(n)
      BY <1>1, <1>2
    <2> HIDE DEF above
    <2>3. IsFiniteSet(above(n)) /\ Cardinality(above(n)) <= Cardinality(made)
      BY <1>3, <2>1, FS_Subset
    <2>4. Cardinality(above(n)) \in Nat /\ Cardinality(above(n)) # 0
      BY <2>2, <2>3, FS_CardinalityType, FS_EmptySet
    <2> QED
      BY <1>3, <2>3, <2>4
  <1>5. ASSUME NEW n \in made
        PROVE  last + Cardinality(above(n)) \in last + 1 .. last + Cardinality(made)
    <2>1. last \in Nat
      BY DEF Typed
    <2> QED
      BY <1>3, <1>4, <2>1
  <1> QED
    BY <1>2, <1>3, <1>5 DEF entries, made, NewId

\* importBackup leaves the notes that are there alone, and what it adds has new
\* numbers and no plain title.
LEMMA ImportAdds ==
    ASSUME Typed, FileTyped, NEW ok, ImportBackup(ok)
    PROVE  /\ last' \in 0..MaxNotes /\ last <= last'
           /\ notes' \in [DOMAIN notes' -> Rows]
           /\ DOMAIN notes \subseteq DOMAIN notes' /\ DOMAIN notes' \subseteq 1..last'
           /\ \A i \in DOMAIN notes : notes'[i] = notes[i]
           /\ \A i \in DOMAIN notes' \ DOMAIN notes : i \in last + 1 .. last' /\ notes'[i].legacy = Empty
           /\ last' = last => notes' = notes
  <1>1. PICK fate \in [DOMAIN file.entries -> Fates] :
          /\ last' = last + Cardinality(RowsMade(fate))
          /\ notes' = [i \in DOMAIN notes \union Restored(fate) |->
                         IF i <= last THEN notes[i]
                         ELSE LET n == EntryOf(fate, i)
                              IN IF fate[n] = "blank" THEN BlankRow
                                 ELSE RestoredRow(file.entries[n])]
    BY DEF ImportBackup
  <1>2. file # None /\ last + Cardinality(DOMAIN file.entries) <= MaxNotes
    BY DEF ImportBackup
  <1> DEFINE card == Cardinality(RowsMade(fate))
  <1>3. /\ card \in Nat /\ card <= Cardinality(DOMAIN file.entries)
        /\ Cardinality(DOMAIN file.entries) \in Nat
        /\ RowsMade(fate) \subseteq DOMAIN file.entries
        /\ \A n \in RowsMade(fate) : NewId(fate, n) \in last + 1 .. last + card
    BY <1>2, RestoredNumbers
  <1> HIDE DEF card
  <1>4. last \in Nat /\ MaxNotes \in Nat /\ last <= MaxNotes
    BY StoreAssumption DEF Typed
  <1>5. last' = last + card
    BY <1>1 DEF card
  <1>6. last' \in 0..MaxNotes /\ last <= last'
    BY <1>2, <1>3, <1>4, <1>5
  <1>7. \A i \in DOMAIN notes : i \in Nat /\ i <= last
    BY <1>4 DEF Typed
  <1>8. ASSUME NEW i \in Restored(fate)
        PROVE  /\ i \in last + 1 .. last' /\ ~(i <= last)
               /\ EntryOf(fate, i) \in DOMAIN file.entries
    <2>1. PICK n \in RowsMade(fate) : i = NewId(fate, n)
      BY DEF Restored
    <2>2. i \in last + 1 .. last'
      BY <1>3, <1>5, <2>1
    <2>3. ~(i <= last)
      BY <1>4, <1>6, <2>2
    <2>4. EntryOf(fate, i) \in RowsMade(fate)
      BY <2>1 DEF EntryOf
    <2> QED
      BY <1>3, <2>2, <2>3, <2>4
  <1>9. DOMAIN notes' = DOMAIN notes \union Restored(fate)
    BY <1>1
  <1>10. ASSUME NEW i \in DOMAIN notes PROVE notes'[i] = notes[i]
    BY <1>1, <1>7, <1>9
  <1>11. ASSUME NEW i \in Restored(fate)
         PROVE  notes'[i] \in Rows /\ notes'[i].legacy = Empty
    <2> DEFINE n == EntryOf(fate, i)
    <2>1. notes'[i] = IF fate[n] = "blank" THEN BlankRow ELSE RestoredRow(file.entries[n])
      BY <1>1, <1>8, <1>9
    <2>2. file.entries[n] \in [content : Texts, title : Texts]
      BY <1>2, <1>8 DEF FileTyped
    <2> HIDE DEF n
    <2>3. BlankRow \in Rows /\ BlankRow.legacy = Empty
      BY NoTexts DEF BlankRow, Rows
    <2>4. RestoredRow(file.entries[n]) \in Rows /\ RestoredRow(file.entries[n]).legacy = Empty
      BY <2>2, NoTexts DEF RestoredRow, Rows
    <2> QED
      BY <2>1, <2>3, <2>4
  <1>12. notes' \in [DOMAIN notes' -> Rows]
    <2>1. \A i \in DOMAIN notes' : notes'[i] \in Rows
      BY <1>9, <1>10, <1>11 DEF Typed
    <2>2. notes' = [i \in DOMAIN notes' |-> notes'[i]]
      BY <1>1
    <2> QED
      BY <2>1, <2>2
  <1>13. DOMAIN notes' \subseteq 1..last'
    <2>1. \A i \in DOMAIN notes : i \in 1..last'
      BY <1>4, <1>6, <1>7 DEF Typed
    <2>2. \A i \in Restored(fate) : i \in 1..last'
      BY <1>4, <1>6, <1>8
    <2> QED
      BY <1>9, <2>1, <2>2
  <1>14. ASSUME last' = last PROVE notes' = notes
    <2>1. Restored(fate) = {}
      BY <1>4, <1>8, <1>14
    <2>2. DOMAIN notes' = DOMAIN notes
      BY <1>9, <2>1
    <2>3. notes = [i \in DOMAIN notes |-> notes[i]] /\ notes' = [i \in DOMAIN notes' |-> notes'[i]]
      BY <1>1 DEF Typed
    <2> QED
      BY <1>10, <2>2, <2>3
  <1> QED
    BY <1>6, <1>8, <1>9, <1>10, <1>11, <1>12, <1>13, <1>14

-----------------------------------------------------------------------------
\* A statement that writes one row.
LEMMA WrittenRow ==
    ASSUME Typed, NEW n \in DOMAIN notes, NEW body \in Texts \union {Unwritten},
           NEW title \in Texts, Written(n, body, title)
    PROVE  /\ DOMAIN notes' = DOMAIN notes /\ notes' \in [DOMAIN notes' -> Rows]
           /\ notes'[n] = [body |-> body, sealed |-> title, legacy |-> Empty]
           /\ notes'[n].legacy = Empty
           /\ \A m \in DOMAIN notes : m # n => notes'[m] = notes[m]
  <1>1. [body |-> body, sealed |-> title, legacy |-> Empty] \in Rows
    BY NoTexts DEF Rows
  <1> QED
    BY <1>1 DEF Typed, Written

\* CreateNote and DeleteNote.
LEMMA CreatedRow ==
    ASSUME Typed, CreateNote
    PROVE  /\ last' = last + 1 /\ last' \in 0..MaxNotes /\ last' \notin DOMAIN notes
           /\ DOMAIN notes' = DOMAIN notes \union {last'} /\ notes' \in [DOMAIN notes' -> Rows]
           /\ DOMAIN notes' \subseteq 1..last'
           /\ notes'[last'] = BlankRow /\ \A m \in DOMAIN notes : notes'[m] = notes[m]
  <1>1. last' = last + 1 /\ last < MaxNotes /\ last \in Nat /\ MaxNotes \in Nat
    BY StoreAssumption DEF CreateNote, Typed
  <1>2. last' \in 0..MaxNotes /\ last' \notin 1..last /\ 1..last' = 1..last \union {last'}
    BY <1>1
  <1>3. notes' = [m \in DOMAIN notes \union {last'} |-> IF m = last' THEN BlankRow ELSE notes[m]]
    BY DEF CreateNote, NewRow
  <1>4. BlankRow \in Rows
    BY NoTexts DEF BlankRow, Rows
  <1> QED
    BY <1>1, <1>2, <1>3, <1>4 DEF Typed

LEMMA DeletedRow ==
    ASSUME Typed, NEW n, DeleteNote(n)
    PROVE  /\ DOMAIN notes' = DOMAIN notes \ {n} /\ notes' \in [DOMAIN notes' -> Rows]
           /\ \A m \in DOMAIN notes' : notes'[m] = notes[m]
           /\ last' = last
  BY DEF DeleteNote, Typed, noteVars

LEMMA NoRows == <<>> \in [DOMAIN <<>> -> Rows] /\ DOMAIN <<>> = {} /\ 0 \in 0..MaxNotes
  BY StoreAssumption

\* A wipe that removed the file, and one that did not.
LEMMA Wiped ==
    ASSUME Typed, Wipe
    PROVE  /\ \/ columns' = {} /\ notes' = <<>> /\ last' = 0 /\ ~cut' /\ ~failed'
              \/ UNCHANGED <<columns, notes, last, cut>> /\ failed'
           /\ step = "up" /\ session # "migrating" /\ step' = "create" /\ session' = "locked"
           /\ UNCHANGED <<alter, migrating, file>>
  <1>1. PICK removed \in BOOLEAN :
          /\ IF removed THEN columns' = {} /\ notes' = <<>> /\ last' = 0 /\ cut' = FALSE
                        ELSE UNCHANGED <<columns, noteVars, cut>>
          /\ failed' = ~removed
    BY OutcomesAreBoolean DEF Wipe
  <1> QED
    BY <1>1 DEF Wipe, noteVars

\* The migration of one title: it is written, or a failure leaves it plain.
LEMMA TitleMigrated ==
    ASSUME Typed, NEW n \in migrating, MigrateTitle(n)
    PROVE  /\ migrating' = migrating \ {n} /\ UNCHANGED <<schemaVars, last, session, file>>
           /\ \/ notes' = notes /\ failed'
              \/ Written(n, notes[n].body, notes[n].legacy) /\ UNCHANGED failed
  <1>1. PICK ok \in BOOLEAN :
          /\ IF ok THEN Written(n, notes[n].body, notes[n].legacy) ELSE UNCHANGED notes
          /\ failed' = (failed \/ ~ok)
    BY OutcomesAreBoolean DEF MigrateTitle
  <1> QED
    BY <1>1 DEF MigrateTitle, Typed

LEMMA UnlockLists ==
    ASSUME Typed, Unlock
    PROVE  /\ migrating' \subseteq DOMAIN notes /\ failed' \in BOOLEAN
           /\ UNCHANGED <<schemaVars, noteVars, file>>
           /\ step = "up" /\ session = "locked" /\ session' = "migrating"
           /\ failed => failed'
           /\ (~failed' /\ CanList) =>
                migrating' = {n \in DOMAIN notes : /\ notes[n].sealed = Unwritten
                                                   /\ notes[n].legacy # Empty}
  <1>1. PICK listed \in BOOLEAN :
          /\ migrating' = IF listed /\ CanList
                          THEN {n \in DOMAIN notes : /\ notes[n].sealed = Unwritten
                                                     /\ notes[n].legacy # Empty}
                          ELSE {}
          /\ failed' = (failed \/ ~listed)
    BY OutcomesAreBoolean DEF Unlock
  <1> QED
    BY <1>1 DEF Unlock, Typed

LEMMA TypedStep ==
    ASSUME Typed, FileTyped, Pending, Sessions, [StoreNext]_vars
    PROVE  Typed'
  <1> USE DEF Typed, Steps
  <1>1. CASE UNCHANGED noteVars /\ UNCHANGED sessionVars /\ columns' \subseteq AllColumns
             /\ step' \in Steps /\ failed' \in BOOLEAN /\ cut' \in BOOLEAN
    BY <1>1 DEF noteVars, sessionVars
  <1>2. CASE Start
    BY <1>1, <1>2 DEF Start
  <1>3. CASE CreateTables
    BY <1>1, <1>3 DEF CreateTables, AllColumns
  <1>4. CASE AddColumn
    <2>1. Head(alter) \in AllColumns
      BY <1>4, Alters DEF AddColumn, Pending, AllColumns
    <2> QED
      BY <1>1, <1>4, <2>1 DEF AddColumn
  <1>5. CASE NextPhase
    BY <1>1, <1>5 DEF NextPhase
  <1>6. CASE InitEnds
    BY <1>1, <1>6 DEF InitEnds
  <1>7. CASE InitFails
    <2>1. cut' \in BOOLEAN
      BY <1>7 DEF InitFails
    <2> QED
      BY <1>1, <1>7, <2>1 DEF InitFails
  <1>8. CASE Crash
    BY <1>8 DEF Crash, noteVars
  <1>9. CASE Unlock
    BY <1>9, UnlockLists DEF schemaVars, noteVars
  <1>10. ASSUME NEW n \in migrating, MigrateTitle(n) PROVE Typed'
    <2>1. n \in DOMAIN notes /\ notes[n].body \in Texts \union {Unwritten} /\ notes[n].legacy \in Texts
      BY <1>10 DEF Rows
    <2>2. DOMAIN notes' = DOMAIN notes /\ notes' \in [DOMAIN notes' -> Rows]
      BY <1>10, <2>1, TitleMigrated, WrittenRow
    <2> QED
      BY <1>10, <2>2, TitleMigrated DEF schemaVars
  <1>11. CASE UnlockEnds
    BY <1>11 DEF UnlockEnds, schemaVars, noteVars
  <1>12. CASE Lock
    BY <1>12 DEF Lock, schemaVars, noteVars
  <1>13. CASE CreateNote
    BY <1>13, CreatedRow DEF CreateNote, schemaVars, sessionVars, Sessions
  <1>14. ASSUME NEW n \in Ids, NEW text \in Texts, SaveNote(n, text) PROVE Typed'
    BY <1>14, NoTexts, WrittenRow DEF SaveNote, schemaVars, sessionVars
  <1>15. ASSUME NEW n \in Ids, DeleteNote(n) PROVE Typed'
    <2>1. migrating = {}
      BY <1>15 DEF DeleteNote, Sessions
    <2> QED
      BY <1>15, <2>1, DeletedRow DEF DeleteNote, schemaVars, sessionVars
  <1>16. CASE Wipe
    <2>1. migrating' = {}
      BY <1>16, Wiped DEF Sessions
    <2>2. /\ last' \in 0..MaxNotes /\ DOMAIN notes' \subseteq 1..last' /\ notes' \in [DOMAIN notes' -> Rows]
      <3>1. CASE notes' = <<>> /\ last' = 0
        BY <3>1, NoRows
      <3>2. CASE UNCHANGED <<notes, last>>
        BY <3>2
      <3> QED
        BY <1>16, <3>1, <3>2, Wiped
    <2>3. /\ columns' \subseteq AllColumns /\ cut' \in BOOLEAN /\ failed' \in BOOLEAN
          /\ step' \in Steps /\ session' = "locked"
      <3>1. \/ columns' = {} /\ ~cut' /\ ~failed'
            \/ UNCHANGED <<columns, cut>> /\ failed'
        BY <1>16, Wiped
      <3>2. step' = "create" /\ session' = "locked"
        BY <1>16, Wiped
      <3> QED
        BY <1>16, <3>1, <3>2 DEF Wipe
    <2> QED
      BY <2>1, <2>2, <2>3
  <1>17. CASE ExportBackup
    BY <1>17 DEF ExportBackup, schemaVars, noteVars, sessionVars
  <1>18. ASSUME NEW ok \in BOOLEAN, ImportBackup(ok) PROVE Typed'
    <2>1. UNCHANGED <<schemaVars, sessionVars, file, failed>>
      BY <1>18 DEF ImportBackup
    <2> QED
      BY <1>18, <2>1, ImportAdds DEF schemaVars, sessionVars
  <1>19. CASE UNCHANGED vars
    BY <1>19 DEF vars, schemaVars, noteVars, sessionVars
  <1> HIDE DEF Typed, Steps
  <1> QED
    BY <1>2, <1>3, <1>4, <1>5, <1>6, <1>7, <1>8, <1>9, <1>10, <1>11, <1>12, <1>13, <1>14, <1>15,
       <1>16, <1>17, <1>18, <1>19 DEF StoreNext

-----------------------------------------------------------------------------
\* What each of init's steps, and a crash, does to the schema.
LEMMA PendingStep ==
    ASSUME Pending, Sessions, [StoreNext]_vars
    PROVE  Pending'
  <1> USE DEF Pending
  <1>1. CASE UNCHANGED <<alter, step>>
    BY <1>1
  <1>2. CASE alter' = <<>>
    BY <1>2, Alters
  <1>3. CASE Start
    <2>1. alter = <<>>
      BY <1>3, Alters DEF Start
    <2> QED
      BY <1>2, <1>3, <2>1 DEF Start
  <1>4. CASE CreateTables
    BY <1>4, Alters DEF CreateTables
  <1>5. CASE AddColumn
    BY <1>5, Alters DEF AddColumn
  <1>6. CASE NextPhase
    BY <1>6, Alters DEF NextPhase
  <1>7. CASE Wipe
    <2>1. alter' = <<>>
      BY <1>7, Alters DEF Wipe
    <2> QED
      BY <1>2, <2>1
  <1>8. InitEnds \/ InitFails \/ Crash => alter' = <<>>
    BY DEF InitEnds, InitFails, Crash
  <1>9. Unlock \/ UnlockEnds \/ Lock \/ CreateNote \/ ExportBackup => UNCHANGED <<alter, step>>
    BY DEF Unlock, UnlockEnds, Lock, CreateNote, ExportBackup, schemaVars
  <1>10. ASSUME NEW n \in migrating, MigrateTitle(n) PROVE UNCHANGED <<alter, step>>
    BY <1>10 DEF MigrateTitle, schemaVars
  <1>11. ASSUME NEW n \in Ids, NEW text \in Texts, SaveNote(n, text) PROVE UNCHANGED <<alter, step>>
    BY <1>11 DEF SaveNote, schemaVars
  <1>12. ASSUME NEW n \in Ids, DeleteNote(n) PROVE UNCHANGED <<alter, step>>
    BY <1>12 DEF DeleteNote, schemaVars
  <1>13. ASSUME NEW ok \in BOOLEAN, ImportBackup(ok) PROVE UNCHANGED <<alter, step>>
    BY <1>13 DEF ImportBackup, schemaVars
  <1>14. UNCHANGED vars => UNCHANGED <<alter, step>>
    BY DEF vars
  <1> HIDE DEF Pending
  <1> QED
    BY <1>1, <1>2, <1>3, <1>4, <1>5, <1>6, <1>7, <1>8, <1>9, <1>10, <1>11, <1>12, <1>13, <1>14
    DEF StoreNext

LEMMA SessionsStep ==
    ASSUME Typed, Sessions, [StoreNext]_vars
    PROVE  Sessions'
  <1> USE DEF Sessions
  <1>1. CASE UNCHANGED <<session, migrating>> /\ (step = "up" => step' = "up")
    BY <1>1
  <1>2. CASE session' = "locked" /\ migrating' = {}
    BY <1>2
  <1>3. Crash \/ Wipe => session' = "locked" /\ migrating' = {}
    BY DEF Crash, Wipe
  <1>4. Start \/ CreateTables \/ NextPhase \/ InitEnds \/ AddColumn \/ InitFails
          => UNCHANGED <<session, migrating>> /\ (step = "up" => step' = "up")
    BY DEF Start, CreateTables, NextPhase, InitEnds, AddColumn, InitFails, sessionVars
  <1>5. CASE Unlock
    BY <1>5, UnlockLists DEF schemaVars
  <1>6. ASSUME NEW n \in migrating, MigrateTitle(n) PROVE Sessions'
    BY <1>6 DEF MigrateTitle, schemaVars
  <1>7. CASE UnlockEnds
    BY <1>7 DEF UnlockEnds, schemaVars
  <1>8. CASE Lock
    BY <1>8 DEF Lock
  <1>9. CreateNote \/ ExportBackup
          => UNCHANGED <<session, migrating>> /\ (step = "up" => step' = "up")
    BY DEF CreateNote, ExportBackup, sessionVars, schemaVars
  <1>10. ASSUME NEW n \in Ids, NEW text \in Texts, SaveNote(n, text)
         PROVE  UNCHANGED <<session, migrating>> /\ (step = "up" => step' = "up")
    BY <1>10 DEF SaveNote, sessionVars, schemaVars
  <1>11. ASSUME NEW n \in Ids, DeleteNote(n)
         PROVE  UNCHANGED <<session, migrating>> /\ (step = "up" => step' = "up")
    BY <1>11 DEF DeleteNote, sessionVars, schemaVars
  <1>12. ASSUME NEW ok \in BOOLEAN, ImportBackup(ok)
         PROVE  UNCHANGED <<session, migrating>> /\ (step = "up" => step' = "up")
    BY <1>12 DEF ImportBackup, sessionVars, schemaVars
  <1>13. UNCHANGED vars => UNCHANGED <<session, migrating>> /\ (step = "up" => step' = "up")
    BY DEF vars
  <1> HIDE DEF Sessions
  <1> QED
    BY <1>1, <1>2, <1>3, <1>4, <1>5, <1>6, <1>7, <1>8, <1>9, <1>10, <1>11, <1>12, <1>13
    DEF StoreNext

LEMMA SchemaStep ==
    ASSUME Typed, Pending, Sessions, Schema, [StoreNext]_vars
    PROVE  Schema'
  <1> USE DEF Schema, Paired, Progress
  <1>1. CASE UNCHANGED <<columns, alter, step, cut>> /\ (failed => failed')
    BY <1>1 DEF SchemaWhole
  <1>2. CASE Start
    BY <1>2, Alters DEF Start, Pending
  <1>3. CASE CreateTables
    <2>1. alter = <<>>
      BY <1>3, Alters DEF CreateTables, Pending
    <2> QED
      BY <1>3, <2>1, Alters DEF CreateTables
  <1>4. CASE AddColumn
    <2>1. UNCHANGED <<step, failed, cut>>
      BY <1>4 DEF AddColumn
    <2>2. CASE alter = Phase1
      <3>1. /\ "title" \notin columns /\ columns' = columns \union {"title"}
            /\ alter' = <<"updated_at">> /\ step = "phase 1"
        BY <1>4, <2>2, Alters DEF AddColumn, Pending
      <3>2. Paired => Paired'
        BY <2>2, <3>1, Alters DEF Paired
      <3>3. Progress => Progress'
        BY <2>1, <2>2, <3>1, Alters DEF Progress
      <3> QED
        BY <2>1, <3>2, <3>3 DEF Schema
    <2>3. CASE alter = <<"updated_at">>
      <3>1. /\ "updated_at" \notin columns /\ columns' = columns \union {"updated_at"}
            /\ alter' = <<>> /\ step = "phase 1"
        BY <1>4, <2>3, Alters DEF AddColumn, Pending
      <3>2. Paired => Paired'
        BY <2>3, <3>1, Alters DEF Paired
      <3>3. Progress => Progress'
        BY <2>1, <2>3, <3>1, Alters DEF Progress
      <3> QED
        BY <2>1, <3>2, <3>3 DEF Schema
    <2>4. CASE alter = Phase15
      <3>1. /\ "title_ciphertext" \notin columns /\ columns' = columns \union {"title_ciphertext"}
            /\ alter' = <<"title_nonce">> /\ step = "phase 1.5"
        BY <1>4, <2>4, Alters DEF AddColumn, Pending
      <3>2. Paired => Paired'
        BY <2>4, <3>1, Alters DEF Paired
      <3>3. Progress => Progress'
        BY <2>1, <2>4, <3>1, Alters DEF Progress
      <3> QED
        BY <2>1, <3>2, <3>3 DEF Schema
    <2>5. CASE alter = <<"title_nonce">>
      <3>1. /\ "title_nonce" \notin columns /\ columns' = columns \union {"title_nonce"}
            /\ alter' = <<>> /\ step = "phase 1.5"
        BY <1>4, <2>5, Alters DEF AddColumn, Pending
      <3>2. Paired => Paired'
        BY <2>5, <3>1, Alters DEF Paired
      <3>3. Progress => Progress'
        BY <2>1, <2>5, <3>1, Alters DEF Progress
      <3> QED
        BY <2>1, <3>2, <3>3 DEF Schema
    <2> QED
      BY <1>4, <2>2, <2>3, <2>4, <2>5 DEF AddColumn, Pending
  <1>5. CASE NextPhase
    BY <1>5, Alters DEF NextPhase
  <1>6. CASE InitEnds
    BY <1>6, Alters DEF InitEnds, SchemaWhole, AllColumns, Typed
  <1>7. CASE alter' = <<>> /\ UNCHANGED columns /\ cut' = (cut \/ Len(alter) = 1)
             /\ step' \in {"up", "down"} /\ (step' = "up" => failed')
    <2>1. ~cut' => alter # <<"updated_at">> /\ alter # <<"title_nonce">>
      BY <1>7, Alters
    <2> QED
      BY <1>7, <2>1, Alters
  <1>8. CASE Wipe
    <2>1. alter = <<>> /\ alter' = <<>>
      BY <1>8, Alters, Wiped DEF Pending
    <2> QED
      BY <1>8, <2>1, Alters, Wiped
  <1>9. CASE Unlock
    BY <1>1, <1>9, UnlockLists DEF schemaVars
  <1>10. ASSUME NEW n \in migrating, MigrateTitle(n) PROVE Schema'
    <2>1. UNCHANGED schemaVars /\ (failed => failed')
      BY <1>10 DEF MigrateTitle
    <2> QED
      BY <1>1, <2>1 DEF schemaVars
  <1> HIDE DEF Schema, Paired, Progress
  <1>11. InitFails \/ Crash => alter' = <<>> /\ UNCHANGED columns /\ cut' = (cut \/ Len(alter) = 1)
             /\ step' \in {"up", "down"} /\ (step' = "up" => failed')
    BY DEF InitFails, Crash
  <1>12. UnlockEnds \/ Lock \/ CreateNote \/ ExportBackup
           => UNCHANGED <<columns, alter, step, cut>> /\ (failed => failed')
    BY DEF UnlockEnds, Lock, CreateNote, ExportBackup, schemaVars
  <1>13. ASSUME NEW n \in Ids, NEW text \in Texts, SaveNote(n, text)
         PROVE  UNCHANGED <<columns, alter, step, cut>> /\ (failed => failed')
    BY <1>13 DEF SaveNote, schemaVars
  <1>14. ASSUME NEW n \in Ids, DeleteNote(n)
         PROVE  UNCHANGED <<columns, alter, step, cut>> /\ (failed => failed')
    BY <1>14 DEF DeleteNote, schemaVars
  <1>15. ASSUME NEW ok \in BOOLEAN, ImportBackup(ok)
         PROVE  UNCHANGED <<columns, alter, step, cut>> /\ (failed => failed')
    BY <1>15 DEF ImportBackup, schemaVars
  <1>16. UNCHANGED vars => UNCHANGED <<columns, alter, step, cut>> /\ (failed => failed')
    BY DEF vars
  <1> QED
    BY <1>1, <1>2, <1>3, <1>4, <1>5, <1>6, <1>7, <1>8, <1>9, <1>10, <1>11, <1>12, <1>13, <1>14,
       <1>15, <1>16 DEF StoreNext

-----------------------------------------------------------------------------
LEMMA PlainTitlesStep ==
    ASSUME Typed, FileTyped, Sessions, Schema, PlainTitles, [StoreNext]_vars
    PROVE  PlainTitles'
  <1> USE DEF PlainTitles
  <1>1. CASE UNCHANGED <<notes, migrating>> /\ (failed => failed')
             /\ (session' # "locked" => session # "locked") /\ (cut => cut')
    BY <1>1
  <1>2. CASE UNCHANGED notes /\ session' = "locked"
    BY <1>2
  <1>3. ASSUME UNCHANGED <<migrating, session, failed, cut>>,
               \A m \in DOMAIN notes' : \/ m \in DOMAIN notes /\ notes'[m] = notes[m]
                                        \/ notes'[m].legacy = Empty
        PROVE  PlainTitles'
    BY <1>3
  <1>4. CASE Start
    BY <1>2, <1>4 DEF Start, noteVars, sessionVars, Sessions
  <1>6. CreateTables \/ AddColumn \/ NextPhase \/ InitEnds => UNCHANGED <<notes, migrating, session, failed, cut>>
    BY DEF CreateTables, AddColumn, NextPhase, InitEnds, noteVars, sessionVars
  <1>7. InitFails => UNCHANGED <<notes, migrating, session>> /\ failed' /\ (cut => cut')
    BY DEF InitFails, noteVars, sessionVars
  <1>8. Crash => UNCHANGED notes /\ session' = "locked"
    BY DEF Crash, noteVars
  <1>9. CASE Unlock
    <2>1. ASSUME ~failed', ~cut' PROVE CanList
      BY <1>9, <2>1, UnlockLists DEF Schema, Progress, CanList, SchemaWhole, schemaVars, Typed
    <2> QED
      BY <1>9, <2>1, UnlockLists DEF noteVars, schemaVars
  <1>10. ASSUME NEW n \in migrating, MigrateTitle(n) PROVE PlainTitles'
    <2>1. n \in DOMAIN notes /\ notes[n].body \in Texts \union {Unwritten} /\ notes[n].legacy \in Texts
      BY <1>10 DEF Typed, Rows
    <2>2. migrating' = migrating \ {n} /\ UNCHANGED <<session, cut>>
      BY <1>10, TitleMigrated DEF schemaVars
    <2>3. CASE notes' = notes /\ failed'
      BY <2>2, <2>3
    <2>4. CASE Written(n, notes[n].body, notes[n].legacy) /\ UNCHANGED failed
      <3>1. /\ DOMAIN notes' = DOMAIN notes /\ notes'[n].legacy = Empty
            /\ \A m \in DOMAIN notes : m # n => notes'[m] = notes[m]
        BY <2>1, <2>4, WrittenRow
      <3> QED
        BY <2>2, <2>4, <3>1
    <2> QED
      BY <1>10, <2>3, <2>4, TitleMigrated
  <1>11. CASE UnlockEnds
    BY <1>11 DEF UnlockEnds, schemaVars, noteVars
  <1>12. CASE Lock
    BY <1>2, <1>12 DEF Lock, noteVars
  <1>13. CASE CreateNote
    <2>1. UNCHANGED <<migrating, session, failed, cut>>
      BY <1>13 DEF CreateNote, sessionVars, schemaVars
    <2>2. \A m \in DOMAIN notes' : \/ m \in DOMAIN notes /\ notes'[m] = notes[m]
                                   \/ notes'[m].legacy = Empty
      BY <1>13, CreatedRow DEF BlankRow
    <2> QED
      BY <1>3, <2>1, <2>2
  <1>14. ASSUME NEW n \in Ids, NEW text \in Texts, SaveNote(n, text) PROVE PlainTitles'
    <2>1. UNCHANGED <<migrating, session, failed, cut>>
      BY <1>14 DEF SaveNote, sessionVars, schemaVars
    <2>2. \A m \in DOMAIN notes' : \/ m \in DOMAIN notes /\ notes'[m] = notes[m]
                                   \/ notes'[m].legacy = Empty
      <3>1. n \in DOMAIN notes /\ Written(n, text, TitleFromPlaintext(text))
        BY <1>14 DEF SaveNote
      <3>2. text \in Texts \union {Unwritten} /\ TitleFromPlaintext(text) \in Texts
        BY NoTexts
      <3>3. /\ DOMAIN notes' = DOMAIN notes /\ notes'[n].legacy = Empty
            /\ \A m \in DOMAIN notes : m # n => notes'[m] = notes[m]
        BY <3>1, <3>2, WrittenRow
      <3> QED
        BY <3>3
    <2> QED
      BY <1>3, <2>1, <2>2
  <1>15. ASSUME NEW n \in Ids, DeleteNote(n) PROVE PlainTitles'
    <2>1. UNCHANGED <<migrating, session, failed, cut>>
      BY <1>15 DEF DeleteNote, sessionVars, schemaVars
    <2> QED
      BY <1>3, <1>15, <2>1, DeletedRow
  <1>16. CASE Wipe
    BY <1>16, Wiped, NoRows
  <1>17. ExportBackup => UNCHANGED <<notes, migrating, session, failed, cut>>
    BY DEF ExportBackup, noteVars, sessionVars, schemaVars
  <1>18. ASSUME NEW ok \in BOOLEAN, ImportBackup(ok) PROVE PlainTitles'
    <2>1. UNCHANGED <<migrating, session, failed, cut>>
      BY <1>18 DEF ImportBackup, sessionVars, schemaVars
    <2>2. \A m \in DOMAIN notes' : \/ m \in DOMAIN notes /\ notes'[m] = notes[m]
                                   \/ notes'[m].legacy = Empty
      BY <1>18, ImportAdds
    <2> QED
      BY <1>3, <2>1, <2>2
  <1>19. UNCHANGED vars => UNCHANGED <<notes, migrating, session, failed, cut>>
    BY DEF vars, noteVars, sessionVars, schemaVars
  <1>20. CASE UNCHANGED <<notes, migrating, session, failed, cut>>
    BY <1>20
  <1> HIDE DEF PlainTitles
  <1> QED
    BY <1>1, <1>2, <1>4, <1>6, <1>7, <1>8, <1>9, <1>10, <1>11, <1>12, <1>13, <1>14, <1>15,
       <1>16, <1>17, <1>18, <1>19, <1>20 DEF StoreNext

\* The backup file: what exportBackup writes of the notes it could list and read.
LEMMA Exported ==
    ASSUME Typed, ExportBackup
    PROVE  FileTyped' /\ OkIsWhole'
  <1>1. PICK listed \in BOOLEAN, unread \in SUBSET DOMAIN notes :
          LET ids == IF listed /\ CanList THEN DOMAIN notes ELSE {}
              left == {n \in ids : LeftOut(n, unread)}
          IN file' = [ok      |-> left = {},
                      listed  |-> listed /\ CanList,
                      texts   |-> [n \in DOMAIN notes |-> Shown(notes[n])],
                      unread  |-> unread,
                      entries |-> [n \in ids \ left |->
                                     [content |-> Shown(notes[n]),
                                      title   |-> IF notes[n].sealed = Unwritten THEN Empty
                                                  ELSE notes[n].sealed]]]
    BY OutcomesAreBoolean DEF ExportBackup
  <1> DEFINE ids == IF listed /\ CanList THEN DOMAIN notes ELSE {}
             left == {n \in ids : LeftOut(n, unread)}
             entry(n) == [content |-> Shown(notes[n]),
                          title   |-> IF notes[n].sealed = Unwritten THEN Empty ELSE notes[n].sealed]
  <1>2. /\ file'.ok = (left = {}) /\ file'.listed = (listed /\ CanList)
        /\ file'.texts = [n \in DOMAIN notes |-> Shown(notes[n])]
        /\ file'.entries = [n \in ids \ left |-> entry(n)]
    BY <1>1
  <1>3. ASSUME NEW n \in DOMAIN notes
        PROVE  Shown(notes[n]) \in Texts /\ entry(n) \in [content : Texts, title : Texts]
    <2>1. notes[n].body \in Texts \union {Unwritten} /\ notes[n].sealed \in Texts \union {Unwritten}
      BY DEF Typed, Rows
    <2> QED
      BY <2>1, NoTexts DEF Shown
  <1>4. ids \subseteq DOMAIN notes
    OBVIOUS
  <1> HIDE DEF entry, left
  <1>5. /\ DOMAIN file'.texts = DOMAIN notes /\ file'.texts \in [DOMAIN file'.texts -> Texts]
        /\ DOMAIN file'.entries = ids \ left
        /\ file'.entries \in [DOMAIN file'.entries -> [content : Texts, title : Texts]]
    BY <1>2, <1>3, <1>4
  <1>6. DOMAIN notes \subseteq Ids
    BY StoreAssumption DEF Typed, Ids
  <1>7. FileTyped'
    <2>1. file'.ok \in BOOLEAN /\ file'.listed \in BOOLEAN
      BY <1>2
    <2> QED
      BY <1>4, <1>5, <1>6, <2>1 DEF FileTyped
  <1>8. ASSUME file'.ok, file'.listed
        PROVE  /\ DOMAIN file'.entries = DOMAIN file'.texts
               /\ \A n \in DOMAIN file'.texts : file'.entries[n].content = file'.texts[n]
    <2>1. left = {} /\ ids = DOMAIN notes
      BY <1>2, <1>8
    <2>2. \A n \in DOMAIN notes : file'.entries[n] = entry(n) /\ file'.texts[n] = Shown(notes[n])
      BY <1>2, <2>1
    <2>3. \A n \in DOMAIN notes : entry(n).content = Shown(notes[n])
      BY DEF entry
    <2> QED
      BY <1>5, <2>1, <2>2, <2>3
  <1> QED
    BY <1>7, <1>8 DEF OkIsWhole

LEMMA FileStep ==
    ASSUME Typed, FileTyped, OkIsWhole, [StoreNext]_vars
    PROVE  FileTyped' /\ OkIsWhole'
  <1>1. CASE UNCHANGED file
    BY <1>1 DEF FileTyped, OkIsWhole
  <1>2. CASE ExportBackup
    BY <1>2, Exported
  <1>3. Start \/ CreateTables \/ AddColumn \/ NextPhase \/ InitEnds \/ InitFails \/ Crash => UNCHANGED file
    BY DEF Start, CreateTables, AddColumn, NextPhase, InitEnds, InitFails, Crash
  <1>4. Unlock \/ UnlockEnds \/ Lock \/ CreateNote \/ Wipe => UNCHANGED file
    BY DEF Unlock, UnlockEnds, Lock, CreateNote, Wipe
  <1>5. ASSUME NEW n \in migrating, MigrateTitle(n) PROVE UNCHANGED file
    BY <1>5 DEF MigrateTitle
  <1>6. ASSUME NEW n \in Ids, NEW text \in Texts, SaveNote(n, text) PROVE UNCHANGED file
    BY <1>6 DEF SaveNote
  <1>7. ASSUME NEW n \in Ids, DeleteNote(n) PROVE UNCHANGED file
    BY <1>7 DEF DeleteNote
  <1>8. ASSUME NEW ok \in BOOLEAN, ImportBackup(ok) PROVE UNCHANGED file
    BY <1>8 DEF ImportBackup
  <1>9. UNCHANGED vars => UNCHANGED file
    BY DEF vars
  <1> QED
    BY <1>1, <1>2, <1>3, <1>4, <1>5, <1>6, <1>7, <1>8, <1>9 DEF StoreNext

-----------------------------------------------------------------------------
LEMMA StoreInvInit == StoreInit => StoreInv
  <1> SUFFICES ASSUME StoreInit PROVE StoreInv
    OBVIOUS
  <1>1. Pending /\ Sessions /\ FileTyped /\ OkIsWhole
    BY Alters DEF StoreInit, Pending, Sessions, FileTyped, OkIsWhole
  <1>2. Schema
    BY Alters DEF StoreInit, Schema, Paired, Progress
  <1>3. CASE columns = {} /\ notes = <<>> /\ last = 0
    <2>1. Typed
      BY <1>3, NoRows DEF StoreInit, Typed, Steps
    <2>2. PlainTitles
      BY <1>3, NoRows DEF PlainTitles
    <2> QED
      BY <1>1, <1>2, <2>1, <2>2 DEF StoreInv
  <1>4. ASSUME columns \subseteq AllColumns, last \in {1, 2},
               NEW f \in [1..last -> Texts], NEW g \in [1..last -> Texts],
               notes = [n \in 1..last |-> [body |-> f[n], sealed |-> Unwritten, legacy |-> g[n]]]
        PROVE  StoreInv
    <2>1. last \in 0..MaxNotes
      BY <1>4, StoreAssumption
    <2>2. notes \in [1..last -> Rows] /\ DOMAIN notes = 1..last
      BY <1>4 DEF Rows
    <2>3. Typed
      BY <1>4, <2>1, <2>2 DEF StoreInit, Typed, Steps
    <2>4. PlainTitles
      BY <1>4 DEF StoreInit, PlainTitles
    <2> QED
      BY <1>1, <1>2, <2>3, <2>4 DEF StoreInv
  <1>5. ASSUME columns = {"body"}, last = 1, NEW text \in Texts,
               notes = [n \in {1} |-> [body |-> text, sealed |-> Unwritten, legacy |-> Empty]]
        PROVE  StoreInv
    <2> DEFINE f == [n \in 1..last |-> text]
               g == [n \in 1..last |-> Empty]
    <2>1. f \in [1..last -> Texts] /\ g \in [1..last -> Texts] /\ 1..last = {1}
      BY <1>5, NoTexts
    <2>2. notes = [n \in 1..last |-> [body |-> f[n], sealed |-> Unwritten, legacy |-> g[n]]]
      BY <1>5, <2>1
    <2>3. columns \subseteq AllColumns /\ last \in {1, 2}
      BY <1>5 DEF AllColumns
    <2> HIDE DEF f, g
    <2> QED
      BY <1>4, <2>1, <2>2, <2>3
  <1>6. ASSUME columns = {"body", "title", "updated_at"}, last = 2, NEW f \in [{1, 2} -> Texts],
               notes = [n \in {1, 2} |-> [body |-> f[n], sealed |-> Unwritten,
                                          legacy |-> TitleFromPlaintext(f[n])]]
        PROVE  StoreInv
    <2> DEFINE g == [n \in 1..last |-> TitleFromPlaintext(f[n])]
    <2>1. f \in [1..last -> Texts] /\ g \in [1..last -> Texts] /\ 1..last = {1, 2}
      BY <1>6, NoTexts
    <2>2. notes = [n \in 1..last |-> [body |-> f[n], sealed |-> Unwritten, legacy |-> g[n]]]
      BY <1>6, <2>1
    <2>3. columns \subseteq AllColumns /\ last \in {1, 2}
      BY <1>6 DEF AllColumns
    <2> HIDE DEF g
    <2> QED
      BY <1>4, <2>1, <2>2, <2>3
  <1> QED
    BY <1>3, <1>5, <1>6 DEF StoreInit

LEMMA StoreInvariance == StoreSpec => []StoreInv
  <1>1. StoreInv /\ [StoreNext]_vars => StoreInv'
    BY TypedStep, PendingStep, SessionsStep, SchemaStep, PlainTitlesStep, FileStep DEF StoreInv
  <1> QED
    BY <1>1, StoreInvInit, PTL DEF StoreSpec

\* NotesBackend and DatabaseManager keep to the types of NoteStore, whatever
\* schema a process runs on.
THEOREM StoreTypes == StoreSpec => []StoreTypeOK
  <1>1. ASSUME StoreInv PROVE StoreTypeOK
    <2>1. Typed /\ Pending /\ FileTyped
      BY <1>1 DEF StoreInv
    <2>2. alter \in Seq(AllColumns)
      <3>1. {"title", "updated_at", "title_ciphertext", "title_nonce"} \subseteq AllColumns
        BY DEF AllColumns
      <3>2. /\ <<>> \in Seq(AllColumns) /\ Phase1 \in Seq(AllColumns)
            /\ Phase15 \in Seq(AllColumns) /\ <<"updated_at">> \in Seq(AllColumns)
            /\ <<"title_nonce">> \in Seq(AllColumns)
        BY <3>1 DEF Phase1, Phase15
      <3> QED
        BY <2>1, <3>2 DEF Pending
    <2>3. \A n \in DOMAIN notes : notes[n] \in Rows
      BY <2>1 DEF Typed
    <2>4. file # None => file.ok \in BOOLEAN /\ DOMAIN file.entries \subseteq DOMAIN file.texts
      BY <2>1 DEF FileTyped
    <2> QED
      BY <2>1, <2>2, <2>3, <2>4 DEF Typed, StoreTypeOK, Steps
  <1> QED
    BY <1>1, StoreInvariance, PTL

\* A process whose init met no error runs on the whole schema, from whatever
\* version, failure or crash it starts, unless an ALTER of a pair was cut from
\* the other.
THEOREM SchemaAlwaysHeals == StoreSpec => []SchemaHeals
  <1>1. StoreInv => SchemaHeals
    BY DEF StoreInv, Schema, Progress, SchemaHeals
  <1> QED
    BY <1>1, StoreInvariance, PTL

\* migratePlaintextTitles misses no title: none is plain in an open session, if
\* no statement failed.
THEOREM NoPlainTitle == StoreSpec => []TitlesEncrypted
  <1>1. ASSUME StoreInv PROVE TitlesEncrypted
    <2>1. session = "open" => migrating = {}
      BY <1>1 DEF StoreInv, Sessions
    <2> QED
      BY <1>1, <2>1 DEF StoreInv, PlainTitles, TitlesEncrypted
  <1> QED
    BY <1>1, StoreInvariance, PTL

\* exportBackup says "ok" of a backup made from a list that could be read only
\* when it holds every note with its text.
THEOREM OkBackupIsWhole == StoreSpec => []OkIsWhole
  <1>1. StoreInv => OkIsWhole
    BY DEF StoreInv
  <1> QED
    BY <1>1, StoreInvariance, PTL

-----------------------------------------------------------------------------
\* The notebook that the rows stand for.
TheBook == [n \in DOMAIN notes |-> Shown(notes[n])]

LEMMA InitialBook == StoreInv /\ StoreInit => Book!BookInit
  <1> SUFFICES ASSUME StoreInv, StoreInit PROVE Book!BookInit
    OBVIOUS
  <1>1. (session = "open") = FALSE
    BY DEF StoreInit
  <1>2. last \in Ids \union {0}
    BY StoreAssumption DEF StoreInv, Typed, Ids
  <1>3. TheBook \in [DOMAIN notes -> Texts]
    <2>1. ASSUME NEW n \in DOMAIN notes PROVE Shown(notes[n]) \in Texts
      <3>1. notes[n].body \in Texts \union {Unwritten}
        BY DEF StoreInv, Typed, Rows
      <3> QED
        BY <3>1, NoTexts DEF Shown
    <2> QED
      BY <2>1 DEF TheBook
  <1>4. DOMAIN notes \in SUBSET (1..last)
    BY DEF StoreInv, Typed
  <1> QED
    BY <1>1, <1>2, <1>3, <1>4 DEF Book!BookInit, TheBook

\* Rows that read the same make the same notebook.
LEMMA SameBook ==
    ASSUME DOMAIN notes' = DOMAIN notes,
           \A n \in DOMAIN notes : notes'[n].body = notes[n].body
    PROVE  TheBook' = TheBook
  BY DEF TheBook, Shown

\* Steps of the store that open or close the notebook, or do nothing to it.
LEMMA BookStays ==
    ASSUME TheBook' = TheBook, last' = last
    PROVE  [Book!BookNext]_(Book!bookVars)
  <1>1. CASE (session = "open")' = (session = "open")
    BY <1>1 DEF Book!bookVars, TheBook
  <1>2. CASE (session = "open")' # (session = "open")
    <2>1. (session = "open")' = ~(session = "open")
      BY <1>2
    <2> QED
      BY <2>1 DEF Book!BookNext, Book!OpenOrClose, TheBook
  <1> QED
    BY <1>1, <1>2

LEMMA BookStep ==
    ASSUME StoreInv, [StoreNext]_vars
    PROVE  [Book!BookNext]_(Book!bookVars)
  <1>0. Typed /\ FileTyped
    BY DEF StoreInv
  <1>1. CASE UNCHANGED noteVars
    BY <1>1, BookStays DEF noteVars, TheBook
  <1>2. Start \/ CreateTables \/ AddColumn \/ NextPhase \/ InitEnds \/ InitFails \/ Crash
          => UNCHANGED noteVars
    BY DEF Start, CreateTables, AddColumn, NextPhase, InitEnds, InitFails, Crash
  <1>3. Unlock \/ UnlockEnds \/ Lock \/ ExportBackup => UNCHANGED noteVars
    BY DEF Unlock, UnlockEnds, Lock, ExportBackup
  <1>4. UNCHANGED vars => UNCHANGED noteVars
    BY DEF vars, noteVars
  <1>5. ASSUME NEW n \in migrating, MigrateTitle(n) PROVE [Book!BookNext]_(Book!bookVars)
    <2>1. n \in DOMAIN notes /\ notes[n].body \in Texts \union {Unwritten} /\ notes[n].legacy \in Texts
      BY <1>0, <1>5 DEF Typed, Rows
    <2>2. CASE Written(n, notes[n].body, notes[n].legacy)
      <3>1. /\ DOMAIN notes' = DOMAIN notes
            /\ notes'[n] = [body |-> notes[n].body, sealed |-> notes[n].legacy, legacy |-> Empty]
            /\ \A m \in DOMAIN notes : m # n => notes'[m] = notes[m]
        BY <1>0, <2>1, <2>2, WrittenRow
      <3>2. notes'[n].body = notes[n].body
        BY <3>1
      <3> QED
        BY <1>0, <1>5, <3>1, <3>2, SameBook, BookStays, TitleMigrated
    <2>3. CASE notes' = notes
      BY <1>0, <1>5, <2>3, SameBook, BookStays, TitleMigrated
    <2> QED
      BY <1>0, <1>5, <2>2, <2>3, TitleMigrated
  <1>6. CASE CreateNote
    <2>1. session = "open" /\ session' = "open" /\ last' = last + 1
      BY <1>0, <1>6, CreatedRow DEF CreateNote, sessionVars
    <2>2. /\ DOMAIN notes' = DOMAIN notes \union {last'} /\ last' \notin DOMAIN notes
          /\ notes'[last'] = BlankRow /\ \A m \in DOMAIN notes : notes'[m] = notes[m]
      BY <1>0, <1>6, CreatedRow
    <2>3. Shown(BlankRow) = Empty
      BY DEF Shown, BlankRow
    <2>4. TheBook' = [n \in DOMAIN TheBook \union {last'} |-> IF n = last' THEN Empty ELSE TheBook[n]]
      BY <2>2, <2>3 DEF TheBook
    <2> QED
      BY <2>1, <2>4 DEF Book!BookNext, Book!Add, TheBook
  <1>7. ASSUME NEW n \in Ids, NEW text \in Texts, SaveNote(n, text)
        PROVE  [Book!BookNext]_(Book!bookVars)
    <2>1. session = "open" /\ session' = "open" /\ last' = last /\ n \in DOMAIN notes
      BY <1>7 DEF SaveNote, sessionVars
    <2>2. /\ DOMAIN notes' = DOMAIN notes
          /\ notes'[n] = [body |-> text, sealed |-> TitleFromPlaintext(text), legacy |-> Empty]
          /\ \A m \in DOMAIN notes : m # n => notes'[m] = notes[m]
      BY <1>0, <1>7, <2>1, NoTexts, WrittenRow DEF SaveNote
    <2>3. Shown(notes'[n]) = text
      <3>1. notes'[n].body = text /\ text # Unwritten
        BY <2>2, NoTexts
      <3> QED
        BY <3>1 DEF Shown
    <2>4. TheBook' = [TheBook EXCEPT ![n] = text]
      BY <2>1, <2>2, <2>3 DEF TheBook
    <2>5. n \in DOMAIN TheBook
      BY <2>1 DEF TheBook
    <2> QED
      BY <2>1, <2>4, <2>5 DEF Book!BookNext, Book!Write, TheBook
  <1>8. ASSUME NEW n \in Ids, DeleteNote(n) PROVE [Book!BookNext]_(Book!bookVars)
    <2>1. session = "open" /\ session' = "open" /\ last' = last /\ n \in DOMAIN notes
      BY <1>0, <1>8, DeletedRow DEF DeleteNote, sessionVars
    <2>2. DOMAIN notes' = DOMAIN notes \ {n} /\ \A m \in DOMAIN notes' : notes'[m] = notes[m]
      BY <1>0, <1>8, DeletedRow
    <2>3. TheBook' = [m \in DOMAIN TheBook \ {n} |-> TheBook[m]] /\ n \in DOMAIN TheBook
      BY <2>1, <2>2 DEF TheBook
    <2> QED
      BY <2>1, <2>3 DEF Book!BookNext, Book!Remove, TheBook
  <1>9. CASE Wipe
    <2>1. CASE notes' = <<>> /\ last' = 0
      <3>1. session' = "locked" /\ DOMAIN TheBook' = {}
        BY <1>0, <1>9, <2>1, Wiped, NoRows DEF TheBook
      <3> QED
        BY <2>1, <3>1 DEF Book!BookNext, Book!Clear, TheBook
    <2>2. CASE UNCHANGED <<notes, last>>
      BY <2>2, BookStays DEF TheBook
    <2> QED
      BY <1>0, <1>9, <2>1, <2>2, Wiped
  <1>10. ASSUME NEW ok \in BOOLEAN, ImportBackup(ok) PROVE [Book!BookNext]_(Book!bookVars)
    <2>1. session = "open" /\ session' = "open"
      BY <1>10 DEF ImportBackup, sessionVars
    <2>2. CASE last' = last
      BY <1>0, <1>10, <2>2, ImportAdds, BookStays DEF TheBook
    <2>3. CASE last' # last
      <3>1. last' > last
        BY <1>0, <1>10, <2>3, ImportAdds DEF Typed
      <3>2. /\ DOMAIN notes \subseteq DOMAIN notes'
            /\ \A i \in DOMAIN notes : notes'[i] = notes[i]
            /\ \A i \in DOMAIN notes' \ DOMAIN notes : i \in last + 1 .. last'
        BY <1>0, <1>10, ImportAdds
      <3>3. /\ DOMAIN TheBook \subseteq DOMAIN TheBook'
            /\ \A i \in DOMAIN TheBook : TheBook'[i] = TheBook[i]
            /\ \A i \in DOMAIN TheBook' \ DOMAIN TheBook : i \in last + 1 .. last'
        BY <3>2 DEF TheBook
      <3> QED
        BY <2>1, <3>1, <3>3 DEF Book!BookNext, Book!Restore, TheBook
    <2> QED
      BY <2>2, <2>3
  <1> QED
    BY <1>1, <1>2, <1>3, <1>4, <1>5, <1>6, <1>7, <1>8, <1>9, <1>10 DEF StoreNext

\* The store implements the notebook, step by step: migrations of the schema and
\* of titles, crashes, unlocks and exports leave the texts alone, and the calls
\* of a session do to them what they say.
THEOREM StoreKeepsNotebook == StoreSpec => KeepsNotebook
  <1>1. StoreInit => Book!BookInit
    BY StoreInvInit, InitialBook
  <1>2. StoreInv /\ [StoreNext]_vars => [Book!BookNext]_(Book!bookVars)
    BY BookStep
  <1> QED
    BY <1>1, <1>2, StoreInvariance, PTL DEF StoreSpec, KeepsNotebook, Book!BookSpec

-----------------------------------------------------------------------------
\* The numbers that restored notes get differ: each is given to one entry.
LEMMA NewIdsDiffer ==
    ASSUME Typed, FileTyped, file # None, NEW fate \in [DOMAIN file.entries -> Fates],
           NEW m \in RowsMade(fate), NEW n \in RowsMade(fate), NewId(fate, m) = NewId(fate, n)
    PROVE  m = n
  <1> DEFINE made == RowsMade(fate)
             above(k) == {j \in made : j >= k}
  <1>1. IsFiniteSet(made) /\ made \subseteq DOMAIN file.entries
    BY RestoredNumbers
  <1>2. made \subseteq Nat /\ last \in Nat
    BY <1>1, StoreAssumption DEF FileTyped, Ids, Typed
  <1>3. last + Cardinality(above(m)) = last + Cardinality(above(n))
    BY DEF NewId
  <1> HIDE DEF made
  <1>4. m \in made /\ n \in made
    BY DEF made
  <1>5. ASSUME NEW k \in made
        PROVE  IsFiniteSet(above(k)) /\ Cardinality(above(k)) \in Nat /\ k \in above(k)
    <2>1. above(k) \subseteq made
      OBVIOUS
    <2>2. k \in above(k)
      BY <1>2
    <2> HIDE DEF above
    <2> QED
      BY <1>1, <2>1, <2>2, FS_Subset, FS_CardinalityType
  <1>6. Cardinality(above(m)) = Cardinality(above(n))
    <2> HIDE DEF above
    <2> QED
      BY <1>2, <1>3, <1>4, <1>5
  <1>7. ASSUME NEW j \in made, NEW k \in made, j < k, Cardinality(above(j)) = Cardinality(above(k))
        PROVE  FALSE
    <2>0. j \in Nat /\ k \in Nat /\ j < k
      BY <1>2, <1>7
    <2>1. above(k) \subseteq above(j)
      <3> SUFFICES ASSUME NEW i \in made, i >= k PROVE i >= j
        OBVIOUS
      <3>1. i \in Nat
        BY <1>2
      <3> QED
        BY <2>0, <3>1
    <2>2. j \notin above(k)
      BY <1>2, <1>7
    <2> HIDE DEF above
    <2>3. above(j) = above(k)
      BY <1>5, <1>7, <2>1, FS_Subset
    <2> QED
      BY <1>5, <2>2, <2>3
  <1>8. m \in Nat /\ n \in Nat
    BY <1>2, <1>4
  <1>9. ~(m < n) /\ ~(n < m)
    BY <1>4, <1>6, <1>7
  <1> QED
    BY <1>8, <1>9

LEMMA RestoreCounted ==
    ASSUME StoreInv, ImportBackup(TRUE), DOMAIN notes = {}, file.ok, file.listed, NEW t
    PROVE  HowMany([i \in DOMAIN notes' |-> Shown(notes'[i])], t) = HowMany(file.texts, t)
  <1>0. Typed /\ FileTyped /\ file # None
    BY DEF StoreInv, ImportBackup
  <1>1. PICK fate \in [DOMAIN file.entries -> Fates] :
          /\ \A n \in DOMAIN fate : fate[n] = "restored"
          /\ notes' = [i \in DOMAIN notes \union Restored(fate) |->
                         IF i <= last THEN notes[i]
                         ELSE LET n == EntryOf(fate, i)
                              IN IF fate[n] = "blank" THEN BlankRow
                                 ELSE RestoredRow(file.entries[n])]
    BY DEF ImportBackup
  <1>2. /\ DOMAIN file.entries = DOMAIN file.texts
        /\ \A n \in DOMAIN file.texts : file.entries[n].content = file.texts[n]
    BY <1>0 DEF StoreInv, OkIsWhole
  <1>3. RowsMade(fate) = DOMAIN file.texts /\ Restored(fate) = {NewId(fate, n) : n \in DOMAIN file.texts}
    BY <1>1, <1>2 DEF RowsMade, Restored
  <1>4. DOMAIN notes' = {NewId(fate, n) : n \in DOMAIN file.texts}
    BY <1>1, <1>3
  <1>5. ASSUME NEW n \in DOMAIN file.texts
        PROVE  Shown(notes'[NewId(fate, n)]) = file.texts[n]
    <2>1. EntryOf(fate, NewId(fate, n)) = n
      <3>1. n \in RowsMade(fate)
        BY <1>3
      <3>2. \A m \in RowsMade(fate) : NewId(fate, m) = NewId(fate, n) => m = n
        BY <1>0, <3>1, NewIdsDiffer
      <3> QED
        BY <3>1, <3>2 DEF EntryOf
    <2>2. ~(NewId(fate, n) <= last)
      <3>1. last \in Nat /\ Cardinality(RowsMade(fate)) \in Nat
        BY <1>0, RestoredNumbers DEF Typed
      <3>2. NewId(fate, n) \in last + 1 .. last + Cardinality(RowsMade(fate))
        BY <1>0, <1>3, RestoredNumbers
      <3> QED
        BY <3>1, <3>2
    <2>3. notes'[NewId(fate, n)] = RestoredRow(file.entries[n])
      BY <1>1, <1>2, <1>3, <2>1, <2>2
    <2>4. notes'[NewId(fate, n)].body = file.texts[n]
      BY <1>2, <2>3 DEF RestoredRow
    <2>5. file.texts[n] # Unwritten
      BY <1>0, NoTexts DEF FileTyped
    <2> QED
      BY <2>4, <2>5 DEF Shown
  <1> DEFINE shown == [i \in DOMAIN notes' |-> Shown(notes'[i])]
             before == {n \in DOMAIN file.texts : file.texts[n] = t}
             after == {i \in DOMAIN shown : shown[i] = t}
             f == [n \in before |-> NewId(fate, n)]
  <1>6. \A n \in before : n \in DOMAIN file.texts /\ f[n] = NewId(fate, n) /\ f[n] \in after
    BY <1>4, <1>5
  <1>7. \A i \in after : \E n \in before : f[n] = i
    BY <1>4, <1>5
  <1>8. \A m, n \in before : f[m] = f[n] => m = n
    <2> SUFFICES ASSUME NEW m \in before, NEW n \in before, f[m] = f[n] PROVE m = n
      OBVIOUS
    <2>1. m \in RowsMade(fate) /\ n \in RowsMade(fate) /\ NewId(fate, m) = NewId(fate, n)
      BY <1>3, <1>6
    <2> HIDE DEF f, before
    <2> QED
      BY <1>0, <2>1, NewIdsDiffer
  <1>9. f \in [before -> after]
    BY <1>6
  <1>10. IsFiniteSet(before)
    <2>1. IsFiniteSet(RowsMade(fate))
      BY <1>0, RestoredNumbers
    <2>2. before \subseteq RowsMade(fate)
      BY <1>3
    <2> HIDE DEF before
    <2> QED
      BY <2>1, <2>2, FS_Subset
  <1> HIDE DEF f, before, after
  <1>11. ExistsBijection(before, after)
    BY <1>7, <1>8, <1>9 DEF ExistsBijection, Bijection, Injection, Surjection, IsInjective
  <1>12. Cardinality(after) = Cardinality(before)
    BY <1>10, <1>11, FS_Bijection
  <1> QED
    BY <1>12 DEF after, before, HowMany

\* A restore gives the backup back: into an empty table, from a whole backup,
\* every text is read as often as it was when it was exported; the numbers that
\* the entries get are a bijection.
THEOREM RestoreGivesAllBack == StoreSpec => RestoreGivesBack
  <1>1. StoreInv /\ [StoreNext]_vars =>
          [(ImportBackup(TRUE) /\ DOMAIN notes = {} /\ file.ok /\ file.listed) =>
             \A t \in Texts : HowMany([n \in DOMAIN notes' |-> Shown(notes'[n])], t)
                                = HowMany(file.texts, t)]_vars
    BY RestoreCounted
  <1> QED
    BY <1>1, StoreInvariance, PTL DEF StoreSpec, RestoreGivesBack

==============================================================================
