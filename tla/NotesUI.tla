------------------------------- MODULE NotesUI -------------------------------
(* The notes_ui plugin (src/plugins/notes_ui/qml/Main.qml): the editor with   *)
(* its two timers, the list of notes, the screens, and the requests for the   *)
(* card's key, over the calls of the notes module.                            *)
(*                                                                            *)
(* logos.callModule blocks in an event loop of its own ("guard prevents       *)
(* re-entrant stack buildup"): other handlers run between a call and what its *)
(* handler does with the answer.  A handler is therefore cut at each of its   *)
(* calls; what it does with the answer is a step of its own, and until then   *)
(* the handler is a frame of a stack: one that starts inside another ends     *)
(* first.  The called module does its part when it is called.                 *)
(*                                                                            *)
(* A text is the note it was written in and how often it was changed there.   *)
(* There is one card: what another card's key opens is Account's matter.      *)
EXTENDS Naturals, Sequences

CONSTANTS
    \* bounds: the notes of an account and those a restore brings, the changes of
    \* a text, the accounts, and the calls that fail and handlers that run inside
    \* another, together
    MaxNotes, MaxRestored, MaxVersion, MaxAccounts, MaxFaults

ASSUME UiAssumption ==
    /\ {MaxNotes, MaxVersion} \subseteq Nat /\ MaxFaults \in Nat
    /\ MaxAccounts \in Nat \ {0} /\ MaxRestored \in 0..MaxNotes

VARIABLES
    screen,         \* currentScreen
    listed,         \* the notes of noteModel
    active,         \* activeNoteId; 0: none
    editor,         \* editor.text
    lastLoaded,     \* lastLoadedContent
    loading,
    saveTimer,      \* saveTimer runs (200 ms)
    retry,          \* retryNoteId, retryTimer runs (300 ms); 0: it does not
    auth,           \* keycardAuthStatus
    pollBusy,       \* keycardPollBusy
    stack,          \* handlers waiting for an answer
    \* the notes module
    account,        \* number of the account: one more with each wipe
    unlocked,
    notes, last,    \* its notes, and the last number given
    \* history
    latest,         \* what was last written in each note of the account
    askedOn,        \* the screens the card was asked on and requestAuth answered on
    faults,         \* calls that failed and handlers that ran inside another
    refused,        \* a save failed, or found the session locked
    interrupted,    \* someone typed into a text a waiting handler will replace
                    \* or count as saved
    misplaced       \* someone typed into a text that is not the note's, or an
                    \* unsaved edit outlived its note or account

editorVars == <<active, editor, lastLoaded, loading, saveTimer, retry>>
cardVars == <<auth, pollBusy, askedOn>>
moduleVars == <<account, unlocked, notes, last, latest>>
history == <<refused, interrupted, misplaced>>
vars == <<screen, listed, editorVars, cardVars, stack, moduleVars, faults, history>>

Blank == [note |-> <<0, 0>>, version |-> 0]
Text(n, v) == [note |-> <<account, n>>, version |-> v]
Ids == 1..MaxNotes
NotAsked == <<"none", "none">>

UiInit ==
    /\ screen = "import" /\ listed = {}
    /\ active = 0 /\ editor = Blank /\ lastLoaded = Blank /\ loading = FALSE
    /\ saveTimer = FALSE /\ retry = 0
    /\ auth = "disconnected" /\ pollBusy = FALSE /\ askedOn = NotAsked
    /\ stack = <<>>
    /\ account = 1 /\ unlocked = FALSE /\ notes = <<>> /\ last = 0 /\ latest = <<>>
    /\ faults = 0 /\ refused = FALSE /\ interrupted = FALSE /\ misplaced = FALSE

\* A waiting handler calls again, and a handler starts, perhaps inside another;
\* ok: the call does not fail.
Calls(ok) ==
    /\ faults' = faults + (IF ok THEN 0 ELSE 1)
    /\ faults' <= MaxFaults
Handler(ok) ==
    /\ faults' = faults + (IF ok THEN 0 ELSE 1) + (IF stack = <<>> THEN 0 ELSE 1)
    /\ faults' <= MaxFaults

Push(below, frame) == stack' = Append(below, frame)
Pop == SubSeq(stack, 1, Len(stack) - 1)
Top == stack[Len(stack)]
Answer(kinds) == stack # <<>> /\ Top.at \in kinds

Put(f, n, text) == [m \in DOMAIN f \union {n} |-> IF m = n THEN text ELSE f[m]]

\* saveNote of the editor's text under id n; the answer is not looked at.
SaveNote(n, ok) ==
    IF ok /\ unlocked /\ n \in DOMAIN notes
    THEN notes' = [notes EXCEPT ![n] = editor] /\ UNCHANGED refused
    ELSE refused' = TRUE /\ UNCHANGED notes

Dirty == active # 0 /\ editor # lastLoaded

\* The handlers that will replace the editor's text or count it as saved.
Overwrites(frame) == frame.at \in {"saved", "timer saved", "new saved", "loaded", "created"}

\* refreshList: a locked session lists nothing.
RefreshList(kind, n, below) ==
    Push(below, [at |-> kind, id |-> n, shows |-> IF unlocked THEN DOMAIN notes ELSE {}])

-----------------------------------------------------------------------------
\* Typing: onTextChanged restarts the timer unless a text is being loaded.
Type ==
    /\ Handler(TRUE)
    /\ screen = "note" /\ active # 0 /\ editor.version < MaxVersion
    /\ editor' = IF editor = Blank THEN Text(active, 1) ELSE [editor EXCEPT !.version = @ + 1]
    /\ latest' = IF active \in DOMAIN notes THEN Put(latest, active, editor') ELSE latest
    /\ saveTimer' = (saveTimer \/ ~loading)
    /\ interrupted' = (interrupted \/ \E i \in DOMAIN stack : Overwrites(stack[i]))
    /\ misplaced' = (misplaced \/ active \notin DOMAIN latest \/ editor # latest[active])
    /\ UNCHANGED <<screen, listed, active, lastLoaded, loading, retry, cardVars, stack,
                   account, unlocked, notes, last, refused>>

SaveTimerFires(ok) ==
    /\ Handler(ok) /\ saveTimer
    /\ saveTimer' = FALSE
    /\ IF Dirty THEN SaveNote(active, ok) /\ Push(stack, [at |-> "timer saved"])
                ELSE UNCHANGED <<notes, refused, stack>>
    /\ UNCHANGED <<screen, listed, active, editor, lastLoaded, loading, retry, cardVars,
                   account, unlocked, last, latest, interrupted, misplaced>>

\* The second half of selectNote up to the answer of loadNote: a text, empty if
\* the session is locked or the note cannot be read, or the error of a call
\* that did not reach the notes module.
LoadNote(n, again, ok, below) ==
    /\ active' = n /\ loading' = TRUE
    /\ \E reached \in {ok, TRUE} :
         Push(below,
             [at |-> "loaded", id |-> n, again |-> again, reached |-> reached,
              text |-> IF ok /\ unlocked /\ n \in DOMAIN notes THEN notes[n] ELSE Blank])

\* Fault: the new note is the active one when the old text is saved.
SelectNoteIdFirst(n, again, ok, below) ==
    IF Dirty
    THEN /\ SaveNote(n, ok) /\ active' = n
         /\ Push(below, [at |-> "saved", id |-> n, again |-> again])
         /\ UNCHANGED loading
    ELSE LoadNote(n, again, ok, below) /\ UNCHANGED <<notes, refused>>

\* Fault: the edits of the note that is left are not saved.
SelectNoteUnsaved(n, again, ok, below) ==
    LoadNote(n, again, ok, below) /\ UNCHANGED <<notes, refused>>

\* selectNote: saveCurrentNote, then loadNote.
SelectNote(n, again, ok, below) ==
    IF Dirty
    THEN /\ SaveNote(active, ok)
         /\ Push(below, [at |-> "saved", id |-> n, again |-> again])
         /\ UNCHANGED <<active, loading>>
    ELSE LoadNote(n, again, ok, below) /\ UNCHANGED <<notes, refused>>

ClickNote(n, ok) ==
    /\ Handler(ok) /\ screen = "note" /\ n \in listed
    /\ SelectNote(n, FALSE, ok, stack)
    /\ UNCHANGED <<screen, listed, editor, lastLoaded, saveTimer, retry, cardVars,
                   account, unlocked, last, latest, interrupted, misplaced>>

\* retryTimer: selectNote once more.  retryNoteId is cleared after it, so a
\* second failure is not retried.
RetryTimerFires(ok) ==
    /\ Handler(ok) /\ retry # 0
    /\ retry' = 0
    /\ SelectNote(retry, TRUE, ok, stack)
    /\ UNCHANGED <<screen, listed, editor, lastLoaded, saveTimer, cardVars,
                   account, unlocked, last, latest, interrupted, misplaced>>

\* createNote: without a number in the answer the handler ends with an error.
CreateNote(ok, below) ==
    IF ok /\ unlocked /\ last < MaxNotes
    THEN /\ last' = last + 1
         /\ notes' = Put(notes, last', Blank) /\ latest' = Put(latest, last', Blank)
         /\ Push(below, [at |-> "created", id |-> last'])
    ELSE stack' = below /\ UNCHANGED <<last, notes, latest>>

\* createNewNote: saveCurrentNote, then createNote.
CreateNewNote(ok) ==
    /\ Handler(ok) /\ screen = "note"
    /\ IF Dirty
       THEN /\ SaveNote(active, ok) /\ Push(stack, [at |-> "new saved"])
            /\ UNCHANGED <<last, latest>>
       ELSE CreateNote(ok, stack) /\ UNCHANGED refused
    /\ UNCHANGED <<screen, listed, editorVars, cardVars, account, unlocked,
                   interrupted, misplaced>>

\* The answer of saveNote: whatever is in the editor now counts as saved.
SaveReturns(ok) ==
    /\ Answer({"saved", "timer saved", "new saved"}) /\ Calls(ok)
    /\ lastLoaded' = editor
    /\ \/ Top.at = "saved" /\ LoadNote(Top.id, Top.again, ok, Pop) /\ UNCHANGED <<notes, last, latest>>
       \/ Top.at = "new saved" /\ CreateNote(ok, Pop) /\ UNCHANGED <<active, loading>>
       \/ /\ Top.at = "timer saved" /\ ok /\ RefreshList("listed", 0, Pop)
          /\ UNCHANGED <<active, loading, notes, last, latest>>
    /\ UNCHANGED <<screen, listed, editor, saveTimer, retry, cardVars, account, unlocked,
                   history>>

\* The answer of loadNote: on an error the old text stays under the new id.
LoadReturns ==
    /\ Answer({"loaded"})
    /\ stack' = Pop /\ loading' = FALSE
    /\ IF Top.reached
       THEN /\ editor' = Top.text /\ lastLoaded' = Top.text
            /\ saveTimer' = (saveTimer \/ (~loading /\ editor # Top.text))
            /\ retry' = IF Top.again THEN 0 ELSE retry
       ELSE /\ retry' = IF Top.again THEN 0 ELSE Top.id
            /\ UNCHANGED <<editor, lastLoaded, saveTimer>>
    /\ UNCHANGED <<screen, listed, active, cardVars, moduleVars, faults, history>>

\* The answer of createNote: the editor is emptied, then the list refreshed.
CreateReturns ==
    /\ Answer({"created"})
    /\ active' = Top.id /\ editor' = Blank /\ lastLoaded' = Blank /\ loading' = FALSE
    /\ RefreshList("new listed", Top.id, Pop)
    /\ UNCHANGED <<screen, listed, saveTimer, retry, cardVars, moduleVars, faults, history>>

\* The answers of loadNotes: with nothing after it, ...
ListReturns ==
    /\ Answer({"listed"})
    /\ listed' = Top.shows /\ stack' = Pop
    /\ UNCHANGED <<screen, editorVars, cardVars, moduleVars, faults, history>>

\* ... and in createNewNote, which selects the note it made.
NewListReturns(ok) ==
    /\ Answer({"new listed"}) /\ Calls(ok)
    /\ listed' = Top.shows
    /\ SelectNote(Top.id, FALSE, ok, Pop)
    /\ UNCHANGED <<screen, editor, lastLoaded, saveTimer, retry, cardVars,
                   account, unlocked, last, latest, interrupted, misplaced>>

\* deleteNote: an answer without an error, or none that can be parsed (the
\* session is locked, the row stays), lets the handler go on.
DeleteNote(n, ok) ==
    /\ Handler(ok) /\ screen = "note" /\ n \in listed
    /\ \E reached \in {ok, TRUE} : Push(stack, [at |-> "deleted", id |-> n, reached |-> reached])
    /\ IF ok /\ unlocked
       THEN /\ notes' = [m \in DOMAIN notes \ {n} |-> notes[m]]
            /\ latest' = [m \in DOMAIN latest \ {n} |-> latest[m]]
            /\ misplaced' = (misplaced \/ (Dirty /\ active = n))
       ELSE UNCHANGED <<notes, latest, misplaced>>
    /\ UNCHANGED <<screen, listed, editorVars, cardVars, account, unlocked, last,
                   refused, interrupted>>

DeleteReturns ==
    /\ Answer({"deleted"})
    /\ IF Top.reached
       THEN /\ active' = IF active = Top.id THEN 0 ELSE active
            /\ misplaced' = (misplaced \/ (Dirty /\ active = Top.id))
            /\ RefreshList("listed", 0, Pop)
       ELSE stack' = Pop /\ UNCHANGED <<active, misplaced>>
    /\ UNCHANGED <<screen, listed, editor, lastLoaded, loading, saveTimer, retry, cardVars,
                   moduleVars, faults, refused, interrupted>>

-----------------------------------------------------------------------------
\* Fault: the request for the card's key goes on.
ShowOnly(s) ==
    /\ screen' = s
    /\ UNCHANGED <<auth, askedOn>>

\* The import and the unlock screen reset the request when they are shown.
Show(s) ==
    /\ screen' = s
    /\ auth' = IF s # screen THEN "disconnected" ELSE auth
    /\ askedOn' = IF s # screen THEN NotAsked ELSE askedOn

\* lockSession, from the note screen: nothing is saved first.
Lock(ok) ==
    /\ Handler(ok) /\ screen = "note"
    /\ unlocked' = (unlocked /\ ~ok)
    /\ Push(stack, [at |-> "leaving", to |-> "unlock"])
    /\ UNCHANGED <<screen, listed, editorVars, cardVars, account, notes, last, latest, history>>

\* The database is new; the editor and its note's number are left as they are.
Wipe ==
    /\ account < MaxAccounts /\ account' = account + 1
    /\ unlocked' = FALSE /\ notes' = <<>> /\ last' = 0 /\ latest' = <<>>
    /\ misplaced' = (misplaced \/ Dirty)

\* "Reset the app", and "Back to import" on the unlock screen.
ResetAndWipe(ok) ==
    /\ Handler(ok) /\ screen \in {"note", "unlock"}
    /\ IF ok THEN Wipe ELSE UNCHANGED <<moduleVars, misplaced>>
    /\ Push(stack, [at |-> "leaving", to |-> "import"])
    /\ UNCHANGED <<screen, listed, editorVars, cardVars, refused, interrupted>>

\* Whatever lockSession and resetAndWipe answer, the screen changes.
LeaveReturns ==
    /\ Answer({"leaving"})
    /\ stack' = Pop /\ Show(Top.to)
    /\ UNCHANGED <<listed, editorVars, pollBusy, moduleVars, faults, history>>

-----------------------------------------------------------------------------
RequestKeycardAuth ==
    /\ Handler(TRUE) /\ screen \in {"import", "unlock"} /\ auth = "disconnected"
    /\ Push(stack, [at |-> "requested", on |-> screen])
    /\ UNCHANGED <<screen, listed, editorVars, cardVars, moduleVars, history>>

\* The answer of requestAuth, on whatever screen: an authId, or an error.
RequestReturns ==
    /\ Answer({"requested"})
    /\ stack' = Pop
    /\ \/ auth' = "pending" /\ askedOn' = <<Top.on, screen>>
       \/ UNCHANGED <<auth, askedOn>>
    /\ UNCHANGED <<screen, listed, editorVars, pollBusy, moduleVars, faults, history>>

\* The poll (1000 ms) follows a click on the import or unlock screen, where
\* nothing starts the editor's timers (200 and 300 ms): they fire before it.
CheckKeycardAuthStatus ==
    /\ Handler(TRUE) /\ auth = "pending" /\ ~pollBusy
    /\ stack = <<>> => ~saveTimer /\ retry = 0
    /\ pollBusy' = TRUE /\ Push(stack, [at |-> "polled", on |-> screen, asked |-> askedOn])
    /\ UNCHANGED <<screen, listed, editorVars, auth, askedOn, moduleVars, history>>

ResetKeycardAuth ==
    /\ auth' = "disconnected" /\ askedOn' = NotAsked

\* importWithKeycardKey may restore n notes of a backup; one that fails leaves
\* the database as it is, or wipes it if the restore is what failed.
ImportWithKeycardKey(done) ==
    IF done
    THEN /\ unlocked' = TRUE
         /\ \E n \in 0..MaxRestored :
              /\ last + n <= MaxNotes /\ last' = last + n
              /\ LET Restored(f) ==
                       [m \in DOMAIN f \union (last + 1)..last' |->
                          IF m \in DOMAIN f THEN f[m] ELSE Text(m, 0)]
                 IN notes' = Restored(notes) /\ latest' = Restored(latest)
         /\ UNCHANGED <<account, misplaced>>
    ELSE Wipe \/ UNCHANGED <<moduleVars, misplaced>>

\* unlockWithKeycardKey: an empty database opens to any key.
UnlockWithKeycardKey(done) ==
    /\ unlocked' = (unlocked \/ done)
    /\ UNCHANGED <<account, notes, last, latest, misplaced>>

\* processKeycardKey judges by the screen it finds.
ProcessKeycardKey ==
    \/ \E done \in BOOLEAN :
        /\ Push(Pop, [at |-> "key used", done |-> done])
        /\ \/ screen = "import" /\ ImportWithKeycardKey(done)
           \/ screen = "unlock" /\ UnlockWithKeycardKey(done)
        /\ auth' = "connected" /\ askedOn' = NotAsked
    \/ /\ screen = "note" /\ stack' = Pop /\ ResetKeycardAuth
       /\ UNCHANGED <<moduleVars, misplaced>>

\* The answer of checkAuthStatus without a key: still pending, or the end of it.
NoKey ==
    /\ stack' = Pop
    /\ ResetKeycardAuth \/ UNCHANGED <<auth, askedOn>>
    /\ UNCHANGED <<moduleVars, misplaced>>

\* Fault: the poll stays busy when the key has come.
PollReturnsBusy ==
    /\ Answer({"polled"})
    /\ \/ ProcessKeycardKey /\ UNCHANGED pollBusy
       \/ NoKey /\ pollBusy' = FALSE
    /\ UNCHANGED <<screen, listed, editorVars, faults, refused, interrupted>>

\* The answer of checkAuthStatus.
PollReturns ==
    /\ Answer({"polled"})
    /\ pollBusy' = FALSE
    /\ ProcessKeycardKey \/ NoKey
    /\ UNCHANGED <<screen, listed, editorVars, faults, refused, interrupted>>

\* The answer of the import or the unlock: the note screen, if it is not the
\* one already shown, refreshes its list before the request is reset.
KeyReturns ==
    /\ Answer({"key used"})
    /\ IF Top.done /\ screen # "note"
       THEN /\ screen' = "note" /\ RefreshList("key listed", 0, Pop)
            /\ UNCHANGED <<auth, askedOn>>
       ELSE stack' = Pop /\ ResetKeycardAuth /\ UNCHANGED screen
    /\ UNCHANGED <<listed, editorVars, pollBusy, moduleVars, faults, history>>

KeyListReturns ==
    /\ Answer({"key listed"})
    /\ listed' = Top.shows /\ stack' = Pop /\ ResetKeycardAuth
    /\ UNCHANGED <<screen, editorVars, pollBusy, moduleVars, faults, history>>

-----------------------------------------------------------------------------
UiNext ==
    \/ Type
    \/ \E ok \in BOOLEAN :
        \/ SaveTimerFires(ok)
        \/ RetryTimerFires(ok)
        \/ CreateNewNote(ok)
        \/ SaveReturns(ok)
        \/ NewListReturns(ok)
        \/ Lock(ok)
        \/ ResetAndWipe(ok)
        \/ \E n \in Ids : ClickNote(n, ok) \/ DeleteNote(n, ok)
    \/ LoadReturns
    \/ CreateReturns
    \/ ListReturns
    \/ DeleteReturns
    \/ LeaveReturns
    \/ RequestKeycardAuth
    \/ RequestReturns
    \/ CheckKeycardAuthStatus
    \/ PollReturns
    \/ KeyReturns
    \/ KeyListReturns

UiSpec == UiInit /\ [][UiNext]_vars

-----------------------------------------------------------------------------
NoteIds == (0..MaxAccounts) \X (0..MaxNotes)
TextsOfNotes == [note : NoteIds, version : 0..MaxVersion]

UiTypeOK ==
    /\ screen \in {"import", "unlock", "note"} /\ listed \subseteq Ids
    /\ active \in 0..MaxNotes /\ retry \in 0..MaxNotes
    /\ {editor, lastLoaded} \subseteq TextsOfNotes
    /\ {loading, saveTimer, pollBusy, unlocked} \subseteq BOOLEAN
    /\ auth \in {"disconnected", "pending", "connected"}
    /\ pollBusy = (\E i \in DOMAIN stack : stack[i].at = "polled")
    /\ account \in 1..MaxAccounts /\ last \in 0..MaxNotes
    /\ DOMAIN notes \subseteq 1..last
    /\ \A n \in DOMAIN notes : notes[n] \in TextsOfNotes
    /\ Len(stack) <= 1 + faults

\* What is stored under a note's number was written in that note: never the
\* text of another note, or of an account that is gone.
OwnText == \A n \in DOMAIN notes : notes[n] = Blank \/ notes[n].note = <<account, n>>

\* That holds, whatever calls fail and whatever handlers run inside others, as
\* long as nobody types while the editor shows the text of another note under
\* the active id (after a load that failed, for selectNote sets the id first, a
\* select inside a select, or a wipe) or an empty one it could not read, and no
\* note or account is deleted with an edit in the editor that is not saved yet:
\* it would wait for the next note.
OwnTextUnlessMisplaced == ~misplaced => OwnText

\* README: "Auto-save per note".  What was written in a note is stored, or is
\* in the editor with the timer that saves it running and no waiting handler
\* about to replace it, however notes are selected, created, deleted and the
\* session locked; unless a save failed (a lock within 200 ms of the last key
\* is such a failure), an edit was misplaced, or someone typed while a handler
\* waited for a save, a load or a new note: that text counts as saved or is
\* replaced.
EditsKept ==
    (~refused /\ ~interrupted /\ ~misplaced) =>
        \A n \in DOMAIN notes :
            \/ notes[n] = latest[n]
            \/ /\ active = n /\ editor = latest[n] /\ Dirty /\ saveTimer
               /\ \A i \in DOMAIN stack : ~Overwrites(stack[i])

\* A card's key that was asked for on the unlock screen opens the account, and
\* one that was asked for on the import screen makes one: a request does not
\* outlive its screen, unless that changed while requestAuth or the poll that
\* brings the key waited for the keycard module.
KeyForItsScreen ==
    [][(unlocked' /\ ~unlocked /\ Top.on = screen /\ Top.asked[1] = Top.asked[2]) =>
         screen = Top.asked[1]]_vars
==============================================================================
