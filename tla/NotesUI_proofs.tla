---------------------------- MODULE NotesUI_proofs ----------------------------
(* Theorems about NotesUI for any number of notes, versions, accounts, failed *)
(* calls and handlers that run inside another.                                *)
(*                                                                            *)
(* An edit that is not saved is the latest text of the active note (Edits),   *)
(* and while it waits for its timer no handler waits that would replace it    *)
(* (Kept).  A pending request that was answered on the screen it was made on  *)
(* is of the screen that is shown, unless a key has shown the notes (Polls).  *)
EXTENDS NotesUI, SequenceTheorems, TLAPS

Screens == {"import", "unlock", "note"}
Asked == ({"import", "unlock"} \X Screens) \union {NotAsked}

Frames ==
    [at : {"timer saved", "new saved"}]
    \union [at : {"saved"}, id : 0..MaxNotes, again : BOOLEAN]
    \union [at : {"loaded"}, id : 0..MaxNotes, again : BOOLEAN, reached : BOOLEAN, text : TextsOfNotes]
    \union [at : {"created"}, id : 0..MaxNotes]
    \union [at : {"listed", "new listed", "key listed"}, id : 0..MaxNotes, shows : SUBSET Ids]
    \union [at : {"deleted"}, id : 0..MaxNotes, reached : BOOLEAN]
    \union [at : {"leaving"}, to : {"import", "unlock"}]
    \union [at : {"requested"}, on : {"import", "unlock"}]
    \union [at : {"polled"}, on : Screens, asked : Asked]
    \union [at : {"key used"}, done : BOOLEAN]

\* UiTypeOK in a form that steps preserve.
Typed ==
    /\ screen \in Screens /\ listed \in SUBSET Ids
    /\ auth \in {"disconnected", "pending", "connected"} /\ askedOn \in Asked
    /\ active \in 0..MaxNotes /\ retry \in 0..MaxNotes
    /\ editor \in TextsOfNotes /\ lastLoaded \in TextsOfNotes
    /\ loading \in BOOLEAN /\ saveTimer \in BOOLEAN /\ unlocked \in BOOLEAN
    /\ account \in 1..MaxAccounts /\ last \in 0..MaxNotes
    /\ DOMAIN notes \subseteq 1..last
    /\ \A n \in DOMAIN notes : notes[n] \in TextsOfNotes
    /\ refused \in BOOLEAN /\ interrupted \in BOOLEAN /\ misplaced \in BOOLEAN

\* The waiting handlers: at most one of them is the poll.
Stack ==
    /\ stack \in Seq(Frames) /\ faults \in Nat
    /\ Len(stack) <= 1 + faults
    /\ pollBusy = (\E i \in DOMAIN stack : stack[i].at = "polled")
    /\ \A i, k \in DOMAIN stack :
         stack[i].at = "polled" /\ stack[k].at = "polled" => i = k
    /\ loading => \E i \in DOMAIN stack : stack[i].at = "loaded"

\* What was last written in a note was written there.
Latest ==
    /\ DOMAIN latest = DOMAIN notes
    /\ ~misplaced => \A n \in DOMAIN latest :
                       latest[n] = Blank \/ latest[n].note = <<account, n>>

\* What is in the editor and not saved is the latest text of the active note.
Edits ==
    editor # lastLoaded =>
        /\ lastLoaded.version < editor.version
        /\ ~misplaced => active \in DOMAIN latest /\ editor = latest[active]

NoOverwrite == \A i \in DOMAIN stack : ~Overwrites(stack[i])

\* The hypothesis of EditsKept, which once false stays false.
Undisturbed == ~refused /\ ~interrupted /\ ~misplaced

Kept ==
    Undisturbed =>
        \A n \in DOMAIN notes :
            \/ notes[n] = latest[n]
            \/ active = n /\ editor = latest[n] /\ Dirty /\ saveTimer /\ NoOverwrite

\* A screen that shows the notes is one where no key is used.
OnItsScreen(asked, on) == asked[1] = asked[2] => on \in {asked[1], "note"}

Polls ==
    /\ auth = "pending" => OnItsScreen(askedOn, screen)
    /\ \A i \in DOMAIN stack :
         stack[i].at = "polled" => OnItsScreen(stack[i].asked, stack[i].on)

UiInv ==
    /\ Typed /\ Stack /\ Latest
    /\ OwnTextUnlessMisplaced
    /\ Edits /\ Kept /\ Polls
-----------------------------------------------------------------------------
(* The stack.                                                                *)

Pushed(frame) ==
    /\ stack' \in Seq(Frames) /\ stack' # <<>>
    /\ Len(stack') = Len(stack) + 1
    /\ \A i \in DOMAIN stack : i \in DOMAIN stack' /\ stack'[i] = stack[i]
    /\ \E n \in DOMAIN stack' : /\ stack'[n] = frame
                                /\ DOMAIN stack' = DOMAIN stack \union {n}

Popped ==
    /\ stack' \in Seq(Frames)
    /\ Len(stack') + 1 = Len(stack)
    /\ \E t \in DOMAIN stack :
         /\ stack[t] = Top /\ DOMAIN stack' = DOMAIN stack \ {t}
         /\ \A i \in DOMAIN stack' : stack'[i] = stack[i]

\* The answered handler goes on to another call.
Replaced(frame) ==
    /\ stack' \in Seq(Frames) /\ stack' # <<>>
    /\ Len(stack') = Len(stack)
    /\ DOMAIN stack' = DOMAIN stack
    /\ \E t \in DOMAIN stack :
         /\ stack[t] = Top /\ stack'[t] = frame
         /\ \A i \in DOMAIN stack : i # t => stack'[i] = stack[i]

LEMMA AppendMoves ==
    ASSUME NEW S, NEW s \in Seq(S), NEW e \in S, NEW a, a = Append(s, e)
    PROVE  /\ a \in Seq(S) /\ a # <<>> /\ Len(a) = Len(s) + 1
           /\ \A i \in DOMAIN s : i \in DOMAIN a /\ a[i] = s[i]
           /\ a[Len(s) + 1] = e /\ DOMAIN a = DOMAIN s \union {Len(s) + 1}
<1>. DEFINE l == Len(s)
<1>1. l \in Nat /\ DOMAIN s = 1 .. l
  BY LenProperties
<1>2. /\ a \in Seq(S) /\ Len(a) = l + 1
      /\ \A i \in 1 .. l : a[i] = s[i]
      /\ a[l + 1] = e
  BY AppendProperties
<1>3. DOMAIN a = 1 .. (l + 1)
  <2>. HIDE DEF l
  <2>. QED
    BY <1>2, LenProperties
<1>4. a # <<>>
  BY <1>1, <1>2, EmptySeq
<1>. HIDE DEF l
<1>5. DOMAIN a = DOMAIN s \union {l + 1}
  BY <1>1, <1>3
<1>6. \A i \in DOMAIN s : i \in DOMAIN a /\ a[i] = s[i]
  BY <1>1, <1>2, <1>5
<1>. QED
  BY <1>2, <1>4, <1>5, <1>6 DEF l

LEMMA FrontMoves ==
    ASSUME Stack, stack # <<>>, NEW f, f = Pop
    PROVE  /\ f \in Seq(Frames) /\ Len(f) + 1 = Len(stack) /\ Len(f) \in Nat
           /\ Len(stack) \in DOMAIN stack /\ DOMAIN f = DOMAIN stack \ {Len(stack)}
           /\ \A i \in DOMAIN f : f[i] = stack[i]
<1>. DEFINE s == stack
            S == Frames
            l == Len(s)
<1>0. s \in Seq(S) /\ s # <<>> /\ f = SubSeq(s, 1, Len(s) - 1)
  BY DEF Stack, Pop
<1>. HIDE DEF s, S
<1>1. l \in Nat /\ DOMAIN s = 1 .. l /\ l # 0
  BY <1>0, LenProperties, EmptySeq
<1>2. \A i \in 1 .. l : s[i] \in S
  BY <1>0, <1>1
<1>3. f = [i \in 1 .. (l - 1) |-> s[i]]
  BY <1>0, <1>1
<1>. HIDE DEF l
<1>4. l - 1 \in Nat /\ \A i \in 1 .. (l - 1) : s[i] \in S
  BY <1>1, <1>2
<1>5. f \in Seq(S) /\ Len(f) = l - 1 /\ DOMAIN f = 1 .. (l - 1)
  BY <1>3, <1>4
<1>6. DOMAIN f = DOMAIN s \ {l} /\ l \in DOMAIN s
  BY <1>1, <1>5
<1>7. \A i \in DOMAIN f : f[i] = s[i]
  BY <1>3, <1>5
<1>. QED
  BY <1>1, <1>4, <1>5, <1>6, <1>7 DEF l, s, S

LEMMA PushMoves ==
    ASSUME Stack, NEW frame \in Frames, Push(stack, frame)
    PROVE  Pushed(frame)
<1>1. stack \in Seq(Frames) /\ stack' = Append(stack, frame)
  BY DEF Stack, Push
<1>2. /\ stack' \in Seq(Frames) /\ stack' # <<>> /\ Len(stack') = Len(stack) + 1
      /\ \A i \in DOMAIN stack : i \in DOMAIN stack' /\ stack'[i] = stack[i]
      /\ stack'[Len(stack) + 1] = frame /\ DOMAIN stack' = DOMAIN stack \union {Len(stack) + 1}
  BY <1>1, AppendMoves
<1>. QED
  BY <1>2 DEF Pushed

LEMMA PopMoves ==
    ASSUME Stack, stack # <<>>, stack' = Pop
    PROVE  Popped
<1>2. /\ stack' \in Seq(Frames) /\ Len(stack') + 1 = Len(stack)
      /\ Len(stack) \in DOMAIN stack /\ DOMAIN stack' = DOMAIN stack \ {Len(stack)}
      /\ \A i \in DOMAIN stack' : stack'[i] = stack[i]
  BY FrontMoves
<1>. QED
  BY <1>2 DEF Popped, Top

LEMMA ReplaceMoves ==
    ASSUME Stack, stack # <<>>, NEW frame \in Frames, Push(Pop, frame)
    PROVE  Replaced(frame)
<1>2. PICK f : f = Pop
  OBVIOUS
<1>2a. stack' = Append(f, frame)
  BY <1>2 DEF Push
<1>3. /\ f \in Seq(Frames) /\ Len(f) + 1 = Len(stack) /\ Len(f) \in Nat
      /\ Len(stack) \in DOMAIN stack /\ DOMAIN f = DOMAIN stack \ {Len(stack)}
      /\ \A i \in DOMAIN f : f[i] = stack[i]
  BY <1>2, FrontMoves
<1>4. /\ stack' \in Seq(Frames) /\ stack' # <<>> /\ Len(stack') = Len(f) + 1
      /\ \A i \in DOMAIN f : i \in DOMAIN stack' /\ stack'[i] = f[i]
      /\ stack'[Len(f) + 1] = frame /\ DOMAIN stack' = DOMAIN f \union {Len(f) + 1}
  BY <1>2a, <1>3, AppendMoves
<1>. QED
  BY <1>3, <1>4 DEF Replaced, Top

LEMMA HandlerMoves ==
    ASSUME Stack, NEW ok \in BOOLEAN, Handler(ok)
    PROVE  /\ faults' \in Nat /\ faults' >= faults
           /\ stack # <<>> => faults' >= faults + 1
<1>1. faults \in Nat
  BY DEF Stack
<1>. QED
  BY <1>1 DEF Handler

LEMMA CallsMoves ==
    ASSUME Stack, NEW ok \in BOOLEAN, Calls(ok)
    PROVE  faults' \in Nat /\ faults' >= faults
<1>1. faults \in Nat
  BY DEF Stack
<1>. QED
  BY <1>1 DEF Calls
-----------------------------------------------------------------------------
(* The steps, sorted by what they do to the texts.                           *)

FaultsUp ==
    /\ faults' \in Nat /\ faults' >= faults
    /\ stack # <<>> => faults' >= faults + 1

FaultsOn == faults' \in Nat /\ faults' >= faults

\* A handler starts with a call, or goes on to one when it was answered.
Starts(kinds) == FaultsUp /\ \E frame \in Frames : frame.at \in kinds /\ Pushed(frame)
GoesOn(kinds) == FaultsOn /\ \E frame \in Frames : frame.at \in kinds /\ Replaced(frame)
Ends == FaultsOn /\ Popped
Answers(kinds) == stack # <<>> /\ Top.at \in kinds

Savings == {"saved", "timer saved", "new saved"}

\* The kinds of frames the texts do not depend on.
Plain == {"listed", "new listed", "key listed", "deleted", "leaving", "requested", "key used"}

\* saveNote has been called and has not answered.
Saves ==
    /\ Dirty
    /\ Starts(Savings) \/ (Answers({"new listed"}) /\ GoesOn(Savings))
    /\ \/ active \in DOMAIN notes /\ notes' = [notes EXCEPT ![active] = editor] /\ UNCHANGED refused
       \/ refused' = TRUE /\ UNCHANGED notes
    /\ UNCHANGED <<active, loading>>

\* loadNote has been called, and nothing had to be saved.
Loads ==
    /\ ~Dirty
    /\ active' \in 0..MaxNotes /\ loading' = TRUE
    /\ Starts({"loaded"}) \/ (Answers({"new listed"}) /\ GoesOn({"loaded"}))
    /\ UNCHANGED <<notes, refused>>

\* selectNote, and the save timer and createNewNote with something to save.
Selects ==
    /\ Saves \/ Loads
    /\ saveTimer' \in BOOLEAN /\ retry' \in 0..MaxNotes /\ listed' \in SUBSET Ids
    /\ UNCHANGED <<screen, editor, lastLoaded, cardVars, account, unlocked, last, latest,
                   interrupted, misplaced>>

\* createNote
Made(n) ==
    /\ n = last + 1 /\ last' = n
    /\ DOMAIN notes' = DOMAIN notes \union {n} /\ notes'[n] = Blank
    /\ \A m \in DOMAIN notes \ {n} : notes'[m] = notes[m]
    /\ DOMAIN latest' = DOMAIN latest \union {n} /\ latest'[n] = Blank
    /\ \A m \in DOMAIN latest \ {n} : latest'[m] = latest[m]
Makes ==
    \/ UNCHANGED <<last, notes, latest>>
    \/ \E n \in 1..MaxNotes : Made(n)

\* createNewNote with nothing to save
StartsNew ==
    /\ ~Dirty /\ Makes
    /\ Starts({"created"}) \/ (FaultsUp /\ UNCHANGED stack)
    /\ UNCHANGED <<screen, listed, editorVars, cardVars, account, unlocked, history>>

SaveReturned ==
    /\ Answers(Savings) /\ Makes
    /\ lastLoaded' = editor
    /\ \/ GoesOn({"loaded"}) /\ active' \in 0..MaxNotes /\ loading' = TRUE
       \/ GoesOn({"listed", "created"}) /\ UNCHANGED <<active, loading>>
       \/ Ends /\ UNCHANGED <<active, loading>>
    /\ UNCHANGED <<screen, listed, editor, saveTimer, retry, cardVars, account, unlocked, history>>

LoadReturned ==
    /\ Answers({"loaded"}) /\ Ends /\ loading' = FALSE
    /\ \/ editor' \in TextsOfNotes /\ lastLoaded' = editor'
       \/ UNCHANGED <<editor, lastLoaded>>
    /\ saveTimer' \in BOOLEAN /\ retry' \in 0..MaxNotes
    /\ UNCHANGED <<screen, listed, active, cardVars, moduleVars, history>>

CreateReturned ==
    /\ Answers({"created"}) /\ GoesOn({"new listed"})
    /\ active' \in 0..MaxNotes /\ editor' = Blank /\ lastLoaded' = Blank /\ loading' = FALSE
    /\ UNCHANGED <<screen, listed, saveTimer, retry, cardVars, moduleVars, history>>

\* The row is deleted, with the history of the note, or it stays.
Deleted(n) ==
    \/ /\ DOMAIN notes' = DOMAIN notes \ {n} /\ DOMAIN latest' = DOMAIN latest \ {n}
       /\ \A m \in DOMAIN notes' : notes'[m] = notes[m]
       /\ \A m \in DOMAIN latest' : latest'[m] = latest[m]
       /\ misplaced' \in BOOLEAN /\ (misplaced \/ (Dirty /\ active = n) => misplaced')
    \/ UNCHANGED <<notes, latest, misplaced>>

Deletes ==
    /\ Starts({"deleted"})
    /\ \E n \in Ids : Deleted(n)
    /\ UNCHANGED <<screen, listed, editorVars, cardVars, account, unlocked, last,
                   refused, interrupted>>

DeleteReturned ==
    /\ Answers({"deleted"}) /\ (GoesOn({"listed"}) \/ Ends)
    /\ misplaced' \in BOOLEAN /\ (misplaced => misplaced')
    /\ UNCHANGED active \/ (active' = 0 /\ (Dirty => misplaced'))
    /\ UNCHANGED <<screen, listed, editor, lastLoaded, loading, saveTimer, retry, cardVars,
                   moduleVars, refused, interrupted>>

\* The handlers of the list, the screens and the card.
PollStarts ==
    /\ FaultsUp /\ auth = "pending" /\ ~pollBusy /\ pollBusy' = TRUE
    /\ \E frame \in Frames : /\ frame.at = "polled" /\ frame.on = screen /\ frame.asked = askedOn
                             /\ Pushed(frame)

PollEnds == Answers({"polled"}) /\ pollBusy' = FALSE /\ (GoesOn({"key used"}) \/ Ends)

PlainStack ==
    /\ UNCHANGED pollBusy
    /\ \/ UNCHANGED stack /\ FaultsOn
       \/ Starts(Plain)
       \/ Answers(Plain) /\ (GoesOn(Plain) \/ Ends)

\* The request goes on only on its screen, or on the notes.
CardMove ==
    \/ auth' = "disconnected"
    \/ auth' = "connected"
    \/ auth' = "pending" /\ askedOn'[2] = screen /\ UNCHANGED screen
    \/ screen' \in {screen, "note"} /\ UNCHANGED <<auth, askedOn>>

Around ==
    /\ PollStarts \/ PollEnds \/ PlainStack
    /\ CardMove
    /\ unlocked' => unlocked \/ (PollEnds /\ screen # "note")
    /\ listed' \in SUBSET Ids /\ screen' \in Screens /\ askedOn' \in Asked
    /\ unlocked' \in BOOLEAN
    /\ UNCHANGED <<active, editor, lastLoaded, loading, retry, refused, interrupted>>

SameTexts ==
    /\ UNCHANGED <<account, notes, last, latest, misplaced>>
    /\ UNCHANGED saveTimer \/ (saveTimer' = FALSE /\ ~Dirty)

Wiped ==
    /\ DOMAIN notes' = {} /\ DOMAIN latest' = {} /\ last' = 0
    /\ account' \in 1..MaxAccounts
    /\ misplaced' \in BOOLEAN /\ (misplaced \/ Dirty => misplaced')
    /\ UNCHANGED saveTimer

Imported ==
    /\ last' \in 0..MaxNotes
    /\ \E S \in SUBSET (1..last') :
         /\ DOMAIN notes' = DOMAIN notes \union S /\ DOMAIN latest' = DOMAIN latest \union S
         /\ DOMAIN notes \subseteq 1..last'
         /\ \A m \in DOMAIN notes' :
              notes'[m] = IF m \in DOMAIN notes THEN notes[m] ELSE Text(m, 0)
         /\ \A m \in DOMAIN latest' :
              latest'[m] = IF m \in DOMAIN latest THEN latest[m] ELSE Text(m, 0)
    /\ UNCHANGED <<account, misplaced, saveTimer>>

Others == Around /\ (SameTexts \/ Wiped \/ Imported)

\* Every step is one of these.
UiStep ==
    \/ Selects \/ StartsNew \/ SaveReturned \/ LoadReturned \/ CreateReturned
    \/ Type
    \/ Deletes \/ DeleteReturned
    \/ Others

LEMMA TextFields ==
    ASSUME NEW text \in TextsOfNotes
    PROVE  text.note \in NoteIds /\ text.version \in 0..MaxVersion
BY DEF TextsOfNotes

LEMMA BlankIsText == Blank \in TextsOfNotes /\ Blank.version = 0
<1>1. 0 \in 0..MaxAccounts /\ 0 \in 0..MaxNotes /\ 0 \in 0..MaxVersion
  BY UiAssumption
<1>. QED
  BY <1>1 DEF Blank, TextsOfNotes, NoteIds

LEMMA NoteRange ==
    ASSUME Typed
    PROVE  /\ last \in Nat /\ MaxNotes \in Nat /\ MaxRestored \in 0..MaxNotes /\ MaxAccounts \in Nat
           /\ last <= MaxNotes
           /\ 0 \in 0..MaxNotes
           /\ 1..last \subseteq Ids
BY UiAssumption DEF Typed, Ids

LEMMA FrameFields ==
    ASSUME NEW frame \in Frames
    PROVE  /\ frame.at \in {"saved", "loaded"} => frame.id \in 0..MaxNotes /\ frame.again \in BOOLEAN
           /\ frame.at = "loaded" => frame.text \in TextsOfNotes
           /\ frame.at \in {"created", "new listed"} => frame.id \in 0..MaxNotes
           /\ frame.at \in {"listed", "new listed", "key listed"} => frame.shows \in SUBSET Ids
           /\ frame.at = "leaving" => frame.to \in {"import", "unlock"}
           /\ frame.at = "requested" => frame.on \in {"import", "unlock"}
           /\ frame.at = "polled" => frame.on \in Screens /\ frame.asked \in Asked
BY DEF Frames

LEMMA PlainFrames ==
    /\ \A kind \in {"timer saved", "new saved"} : [at |-> kind] \in Frames
    /\ \A n \in 0..MaxNotes, again \in BOOLEAN : [at |-> "saved", id |-> n, again |-> again] \in Frames
    /\ \A n \in 0..MaxNotes : [at |-> "created", id |-> n] \in Frames
    /\ \A n \in 0..MaxNotes, reached \in BOOLEAN :
         [at |-> "deleted", id |-> n, reached |-> reached] \in Frames
    /\ \A s \in {"import", "unlock"} : /\ [at |-> "leaving", to |-> s] \in Frames
                                       /\ [at |-> "requested", on |-> s] \in Frames
    /\ \A s \in Screens, a \in Asked : [at |-> "polled", on |-> s, asked |-> a] \in Frames
    /\ \A done \in BOOLEAN : [at |-> "key used", done |-> done] \in Frames
BY DEF Frames

LEMMA TopIsFrame ==
    ASSUME Stack, stack # <<>>
    PROVE  Top \in Frames
<1>1. PICK f : f = Pop
  OBVIOUS
<1>2. Len(stack) \in DOMAIN stack
  BY <1>1, FrontMoves
<1>3. stack \in Seq(Frames)
  BY DEF Stack
<1>. QED
  BY <1>2, <1>3 DEF Top

\* A call, made at the start of a handler or by one that was answered.
LEMMA CallMoves ==
    ASSUME Stack, NEW frame \in Frames, NEW kinds, frame.at \in kinds
    PROVE  /\ FaultsUp /\ Push(stack, frame) => Starts(kinds)
           /\ FaultsOn /\ stack # <<>> /\ Push(Pop, frame) => GoesOn(kinds)
           /\ FaultsOn /\ stack # <<>> /\ stack' = Pop => Ends
<1>1. ASSUME Push(stack, frame)
      PROVE  Pushed(frame)
  BY <1>1, PushMoves
<1>2. ASSUME stack # <<>>, Push(Pop, frame)
      PROVE  Replaced(frame)
  BY <1>2, ReplaceMoves
<1>3. ASSUME stack # <<>>, stack' = Pop
      PROVE  Popped
  BY <1>3, PopMoves
<1>. QED
  BY <1>1, <1>2, <1>3 DEF Starts, GoesOn, Ends

LEMMA EndMoves ==
    ASSUME Stack, stack # <<>>, stack' = Pop, FaultsOn
    PROVE  Ends
BY PopMoves DEF Ends

LEMMA FaultMoves ==
    ASSUME Stack, NEW ok \in BOOLEAN
    PROVE  /\ Handler(ok) => FaultsUp
           /\ Calls(ok) => FaultsOn
           /\ UNCHANGED faults => FaultsOn
<1>1. faults \in Nat
  BY DEF Stack
<1>. QED
  BY <1>1, HandlerMoves, CallsMoves DEF FaultsUp, FaultsOn

\* Actions that select a note, or save and go on to a new one.
LEMMA LoadNoteMoves ==
    ASSUME Typed, NEW n \in 0..MaxNotes, NEW again \in BOOLEAN, NEW ok \in BOOLEAN, NEW below,
           LoadNote(n, again, ok, below)
    PROVE  /\ active' = n /\ loading' = TRUE
           /\ \E frame \in Frames : frame.at = "loaded" /\ Push(below, frame)
<1>1. PICK reached \in {ok, TRUE} :
        Push(below,
             [at |-> "loaded", id |-> n, again |-> again, reached |-> reached,
              text |-> IF ok /\ unlocked /\ n \in DOMAIN notes THEN notes[n] ELSE Blank])
  BY DEF LoadNote
<1>2. PICK text : text = IF ok /\ unlocked /\ n \in DOMAIN notes THEN notes[n] ELSE Blank
  OBVIOUS
<1>3. text \in TextsOfNotes
  BY <1>2, BlankIsText DEF Typed
<1>4. reached \in BOOLEAN
  OBVIOUS
<1>5. PICK frame : frame = [at |-> "loaded", id |-> n, again |-> again, reached |-> reached, text |-> text]
  OBVIOUS
<1>6. frame \in Frames /\ frame.at = "loaded"
  BY <1>3, <1>4, <1>5 DEF Frames
<1>7. Push(below, frame)
  BY <1>1, <1>2, <1>5
<1>. QED
  BY <1>6, <1>7 DEF LoadNote

LEMMA SaveNoteMoves ==
    ASSUME NEW ok \in BOOLEAN, SaveNote(active, ok)
    PROVE  \/ active \in DOMAIN notes /\ notes' = [notes EXCEPT ![active] = editor] /\ UNCHANGED refused
           \/ refused' = TRUE /\ UNCHANGED notes
BY DEF SaveNote

\* selectNote at the start of a handler, and in one that was answered.
LEMMA SelectMoves ==
    ASSUME Typed, Stack, NEW n \in 0..MaxNotes, NEW again \in BOOLEAN, NEW ok \in BOOLEAN,
           \/ FaultsUp /\ SelectNote(n, again, ok, stack)
           \/ FaultsOn /\ Answers({"new listed"}) /\ SelectNote(n, again, ok, Pop)
    PROVE  Saves \/ Loads
<1>0. PICK below : /\ SelectNote(n, again, ok, below)
                   /\ \/ FaultsUp /\ below = stack
                      \/ FaultsOn /\ Answers({"new listed"}) /\ below = Pop
  OBVIOUS
<1>p. ASSUME NEW frame \in Frames, NEW kinds, frame.at \in kinds, Push(below, frame)
      PROVE  Starts(kinds) \/ (Answers({"new listed"}) /\ GoesOn(kinds))
  BY <1>0, <1>p, CallMoves DEF Answers
<1>1. CASE Dirty
  <2>1. PICK frame : frame = [at |-> "saved", id |-> n, again |-> again]
    OBVIOUS
  <2>2. frame \in Frames /\ frame.at \in Savings
    BY <2>1, PlainFrames DEF Savings
  <2>3. Push(below, frame) /\ SaveNote(active, ok) /\ UNCHANGED <<active, loading>>
    BY <1>0, <1>1, <2>1 DEF SelectNote
  <2>4. Starts(Savings) \/ (Answers({"new listed"}) /\ GoesOn(Savings))
    BY <1>p, <2>2, <2>3
  <2>. QED
    BY <1>1, <2>3, <2>4, SaveNoteMoves DEF Saves
<1>2. CASE ~Dirty
  <2>1. LoadNote(n, again, ok, below) /\ UNCHANGED <<notes, refused>>
    BY <1>0, <1>2 DEF SelectNote
  <2>2. PICK frame \in Frames : frame.at = "loaded" /\ Push(below, frame)
    BY <2>1, LoadNoteMoves
  <2>3. Starts({"loaded"}) \/ (Answers({"new listed"}) /\ GoesOn({"loaded"}))
    BY <1>p, <2>2
  <2>4. active' \in 0..MaxNotes /\ loading' = TRUE
    BY <2>1, LoadNoteMoves
  <2>. QED
    BY <1>2, <2>1, <2>3, <2>4 DEF Loads
<1>. QED
  BY <1>1, <1>2

\* A save at the start of a handler.
LEMMA SaveMoves ==
    ASSUME Stack, NEW ok \in BOOLEAN, Handler(ok), Dirty, SaveNote(active, ok),
           NEW kind \in {"timer saved", "new saved"}, Push(stack, [at |-> kind]),
           UNCHANGED <<active, loading>>
    PROVE  Saves
<1>1. PICK frame : frame = [at |-> kind]
  OBVIOUS
<1>2. frame \in Frames /\ frame.at \in Savings
  BY <1>1, PlainFrames DEF Savings
<1>3. Starts(Savings)
  BY <1>1, <1>2, CallMoves, FaultMoves
<1>. QED
  BY <1>3, SaveNoteMoves DEF Saves

LEMMA SelectSteps ==
    ASSUME Typed, Stack, NEW ok \in BOOLEAN,
           \/ \E n \in Ids : ClickNote(n, ok)
           \/ RetryTimerFires(ok)
           \/ SaveTimerFires(ok) /\ Dirty
           \/ CreateNewNote(ok) /\ Dirty
           \/ NewListReturns(ok)
    PROVE  Selects
<1>1. /\ saveTimer \in BOOLEAN /\ retry \in 0..MaxNotes /\ 0 \in 0..MaxNotes
      /\ listed \in SUBSET Ids
  BY UiAssumption DEF Typed
<1>2. CASE \E n \in Ids : ClickNote(n, ok)
  <2>1. PICK n \in Ids : ClickNote(n, ok)
    BY <1>2
  <2>2. n \in 0..MaxNotes /\ FALSE \in BOOLEAN
    BY UiAssumption DEF Ids
  <2>3. FaultsUp /\ SelectNote(n, FALSE, ok, stack)
    BY <2>1, FaultMoves DEF ClickNote
  <2>4. Saves \/ Loads
    BY <2>2, <2>3, SelectMoves
  <2>. QED
    BY <1>1, <2>1, <2>4 DEF ClickNote, Selects
<1>3. CASE RetryTimerFires(ok)
  <2>1. FaultsUp /\ SelectNote(retry, TRUE, ok, stack) /\ TRUE \in BOOLEAN
    BY <1>3, FaultMoves DEF RetryTimerFires
  <2>2. Saves \/ Loads
    BY <1>1, <2>1, SelectMoves
  <2>. QED
    BY <1>1, <1>3, <2>2 DEF RetryTimerFires, Selects
<1>4. CASE SaveTimerFires(ok) /\ Dirty
  <2>1. /\ Handler(ok) /\ SaveNote(active, ok) /\ Push(stack, [at |-> "timer saved"])
        /\ UNCHANGED <<active, loading>>
    BY <1>4 DEF SaveTimerFires
  <2>2. Saves
    BY <1>4, <2>1, SaveMoves
  <2>. QED
    BY <1>1, <1>4, <2>2 DEF SaveTimerFires, Selects
<1>5. CASE CreateNewNote(ok) /\ Dirty
  <2>1. /\ Handler(ok) /\ SaveNote(active, ok) /\ Push(stack, [at |-> "new saved"])
        /\ UNCHANGED <<active, loading>>
    BY <1>5 DEF CreateNewNote, editorVars
  <2>2. Saves
    BY <1>5, <2>1, SaveMoves
  <2>. QED
    BY <1>1, <1>5, <2>2 DEF CreateNewNote, Selects, editorVars
<1>6. CASE NewListReturns(ok)
  <2>1. /\ Answers({"new listed"}) /\ Calls(ok) /\ SelectNote(Top.id, FALSE, ok, Pop)
        /\ listed' = Top.shows
    BY <1>6 DEF NewListReturns, Answer, Answers
  <2>2. Top.id \in 0..MaxNotes /\ Top.shows \in SUBSET Ids /\ FALSE \in BOOLEAN
    BY <2>1, TopIsFrame, FrameFields DEF Answers
  <2>3. Saves \/ Loads
    BY <2>1, <2>2, FaultMoves, SelectMoves
  <2>. QED
    BY <1>1, <1>6, <2>1, <2>2, <2>3 DEF NewListReturns, Selects
<1>. QED
  BY <1>2, <1>3, <1>4, <1>5, <1>6

\* createNote: a frame for the note that was made, or the handler's end.
LEMMA CreateMoves ==
    ASSUME Typed, NEW ok \in BOOLEAN, NEW below, CreateNote(ok, below)
    PROVE  /\ Makes
           /\ \/ \E frame \in Frames : frame.at = "created" /\ Push(below, frame)
              \/ stack' = below
<1>1. CASE ok /\ unlocked /\ last < MaxNotes
  <2>1. PICK n : n = last + 1
    OBVIOUS
  <2>2. /\ last' = n /\ notes' = Put(notes, n, Blank) /\ latest' = Put(latest, n, Blank)
        /\ Push(below, [at |-> "created", id |-> n])
    BY <1>1, <2>1 DEF CreateNote
  <2>3. n \in 1..MaxNotes /\ n \in 0..MaxNotes
    BY <1>1, <2>1, NoteRange
  <2>4. /\ DOMAIN notes' = DOMAIN notes \union {n} /\ notes'[n] = Blank
        /\ \A m \in DOMAIN notes \ {n} : notes'[m] = notes[m]
    BY <2>2 DEF Put
  <2>5. /\ DOMAIN latest' = DOMAIN latest \union {n} /\ latest'[n] = Blank
        /\ \A m \in DOMAIN latest \ {n} : latest'[m] = latest[m]
    BY <2>2 DEF Put
  <2>6. Makes
    BY <2>1, <2>2, <2>3, <2>4, <2>5 DEF Makes, Made
  <2>7. PICK frame : frame = [at |-> "created", id |-> n]
    OBVIOUS
  <2>8. frame \in Frames /\ frame.at = "created"
    BY <2>3, <2>7, PlainFrames
  <2>. QED
    BY <2>2, <2>6, <2>7, <2>8
<1>2. CASE ~(ok /\ unlocked /\ last < MaxNotes)
  BY <1>2 DEF CreateNote, Makes
<1>. QED
  BY <1>1, <1>2

\* refreshList: the frame of its answer.
LEMMA ListMoves ==
    ASSUME Typed, NEW kind \in {"listed", "new listed", "key listed"}, NEW n \in 0..MaxNotes, NEW below,
           RefreshList(kind, n, below)
    PROVE  \E frame \in Frames : frame.at = kind /\ Push(below, frame)
<1>1. PICK S : S = IF unlocked THEN DOMAIN notes ELSE {}
  OBVIOUS
<1>2. S \in SUBSET Ids
  BY <1>1, NoteRange DEF Typed
<1>3. PICK frame : frame = [at |-> kind, id |-> n, shows |-> S]
  OBVIOUS
<1>4. frame \in Frames /\ frame.at = kind
  BY <1>2, <1>3 DEF Frames
<1>. QED
  BY <1>1, <1>3, <1>4 DEF RefreshList

LEMMA NewSteps ==
    ASSUME Typed, Stack, NEW ok \in BOOLEAN, CreateNewNote(ok), ~Dirty
    PROVE  StartsNew
<1>1. FaultsUp /\ CreateNote(ok, stack)
  BY FaultMoves DEF CreateNewNote
<1>2. Makes
  BY <1>1, CreateMoves
<1>3. CASE \E frame \in Frames : frame.at = "created" /\ Push(stack, frame)
  <2>1. Starts({"created"})
    BY <1>1, <1>3, CallMoves
  <2>. QED
    BY <1>2, <2>1 DEF CreateNewNote, StartsNew, history
<1>4. CASE stack' = stack
  BY <1>1, <1>2, <1>4 DEF CreateNewNote, StartsNew, history
<1>. QED
  BY <1>1, <1>3, <1>4, CreateMoves

LEMMA SaveReturnSteps ==
    ASSUME Typed, Stack, NEW ok \in BOOLEAN, SaveReturns(ok)
    PROVE  SaveReturned
<1>1. /\ Answers(Savings) /\ stack # <<>> /\ FaultsOn /\ lastLoaded' = editor
      /\ UNCHANGED <<screen, listed, editor, saveTimer, retry, cardVars, account, unlocked, history>>
  BY FaultMoves DEF SaveReturns, Answer, Answers, Savings
<1>2. Top \in Frames
  BY <1>1, TopIsFrame
<1>3. CASE /\ Top.at = "saved" /\ LoadNote(Top.id, Top.again, ok, Pop)
           /\ UNCHANGED <<notes, last, latest>>
  <2>1. Top.id \in 0..MaxNotes /\ Top.again \in BOOLEAN
    BY <1>2, <1>3, FrameFields
  <2>2. PICK frame \in Frames : frame.at = "loaded" /\ Push(Pop, frame)
    BY <1>3, <2>1, LoadNoteMoves
  <2>3. GoesOn({"loaded"})
    BY <1>1, <2>2, CallMoves
  <2>4. active' \in 0..MaxNotes /\ loading' = TRUE
    BY <1>3, <2>1, LoadNoteMoves
  <2>. QED
    BY <1>1, <1>3, <2>3, <2>4 DEF SaveReturned, Makes
<1>4. CASE Top.at = "new saved" /\ CreateNote(ok, Pop) /\ UNCHANGED <<active, loading>>
  <2>1. Makes /\ (\/ \E frame \in Frames : frame.at = "created" /\ Push(Pop, frame)
                  \/ stack' = Pop)
    BY <1>4, CreateMoves
  <2>2. GoesOn({"listed", "created"}) \/ Ends
    BY <1>1, <2>1, CallMoves, EndMoves
  <2>. QED
    BY <1>1, <1>4, <2>1, <2>2 DEF SaveReturned
<1>5. CASE /\ Top.at = "timer saved" /\ ok /\ RefreshList("listed", 0, Pop)
           /\ UNCHANGED <<active, loading, notes, last, latest>>
  <2>1. PICK frame \in Frames : frame.at = "listed" /\ Push(Pop, frame)
    BY <1>5, ListMoves, NoteRange
  <2>2. GoesOn({"listed", "created"})
    BY <1>1, <2>1, CallMoves
  <2>. QED
    BY <1>1, <1>5, <2>2 DEF SaveReturned, Makes
<1>. QED
  BY <1>3, <1>4, <1>5 DEF SaveReturns

LEMMA LoadReturnSteps ==
    ASSUME Typed, Stack, LoadReturns
    PROVE  LoadReturned
<1>1. /\ Answers({"loaded"}) /\ stack # <<>> /\ stack' = Pop /\ loading' = FALSE
      /\ UNCHANGED <<screen, listed, active, cardVars, moduleVars, faults, history>>
  BY DEF LoadReturns, Answer, Answers
<1>2. Top.id \in 0..MaxNotes /\ Top.text \in TextsOfNotes
  BY <1>1, TopIsFrame, FrameFields DEF Answers
<1>3. Ends
  BY <1>1, EndMoves, FaultMoves
<1>4. retry \in 0..MaxNotes /\ 0 \in 0..MaxNotes /\ saveTimer \in BOOLEAN /\ loading \in BOOLEAN
  BY UiAssumption DEF Typed
<1>. QED
  BY <1>1, <1>2, <1>3, <1>4 DEF LoadReturns, LoadReturned

LEMMA CreateReturnSteps ==
    ASSUME Typed, Stack, CreateReturns
    PROVE  CreateReturned
<1>1. /\ Answers({"created"}) /\ stack # <<>> /\ RefreshList("new listed", Top.id, Pop)
      /\ UNCHANGED faults
  BY DEF CreateReturns, Answer, Answers
<1>2. Top.id \in 0..MaxNotes
  BY <1>1, TopIsFrame, FrameFields DEF Answers
<1>3. PICK frame \in Frames : frame.at = "new listed" /\ Push(Pop, frame)
  BY <1>1, <1>2, ListMoves
<1>4. GoesOn({"new listed"})
  BY <1>1, <1>3, CallMoves, FaultMoves
<1>. QED
  BY <1>1, <1>2, <1>4 DEF CreateReturns, CreateReturned

LEMMA DeleteSteps ==
    ASSUME Typed, Stack, NEW n \in Ids, NEW ok \in BOOLEAN, DeleteNote(n, ok)
    PROVE  Deletes
<1>1. PICK reached \in {ok, TRUE} : Push(stack, [at |-> "deleted", id |-> n, reached |-> reached])
  BY DEF DeleteNote
<1>2. PICK frame : frame = [at |-> "deleted", id |-> n, reached |-> reached]
  OBVIOUS
<1>3. n \in 0..MaxNotes
  BY UiAssumption DEF Ids
<1>3a. reached \in BOOLEAN
  OBVIOUS
<1>4. frame \in Frames /\ frame.at = "deleted"
  BY <1>2, <1>3, <1>3a, PlainFrames
<1>5. Starts({"deleted"})
  BY <1>1, <1>2, <1>4, CallMoves, FaultMoves DEF DeleteNote
<1>6. Deleted(n)
  <2>1. CASE ok /\ unlocked
    <3>1. /\ notes' = [m \in DOMAIN notes \ {n} |-> notes[m]]
          /\ latest' = [m \in DOMAIN latest \ {n} |-> latest[m]]
          /\ misplaced' = (misplaced \/ (Dirty /\ active = n))
      BY <2>1 DEF DeleteNote
    <3>2. misplaced' \in BOOLEAN /\ (misplaced \/ (Dirty /\ active = n) => misplaced')
      BY <3>1
    <3>. QED
      BY <3>1, <3>2 DEF Deleted
  <2>2. CASE ~(ok /\ unlocked)
    BY <2>2 DEF DeleteNote, Deleted
  <2>. QED
    BY <2>1, <2>2
<1>. QED
  BY <1>5, <1>6 DEF DeleteNote, Deletes

LEMMA DeleteReturnSteps ==
    ASSUME Typed, Stack, DeleteReturns
    PROVE  DeleteReturned
<1>1. /\ Answers({"deleted"}) /\ stack # <<>> /\ FaultsOn
      /\ UNCHANGED <<screen, listed, editor, lastLoaded, loading, saveTimer, retry, cardVars,
                     moduleVars, refused, interrupted>>
  BY FaultMoves DEF DeleteReturns, Answer, Answers
<1>2. CASE Top.reached
  <2>1. /\ active' = IF active = Top.id THEN 0 ELSE active
        /\ misplaced' = (misplaced \/ (Dirty /\ active = Top.id))
        /\ RefreshList("listed", 0, Pop)
    BY <1>2 DEF DeleteReturns
  <2>2. PICK frame \in Frames : frame.at = "listed" /\ Push(Pop, frame)
    BY <2>1, ListMoves, NoteRange
  <2>3. GoesOn({"listed"})
    BY <1>1, <2>2, CallMoves
  <2>4. misplaced' \in BOOLEAN /\ (misplaced => misplaced')
    BY <2>1
  <2>5. UNCHANGED active \/ (active' = 0 /\ (Dirty => misplaced'))
    BY <2>1
  <2>. QED
    BY <1>1, <2>3, <2>4, <2>5 DEF DeleteReturned
<1>3. CASE ~Top.reached
  <2>1. stack' = Pop /\ UNCHANGED <<active, misplaced>> /\ misplaced' \in BOOLEAN
    BY <1>3 DEF DeleteReturns, Typed
  <2>2. Ends
    BY <1>1, <2>1, EndMoves
  <2>. QED
    BY <1>1, <2>1, <2>2 DEF DeleteReturned
<1>. QED
  BY <1>2, <1>3

\* The screens, the list and the card.
LEMMA TimerSteps ==
    ASSUME Typed, Stack, NEW ok \in BOOLEAN, SaveTimerFires(ok), ~Dirty
    PROVE  Others
<1>1. /\ saveTimer' = FALSE /\ FaultsUp
      /\ UNCHANGED <<screen, listed, active, editor, lastLoaded, loading, retry, cardVars, stack,
                     account, unlocked, notes, last, latest, history>>
  BY FaultMoves DEF SaveTimerFires, history
<1>2. PlainStack /\ CardMove
  BY <1>1 DEF PlainStack, CardMove, cardVars, FaultsUp, FaultsOn
<1>3. SameTexts
  BY <1>1 DEF SameTexts, history
<1>. QED
  BY <1>1, <1>2, <1>3 DEF Others, Around, cardVars, history, Typed

LEMMA ListSteps ==
    ASSUME Typed, Stack, ListReturns \/ KeyListReturns
    PROVE  Others
<1>1. /\ Answers({"listed", "key listed"}) /\ stack # <<>> /\ listed' = Top.shows /\ stack' = Pop
      /\ UNCHANGED <<screen, editorVars, pollBusy, moduleVars, faults, history>>
      /\ UNCHANGED cardVars \/ ResetKeycardAuth
  BY DEF ListReturns, KeyListReturns, Answer, Answers, cardVars
<1>2. listed' \in SUBSET Ids
  BY <1>1, TopIsFrame, FrameFields DEF Answers
<1>3. Ends
  BY <1>1, EndMoves, FaultMoves
<1>4. PlainStack
  BY <1>1, <1>3 DEF PlainStack, Plain, Answers
<1>5. CardMove /\ askedOn' \in Asked
  BY <1>1 DEF CardMove, ResetKeycardAuth, cardVars, Asked, Typed
<1>6. SameTexts
  BY <1>1 DEF SameTexts, editorVars, moduleVars, history
<1>. QED
  BY <1>1, <1>2, <1>4, <1>5, <1>6 DEF Others, Around, editorVars, moduleVars, history, Typed

LEMMA WipeMoves ==
    ASSUME Typed, Wipe
    PROVE  /\ DOMAIN notes' = {} /\ DOMAIN latest' = {} /\ last' = 0 /\ unlocked' = FALSE
           /\ account' \in 1..MaxAccounts
           /\ misplaced' \in BOOLEAN /\ (misplaced \/ Dirty => misplaced')
<1>1. DOMAIN << >> = {}
  OBVIOUS
<1>2. notes' = <<>> /\ latest' = <<>> /\ last' = 0 /\ unlocked' = FALSE
  BY DEF Wipe
<1>3. account' \in 1..MaxAccounts
  <2>1. account \in 1..MaxAccounts /\ MaxAccounts \in Nat /\ account < MaxAccounts /\ account' = account + 1
    BY NoteRange DEF Wipe, Typed
  <2>. QED
    BY <2>1
<1>4. misplaced' = (misplaced \/ Dirty)
  BY DEF Wipe
<1>5. misplaced' \in BOOLEAN /\ (misplaced \/ Dirty => misplaced')
  BY <1>4
<1>. QED
  BY <1>1, <1>2, <1>3, <1>5

LEMMA LeaveSteps ==
    ASSUME Typed, Stack, NEW ok \in BOOLEAN, Lock(ok) \/ ResetAndWipe(ok)
    PROVE  Others
<1>1. PICK s \in {"import", "unlock"} : Push(stack, [at |-> "leaving", to |-> s])
  BY DEF Lock, ResetAndWipe
<1>2. /\ FaultsUp
      /\ UNCHANGED <<screen, listed, editorVars, cardVars, refused, interrupted>>
  BY FaultMoves DEF Lock, ResetAndWipe, history
<1>3. PICK frame : frame = [at |-> "leaving", to |-> s]
  OBVIOUS
<1>4. frame \in Frames /\ frame.at \in Plain
  BY <1>3, PlainFrames DEF Plain
<1>5. PlainStack /\ CardMove
  BY <1>1, <1>2, <1>3, <1>4, CallMoves DEF PlainStack, CardMove, cardVars
<1>6. /\ unlocked' \in BOOLEAN /\ (unlocked' => unlocked)
      /\ SameTexts \/ Wiped
  <2>1. CASE Lock(ok)
    <3>1. unlocked' = (unlocked /\ ~ok) /\ UNCHANGED <<editorVars, account, notes, last, latest, history>>
      BY <2>1 DEF Lock
    <3>2. unlocked' \in BOOLEAN /\ (unlocked' => unlocked)
      BY <3>1
    <3>. QED
      BY <3>1, <3>2 DEF SameTexts, editorVars, history
  <2>2. CASE ResetAndWipe(ok) /\ ok
    <3>1. Wipe /\ UNCHANGED saveTimer
      BY <2>2 DEF ResetAndWipe, editorVars
    <3>. QED
      BY <3>1, WipeMoves DEF Wiped
  <2>3. CASE ResetAndWipe(ok) /\ ~ok
    BY <2>3 DEF ResetAndWipe, SameTexts, editorVars, moduleVars, Typed
  <2>. QED
    BY <2>1, <2>2, <2>3
<1>. QED
  BY <1>2, <1>5, <1>6 DEF Others, Around, editorVars, cardVars, Typed

LEMMA LeaveReturnSteps ==
    ASSUME Typed, Stack, LeaveReturns
    PROVE  Others
<1>1. /\ Answers({"leaving"}) /\ stack # <<>> /\ stack' = Pop /\ Show(Top.to)
      /\ UNCHANGED <<listed, editorVars, pollBusy, moduleVars, faults, history>>
  BY DEF LeaveReturns, Answer, Answers
<1>2. Top.to \in Screens
  BY <1>1, TopIsFrame, FrameFields DEF Answers, Screens
<1>3. Ends
  BY <1>1, EndMoves, FaultMoves
<1>4. PlainStack
  BY <1>1, <1>3 DEF PlainStack, Plain, Answers
<1>5. CardMove /\ askedOn' \in Asked /\ screen' \in Screens
  BY <1>1, <1>2 DEF CardMove, Show, Asked, Typed
<1>6. SameTexts
  BY <1>1 DEF SameTexts, editorVars, moduleVars, history
<1>. QED
  BY <1>1, <1>4, <1>5, <1>6 DEF Others, Around, editorVars, moduleVars, history, Typed

LEMMA RequestSteps ==
    ASSUME Typed, Stack, RequestKeycardAuth \/ RequestReturns
    PROVE  Others
<1>0. UNCHANGED <<screen, listed, editorVars, pollBusy, moduleVars, history>>
  BY DEF RequestKeycardAuth, RequestReturns, cardVars
<1>1. PlainStack
  <2>1. CASE RequestKeycardAuth
    <3>1. PICK frame : frame = [at |-> "requested", on |-> screen]
      OBVIOUS
    <3>2. frame \in Frames /\ frame.at \in Plain
      BY <2>1, <3>1, PlainFrames DEF Plain, RequestKeycardAuth
    <3>3. FaultsUp /\ Push(stack, frame)
      BY <2>1, <3>1, FaultMoves DEF RequestKeycardAuth
    <3>. QED
      BY <1>0, <3>2, <3>3, CallMoves DEF PlainStack
  <2>2. CASE RequestReturns
    <3>1. Answers({"requested"}) /\ stack # <<>> /\ stack' = Pop /\ UNCHANGED faults
      BY <2>2 DEF RequestReturns, Answer, Answers
    <3>2. Ends
      BY <3>1, EndMoves, FaultMoves
    <3>. QED
      BY <1>0, <3>1, <3>2 DEF PlainStack, Plain, Answers
  <2>. QED
    BY <2>1, <2>2
<1>2. CardMove /\ askedOn' \in Asked
  <2>1. CASE UNCHANGED <<auth, askedOn>>
    BY <1>0, <2>1 DEF CardMove, Typed
  <2>2. CASE RequestReturns /\ auth' = "pending" /\ askedOn' = <<Top.on, screen>>
    <3>1. Top.on \in {"import", "unlock"}
      BY <2>2, TopIsFrame, FrameFields DEF RequestReturns, Answer
    <3>2. askedOn' \in Asked /\ askedOn'[2] = screen
      BY <2>2, <3>1 DEF Asked, Typed
    <3>. QED
      BY <1>0, <2>2, <3>2 DEF CardMove
  <2>. QED
    BY <2>1, <2>2 DEF RequestKeycardAuth, RequestReturns, cardVars
<1>3. SameTexts
  BY <1>0 DEF SameTexts, editorVars, moduleVars, history
<1>. QED
  BY <1>0, <1>1, <1>2, <1>3 DEF Others, Around, editorVars, moduleVars, history, Typed

LEMMA PollSteps ==
    ASSUME Typed, Stack, CheckKeycardAuthStatus
    PROVE  Others
<1>1. /\ FaultsUp /\ auth = "pending" /\ ~pollBusy /\ pollBusy' = TRUE
      /\ Push(stack, [at |-> "polled", on |-> screen, asked |-> askedOn])
      /\ UNCHANGED <<screen, listed, editorVars, auth, askedOn, moduleVars, history>>
  BY FaultMoves DEF CheckKeycardAuthStatus
<1>2. PICK frame : frame = [at |-> "polled", on |-> screen, asked |-> askedOn]
  OBVIOUS
<1>3. frame \in Frames /\ frame.at = "polled" /\ frame.on = screen /\ frame.asked = askedOn
  BY <1>2, PlainFrames DEF Typed
<1>4. Pushed(frame)
  BY <1>1, <1>2, <1>3, PushMoves
<1>5. PollStarts
  BY <1>1, <1>3, <1>4 DEF PollStarts
<1>6. CardMove /\ SameTexts
  BY <1>1 DEF CardMove, SameTexts, editorVars, moduleVars, history
<1>. QED
  BY <1>1, <1>5, <1>6 DEF Others, Around, editorVars, moduleVars, history, Typed

LEMMA KeySteps ==
    ASSUME Typed, Stack, KeyReturns
    PROVE  Others
<1>1. /\ Answers({"key used"}) /\ stack # <<>> /\ FaultsOn
      /\ UNCHANGED <<listed, editorVars, pollBusy, moduleVars, faults, history>>
  BY FaultMoves DEF KeyReturns, Answer, Answers
<1>2. CASE Top.done /\ screen # "note"
  <2>1. /\ screen' = "note" /\ RefreshList("key listed", 0, Pop) /\ UNCHANGED <<auth, askedOn>>
    BY <1>2 DEF KeyReturns
  <2>2. PICK frame \in Frames : frame.at = "key listed" /\ Push(Pop, frame)
    BY <2>1, ListMoves, NoteRange
  <2>3. frame.at \in Plain
    BY <2>2 DEF Plain
  <2>4. PlainStack
    BY <1>1, <2>2, <2>3, CallMoves DEF PlainStack, Plain, Answers
  <2>5. CardMove /\ SameTexts
    BY <1>1, <2>1 DEF CardMove, SameTexts, editorVars, moduleVars, history
  <2>. QED
    BY <1>1, <2>1, <2>4, <2>5 DEF Others, Around, editorVars, moduleVars, history, Typed, Screens
<1>3. CASE ~(Top.done /\ screen # "note")
  <2>1. stack' = Pop /\ ResetKeycardAuth /\ UNCHANGED screen
    BY <1>3 DEF KeyReturns
  <2>2. Ends
    BY <1>1, <2>1, EndMoves
  <2>3. PlainStack
    BY <1>1, <2>2 DEF PlainStack, Plain, Answers
  <2>4. CardMove /\ askedOn' \in Asked
    BY <2>1 DEF CardMove, ResetKeycardAuth, Asked
  <2>5. SameTexts
    BY <1>1 DEF SameTexts, editorVars, moduleVars, history
  <2>. QED
    BY <1>1, <2>1, <2>3, <2>4, <2>5 DEF Others, Around, editorVars, moduleVars, history, Typed
<1>. QED
  BY <1>2, <1>3

\* importWithKeycardKey: the notes that are restored are new, and as written.
LEMMA ImportMoves ==
    ASSUME Typed, Stack, NEW done \in BOOLEAN, ImportWithKeycardKey(done), UNCHANGED saveTimer
    PROVE  SameTexts \/ Wiped \/ Imported
<1>1. CASE done
  <2>1. PICK n \in 0..MaxRestored :
          /\ last + n <= MaxNotes /\ last' = last + n
          /\ notes' = [m \in DOMAIN notes \union (last + 1)..last' |->
                         IF m \in DOMAIN notes THEN notes[m] ELSE Text(m, 0)]
          /\ latest' = [m \in DOMAIN latest \union (last + 1)..last' |->
                         IF m \in DOMAIN latest THEN latest[m] ELSE Text(m, 0)]
    BY <1>1 DEF ImportWithKeycardKey
  <2>2. last \in Nat /\ n \in Nat /\ MaxNotes \in Nat
    BY NoteRange
  <2>3. last' \in 0..MaxNotes /\ 1..last \subseteq 1..last'
    BY <2>1, <2>2
  <2>4. PICK S : S = (last + 1)..last'
    OBVIOUS
  <2>5. S \in SUBSET (1..last')
    BY <2>1, <2>2, <2>4
  <2>6. DOMAIN notes \subseteq 1..last'
    BY <2>3 DEF Typed
  <2>7. UNCHANGED <<account, misplaced, saveTimer>>
    BY <1>1 DEF ImportWithKeycardKey
  <2>8. /\ DOMAIN notes' = DOMAIN notes \union S /\ DOMAIN latest' = DOMAIN latest \union S
        /\ \A m \in DOMAIN notes' :
             notes'[m] = IF m \in DOMAIN notes THEN notes[m] ELSE Text(m, 0)
        /\ \A m \in DOMAIN latest' :
             latest'[m] = IF m \in DOMAIN latest THEN latest[m] ELSE Text(m, 0)
    BY <2>1, <2>4
  <2>. QED
    BY <2>3, <2>5, <2>6, <2>7, <2>8 DEF Imported
<1>2. CASE ~done /\ Wipe
  BY <1>2, WipeMoves DEF Wiped
<1>3. CASE ~done /\ UNCHANGED <<moduleVars, misplaced>>
  BY <1>3 DEF SameTexts, moduleVars
<1>. QED
  BY <1>1, <1>2, <1>3 DEF ImportWithKeycardKey

LEMMA KeyPollSteps ==
    ASSUME Typed, Stack, PollReturns
    PROVE  Others
<1>1. /\ Answers({"polled"}) /\ stack # <<>> /\ pollBusy' = FALSE /\ FaultsOn
      /\ UNCHANGED <<screen, listed, editorVars, refused, interrupted>>
      /\ ProcessKeycardKey \/ NoKey
  BY FaultMoves DEF PollReturns, Answer, Answers
<1>2. CASE \E done \in BOOLEAN :
            /\ Push(Pop, [at |-> "key used", done |-> done])
            /\ \/ screen = "import" /\ ImportWithKeycardKey(done)
               \/ screen = "unlock" /\ UnlockWithKeycardKey(done)
            /\ auth' = "connected" /\ askedOn' = NotAsked
  <2>1. PICK done \in BOOLEAN :
            /\ Push(Pop, [at |-> "key used", done |-> done])
            /\ \/ screen = "import" /\ ImportWithKeycardKey(done)
               \/ screen = "unlock" /\ UnlockWithKeycardKey(done)
            /\ auth' = "connected" /\ askedOn' = NotAsked
    BY <1>2
  <2>2. PICK frame : frame = [at |-> "key used", done |-> done]
    OBVIOUS
  <2>3. frame \in Frames /\ frame.at = "key used"
    BY <2>2, PlainFrames
  <2>4. GoesOn({"key used"})
    BY <1>1, <2>1, <2>2, <2>3, CallMoves
  <2>5. PollEnds /\ screen # "note"
    BY <1>1, <2>1, <2>4 DEF PollEnds
  <2>6. CardMove /\ askedOn' \in Asked
    BY <2>1 DEF CardMove, Asked
  <2>7. unlocked' \in BOOLEAN /\ (SameTexts \/ Wiped \/ Imported)
    <3>1. UNCHANGED saveTimer
      BY <1>1 DEF editorVars
    <3>2. CASE ImportWithKeycardKey(done)
      <4>1. SameTexts \/ Wiped \/ Imported
        BY <3>1, <3>2, ImportMoves
      <4>2. unlocked' \in BOOLEAN
        BY <3>2, WipeMoves DEF ImportWithKeycardKey, moduleVars, Typed
      <4>. QED
        BY <4>1, <4>2
    <3>3. CASE UnlockWithKeycardKey(done)
      <4>1. unlocked' = (unlocked \/ done)
        BY <3>3 DEF UnlockWithKeycardKey
      <4>2. unlocked' \in BOOLEAN
        BY <4>1
      <4>. QED
        BY <3>1, <3>3, <4>2 DEF UnlockWithKeycardKey, SameTexts
    <3>. QED
      BY <2>1, <3>2, <3>3
  <2>. QED
    BY <1>1, <2>5, <2>6, <2>7 DEF Others, Around, editorVars, Typed
<1>3. CASE stack' = Pop /\ UNCHANGED <<moduleVars, misplaced>>
           /\ (ResetKeycardAuth \/ UNCHANGED <<auth, askedOn>>)
  <2>1. Ends
    BY <1>1, <1>3, EndMoves
  <2>2. PollEnds
    BY <1>1, <2>1 DEF PollEnds
  <2>3. CardMove /\ askedOn' \in Asked
    BY <1>1, <1>3 DEF CardMove, ResetKeycardAuth, Asked, Typed
  <2>4. SameTexts
    BY <1>1, <1>3 DEF SameTexts, editorVars, moduleVars
  <2>. QED
    BY <1>1, <1>3, <2>2, <2>3, <2>4 DEF Others, Around, editorVars, moduleVars, Typed
<1>. QED
  BY <1>1, <1>2, <1>3 DEF ProcessKeycardKey, NoKey

LEMMA StutterSteps ==
    ASSUME Typed, Stack, UNCHANGED vars
    PROVE  Others
<1>1. UNCHANGED <<screen, listed, editorVars, cardVars, stack, moduleVars, faults, history>>
  BY DEF vars
<1>2. PlainStack /\ CardMove /\ SameTexts
  BY <1>1, FaultMoves DEF PlainStack, CardMove, SameTexts, editorVars, cardVars, moduleVars, history
<1>. QED
  BY <1>1, <1>2 DEF Others, Around, editorVars, cardVars, moduleVars, history, Typed

LEMMA UiSteps ==
    ASSUME Typed, Stack, [UiNext]_vars
    PROVE  UiStep
<1>1. ASSUME NEW ok \in BOOLEAN,
             \/ SaveTimerFires(ok) \/ RetryTimerFires(ok) \/ CreateNewNote(ok)
             \/ SaveReturns(ok) \/ NewListReturns(ok) \/ Lock(ok) \/ ResetAndWipe(ok)
             \/ \E n \in Ids : ClickNote(n, ok) \/ DeleteNote(n, ok)
      PROVE  UiStep
  <2>1. CASE \/ SaveTimerFires(ok) \/ RetryTimerFires(ok) \/ CreateNewNote(ok)
             \/ NewListReturns(ok) \/ \E n \in Ids : ClickNote(n, ok)
    BY <2>1, SelectSteps, TimerSteps, NewSteps DEF UiStep
  <2>2. CASE SaveReturns(ok) \/ Lock(ok) \/ ResetAndWipe(ok) \/ \E n \in Ids : DeleteNote(n, ok)
    BY <2>2, SaveReturnSteps, LeaveSteps, DeleteSteps DEF UiStep
  <2>. QED
    BY <1>1, <2>1, <2>2
<1>2. ASSUME \/ Type \/ LoadReturns \/ CreateReturns \/ ListReturns \/ DeleteReturns
             \/ LeaveReturns \/ RequestKeycardAuth \/ RequestReturns
             \/ CheckKeycardAuthStatus \/ PollReturns \/ KeyReturns \/ KeyListReturns
             \/ UNCHANGED vars
      PROVE  UiStep
  BY <1>2, LoadReturnSteps, CreateReturnSteps, ListSteps, DeleteReturnSteps, LeaveReturnSteps,
     RequestSteps, PollSteps, KeyPollSteps, KeySteps, StutterSteps DEF UiStep
<1>. QED
  BY <1>1, <1>2 DEF UiNext
-----------------------------------------------------------------------------
(* The stack is preserved.                                                   *)

LEMMA Grows ==
    ASSUME NEW l \in Nat, NEW f \in Nat, NEW g \in Nat, g >= f, l <= 1 + f
    PROVE  l <= 1 + g /\ (l = 0 \/ g >= f + 1 => l + 1 <= 1 + g)
OBVIOUS

LEMMA StackPushed ==
    ASSUME Typed, Stack, FaultsUp, NEW frame \in Frames, Pushed(frame),
           IF frame.at = "polled" THEN ~pollBusy /\ pollBusy' = TRUE ELSE UNCHANGED pollBusy,
           loading' => loading \/ frame.at = "loaded"
    PROVE  Stack'
<1>1. /\ faults \in Nat /\ Len(stack) <= 1 + faults /\ stack \in Seq(Frames)
      /\ pollBusy = (\E i \in DOMAIN stack : stack[i].at = "polled")
      /\ \A i, k \in DOMAIN stack :
           stack[i].at = "polled" /\ stack[k].at = "polled" => i = k
      /\ loading => \E i \in DOMAIN stack : stack[i].at = "loaded"
  BY DEF Stack
<1>2. PICK n \in DOMAIN stack' :
        stack'[n] = frame /\ DOMAIN stack' = DOMAIN stack \union {n}
  BY DEF Pushed
<1>3. \A i \in DOMAIN stack : i \in DOMAIN stack' /\ stack'[i] = stack[i]
  BY DEF Pushed
<1>4. Len(stack') <= 1 + faults' /\ faults' \in Nat
  <2>1. PICK l \in Nat : l = Len(stack)
    BY <1>1, LenProperties
  <2>2. stack = <<>> => l = 0
    BY <1>1, <2>1, EmptySeq
  <2>3. Len(stack') = l + 1
    BY <2>1 DEF Pushed
  <2>4. l <= 1 + faults
    BY <1>1, <2>1
  <2>5. faults \in Nat /\ faults' \in Nat /\ faults' >= faults
    BY <1>1 DEF FaultsUp
  <2>6. l = 0 \/ faults' >= faults + 1
    BY <2>2 DEF FaultsUp
  <2>. QED
    BY <2>3, <2>4, <2>5, <2>6, Grows
<1>5. pollBusy' = (\E i \in DOMAIN stack' : stack'[i].at = "polled")
  BY <1>1, <1>2, <1>3
<1>6. \A i, k \in DOMAIN stack' :
        stack'[i].at = "polled" /\ stack'[k].at = "polled" => i = k
  BY <1>1, <1>2, <1>3
<1>7. loading' => \E i \in DOMAIN stack' : stack'[i].at = "loaded"
  BY <1>1, <1>2, <1>3
<1>8. stack' \in Seq(Frames)
  BY DEF Pushed
<1>. QED
  BY <1>4, <1>5, <1>6, <1>7, <1>8 DEF Stack

LEMMA StackPopped ==
    ASSUME Typed, Stack, Popped, faults' \in Nat, faults' >= faults,
           IF Top.at = "polled" THEN pollBusy' = FALSE ELSE UNCHANGED pollBusy,
           loading' => loading /\ Top.at # "loaded"
    PROVE  Stack'
<1>1. /\ faults \in Nat /\ Len(stack) <= 1 + faults /\ stack \in Seq(Frames)
      /\ pollBusy = (\E i \in DOMAIN stack : stack[i].at = "polled")
      /\ \A i, k \in DOMAIN stack :
           stack[i].at = "polled" /\ stack[k].at = "polled" => i = k
      /\ loading => \E i \in DOMAIN stack : stack[i].at = "loaded"
  BY DEF Stack
<1>2. PICK t \in DOMAIN stack :
         /\ stack[t] = Top /\ DOMAIN stack' = DOMAIN stack \ {t}
         /\ \A i \in DOMAIN stack' : stack'[i] = stack[i]
  BY DEF Popped
<1>3. stack' \in Seq(Frames) /\ Len(stack') + 1 = Len(stack)
  BY DEF Popped
<1>4. Len(stack') <= 1 + faults'
  <2>1. PICK l \in Nat : l = Len(stack)
    BY <1>1, LenProperties
  <2>2. PICK m \in Nat : m = Len(stack')
    BY <1>3, LenProperties
  <2>3. m + 1 = l /\ l <= 1 + faults
    BY <1>1, <1>3, <2>1, <2>2
  <2>4. faults \in Nat /\ l <= 1 + faults'
    BY <1>1, <2>3, Grows
  <2>5. PICK g \in Nat : g = faults'
    OBVIOUS
  <2>6. l <= 1 + g /\ m + 1 = l
    BY <2>3, <2>4, <2>5
  <2>7. m <= 1 + g
    BY <2>6
  <2>. QED
    BY <2>2, <2>5, <2>7
<1>5. pollBusy' = (\E i \in DOMAIN stack' : stack'[i].at = "polled")
  <2>1. CASE Top.at = "polled"
    BY <1>1, <1>2, <2>1
  <2>2. CASE Top.at # "polled"
    BY <1>1, <1>2, <2>2
  <2>. QED
    BY <2>1, <2>2
<1>6. \A i, k \in DOMAIN stack' :
        stack'[i].at = "polled" /\ stack'[k].at = "polled" => i = k
  BY <1>1, <1>2
<1>7. loading' => \E i \in DOMAIN stack' : stack'[i].at = "loaded"
  BY <1>1, <1>2
<1>. QED
  BY <1>3, <1>4, <1>5, <1>6, <1>7 DEF Stack

LEMMA StackReplaced ==
    ASSUME Typed, Stack, NEW frame \in Frames, Replaced(frame), frame.at # "polled",
           IF Top.at = "polled" THEN pollBusy' = FALSE ELSE UNCHANGED pollBusy,
           faults' \in Nat, faults' >= faults,
           loading' => frame.at = "loaded" \/ (loading /\ Top.at # "loaded")
    PROVE  Stack'
<1>1. /\ faults \in Nat /\ Len(stack) <= 1 + faults /\ stack \in Seq(Frames)
      /\ pollBusy = (\E i \in DOMAIN stack : stack[i].at = "polled")
      /\ \A i, k \in DOMAIN stack :
           stack[i].at = "polled" /\ stack[k].at = "polled" => i = k
      /\ loading => \E i \in DOMAIN stack : stack[i].at = "loaded"
  BY DEF Stack
<1>2. PICK t \in DOMAIN stack :
         /\ stack[t] = Top /\ stack'[t] = frame
         /\ \A i \in DOMAIN stack : i # t => stack'[i] = stack[i]
  BY DEF Replaced
<1>3. stack' \in Seq(Frames) /\ Len(stack') = Len(stack) /\ DOMAIN stack' = DOMAIN stack
  BY DEF Replaced
<1>4. Len(stack') <= 1 + faults'
  <2>1. PICK l \in Nat : l = Len(stack)
    BY <1>1, LenProperties
  <2>2. l <= 1 + faults
    BY <1>1, <2>1
  <2>3. l <= 1 + faults'
    BY <1>1, <2>2, Grows
  <2>. QED
    BY <1>3, <2>1, <2>3
<1>5. pollBusy' = (\E i \in DOMAIN stack' : stack'[i].at = "polled")
  <2>1. CASE Top.at = "polled"
    <3>1. \A i \in DOMAIN stack' : stack'[i].at # "polled"
      BY <1>1, <1>2, <1>3, <2>1
    <3>. QED
      BY <2>1, <3>1
  <2>2. CASE Top.at # "polled"
    BY <1>1, <1>2, <1>3, <2>2
  <2>. QED
    BY <2>1, <2>2
<1>6. \A i, k \in DOMAIN stack' :
        stack'[i].at = "polled" /\ stack'[k].at = "polled" => i = k
  BY <1>1, <1>2, <1>3
<1>7. loading' => \E i \in DOMAIN stack' : stack'[i].at = "loaded"
  <2>1. CASE frame.at = "loaded"
    BY <1>2, <1>3, <2>1
  <2>2. CASE frame.at # "loaded"
    BY <1>1, <1>2, <1>3, <2>2
  <2>. QED
    BY <2>1, <2>2
<1>. QED
  BY <1>3, <1>4, <1>5, <1>6, <1>7 DEF Stack

LEMMA StackStays ==
    ASSUME Stack, FaultsOn, UNCHANGED <<stack, pollBusy>>, loading' => loading
    PROVE  Stack'
<1>1. faults \in Nat /\ stack \in Seq(Frames) /\ Len(stack) <= 1 + faults
  BY DEF Stack
<1>2. PICK l \in Nat : l = Len(stack)
  BY <1>1, LenProperties
<1>3. faults' \in Nat /\ faults' >= faults /\ Len(stack') = l
  BY <1>2 DEF FaultsOn
<1>4. Len(stack') <= 1 + faults'
  <2>1. l <= 1 + faults
    BY <1>1, <1>2
  <2>2. l <= 1 + faults'
    BY <1>1, <1>3, <2>1, Grows
  <2>. QED
    BY <1>3, <2>2
<1>5. stack' = stack /\ pollBusy' = pollBusy /\ (loading' => loading)
  OBVIOUS
<1>6. loading' => \E i \in DOMAIN stack' : stack'[i].at = "loaded"
  BY <1>5 DEF Stack
<1>7. /\ stack' \in Seq(Frames)
      /\ pollBusy' = (\E i \in DOMAIN stack' : stack'[i].at = "polled")
      /\ \A i, k \in DOMAIN stack' :
           stack'[i].at = "polled" /\ stack'[k].at = "polled" => i = k
  BY <1>5 DEF Stack
<1>. QED
  BY <1>3, <1>4, <1>6, <1>7 DEF Stack

\* The same for a handler that starts and one that goes on.
LEMMA StackStarts ==
    ASSUME Typed, Stack, NEW kinds, Starts(kinds), "polled" \notin kinds, UNCHANGED pollBusy,
           loading' => loading \/ kinds = {"loaded"}
    PROVE  Stack'
<1>1. PICK frame \in Frames : frame.at \in kinds /\ Pushed(frame)
  BY DEF Starts
<1>. QED
  BY <1>1, StackPushed DEF Starts

LEMMA StackGoesOn ==
    ASSUME Typed, Stack, NEW kinds, GoesOn(kinds), "polled" \notin kinds,
           IF Top.at = "polled" THEN pollBusy' = FALSE ELSE UNCHANGED pollBusy,
           loading' => kinds = {"loaded"} \/ (loading /\ Top.at # "loaded")
    PROVE  Stack'
<1>1. PICK frame \in Frames : frame.at \in kinds /\ Replaced(frame)
  BY DEF GoesOn
<1>. QED
  BY <1>1, StackReplaced DEF GoesOn, FaultsOn

LEMMA StackStep ==
    ASSUME Typed, Stack, UiStep
    PROVE  Stack'
<1>1. CASE Selects
  <2>1. UNCHANGED pollBusy
    BY <1>1 DEF Selects, cardVars
  <2>2. CASE Saves
    <3>1. "polled" \notin Savings /\ UNCHANGED loading
      BY <2>2 DEF Saves, Savings
    <3>2. CASE Starts(Savings)
      BY <2>1, <3>1, <3>2, StackStarts
    <3>3. CASE Answers({"new listed"}) /\ GoesOn(Savings)
      BY <2>1, <3>1, <3>3, StackGoesOn DEF Answers
    <3>. QED
      BY <2>2, <3>2, <3>3 DEF Saves
  <2>3. CASE Loads
    <3>1. CASE Starts({"loaded"})
      BY <2>1, <3>1, StackStarts
    <3>2. CASE Answers({"new listed"}) /\ GoesOn({"loaded"})
      BY <2>1, <3>2, StackGoesOn DEF Answers
    <3>. QED
      BY <2>3, <3>1, <3>2 DEF Loads
  <2>. QED
    BY <1>1, <2>2, <2>3 DEF Selects
<1>2. CASE StartsNew
  <2>1. UNCHANGED <<pollBusy, loading>>
    BY <1>2 DEF StartsNew, cardVars, editorVars
  <2>2. CASE Starts({"created"})
    BY <2>1, <2>2, StackStarts
  <2>3. CASE FaultsUp /\ UNCHANGED stack
    BY <2>1, <2>3, StackStays DEF FaultsUp, FaultsOn
  <2>. QED
    BY <1>2, <2>2, <2>3 DEF StartsNew
<1>3. CASE SaveReturned
  <2>1. UNCHANGED pollBusy /\ Top.at \notin {"polled", "loaded"}
    BY <1>3 DEF SaveReturned, cardVars, Answers, Savings
  <2>2. CASE GoesOn({"loaded"})
    BY <2>1, <2>2, StackGoesOn
  <2>3. CASE GoesOn({"listed", "created"}) /\ UNCHANGED loading
    BY <2>1, <2>3, StackGoesOn
  <2>4. CASE Ends /\ UNCHANGED loading
    BY <2>1, <2>4, StackPopped DEF Ends, FaultsOn
  <2>. QED
    BY <1>3, <2>2, <2>3, <2>4 DEF SaveReturned
<1>4. CASE LoadReturned
  <2>1. UNCHANGED pollBusy /\ Top.at # "polled" /\ Ends /\ loading' = FALSE
    BY <1>4 DEF LoadReturned, cardVars, Answers
  <2>. QED
    BY <2>1, StackPopped DEF Ends, FaultsOn
<1>5. CASE CreateReturned
  <2>1. UNCHANGED pollBusy /\ Top.at # "polled" /\ GoesOn({"new listed"}) /\ loading' = FALSE
    BY <1>5 DEF CreateReturned, cardVars, Answers
  <2>. QED
    BY <2>1, StackGoesOn
<1>6. CASE Type
  <2>1. TRUE \in BOOLEAN
    OBVIOUS
  <2>2. FaultsUp /\ UNCHANGED <<stack, pollBusy, loading>>
    BY <1>6, <2>1, FaultMoves DEF Type, cardVars
  <2>. QED
    BY <2>2, StackStays DEF FaultsUp, FaultsOn
<1>7. CASE Deletes
  <2>1. UNCHANGED <<pollBusy, loading>> /\ Starts({"deleted"})
    BY <1>7 DEF Deletes, cardVars, editorVars
  <2>. QED
    BY <2>1, StackStarts
<1>8. CASE DeleteReturned
  <2>1. UNCHANGED <<pollBusy, loading>> /\ Top.at \notin {"polled", "loaded"}
    BY <1>8 DEF DeleteReturned, cardVars, Answers
  <2>2. CASE GoesOn({"listed"})
    BY <2>1, <2>2, StackGoesOn
  <2>3. CASE Ends
    BY <2>1, <2>3, StackPopped DEF Ends, FaultsOn
  <2>. QED
    BY <1>8, <2>2, <2>3 DEF DeleteReturned
<1>9. CASE Others
  <2>1. UNCHANGED loading
    BY <1>9 DEF Others, Around
  <2>2. CASE PollStarts
    <3>1. PICK frame \in Frames : frame.at = "polled" /\ Pushed(frame)
      BY <2>2 DEF PollStarts
    <3>. QED
      BY <2>1, <2>2, <3>1, StackPushed DEF PollStarts
  <2>3. CASE PollEnds
    <3>1. Top.at = "polled" /\ pollBusy' = FALSE
      BY <2>3 DEF PollEnds, Answers
    <3>2. CASE GoesOn({"key used"})
      BY <2>1, <3>1, <3>2, StackGoesOn
    <3>3. CASE Ends
      BY <2>1, <3>1, <3>3, StackPopped DEF Ends, FaultsOn
    <3>. QED
      BY <2>3, <3>2, <3>3 DEF PollEnds
  <2>4. CASE PlainStack
    <3>1. UNCHANGED pollBusy /\ "polled" \notin Plain /\ "loaded" \notin Plain
      BY <2>4 DEF PlainStack, Plain
    <3>2. CASE UNCHANGED stack /\ FaultsOn
      BY <2>1, <3>1, <3>2, StackStays
    <3>3. CASE Starts(Plain)
      BY <2>1, <3>1, <3>3, StackStarts
    <3>4. CASE Answers(Plain) /\ GoesOn(Plain)
      BY <2>1, <3>1, <3>4, StackGoesOn DEF Answers
    <3>5. CASE Answers(Plain) /\ Ends
      BY <2>1, <3>1, <3>5, StackPopped DEF Ends, FaultsOn, Answers
    <3>. QED
      BY <2>4, <3>2, <3>3, <3>4, <3>5 DEF PlainStack
  <2>. QED
    BY <1>9, <2>2, <2>3, <2>4 DEF Others, Around
<1>. QED
  BY <1>1, <1>2, <1>3, <1>4, <1>5, <1>6, <1>7, <1>8, <1>9 DEF UiStep
-----------------------------------------------------------------------------
(* Types are preserved.                                                      *)

\* A changed text keeps its note and has a version of its own.
LEMMA TypedText ==
    ASSUME Typed, Type
    PROVE  /\ editor' \in TextsOfNotes
           /\ editor'.version \in Nat /\ editor.version \in Nat /\ editor.version < editor'.version
           /\ editor = Blank => editor'.note = <<account, active>>
           /\ editor # Blank => editor'.note = editor.note
<1>1. /\ editor \in TextsOfNotes /\ account \in 0..MaxAccounts /\ active \in 0..MaxNotes
      /\ editor.version < MaxVersion /\ MaxVersion \in Nat
      /\ editor' = IF editor = Blank THEN Text(active, 1) ELSE [editor EXCEPT !.version = @ + 1]
  BY UiAssumption DEF Typed, Type
<1>2. PICK v \in 0..MaxVersion : v = editor.version
  BY <1>1, TextFields
<1>3. v \in Nat /\ v + 1 \in Nat /\ v + 1 \in 0..MaxVersion /\ v < v + 1
  BY <1>1, <1>2
<1>4. CASE editor = Blank
  <2>1. editor' = [note |-> <<account, active>>, version |-> 1]
    BY <1>1, <1>4 DEF Text
  <2>2. v = 0
    BY <1>2, <1>4, BlankIsText
  <2>3. 1 \in 0..MaxVersion
    BY <1>3, <2>2
  <2>4. <<account, active>> \in NoteIds
    BY <1>1 DEF NoteIds
  <2>5. editor' \in TextsOfNotes
    BY <2>1, <2>3, <2>4 DEF TextsOfNotes
  <2>. QED
    BY <1>2, <1>3, <1>4, <2>1, <2>2, <2>5
<1>5. CASE editor # Blank
  <2>1. editor' = [editor EXCEPT !.version = v + 1]
    BY <1>1, <1>2, <1>5
  <2>2. editor \in [note : NoteIds, version : 0..MaxVersion]
    BY <1>1 DEF TextsOfNotes
  <2>3. /\ editor' \in [note : NoteIds, version : 0..MaxVersion]
        /\ editor'.version = v + 1 /\ editor'.note = editor.note
    BY <1>3, <2>1, <2>2
  <2>. QED
    BY <1>2, <1>3, <1>5, <2>3 DEF TextsOfNotes
<1>. QED
  BY <1>4, <1>5

\* saveNote writes the editor's text, or nothing.
LEMMA SavesWrite ==
    ASSUME Saves \/ Loads
    PROVE  /\ DOMAIN notes' = DOMAIN notes
           /\ \A n \in DOMAIN notes : n # active => notes'[n] = notes[n]
           /\ active \in DOMAIN notes =>
                \/ notes'[active] = notes[active] /\ (Saves => refused' = TRUE)
                \/ Saves /\ notes'[active] = editor
           /\ refused' = refused \/ refused' = TRUE
<1>1. CASE Saves
  BY <1>1 DEF Saves
<1>2. CASE ~Saves /\ Loads
  BY <1>2 DEF Loads
<1>. QED
  BY <1>1, <1>2

\* The notes after createNote and after an import, with the ids they have.
LEMMA MakesWrite ==
    ASSUME Typed, Makes
    PROVE  /\ last' \in 0..MaxNotes /\ DOMAIN notes' \subseteq 1..last'
           /\ \A m \in DOMAIN notes' : notes'[m] \in TextsOfNotes
<1>0. /\ last \in 0..MaxNotes /\ DOMAIN notes \subseteq 1..last
      /\ \A n \in DOMAIN notes : notes[n] \in TextsOfNotes
  BY DEF Typed
<1>1. CASE UNCHANGED <<last, notes, latest>>
  BY <1>0, <1>1
<1>2. CASE \E n \in 1..MaxNotes : Made(n)
  <2>1. PICK n \in 1..MaxNotes : Made(n)
    BY <1>2
  <2>2. last \in Nat /\ MaxNotes \in Nat
    BY NoteRange
  <2>3. n = last + 1 /\ last' = n /\ DOMAIN notes' = DOMAIN notes \union {n}
    BY <2>1 DEF Made
  <2>4. n \in 0..MaxNotes /\ DOMAIN notes \union {n} \subseteq 1..n
    BY <1>0, <2>2, <2>3
  <2>5. \A m \in DOMAIN notes' : notes'[m] \in TextsOfNotes
    BY <1>0, <2>1, <2>3, BlankIsText DEF Made
  <2>. QED
    BY <2>3, <2>4, <2>5
<1>. QED
  BY <1>1, <1>2 DEF Makes

LEMMA ImportWrites ==
    ASSUME Typed, Imported
    PROVE  /\ DOMAIN notes' \subseteq 1..last'
           /\ \A m \in DOMAIN notes' : notes'[m] \in TextsOfNotes
<1>1. PICK S \in SUBSET (1..last') :
         /\ DOMAIN notes' = DOMAIN notes \union S
         /\ DOMAIN notes \subseteq 1..last'
         /\ \A m \in DOMAIN notes' :
              notes'[m] = IF m \in DOMAIN notes THEN notes[m] ELSE Text(m, 0)
  BY DEF Imported
<1>2. DOMAIN notes' \subseteq 1..last'
  BY <1>1
<1>3. 1..last' \subseteq 0..MaxNotes
  BY NoteRange DEF Imported
<1>4. ASSUME NEW m \in 0..MaxNotes
      PROVE  Text(m, 0) \in TextsOfNotes
  <2>1. account \in 0..MaxAccounts /\ 0 \in 0..MaxVersion
    BY UiAssumption DEF Typed
  <2>2. <<account, m>> \in NoteIds
    BY <2>1 DEF NoteIds
  <2>. QED
    BY <2>1, <2>2 DEF Text, TextsOfNotes
<1>5. \A m \in DOMAIN notes' : notes'[m] \in TextsOfNotes
  BY <1>1, <1>2, <1>3, <1>4 DEF Typed
<1>. QED
  BY <1>2, <1>5

LEMMA TypedStep ==
    ASSUME Typed, UiStep
    PROVE  Typed'
<1>0. /\ screen \in Screens /\ listed \in SUBSET Ids
      /\ auth \in {"disconnected", "pending", "connected"} /\ askedOn \in Asked
      /\ active \in 0..MaxNotes /\ retry \in 0..MaxNotes
      /\ editor \in TextsOfNotes /\ lastLoaded \in TextsOfNotes
      /\ loading \in BOOLEAN /\ saveTimer \in BOOLEAN /\ unlocked \in BOOLEAN
      /\ account \in 1..MaxAccounts /\ last \in 0..MaxNotes
      /\ DOMAIN notes \subseteq 1..last
      /\ \A n \in DOMAIN notes : notes[n] \in TextsOfNotes
      /\ refused \in BOOLEAN /\ interrupted \in BOOLEAN /\ misplaced \in BOOLEAN
  BY DEF Typed
<1>1. CASE Selects
  <2>1. Saves \/ Loads
    BY <1>1 DEF Selects
  <2>2. active' \in 0..MaxNotes /\ loading' \in BOOLEAN
    BY <1>0, <2>1 DEF Saves, Loads
  <2>3. DOMAIN notes' = DOMAIN notes /\ refused' \in BOOLEAN
    BY <1>0, <2>1, SavesWrite
  <2>4. \A n \in DOMAIN notes' : notes'[n] \in TextsOfNotes
    BY <1>0, <2>1, SavesWrite
  <2>. QED
    BY <1>0, <1>1, <2>2, <2>3, <2>4 DEF Selects, cardVars, Typed
<1>2. CASE StartsNew
  BY <1>0, <1>2, MakesWrite DEF StartsNew, editorVars, cardVars, history, Typed
<1>3. CASE SaveReturned
  <2>1. active' \in 0..MaxNotes /\ loading' \in BOOLEAN
    BY <1>0, <1>3 DEF SaveReturned
  <2>2. Makes
    BY <1>3 DEF SaveReturned
  <2>. QED
    BY <1>0, <1>3, <2>1, <2>2, MakesWrite DEF SaveReturned, cardVars, history, Typed
<1>4. CASE LoadReturned
  BY <1>0, <1>4 DEF LoadReturned, cardVars, moduleVars, history, Typed
<1>5. CASE CreateReturned
  BY <1>0, <1>5, BlankIsText DEF CreateReturned, cardVars, moduleVars, history, Typed
<1>6. CASE Type
  <2>1. saveTimer' \in BOOLEAN /\ interrupted' \in BOOLEAN /\ misplaced' \in BOOLEAN
    BY <1>6 DEF Type
  <2>. QED
    BY <1>0, <1>6, <2>1, TypedText DEF Type, cardVars, Typed
<1>7. CASE Deletes
  <2>1. PICK n \in Ids : Deleted(n)
    BY <1>7 DEF Deletes
  <2>2. /\ DOMAIN notes' \subseteq DOMAIN notes
        /\ \A m \in DOMAIN notes' : notes'[m] = notes[m]
        /\ misplaced' \in BOOLEAN
    BY <1>0, <2>1 DEF Deleted
  <2>. QED
    BY <1>0, <1>7, <2>2 DEF Deletes, editorVars, cardVars, Typed
<1>8. CASE DeleteReturned
  <2>1. active' \in 0..MaxNotes /\ misplaced' \in BOOLEAN
    BY <1>0, <1>8, NoteRange DEF DeleteReturned
  <2>. QED
    BY <1>0, <1>8, <2>1 DEF DeleteReturned, cardVars, moduleVars, Typed
<1>9. CASE Others
  <2>1. Around /\ (SameTexts \/ Wiped \/ Imported)
    BY <1>9 DEF Others
  <2>2. auth' \in {"disconnected", "pending", "connected"}
    BY <1>0, <2>1 DEF Around, CardMove
  <2>3. /\ account' \in 1..MaxAccounts /\ last' \in 0..MaxNotes
        /\ DOMAIN notes' \subseteq 1..last'
        /\ \A n \in DOMAIN notes' : notes'[n] \in TextsOfNotes
        /\ saveTimer' \in BOOLEAN /\ misplaced' \in BOOLEAN
    <3>1. CASE SameTexts
      BY <1>0, <3>1 DEF SameTexts
    <3>2. CASE Wiped
      <4>1. DOMAIN notes' = {} /\ last' = 0 /\ 0 \in 0..MaxNotes
        BY <3>2, NoteRange DEF Wiped
      <4>. QED
        BY <1>0, <3>2, <4>1 DEF Wiped
    <3>3. CASE Imported
      BY <1>0, <3>3, ImportWrites DEF Imported
    <3>. QED
      BY <2>1, <3>1, <3>2, <3>3
  <2>. QED
    BY <1>0, <2>1, <2>2, <2>3 DEF Around, Typed
<1>. QED
  BY <1>1, <1>2, <1>3, <1>4, <1>5, <1>6, <1>7, <1>8, <1>9 DEF UiStep
-----------------------------------------------------------------------------
(* What is written, and where, is preserved.                                 *)

\* An edit that is not misplaced is of a note there is.
LEMMA EditOfNote ==
    ASSUME Typed, Latest, Edits, editor # lastLoaded, ~misplaced
    PROVE  /\ active # 0 /\ active \in DOMAIN notes /\ active \in DOMAIN latest /\ Dirty
           /\ editor = latest[active]
<1>1. active \in DOMAIN latest /\ DOMAIN latest = DOMAIN notes /\ editor = latest[active]
  BY DEF Edits, Latest
<1>2. DOMAIN notes \subseteq 1..last /\ last \in Nat
  BY NoteRange DEF Typed
<1>3. active # 0
  BY <1>1, <1>2
<1>. QED
  BY <1>1, <1>3 DEF Dirty

\* What typing does to the history of the active note.
LEMMA TypedLatest ==
    ASSUME Typed, Latest, Type
    PROVE  /\ DOMAIN latest' = DOMAIN latest
           /\ \A n \in DOMAIN latest : n # active => latest'[n] = latest[n]
           /\ active \in DOMAIN latest => latest'[active] = editor'
           /\ ~misplaced' => ~misplaced /\ active \in DOMAIN latest /\ editor = latest[active]
           /\ UNCHANGED <<notes, account, active, lastLoaded, screen, stack, loading, refused>>
<1>1. DOMAIN latest = DOMAIN notes
  BY DEF Latest
<1>2. latest' = IF active \in DOMAIN notes THEN Put(latest, active, editor') ELSE latest
  BY DEF Type
<1>3. CASE active \in DOMAIN notes
  <2>1. /\ DOMAIN Put(latest, active, editor') = DOMAIN latest \union {active}
        /\ Put(latest, active, editor')[active] = editor'
        /\ \A m \in DOMAIN latest \ {active} : Put(latest, active, editor')[m] = latest[m]
    BY DEF Put
  <2>. QED
    BY <1>1, <1>2, <1>3, <2>1 DEF Type
<1>4. CASE active \notin DOMAIN notes
  BY <1>1, <1>2, <1>4 DEF Type
<1>. QED
  BY <1>3, <1>4

LEMMA LatestStep ==
    ASSUME Typed, Latest, UiStep
    PROVE  Latest'
<1>0. /\ DOMAIN latest = DOMAIN notes
      /\ ~misplaced => \A n \in DOMAIN latest :
                         latest[n] = Blank \/ latest[n].note = <<account, n>>
  BY DEF Latest
<1>m. ASSUME Makes, UNCHANGED <<account, misplaced>>
      PROVE  Latest'
  <2>1. CASE UNCHANGED <<last, notes, latest>>
    BY <1>0, <1>m, <2>1 DEF Latest
  <2>2. CASE \E n \in 1..MaxNotes : Made(n)
    <3>1. PICK n \in 1..MaxNotes : Made(n)
      BY <2>2
    <3>. QED
      BY <1>0, <1>m, <3>1 DEF Made, Latest
  <2>. QED
    BY <1>m, <2>1, <2>2 DEF Makes
<1>1. CASE Selects
  <2>1. DOMAIN notes' = DOMAIN notes /\ UNCHANGED <<latest, account, misplaced>>
    BY <1>1, SavesWrite DEF Selects
  <2>. QED
    BY <1>0, <2>1 DEF Latest
<1>2. CASE StartsNew \/ SaveReturned
  BY <1>m, <1>2 DEF StartsNew, SaveReturned, history
<1>3. CASE LoadReturned \/ CreateReturned
  BY <1>0, <1>3 DEF LoadReturned, CreateReturned, moduleVars, history, Latest
<1>4. CASE Type
  <2>1. /\ DOMAIN latest' = DOMAIN notes' /\ account' = account
        /\ \A n \in DOMAIN latest : n # active => latest'[n] = latest[n]
        /\ DOMAIN latest' = DOMAIN latest
    BY <1>0, <1>4, TypedLatest
  <2>2. ASSUME ~misplaced'
        PROVE  latest'[active].note = <<account, active>>
    <3>1. /\ ~misplaced /\ active \in DOMAIN latest /\ editor = latest[active]
          /\ latest'[active] = editor'
      BY <1>4, <2>2, TypedLatest
    <3>2. editor = Blank \/ editor.note = <<account, active>>
      BY <1>0, <3>1
    <3>3. editor'.note = <<account, active>>
      BY <1>4, <3>2, TypedText
    <3>. QED
      BY <3>1, <3>3
  <2>3. ~misplaced' => ~misplaced
    BY <1>4, TypedLatest
  <2>. QED
    BY <1>0, <2>1, <2>2, <2>3 DEF Latest
<1>5. CASE Deletes
  <2>1. PICK n \in Ids : Deleted(n)
    BY <1>5 DEF Deletes
  <2>2. account' = account /\ (~misplaced' => ~misplaced)
    BY <1>5, <2>1 DEF Deletes, Deleted
  <2>. QED
    BY <1>0, <2>1, <2>2 DEF Deleted, Latest
<1>6. CASE DeleteReturned
  <2>1. UNCHANGED <<notes, latest, account>> /\ (~misplaced' => ~misplaced)
    BY <1>6 DEF DeleteReturned, moduleVars
  <2>. QED
    BY <1>0, <2>1 DEF Latest
<1>7. CASE Others
  <2>1. CASE SameTexts
    BY <1>0, <2>1 DEF SameTexts, Latest
  <2>2. CASE Wiped
    BY <2>2 DEF Wiped, Latest
  <2>3. CASE Imported
    <3>1. PICK S \in SUBSET (1..last') :
            /\ DOMAIN notes' = DOMAIN notes \union S /\ DOMAIN latest' = DOMAIN latest \union S
            /\ \A m \in DOMAIN latest' :
                 latest'[m] = IF m \in DOMAIN latest THEN latest[m] ELSE Text(m, 0)
      BY <2>3 DEF Imported
    <3>2. UNCHANGED <<account, misplaced>>
      BY <2>3 DEF Imported
    <3>3. \A m : Text(m, 0).note = <<account, m>>
      BY DEF Text
    <3>. QED
      BY <1>0, <3>1, <3>2, <3>3 DEF Latest
  <2>. QED
    BY <1>7, <2>1, <2>2, <2>3 DEF Others
<1>. QED
  BY <1>1, <1>2, <1>3, <1>4, <1>5, <1>6, <1>7 DEF UiStep

LEMMA OwnTextStep ==
    ASSUME Typed, Latest, Edits, OwnTextUnlessMisplaced, UiStep
    PROVE  OwnTextUnlessMisplaced'
<1>0. ~misplaced => \A n \in DOMAIN notes : notes[n] = Blank \/ notes[n].note = <<account, n>>
  BY DEF OwnTextUnlessMisplaced, OwnText
\* what a save writes
<1>e. ASSUME ~misplaced, Dirty
      PROVE  editor = Blank \/ editor.note = <<account, active>>
  BY <1>e, EditOfNote DEF Latest, Dirty
<1>m. ASSUME Makes, UNCHANGED <<account, misplaced>>
      PROVE  OwnTextUnlessMisplaced'
  <2>1. CASE UNCHANGED <<last, notes, latest>>
    BY <1>0, <1>m, <2>1 DEF OwnTextUnlessMisplaced, OwnText
  <2>2. CASE \E n \in 1..MaxNotes : Made(n)
    <3>1. PICK n \in 1..MaxNotes : Made(n)
      BY <2>2
    <3>. QED
      BY <1>0, <1>m, <3>1 DEF Made, OwnTextUnlessMisplaced, OwnText
  <2>. QED
    BY <1>m, <2>1, <2>2 DEF Makes
<1>1. CASE Selects
  <2>1. /\ DOMAIN notes' = DOMAIN notes /\ UNCHANGED <<account, misplaced>>
        /\ \A n \in DOMAIN notes : notes'[n] = notes[n] \/ (Dirty /\ n = active /\ notes'[n] = editor)
    BY <1>1, SavesWrite DEF Selects, Saves
  <2>. QED
    BY <1>0, <1>e, <2>1 DEF OwnTextUnlessMisplaced, OwnText
<1>2. CASE StartsNew \/ SaveReturned
  BY <1>m, <1>2 DEF StartsNew, SaveReturned, history
<1>3. CASE LoadReturned \/ CreateReturned
  BY <1>0, <1>3 DEF LoadReturned, CreateReturned, moduleVars, history, OwnTextUnlessMisplaced, OwnText
<1>4. CASE Type
  <2>1. UNCHANGED <<notes, account>> /\ (~misplaced' => ~misplaced)
    BY <1>4, TypedLatest
  <2>. QED
    BY <1>0, <2>1 DEF OwnTextUnlessMisplaced, OwnText
<1>5. CASE Deletes
  <2>1. PICK n \in Ids : Deleted(n)
    BY <1>5 DEF Deletes
  <2>2. account' = account /\ (~misplaced' => ~misplaced)
    BY <1>5, <2>1 DEF Deletes, Deleted
  <2>. QED
    BY <1>0, <2>1, <2>2 DEF Deleted, OwnTextUnlessMisplaced, OwnText
<1>6. CASE DeleteReturned
  <2>1. UNCHANGED <<notes, account>> /\ (~misplaced' => ~misplaced)
    BY <1>6 DEF DeleteReturned, moduleVars
  <2>. QED
    BY <1>0, <2>1 DEF OwnTextUnlessMisplaced, OwnText
<1>7. CASE Others
  <2>1. CASE SameTexts
    BY <1>0, <2>1 DEF SameTexts, OwnTextUnlessMisplaced, OwnText
  <2>2. CASE Wiped
    BY <2>2 DEF Wiped, OwnTextUnlessMisplaced, OwnText
  <2>3. CASE Imported
    <3>1. /\ \A m \in DOMAIN notes' :
               notes'[m] = IF m \in DOMAIN notes THEN notes[m] ELSE Text(m, 0)
          /\ UNCHANGED <<account, misplaced>>
      BY <2>3 DEF Imported
    <3>2. \A m : Text(m, 0).note = <<account, m>>
      BY DEF Text
    <3>. QED
      BY <1>0, <3>1, <3>2 DEF OwnTextUnlessMisplaced, OwnText
  <2>. QED
    BY <1>7, <2>1, <2>2, <2>3 DEF Others
<1>. QED
  BY <1>1, <1>2, <1>3, <1>4, <1>5, <1>6, <1>7 DEF UiStep

LEMMA EditsStep ==
    ASSUME Typed, Latest, Edits, UiStep
    PROVE  Edits'
<1>0. editor # lastLoaded =>
        /\ lastLoaded.version < editor.version
        /\ ~misplaced => active \in DOMAIN latest /\ editor = latest[active]
  BY DEF Edits
\* the history of the note that is edited does not change
<1>k. ASSUME UNCHANGED <<editor, lastLoaded>>, ~misplaced' => ~misplaced,
             (editor # lastLoaded /\ ~misplaced') =>
                /\ active' = active
                /\ active \in DOMAIN latest => active \in DOMAIN latest' /\ latest'[active] = latest[active]
      PROVE  Edits'
  BY <1>0, <1>k DEF Edits
<1>m. ASSUME Makes
      PROVE  \A n \in DOMAIN notes : n \in DOMAIN latest' /\ latest'[n] = latest[n]
  <2>1. CASE UNCHANGED <<last, notes, latest>>
    BY <2>1 DEF Latest
  <2>2. CASE \E n \in 1..MaxNotes : Made(n)
    <3>1. PICK n \in 1..MaxNotes : Made(n)
      BY <2>2
    <3>2. n = last + 1 /\ DOMAIN notes \subseteq 1..last /\ last \in Nat
      BY <3>1, NoteRange DEF Made, Typed
    <3>3. n \notin DOMAIN notes /\ DOMAIN latest = DOMAIN notes
      BY <3>2 DEF Latest
    <3>. QED
      BY <3>1, <3>3 DEF Made
  <2>. QED
    BY <1>m, <2>1, <2>2 DEF Makes
<1>1. CASE Selects
  <2>1. /\ UNCHANGED <<editor, lastLoaded, latest, misplaced>>
        /\ UNCHANGED active \/ ~Dirty
    BY <1>1 DEF Selects, Saves, Loads
  <2>2. editor # lastLoaded /\ ~misplaced => UNCHANGED active
    BY <2>1, EditOfNote
  <2>. QED
    BY <1>k, <2>1, <2>2
<1>2. CASE StartsNew
  <2>1. UNCHANGED <<editor, lastLoaded, active, misplaced>> /\ Makes /\ DOMAIN latest = DOMAIN notes
    BY <1>2 DEF StartsNew, editorVars, history, Latest
  <2>. QED
    BY <1>k, <1>m, <2>1
<1>3. CASE SaveReturned \/ CreateReturned
  <2>1. ASSUME SaveReturned
        PROVE  lastLoaded' = editor'
    BY <2>1 DEF SaveReturned
  <2>2. ASSUME CreateReturned
        PROVE  lastLoaded' = editor'
    BY <2>2 DEF CreateReturned
  <2>. QED
    BY <1>3, <2>1, <2>2 DEF Edits
<1>4. CASE LoadReturned
  <2>1. \/ lastLoaded' = editor'
        \/ UNCHANGED <<editor, lastLoaded, latest, active, misplaced>>
    BY <1>4 DEF LoadReturned, moduleVars, history
  <2>. QED
    BY <1>k, <2>1 DEF Edits
<1>5. CASE Type
  <2>1. /\ editor.version \in Nat /\ editor'.version \in Nat
        /\ editor.version < editor'.version
    BY <1>5, TypedText
  <2>2. lastLoaded' = lastLoaded /\ lastLoaded.version \in Nat
    <3>1. lastLoaded \in TextsOfNotes /\ MaxVersion \in Nat
      BY UiAssumption DEF Typed
    <3>2. lastLoaded.version \in 0..MaxVersion
      BY <3>1, TextFields
    <3>. QED
      BY <1>5, <3>1, <3>2 DEF Type
  <2>3. lastLoaded'.version < editor'.version
    <3>1. CASE editor = lastLoaded
      BY <2>1, <2>2, <3>1
    <3>2. CASE editor # lastLoaded
      <4>1. lastLoaded.version < editor.version
        BY <1>0, <3>2
      <4>. QED
        BY <2>1, <2>2, <4>1
    <3>. QED
      BY <3>1, <3>2
  <2>4. ~misplaced' => active' \in DOMAIN latest' /\ editor' = latest'[active']
    BY <1>5, TypedLatest
  <2>. QED
    BY <2>3, <2>4 DEF Edits
<1>6. CASE Deletes
  <2>1. PICK n \in Ids : Deleted(n)
    BY <1>6 DEF Deletes
  <2>2. UNCHANGED <<editor, lastLoaded, active>> /\ (~misplaced' => ~misplaced)
    BY <1>6, <2>1 DEF Deletes, Deleted, editorVars
  <2>3. ASSUME editor # lastLoaded, ~misplaced', active \in DOMAIN latest
        PROVE  active \in DOMAIN latest' /\ latest'[active] = latest[active]
    <3>1. Dirty
      BY <2>2, <2>3, EditOfNote
    <3>. QED
      BY <2>1, <2>3, <3>1 DEF Deleted
  <2>. QED
    BY <1>k, <2>2, <2>3
<1>7. CASE DeleteReturned
  <2>1. UNCHANGED <<editor, lastLoaded, latest>> /\ (~misplaced' => ~misplaced)
    BY <1>7 DEF DeleteReturned, moduleVars
  <2>2. editor # lastLoaded /\ ~misplaced' => UNCHANGED active
    BY <1>7, <2>1, EditOfNote DEF DeleteReturned
  <2>. QED
    BY <1>k, <2>1, <2>2
<1>8. CASE Others
  <2>1. UNCHANGED <<editor, lastLoaded, active>>
    BY <1>8 DEF Others, Around
  <2>2. CASE SameTexts
    BY <1>k, <2>1, <2>2 DEF SameTexts
  <2>3. CASE Wiped
    <3>1. (misplaced \/ Dirty) => misplaced'
      BY <2>3 DEF Wiped
    <3>2. editor # lastLoaded => misplaced'
      BY <3>1, EditOfNote
    <3>. QED
      BY <1>k, <2>1, <3>1, <3>2
  <2>4. CASE Imported
    <3>1. /\ \A m \in DOMAIN latest : m \in DOMAIN latest' /\ latest'[m] = latest[m]
          /\ UNCHANGED misplaced
      BY <2>4 DEF Imported
    <3>. QED
      BY <1>k, <2>1, <3>1
  <2>. QED
    BY <1>8, <2>2, <2>3, <2>4 DEF Others
<1>. QED
  BY <1>1, <1>2, <1>3, <1>4, <1>5, <1>6, <1>7, <1>8 DEF UiStep

LEMMA StaysDisturbed ==
    ASSUME Typed, UiStep, Undisturbed'
    PROVE  Undisturbed
<1>1. refused \in BOOLEAN /\ interrupted \in BOOLEAN /\ misplaced \in BOOLEAN
  BY DEF Typed
<1>2. ASSUME Selects
      PROVE  Undisturbed
  <2>1. refused' = refused \/ refused' = TRUE
    BY <1>2, SavesWrite DEF Selects
  <2>. QED
    BY <1>1, <1>2, <2>1 DEF Selects, Undisturbed
<1>3. ASSUME StartsNew \/ SaveReturned \/ LoadReturned \/ CreateReturned
      PROVE  Undisturbed
  <2>1. UNCHANGED history
    BY <1>3 DEF StartsNew, SaveReturned, LoadReturned, CreateReturned
  <2>. QED
    BY <2>1 DEF history, Undisturbed
<1>4. ASSUME Type
      PROVE  Undisturbed
  BY <1>1, <1>4 DEF Type, Undisturbed
<1>5. ASSUME Deletes
      PROVE  Undisturbed
  BY <1>1, <1>5 DEF Deletes, Deleted, Undisturbed
<1>6. ASSUME DeleteReturned
      PROVE  Undisturbed
  BY <1>1, <1>6 DEF DeleteReturned, Undisturbed
<1>7. ASSUME Others
      PROVE  Undisturbed
  <2>1. UNCHANGED <<refused, interrupted>> /\ (misplaced => misplaced')
    BY <1>7 DEF Others, Around, SameTexts, Wiped, Imported
  <2>. QED
    BY <1>1, <2>1 DEF Undisturbed
<1>. QED
  BY <1>2, <1>3, <1>4, <1>5, <1>6, <1>7 DEF UiStep

Overwriting == {"saved", "timer saved", "new saved", "loaded", "created"}

\* A handler that overwrites nothing starts or goes on; one ends.
LEMMA NoOverwriteMoves ==
    ASSUME NoOverwrite
    PROVE  /\ \A frame : frame.at \notin Overwriting /\ Pushed(frame) => NoOverwrite'
           /\ \A kinds : kinds \cap Overwriting = {} =>
                /\ Starts(kinds) => NoOverwrite'
                /\ GoesOn(kinds) => NoOverwrite'
           /\ Ends => NoOverwrite'
           /\ UNCHANGED stack => NoOverwrite'
<1>0. \A i \in DOMAIN stack : stack[i].at \notin Overwriting
  BY DEF NoOverwrite, Overwrites, Overwriting
<1>1. ASSUME NEW frame, frame.at \notin Overwriting, Pushed(frame)
      PROVE  NoOverwrite'
  BY <1>0, <1>1 DEF Pushed, NoOverwrite, Overwrites, Overwriting
<1>2. ASSUME NEW kinds, kinds \cap Overwriting = {}, GoesOn(kinds)
      PROVE  NoOverwrite'
  <2>1. PICK frame \in Frames : frame.at \in kinds /\ Replaced(frame)
    BY <1>2 DEF GoesOn
  <2>2. frame.at \notin Overwriting
    BY <1>2, <2>1
  <2>. QED
    BY <1>0, <2>1, <2>2 DEF Replaced, NoOverwrite, Overwrites, Overwriting
<1>3. ASSUME Ends
      PROVE  NoOverwrite'
  BY <1>0, <1>3 DEF Ends, Popped, NoOverwrite, Overwrites, Overwriting
<1>4. ASSUME UNCHANGED stack
      PROVE  NoOverwrite'
  BY <1>0, <1>4 DEF NoOverwrite, Overwrites, Overwriting
<1>5. ASSUME NEW kinds, kinds \cap Overwriting = {}, Starts(kinds)
      PROVE  NoOverwrite'
  <2>1. PICK frame \in Frames : frame.at \in kinds /\ Pushed(frame)
    BY <1>5 DEF Starts
  <2>. QED
    BY <1>1, <1>5, <2>1
<1>. QED
  BY <1>1, <1>2, <1>3, <1>4, <1>5

\* The answer of a handler that overwrites is one for which it waited.
LEMMA OverwriteAnswered ==
    ASSUME SaveReturned \/ LoadReturned \/ CreateReturned
    PROVE  ~NoOverwrite
<1>1. Top.at \in Overwriting
  BY DEF SaveReturned, LoadReturned, CreateReturned, Answers, Savings, Overwriting
<1>2. PICK t \in DOMAIN stack : stack[t] = Top
  BY DEF SaveReturned, LoadReturned, CreateReturned, GoesOn, Ends, Replaced, Popped
<1>. QED
  BY <1>1, <1>2 DEF NoOverwrite, Overwrites, Overwriting

LEMMA KeptStep ==
    ASSUME Typed, Stack, Latest, Edits, Kept, UiStep
    PROVE  Kept'
<1>. SUFFICES ASSUME Undisturbed',
                     NEW n \in DOMAIN notes'
              PROVE  \/ notes'[n] = latest'[n]
                     \/ active' = n /\ editor' = latest'[n] /\ Dirty' /\ saveTimer' /\ NoOverwrite'
  BY DEF Kept
<1>u. Undisturbed /\ ~refused' /\ ~interrupted' /\ ~misplaced'
  BY StaysDisturbed DEF Undisturbed
<1>d. DOMAIN latest = DOMAIN notes
  BY DEF Latest
<1>k. \A m \in DOMAIN notes :
        \/ notes[m] = latest[m]
        \/ active = m /\ editor = latest[m] /\ Dirty /\ saveTimer /\ NoOverwrite
  BY <1>u DEF Kept
<1>e. Dirty => active \in DOMAIN notes /\ editor = latest[active]
  BY <1>u, EditOfNote DEF Dirty, Undisturbed
<1>m. ASSUME \A m \in DOMAIN notes : notes[m] = latest[m], Makes
      PROVE  notes'[n] = latest'[n]
  <2>1. CASE UNCHANGED <<last, notes, latest>>
    BY <1>m, <2>1
  <2>2. CASE \E m \in 1..MaxNotes : Made(m)
    <3>1. PICK m \in 1..MaxNotes : Made(m)
      BY <2>2
    <3>. QED
      BY <1>d, <1>m, <3>1 DEF Made
  <2>. QED
    BY <1>m, <2>1, <2>2 DEF Makes
<1>1. CASE Selects
  <2>1. DOMAIN notes' = DOMAIN notes /\ UNCHANGED latest /\ (Saves \/ Loads)
    BY <1>1, SavesWrite DEF Selects
  <2>2. CASE Saves
    <3>1. notes'[active] = editor /\ Dirty /\ (n # active => notes'[n] = notes[n])
      BY <1>u, <2>1, <2>2 DEF Saves
    <3>. QED
      BY <1>e, <1>k, <2>1, <3>1
  <2>3. CASE Loads
    BY <1>k, <2>1, <2>3 DEF Loads
  <2>. QED
    BY <2>1, <2>2, <2>3
<1>2. CASE StartsNew
  BY <1>k, <1>m, <1>2 DEF StartsNew
<1>3. CASE SaveReturned \/ LoadReturned \/ CreateReturned
  <2>1. \A m \in DOMAIN notes : notes[m] = latest[m]
    BY <1>k, <1>3, OverwriteAnswered
  <2>2. Makes
    BY <1>3 DEF SaveReturned, LoadReturned, CreateReturned, moduleVars, Makes
  <2>. QED
    BY <1>m, <2>1, <2>2
<1>4. CASE Type
  <2>1. /\ UNCHANGED <<notes, active, stack>>
        /\ n # active => latest'[n] = latest[n]
        /\ n = active => latest'[n] = editor'
    BY <1>4, <1>d, <1>u, TypedLatest
  <2>2. NoOverwrite
    BY <1>4, <1>u DEF Type, NoOverwrite
  <2>3. saveTimer'
    <3>1. ~loading
      BY <2>2 DEF Stack, NoOverwrite, Overwrites
    <3>. QED
      BY <1>4, <3>1 DEF Type
  <2>4. n = active => Dirty'
    <3>1. active' = active /\ active # 0 /\ lastLoaded' = lastLoaded /\ editor.version < editor'.version
      BY <1>4, TypedText DEF Type
    <3>2. lastLoaded # editor'
      <4>1. editor.version \in Nat /\ editor'.version \in Nat
        BY <1>4, TypedText
      <4>2. editor # lastLoaded => lastLoaded.version < editor.version
        BY DEF Edits
      <4>3. ASSUME lastLoaded = editor'
            PROVE  FALSE
        BY <3>1, <4>1, <4>2, <4>3
      <4>. QED
        BY <4>3
    <3>. QED
      BY <3>1, <3>2 DEF Dirty
  <2>5. n # active => notes[n] = latest[n]
    BY <1>k, <2>1
  <2>6. NoOverwrite'
    BY <2>1, <2>2, NoOverwriteMoves
  <2>. QED
    BY <2>1, <2>3, <2>4, <2>5, <2>6
<1>5. CASE Deletes
  <2>1. PICK m \in Ids : Deleted(m)
    BY <1>5 DEF Deletes
  <2>2. /\ n \in DOMAIN notes /\ notes'[n] = notes[n] /\ latest'[n] = latest[n]
        /\ UNCHANGED <<active, editor, lastLoaded, saveTimer>>
    BY <1>5, <1>d, <2>1 DEF Deletes, Deleted, editorVars
  <2>3. Dirty => Dirty'
    BY <2>2 DEF Dirty
  <2>4. NoOverwrite => NoOverwrite'
    <3>1. {"deleted"} \cap Overwriting = {}
      BY DEF Overwriting
    <3>. QED
      BY <1>5, <3>1, NoOverwriteMoves DEF Deletes
  <2>. QED
    BY <1>k, <2>2, <2>3, <2>4
<1>6. CASE DeleteReturned
  <2>1. UNCHANGED <<notes, latest, editor, lastLoaded, saveTimer>>
    BY <1>6 DEF DeleteReturned, moduleVars
  <2>2. CASE ~Dirty
    BY <1>k, <2>1, <2>2
  <2>3. CASE Dirty
    <3>1. UNCHANGED active /\ Dirty'
      BY <1>6, <1>u, <2>1, <2>3 DEF DeleteReturned, Dirty
    <3>2. {"listed"} \cap Overwriting = {}
      BY DEF Overwriting
    <3>3. NoOverwrite => NoOverwrite'
      BY <1>6, <3>2, NoOverwriteMoves DEF DeleteReturned
    <3>. QED
      BY <1>k, <2>1, <3>1, <3>3
  <2>. QED
    BY <2>2, <2>3
<1>7. CASE Others
  <2>0. UNCHANGED <<active, editor, lastLoaded>> /\ (PollStarts \/ PollEnds \/ PlainStack)
    BY <1>7 DEF Others, Around
  <2>1. NoOverwrite => NoOverwrite'
    <3>1. {"key used"} \cap Overwriting = {} /\ Plain \cap Overwriting = {} /\ "polled" \notin Overwriting
      BY DEF Overwriting, Plain
    <3>2. PollStarts => \E frame \in Frames : frame.at = "polled" /\ Pushed(frame)
      BY DEF PollStarts
    <3>3. ASSUME NoOverwrite, PollStarts
          PROVE  NoOverwrite'
      BY <3>1, <3>2, <3>3, NoOverwriteMoves
    <3>4. ASSUME NoOverwrite, PollEnds
          PROVE  NoOverwrite'
      BY <3>1, <3>4, NoOverwriteMoves DEF PollEnds
    <3>5. ASSUME NoOverwrite, PlainStack
          PROVE  NoOverwrite'
      BY <3>1, <3>5, NoOverwriteMoves DEF PlainStack
    <3>. QED
      BY <2>0, <3>3, <3>4, <3>5
  <2>2. Dirty => Dirty'
    BY <2>0 DEF Dirty
  <2>3. CASE SameTexts
    BY <1>k, <2>0, <2>1, <2>2, <2>3 DEF SameTexts
  <2>4. CASE Wiped
    BY <2>4 DEF Wiped
  <2>5. CASE Imported
    <3>1. /\ \A m \in DOMAIN notes' :
               notes'[m] = IF m \in DOMAIN notes THEN notes[m] ELSE Text(m, 0)
          /\ \A m \in DOMAIN latest' :
               latest'[m] = IF m \in DOMAIN latest THEN latest[m] ELSE Text(m, 0)
          /\ DOMAIN latest' = DOMAIN notes' /\ UNCHANGED saveTimer
      BY <1>d, <2>5 DEF Imported
    <3>. QED
      BY <1>d, <1>k, <2>0, <2>1, <2>2, <3>1
  <2>. QED
    BY <1>7, <2>3, <2>4, <2>5 DEF Others
<1>. QED
  BY <1>1, <1>2, <1>3, <1>4, <1>5, <1>6, <1>7 DEF UiStep
-----------------------------------------------------------------------------
(* The requests for the card's key.                                          *)

\* A poll that waits has been waiting, unless it starts now.
LEMMA PolledBefore ==
    ASSUME UiStep, ~PollStarts, NEW i \in DOMAIN stack', stack'[i].at = "polled"
    PROVE  i \in DOMAIN stack /\ stack'[i] = stack[i]
<1>1. ASSUME NEW kinds, "polled" \notin kinds, Starts(kinds) \/ GoesOn(kinds)
      PROVE  i \in DOMAIN stack /\ stack'[i] = stack[i]
  <2>1. PICK frame \in Frames : frame.at # "polled" /\ (Pushed(frame) \/ Replaced(frame))
    BY <1>1 DEF Starts, GoesOn
  <2>. QED
    BY <2>1 DEF Pushed, Replaced
<1>2. ASSUME Ends
      PROVE  i \in DOMAIN stack /\ stack'[i] = stack[i]
  BY <1>2 DEF Ends, Popped
<1>3. ASSUME UNCHANGED stack
      PROVE  i \in DOMAIN stack /\ stack'[i] = stack[i]
  BY <1>3
<1>4. /\ "polled" \notin Savings /\ "polled" \notin Plain
      /\ \A kind \in {"loaded", "created", "new listed", "listed", "deleted", "key used"} :
           "polled" \notin {kind} /\ "polled" \notin {"listed", kind}
  BY DEF Savings, Plain
<1>5. CASE Selects
  BY <1>1, <1>4, <1>5 DEF Selects, Saves, Loads
<1>6. CASE StartsNew
  BY <1>1, <1>3, <1>4, <1>6 DEF StartsNew
<1>7. CASE SaveReturned
  BY <1>1, <1>2, <1>4, <1>7 DEF SaveReturned
<1>8. CASE LoadReturned \/ CreateReturned
  BY <1>1, <1>2, <1>4, <1>8 DEF LoadReturned, CreateReturned
<1>9. CASE Type
  BY <1>3, <1>9 DEF Type
<1>10. CASE Deletes \/ DeleteReturned
  BY <1>1, <1>2, <1>4, <1>10 DEF Deletes, DeleteReturned
<1>11. CASE Others
  BY <1>1, <1>2, <1>3, <1>4, <1>11 DEF Others, Around, PollEnds, PlainStack
<1>. QED
  BY <1>5, <1>6, <1>7, <1>8, <1>9, <1>10, <1>11 DEF UiStep

LEMMA PollsStep ==
    ASSUME Polls, UiStep
    PROVE  Polls'
<1>0. /\ auth = "pending" => OnItsScreen(askedOn, screen)
      /\ \A i \in DOMAIN stack : stack[i].at = "polled" => OnItsScreen(stack[i].asked, stack[i].on)
  BY DEF Polls
<1>1. auth' = "pending" => OnItsScreen(askedOn', screen')
  <2>1. CASE Others
    <3>1. CardMove
      BY <2>1 DEF Others, Around
    <3>2. CASE auth' \in {"disconnected", "connected"}
      BY <3>2
    <3>3. CASE auth' = "pending" /\ askedOn'[2] = screen /\ UNCHANGED screen
      BY <3>3 DEF OnItsScreen
    <3>4. CASE screen' \in {screen, "note"} /\ UNCHANGED <<auth, askedOn>>
      BY <1>0, <3>4 DEF OnItsScreen
    <3>. QED
      BY <3>1, <3>2, <3>3, <3>4 DEF CardMove
  <2>2. CASE ~Others
    <3>1. UNCHANGED <<screen, auth, askedOn>>
      BY <2>2 DEF UiStep, Selects, StartsNew, SaveReturned, LoadReturned, CreateReturned, Type,
                  Deletes, DeleteReturned, cardVars
    <3>. QED
      BY <1>0, <3>1
  <2>. QED
    BY <2>1, <2>2
<1>2. ASSUME NEW i \in DOMAIN stack', stack'[i].at = "polled"
      PROVE  OnItsScreen(stack'[i].asked, stack'[i].on)
  <2>1. CASE PollStarts
    <3>1. PICK frame \in Frames : /\ frame.on = screen /\ frame.asked = askedOn
                                  /\ Pushed(frame)
      BY <2>1 DEF PollStarts
    <3>2. OnItsScreen(frame.asked, frame.on)
      BY <1>0, <2>1, <3>1 DEF PollStarts
    <3>. QED
      BY <1>0, <1>2, <3>1, <3>2 DEF Pushed
  <2>2. CASE ~PollStarts
    BY <1>0, <1>2, <2>2, PolledBefore
  <2>. QED
    BY <2>1, <2>2
<1>. QED
  BY <1>1, <1>2 DEF Polls

\* Only the answer of the poll opens a session.
LEMMA KeyStep ==
    ASSUME Polls, UiStep, unlocked', ~unlocked, Top.on = screen, Top.asked[1] = Top.asked[2]
    PROVE  screen = Top.asked[1]
<1>1. Others
  BY DEF UiStep, Selects, StartsNew, SaveReturned, LoadReturned, CreateReturned, Type,
         Deletes, DeleteReturned, moduleVars
<1>2. PollEnds /\ screen # "note"
  BY <1>1 DEF Others, Around
<1>3. PICK t \in DOMAIN stack : stack[t] = Top
  BY <1>2 DEF PollEnds, GoesOn, Ends, Replaced, Popped
<1>4. OnItsScreen(Top.asked, Top.on)
  BY <1>2, <1>3 DEF PollEnds, Answers, Polls
<1>. QED
  BY <1>2, <1>4 DEF OnItsScreen
-----------------------------------------------------------------------------
(* Theorems.                                                                 *)

LEMMA UiInitially ==
    ASSUME UiInit
    PROVE  UiInv
<1>1. DOMAIN << >> = {} /\ Len(<< >>) = 0 /\ << >> \in Seq(Frames)
  BY EmptySeq
<1>2. /\ screen = "import" /\ listed = {} /\ active = 0 /\ editor = Blank /\ lastLoaded = Blank
      /\ loading = FALSE /\ saveTimer = FALSE /\ retry = 0
      /\ auth = "disconnected" /\ pollBusy = FALSE /\ askedOn = NotAsked
      /\ stack = <<>> /\ account = 1 /\ unlocked = FALSE /\ notes = <<>> /\ last = 0
      /\ latest = <<>> /\ faults = 0 /\ refused = FALSE /\ interrupted = FALSE /\ misplaced = FALSE
  BY DEF UiInit
<1>3. DOMAIN notes = {} /\ DOMAIN latest = {} /\ DOMAIN stack = {}
  BY <1>1, <1>2
<1>4. 0 \in 0..MaxNotes /\ 1 \in 1..MaxAccounts
  BY UiAssumption
<1>5. Typed
  BY <1>2, <1>3, <1>4, BlankIsText DEF Typed, Screens, Asked
<1>6. Stack
  <2>1. stack \in Seq(Frames) /\ faults \in Nat /\ Len(stack) <= 1 + faults
    BY <1>1, <1>2
  <2>2. pollBusy = (\E i \in DOMAIN stack : stack[i].at = "polled")
    BY <1>2, <1>3
  <2>. QED
    BY <1>2, <1>3, <2>1, <2>2 DEF Stack
<1>7. Latest /\ OwnTextUnlessMisplaced /\ Kept
  BY <1>3 DEF Latest, OwnTextUnlessMisplaced, OwnText, Kept
<1>8. Edits /\ Polls
  BY <1>2, <1>3 DEF Edits, Polls
<1>. QED
  BY <1>5, <1>6, <1>7, <1>8 DEF UiInv

LEMMA UiInvStep ==
    ASSUME UiInv, [UiNext]_vars
    PROVE  UiInv'
<1>1. Typed /\ Stack /\ Latest /\ OwnTextUnlessMisplaced /\ Edits /\ Kept /\ Polls
  BY DEF UiInv
<1>2. UiStep
  BY <1>1, UiSteps
<1>3. Typed' /\ Stack' /\ Latest' /\ OwnTextUnlessMisplaced' /\ Edits' /\ Polls'
  BY <1>1, <1>2, TypedStep, StackStep, LatestStep, OwnTextStep, EditsStep, PollsStep
<1>4. Kept'
  BY <1>1, <1>2, KeptStep
<1>. QED
  BY <1>3, <1>4 DEF UiInv

LEMMA UiInvariance == UiSpec => []UiInv
<1>1. UiInit => UiInv
  BY UiInitially
<1>2. UiInv /\ [UiNext]_vars => UiInv'
  BY UiInvStep
<1>. QED
  BY <1>1, <1>2, PTL DEF UiSpec

\* The editor, the screens and the waiting handlers are what Main.qml can be in:
\* the stack of nested calls is no deeper than the handlers that ran inside
\* others, and keycardPollBusy says that one of them is the poll.
THEOREM UiTypes == UiSpec => []UiTypeOK
<1>1. UiInv => UiTypeOK
  <2>. SUFFICES ASSUME UiInv
                PROVE  UiTypeOK
    OBVIOUS
  <2>1. /\ Typed /\ pollBusy = (\E i \in DOMAIN stack : stack[i].at = "polled")
        /\ Len(stack) <= 1 + faults
    BY DEF UiInv, Stack
  <2>2. pollBusy \in BOOLEAN
    BY <2>1
  <2>. QED
    BY <2>1, <2>2 DEF Typed, UiTypeOK, Screens
<1>. QED
  BY <1>1, UiInvariance, PTL

\* selectNote, saveNote and the two timers never store the text of one note
\* under another, whatever calls fail and however handlers run inside others,
\* unless someone typed into a text that is not the active note's or an edit
\* outlived its note.
THEOREM TextsStayOwn == UiSpec => []OwnTextUnlessMisplaced
<1>1. UiInv => OwnTextUnlessMisplaced
  BY DEF UiInv
<1>. QED
  BY <1>1, UiInvariance, PTL

\* Auto-save per note: what was written is stored, or is in the editor of its
\* note with the timer that saves it running, and no handler waits that would
\* replace it or count it as saved.
THEOREM EditsAreKept == UiSpec => []EditsKept
<1>1. UiInv => EditsKept
  BY DEF UiInv, Kept, Undisturbed, NoOverwrite, EditsKept
<1>. QED
  BY <1>1, UiInvariance, PTL

\* processKeycardKey judges by the screen it finds: that is the screen on which
\* the card was asked and answered, unless the screen changed while the poll
\* waited, for what shows the import or the unlock screen ends the request.
THEOREM KeysForTheirScreen == UiSpec => KeyForItsScreen
<1>1. UiInv /\ [UiNext]_vars =>
        [(unlocked' /\ ~unlocked /\ Top.on = screen /\ Top.asked[1] = Top.asked[2]) =>
           screen = Top.asked[1]]_vars
  <2>. SUFFICES ASSUME UiInv, [UiNext]_vars, unlocked', ~unlocked, Top.on = screen,
                       Top.asked[1] = Top.asked[2]
                PROVE  screen = Top.asked[1]
    OBVIOUS
  <2>1. Typed /\ Stack /\ Polls
    BY DEF UiInv
  <2>. QED
    BY <2>1, UiSteps, KeyStep
<1>. QED
  BY <1>1, UiInvariance, PTL DEF UiSpec, KeyForItsScreen
=============================================================================
