------------------------------- MODULE Notebook -------------------------------
(* What the user of Immutable Notes is promised about notes: a notebook that  *)
(* changes only while it is open, and only when a note is written, deleted or *)
(* restored, or all are wiped.  No schema, no encryption, no titles, no       *)
(* crashes.                                                                   *)
EXTENDS Naturals

CONSTANTS
    Texts,          \* what a note can hold
    Nothing,        \* the text of a note that was created and not written
    NoteIds         \* the numbers notes get

VARIABLES
    open,           \* a session is open
    book,           \* the notes: number -> text
    last            \* the highest number given so far; none is given twice

bookVars == <<open, book, last>>

BookInit ==
    /\ open = FALSE
    /\ last \in NoteIds \union {0}
    /\ \E S \in SUBSET (1..last) : book \in [S -> Texts]

OpenOrClose ==
    /\ open' = ~open
    /\ UNCHANGED <<book, last>>

\* A new note has a number of its own.
Add ==
    /\ open
    /\ last' = last + 1
    /\ book' = [n \in DOMAIN book \union {last'} |->
                  IF n = last' THEN Nothing ELSE book[n]]
    /\ UNCHANGED open

Write(n, text) ==
    /\ open /\ n \in DOMAIN book
    /\ book' = [book EXCEPT ![n] = text]
    /\ UNCHANGED <<open, last>>

Remove(n) ==
    /\ open /\ n \in DOMAIN book
    /\ book' = [m \in DOMAIN book \ {n} |-> book[m]]
    /\ UNCHANGED <<open, last>>

\* A backup adds notes and leaves those there are alone.
Restore ==
    /\ open /\ last' > last
    /\ DOMAIN book \subseteq DOMAIN book'
    /\ \A n \in DOMAIN book : book'[n] = book[n]
    /\ \A n \in DOMAIN book' \ DOMAIN book : n \in last + 1 .. last'
    /\ UNCHANGED open

Clear ==
    /\ open' = FALSE
    /\ DOMAIN book' = {} /\ last' = 0

BookNext ==
    \/ OpenOrClose
    \/ Add
    \/ \E n \in NoteIds, text \in Texts : Write(n, text)
    \/ \E n \in NoteIds : Remove(n)
    \/ Restore
    \/ Clear

BookSpec == BookInit /\ [][BookNext]_bookVars
==============================================================================
