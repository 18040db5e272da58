------------------------------- MODULE MCNotesUI -------------------------------
(* NotesUI with few notes, versions and accounts. *)
EXTENDS NotesUI
==============================================================================
