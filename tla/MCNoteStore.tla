----------------------------- MODULE MCNoteStore -----------------------------
(* NoteStore with few notes and texts. *)
EXTENDS NoteStore, TLC

Symmetry == Permutations(Words)
==============================================================================
