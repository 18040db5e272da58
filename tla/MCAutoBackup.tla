----------------------------- MODULE MCAutoBackup -----------------------------
(* AutoBackup on small sets of backups. *)
EXTENDS AutoBackup, TLC

Symmetry == Permutations(Backups) \union Permutations(Stashes)
==============================================================================
