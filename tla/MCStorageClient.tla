--------------------------- MODULE MCStorageClient ---------------------------
(* StorageClient on small sets of requests. *)
EXTENDS StorageClient, TLC

\* Requests of a kind differ only by name.
Symmetry == Permutations(Uploads) \union Permutations(Downloads)
==============================================================================
