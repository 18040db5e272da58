------------------------------ MODULE MCAccount ------------------------------
(* Account with few imports and cards. *)
EXTENDS Account

Symmetry == Permutations(Imports) \union Permutations(Cards)
==============================================================================
