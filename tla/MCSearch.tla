------------------------------ MODULE MCSearch ------------------------------
(* Small instances of Search for TLC. *)
EXTENDS Search, TLC

Symmetry == Permutations(Files) \cup Permutations(Queries)
============================================================================
