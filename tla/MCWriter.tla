------------------------------ MODULE MCWriter ------------------------------
(* Small instances of Writer for TLC. *)
EXTENDS Writer, TLC

Symmetry == Permutations(Batches) \cup Permutations(Ticks)
============================================================================
