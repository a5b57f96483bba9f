---------------------------- MODULE MCPackStore ----------------------------
(* Small instances of PackStore for TLC. *)
EXTENDS PackStore, TLC

Symmetry == Permutations(Packs) \cup Permutations(Streams) \cup Permutations(Readers)
============================================================================
