--------------------------- MODULE MCPersistQueue ---------------------------
(* Small instances of PersistQueue for TLC. *)
EXTENDS PersistQueue, TLC

Symmetry == Permutations(Paths) \cup Permutations(Workers)
============================================================================
