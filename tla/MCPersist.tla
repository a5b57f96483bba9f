----------------------------- MODULE MCPersist -----------------------------
(* Small instances of Persist for TLC. *)
EXTENDS Persist, TLC

Symmetry == Permutations(Batches) \cup Permutations(WalIds) \cup Permutations(MemIds)
============================================================================
