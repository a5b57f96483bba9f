----------------------------- MODULE MCIngester -----------------------------
(* Small instances of Ingester for TLC. *)
EXTENDS Ingester, TLC

Symmetry == Permutations(Batches) \cup Permutations(Ticks)
============================================================================
