----------------------------- MODULE MCOffsets -----------------------------
(* A small instance of Offsets for TLC. *)
EXTENDS Offsets, TLC
============================================================================
