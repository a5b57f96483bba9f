---------------------------- MODULE MCCompactor ----------------------------
(* A small instance of Compactor for TLC: one file of each partition is there
   from the start, the others arrive.                                       *)
EXTENDS Compactor, TLC

MCEarly == {<<p, "in", 1>> : p \in Parts}
============================================================================
