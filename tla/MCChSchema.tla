---------------------------- MODULE MCChSchema ----------------------------
(* TLC instances of ChSchema; callers and tables are interchangeable.       *)
EXTENDS ChSchema, TLC

MCSymmetry == Permutations(Callers) \cup Permutations(Tables)
=============================================================================
