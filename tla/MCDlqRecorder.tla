--------------------------- MODULE MCDlqRecorder ---------------------------
(* TLC instances of DlqRecorder.  Payloads are only ever compared for         *)
(* equality and callers are interchangeable.                                  *)
EXTENDS DlqRecorder, TLC

MCSymmetry == Permutations(Payloads) \cup Permutations(Callers) \cup Permutations(Closers)
=============================================================================
