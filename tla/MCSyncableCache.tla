-------------------------- MODULE MCSyncableCache --------------------------
(* TLC instances of SyncableCache; starters are interchangeable.              *)
EXTENDS SyncableCache, TLC

MCSymmetry == Permutations(Starters) \cup Permutations(Syncers)
=============================================================================
