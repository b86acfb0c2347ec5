---------------------------- MODULE MCOwnerLock ----------------------------
(* Small instances of OwnerLock.                                            *)
EXTENDS OwnerLock, TLC

Symmetry == Permutations(Windows) \cup Permutations(Services)
=============================================================================
