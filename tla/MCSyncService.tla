--------------------------- MODULE MCSyncService ---------------------------
(* Instance of SyncService for TLC: which ids and revisions are exchanged   *)
(* for which makes no difference to a safety property.                      *)
EXTENDS SyncService, TLC

Symmetry == Permutations(Ids) \cup Permutations(Revisions)
=============================================================================
